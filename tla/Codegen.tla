------------------------------- MODULE Codegen -------------------------------
(***************************************************************************)
(* The code generator of biffc: codegen.cpp over the scopes and the call   *)
(* stack of compiler.cpp.                                                  *)
(*                                                                         *)
(* The generators are mutually recursive C++ functions over a syntax tree. *)
(* Here the tree is not given in advance: whenever the code generator      *)
(* would look at the next statement or expression, an action chooses it,   *)
(* so that the behaviours of the specification are the compilations of     *)
(* all programs.  What a C++ activation keeps in its locals while it waits *)
(* for a nested eval, generate or generate_call is a record on the stack   *)
(* "acts"; a generator is split into actions where it calls another one.   *)
(*                                                                         *)
(* The body of a function is chosen afresh each time it is inlined, which  *)
(* makes a behaviour the compilation of a program in which two calls of    *)
(* one name are calls of two functions with the same signature.            *)
(***************************************************************************)
EXTENDS IrTape, Types

CONSTANTS
  Names,         \* variable and parameter names
  Funs,          \* function names
  Numbers,       \* number literals
  Strings,       \* string literals: [size |-> of the token, chars |-> on the tape]
  StructTypes,   \* the struct types of the program
  Signatures,    \* the headers a function may have: [returns, args]
  Ops,           \* binary operators the program uses
  Kinds,         \* statement and expression forms the program uses
  Word,          \* size_t counts modulo Word
  MaxCells,      \* bound: nothing new starts once next_free reaches it
  MaxDepth,      \* bound: nothing new starts once acts is this long
  MaxArray,      \* bound: length of an array
  MaxCode        \* bound: nothing new starts once the code is this long

VARIABLES
  scopes,   \* Compiler::m_scope_stack, innermost last
  calls,    \* Compiler::m_call_stack, innermost last
  acts,     \* the suspended activations, innermost last
  mode,     \* what the compiler does next
  res,      \* in mode "value": what eval has just returned
  funs,     \* Compiler::functions
  out       \* the code written, see IrTape

vars == <<scopes, calls, acts, mode, res, funs, out>>

-----------------------------------------------------------------------------
(* Values, types, variables.                                               *)

Const(v)   == [type |-> "CONST", val |-> v]
Address(a) == [type |-> "ADDRESS", val |-> a]
Temp(a)    == [type |-> "TEMP", val |-> a]
NoResult   == [type |-> "NONE", val |-> 0]

KnownTypes == {IntegerType} \cup {ArrayType(n) : n \in 0..Word} \cup StructTypes

\* len is the number of cells reserved for the variable when it was created,
\* 0 for a parameter that aliases cells of the caller.
Variable(addr, type, len) == [addr |-> addr, type |-> type, len |-> len]

Variables == [addr : Nat, type : KnownTypes, len : Nat]

Undeclared == Variable(0, IntegerType, 0)

NoVars == [n \in Names |-> Undeclared]

Bind(vs, n, v) == [vs EXCEPT ![n] = v]

Declares(vs) == {n \in Names : vs[n] # Undeclared}

NoFunction == [returns |-> FALSE, args |-> <<>>, defined |-> FALSE]

-----------------------------------------------------------------------------
(* What the program and the bounds may be.                                 *)

ASSUME BoundsAssumption ==
  /\ Word \in Nat /\ MaxCells \in Nat /\ MaxArray \in Nat
  /\ MaxCells + MaxArray + 4 < Word

ASSUME LiteralsAssumption ==
  /\ Numbers \subseteq 0..(Word - 1)
  /\ Ops \subseteq BinOps
  /\ \A s \in Strings : s.size \in 0..Word /\ s.chars \in Nat

\* A struct type has no name of a built-in one, and its fields lie inside it.
ASSUME StructsAssumption ==
  \A t \in StructTypes :
    /\ t.class = "USERDEF" /\ t.size \in Nat
    /\ \A p \in t.places :
         p.offset \in Nat /\ p.type \in KnownTypes /\ p.offset + p.type.size <= t.size

ASSUME SignaturesAssumption ==
  \A s \in Signatures :
    s.returns \in BOOLEAN /\ s.args \in Seq([name : Names, type : KnownTypes])

-----------------------------------------------------------------------------
(* The compiler's scopes.                                                  *)

Depth    == Len(scopes)
NextFree == scopes[Depth].next

NewScope(vs, next) == [vars |-> vs, next |-> next]

WithNext(k, next) == [scopes EXCEPT ![k].next = next]

\* Mutant of ScopeRemoved: the outer scope keeps its own next_free.
ScopeDropped == [k \in 1..(Depth - 1) |-> scopes[k]]

\* Compiler::remove_scope: the outer scope takes over next_free.
ScopeRemoved ==
  [k \in 1..(Depth - 1) |->
     IF k = Depth - 1 THEN [scopes[k] EXCEPT !.next = NextFree] ELSE scopes[k]]

CurrentCall == calls[Len(calls)]

\* Mutant of Barrier: a body sees the variables of its caller.
NoBarrier == 1

\* Name lookups stop at the frame scope of the function being inlined.
Barrier == IF calls = <<>> THEN 1 ELSE CurrentCall.scope_barrier

Holders(n) == {k \in Barrier..Depth : n \in Declares(scopes[k].vars)}

\* Compiler::get_var: the variable n names, if any, alone in a set.
Resolve(n) ==
  {scopes[k].vars[n] : k \in {j \in Holders(n) : \A i \in Holders(n) : i <= j}}

Visible == UNION {Resolve(n) : n \in Names}

FieldPlaces(v) ==
  {[addr |-> v.addr + p.offset, type |-> p.type] : p \in v.type.places}

PlaceOf(v) == [addr |-> v.addr, type |-> v.type]

\* eval_var_expr: where a variable expression may point, with its type. A
\* struct must be followed by at least one field.
Places ==
  (UNION {FieldPlaces(v) : v \in Visible}) \cup
  {PlaceOf(v) : v \in {u \in Visible : u.type.class # "USERDEF"}}

ArrayPlaces == {p \in Places : p.type.class = "ARRAY"}

\* generate_call also takes a whole struct.
ArgPlaces ==
  (UNION {FieldPlaces(v) : v \in Visible}) \cup {PlaceOf(v) : v \in Visible}

\* Mutant of CallInProgress: only direct recursion is noticed.
CallsItself(f) == calls # <<>> /\ CurrentCall.name = f

CallInProgress(f) == \E k \in 1..Len(calls) : calls[k].name = f

-----------------------------------------------------------------------------
(* The suspended activations.  An activation of kind                       *)
(*   let set loop if print_val array index store return                    *)
(*                 is a statement waiting for an expression,               *)
(*   element unary left right                                              *)
(*                 an expression waiting for an operand,                   *)
(*   call          generate_call binding arguments, of a call expression   *)
(*                 or of a call statement,                                 *)
(*   loopbody ifbody body                                                  *)
(*                 a list of statements being compiled.                    *)
(* scope is the Scope& it holds, mark the next_free it read when it        *)
(* suspended itself ("snapshot", "dest", "slot").                          *)

Pending(kind) ==
  [kind   |-> kind,
   scope  |-> Depth,
   mark   |-> NextFree,
   base   |-> 0,          \* element, index, store: of the array; call, body: frame_base
   len    |-> 0,          \* index, store: elements of the array
   held   |-> NoResult,   \* right: left operand; store: index; blocks: flag, counter
   name   |-> "",         \* call, body: the function
   binds  |-> NoVars,     \* call: the parameters bound so far
   nth    |-> 0,          \* call: how many; return: the call it returns from
   before |-> {}]         \* blocks: what was dirty when the block was entered

Blocks == {"loopbody", "ifbody", "body"}

Pop(stack, n) == SubSeq(stack, 1, Len(stack) - n)

Top   == acts[Len(acts)]
Under == Pop(acts, 1)

TopBecomes(a) == Append(Under, a)

\* What happens next.
EvalWith(stack)   == mode' = "expr"  /\ acts' = stack /\ res' = NoResult
Return(stack, r)  == mode' = "value" /\ acts' = stack /\ res' = r
StmtWith(stack)   == mode' = "stmt"  /\ acts' = stack /\ res' = NoResult
BindWith(stack)   == mode' = "args"  /\ acts' = stack /\ res' = NoResult

\* throw CompilerException: biffc reports it and stops.
Reject == mode' = "error" /\ UNCHANGED <<scopes, calls, acts, res, funs, out>>

Room == NextFree < MaxCells /\ Len(acts) < MaxDepth /\ Len(out.code) < MaxCode

HasReturned == calls # <<>> /\ CurrentCall.has_returned

\* The next statement of the list being compiled is of this kind. None may
\* follow a return.
Stmt(kind) == mode = "stmt" /\ kind \in Kinds /\ Room /\ ~HasReturned

\* eval is about to look at an expression of this kind.
Expr(kind) == mode = "expr" /\ kind \in Kinds /\ Room

\* eval has returned to an activation of this kind.
Resume(kind) == mode = "value" /\ Top.kind = kind

\* Mutant of Assign: a temp is copied and left dirty.
AssignKeepsTemp(o, dest, r) ==
  IF r.type = "CONST" THEN Mov(o, dest, r.val)
  ELSE IF r.val = dest THEN o
  ELSE Add(Mov(o, dest, 0), dest, r.val)

\* Make dest equal to the value r, whatever dest holds now.
Assign(o, dest, r) ==
  CASE r.type = "CONST"                     -> Mov(o, dest, r.val)
    [] r.type # "CONST" /\ r.val = dest     -> o
    [] r.type = "ADDRESS" /\ r.val # dest   -> Add(Mov(o, dest, 0), dest, r.val)
    [] OTHER -> Mov(Add(Mov(o, dest, 0), dest, r.val), r.val, 0)

\* The same for a dest that is taken to be zero.
CopyTo(o, dest, r) ==
  CASE r.type = "CONST"                     -> Mov(o, dest, r.val)
    [] r.type = "ADDRESS"                   -> Copy(o, dest, r.val)
    [] r.type = "TEMP" /\ r.val = dest      -> o
    [] r.type = "TEMP" /\ r.val # dest      -> Mov(Copy(o, dest, r.val), r.val, 0)

-----------------------------------------------------------------------------
(* eval: the leaves.                                                       *)

EvalNumber ==
  /\ mode = "expr"
  /\ \E n \in Numbers : Return(acts, Const(n))
  /\ UNCHANGED <<scopes, calls, funs, out>>

\* A lone variable is not evaluated when it is an argument of a call.
EvalVar ==
  /\ mode = "expr"
  /\ Top.kind # "call"
  /\ \E p \in Places : Return(acts, Address(p.addr))
  /\ UNCHANGED <<scopes, calls, funs, out>>

\* Mutant of EvalReadChar: the cell is not reserved.
EvalReadCharUnreserved ==
  /\ Expr("read_char")
  /\ out' = ReadChar(out, NextFree)
  /\ Return(acts, Temp(NextFree))
  /\ UNCHANGED <<scopes, calls, funs>>

EvalReadChar ==
  /\ Expr("read_char")
  /\ scopes' = WithNext(Depth, NextFree + 1)
  /\ out' = ReadChar(out, NextFree)
  /\ Return(acts, Temp(NextFree))
  /\ UNCHANGED <<calls, funs>>

-----------------------------------------------------------------------------
(* eval: an array element.                                                 *)

EvalElement ==
  /\ Expr("element")
  /\ \E p \in ArrayPlaces :
       EvalWith(Append(acts, [Pending("element") EXCEPT !.base = p.addr]))
  /\ UNCHANGED <<scopes, calls, funs, out>>

ElementRead ==
  LET dest  == Top.mark
      moved == res.type = "TEMP" /\ res.val # dest
      read  == Ra(out, Top.base, res, dest)
  IN  /\ Resume("element")
      /\ out' = IF moved THEN Mov(read, res.val, 0) ELSE read
      /\ scopes' = CASE moved                -> WithNext(Top.scope, dest + 1)
                     [] res.type = "TEMP" /\ res.val = dest -> scopes
                     [] res.type # "TEMP"    ->
                          WithNext(Top.scope, scopes[Top.scope].next + 1)
      /\ Return(Under, Temp(dest))
      /\ UNCHANGED <<calls, funs>>

-----------------------------------------------------------------------------
(* eval_unary: "!" is the only unary operator.                             *)

EvalUnary ==
  /\ Expr("unary")
  /\ EvalWith(Append(acts, Pending("unary")))
  /\ UNCHANGED <<scopes, calls, funs, out>>

UnaryConst ==
  /\ Resume("unary")
  /\ res.type = "CONST"
  /\ Return(Under, Const(IF res.val = 0 THEN 1 ELSE 0))
  /\ UNCHANGED <<scopes, calls, funs, out>>

UnaryFlip ==
  LET dest == Top.mark
  IN  /\ Resume("unary")
      /\ res.type # "CONST"
      /\ scopes' = CASE res.type = "ADDRESS" ->
                          WithNext(Top.scope, scopes[Top.scope].next + 1)
                     [] res.type = "TEMP" /\ res.val # dest ->
                          WithNext(Top.scope, res.val)
                     [] res.type = "TEMP" /\ res.val = dest -> scopes
      /\ out' = Flip(Assign(out, dest, res), dest)
      /\ Return(Under, Temp(dest))
      /\ UNCHANGED <<calls, funs>>

-----------------------------------------------------------------------------
(* eval: a binary operator. Left operand, right operand, fold.             *)

EvalBinary ==
  /\ Expr("binary")
  /\ EvalWith(Append(acts, Pending("left")))
  /\ UNCHANGED <<scopes, calls, funs, out>>

LeftEvaluated ==
  /\ Resume("left")
  /\ EvalWith(TopBecomes([Pending("right") EXCEPT !.held = res]))
  /\ UNCHANGED <<scopes, calls, funs, out>>

\* Mutant of Fold: constants are subtracted without wrapping around.
FoldSigned(op, l, r) == IF op = "SUB" THEN l - r ELSE (l + r) % Word

\* Two constants are folded at compile time, in size_t.
Fold(op, l, r) ==
  CASE op = "ADD"           -> (l + r) % Word
    [] op = "SUB"           -> (l - r) % Word
    [] op = "MUL"           -> (l * r) % Word
    [] op = "DIV"           -> l \div r
    [] op = "MOD"           -> l % r
    [] op = "EQ"            -> Truth(l = r)
    [] op = "NEQ"           -> Truth(l # r)
    [] op = "LESS"          -> Truth(l < r)
    [] op = "GREATER"       -> Truth(l > r)
    [] op = "LESS_OR_EQ"    -> Truth(l <= r)
    [] op = "GREATER_OR_EQ" -> Truth(l >= r)
    [] op = "OR"            -> Truth(l # 0 \/ r # 0)
    [] op = "AND"           -> Truth(l # 0 /\ r # 0)

\* Dividing by a constant zero is undefined in C++; built for x86 it kills
\* the compiler, which ends the compilation as an error does.
FoldConstantsBy(op) ==
  /\ Resume("right")
  /\ Top.held.type = "CONST"
  /\ res.type = "CONST"
  /\ IF op \in {"DIV", "MOD"} /\ res.val = 0
       THEN Reject
       ELSE /\ Return(Under, Const(Fold(op, Top.held.val, res.val)))
            /\ UNCHANGED <<scopes, calls, funs, out>>

FoldConstants == \E op \in Ops : FoldConstantsBy(op)

\* Mutant of Accumulator: a variable is operated on in place.
AccumulatorInPlace(left, next) == IF left.type = "CONST" THEN next ELSE left.val

\* A left operand in a temp is overwritten by the result, any other is copied.
Accumulator(left, next) == IF left.type = "TEMP" THEN left.val ELSE next

\* Mutant of Released: it is given back whatever was reserved after it.
ReleasedAlways(r, next) == IF r.type = "TEMP" THEN r.val ELSE next

\* The right operand's cell is given back when it is the last one reserved.
Released(r, next) == IF r.type = "TEMP" /\ r.val + 1 = next THEN r.val ELSE next

FoldOnTapeBy(op) ==
  LET left == Top.held
      acc  == Accumulator(left, scopes[Top.scope].next)
      dump == IF left.type = "TEMP" THEN scopes[Top.scope].next
                                    ELSE scopes[Top.scope].next + 1
  IN  /\ Resume("right")
      /\ left.type # "CONST" \/ res.type # "CONST"
      /\ LET folded == BinaryOp(Assign(out, acc, left), op, acc, res, dump)
         IN  out' = IF res.type = "TEMP" THEN Mov(folded, res.val, 0) ELSE folded
      /\ scopes' = WithNext(Top.scope, Released(res, dump))
      /\ Return(Under, Temp(acc))
      /\ UNCHANGED <<calls, funs>>

FoldOnTape == \E op \in Ops : FoldOnTapeBy(op)

-----------------------------------------------------------------------------
(* generate_call.                                                          *)

\* The function is known, is not being inlined already and is given as many
\* arguments as it takes.
CallBegins ==
  \E f \in Funs :
    /\ funs[f].defined
    /\ ~CallInProgress(f)
    /\ BindWith(Append(acts, [Pending("call") EXCEPT !.base = NextFree,
                                                     !.name = f]))
    /\ UNCHANGED <<scopes, calls, funs, out>>

EvalCall == Expr("call") /\ CallBegins

Parameter == funs[Top.name].args[Top.nth + 1]

Bound(act, v) == [act EXCEPT !.binds = Bind(act.binds, Parameter.name, v),
                             !.nth = act.nth + 1]

\* A plain variable of the parameter's type: the parameter becomes its alias.
BindAlias ==
  /\ mode = "args"
  /\ Top.nth < Len(funs[Top.name].args)
  /\ \E p \in ArgPlaces :
       /\ p.type = Parameter.type
       /\ BindWith(TopBecomes(Bound(Top, Variable(p.addr, p.type, 0))))
  /\ UNCHANGED <<scopes, calls, funs, out>>

\* Any other expression goes into a fresh cell, for an Integer parameter only.
EvalArgument ==
  /\ mode = "args"
  /\ Top.nth < Len(funs[Top.name].args)
  /\ Parameter.type = IntegerType
  /\ EvalWith(TopBecomes([Top EXCEPT !.mark = NextFree, !.scope = Depth]))
  /\ UNCHANGED <<scopes, calls, funs, out>>

\* Mutant of BindValue: the slot of the argument is not reserved.
BindValueUnreserved ==
  /\ Resume("call")
  /\ out' = CopyTo(out, Top.mark, res)
  /\ BindWith(TopBecomes(Bound(Top, Variable(Top.mark, IntegerType, 1))))
  /\ UNCHANGED <<scopes, calls, funs>>

BindValue ==
  LET slot == Top.mark
  IN  /\ Resume("call")
      /\ out' = CopyTo(out, slot, res)
      /\ scopes' = WithNext(Top.scope, slot + 1)
      /\ BindWith(TopBecomes(Bound(Top, Variable(slot, IntegerType, 1))))
      /\ UNCHANGED <<calls, funs>>

\* Mutant of FrameScope: it starts as the outermost scope does.
FrameScopeFresh == NewScope(Top.binds, 1)

\* The scope of an inlined body starts where the caller's ends and declares the
\* parameters only.
FrameScope == NewScope(Top.binds, NextFree)

\* Compiler::begin_call, then the parameters are declared.
BeginCall ==
  /\ mode = "args"
  /\ Top.nth = Len(funs[Top.name].args)
  /\ scopes' = Append(scopes, FrameScope)
  /\ calls' = Append(calls, [name          |-> Top.name,
                             scope_barrier |-> Depth + 1,
                             returns_value |-> funs[Top.name].returns,
                             has_returned  |-> FALSE,
                             ret_addr      |-> 0])
  /\ StmtWith(TopBecomes([Top EXCEPT !.kind = "body", !.scope = Depth + 1,
                                        !.mark = NextFree]))
  /\ UNCHANGED <<funs, out>>

\* The cell that holds the return value, alone in a set, if there is one.
Returned == IF CurrentCall.has_returned THEN {CurrentCall.ret_addr} ELSE {}

\* Mutants of FrameWiped: the last cell is forgotten; the arguments are.
FrameWipedShort == Wipe(out, Top.base, NextFree - 2, Returned)
BodyWiped       == Wipe(out, Top.mark, NextFree - 1, Returned)

\* The dead frame is wiped; the return cell stays.
FrameWiped == Wipe(out, Top.base, NextFree - 1, Returned)

\* Mutants of FrameEnd: the return cell is given back; the frame is kept.
FrameEndLow  == Top.base
FrameEndHigh == NextFree

\* Where next_free goes once the frame is wiped.
FrameEnd == IF CurrentCall.has_returned THEN CurrentCall.ret_addr + 1 ELSE Top.base

\* Mutants of CallEnded: the frame scope stays; the call stays.
CallEndedInScope(next) ==
  /\ scopes' = [scopes EXCEPT ![Depth - 1].next = next]
  /\ calls' = Pop(calls, 1)
  /\ UNCHANGED funs

CallEndedInCall(next) ==
  /\ scopes' = [ScopeRemoved EXCEPT ![Depth - 1].next = next]
  /\ UNCHANGED <<calls, funs>>

\* Compiler::end_call, with the caller's next_free set afterwards.
CallEnded(next) ==
  /\ scopes' = [ScopeRemoved EXCEPT ![Depth - 1].next = next]
  /\ calls' = Pop(calls, 1)
  /\ UNCHANGED funs

BodyEnds == mode = "stmt" /\ acts # <<>> /\ Top.kind = "body"

\* The call on top of the stack is a statement, no operand.
CallIsStmt == Len(acts) > 1 => acts[Len(acts) - 1].kind \in Blocks

\* The call was an operand: its function has to return a value.
EndCallInExpr ==
  /\ BodyEnds
  /\ ~CallIsStmt
  /\ IF HasReturned
       THEN /\ CallEnded(FrameEnd)
            /\ out' = FrameWiped
            /\ Return(Under, Temp(CurrentCall.ret_addr))
       ELSE Reject

\* CallStmt: a returned value is zeroed and dropped, next_free goes back to
\* where it was before the call.
EndCallStmt ==
  /\ BodyEnds
  /\ CallIsStmt
  /\ IF CurrentCall.returns_value /\ ~CurrentCall.has_returned
       THEN Reject
       ELSE /\ CallEnded(IF HasReturned THEN Top.base ELSE FrameEnd)
            /\ out' = IF HasReturned
                        THEN Mov(FrameWiped, CurrentCall.ret_addr, 0)
                        ELSE FrameWiped
            /\ StmtWith(Under)

CallStmt == Stmt("call") /\ CallBegins

\* A return is allowed at the top level of a body that returns a value.
ReturnStmt ==
  /\ Stmt("return")
  /\ calls # <<>>
  /\ CurrentCall.returns_value
  /\ Depth = CurrentCall.scope_barrier
  /\ EvalWith(Append(acts, [Pending("return") EXCEPT !.nth = Len(calls)]))
  /\ UNCHANGED <<scopes, calls, funs, out>>

ReturnValue ==
  LET snapshot == Top.mark
  IN  /\ Resume("return")
      /\ out' = CopyTo(out, snapshot, res)
      /\ scopes' = WithNext(Top.scope, snapshot + 1)
      /\ calls' = [calls EXCEPT ![Top.nth].has_returned = TRUE,
                                ![Top.nth].ret_addr = snapshot]
      /\ StmtWith(Under)
      /\ UNCHANGED funs

\* Functions are defined once, and not inside a function being inlined.
DefineFunction ==
  /\ Stmt("def")
  /\ calls = <<>>
  /\ \E f \in Funs, s \in Signatures :
       /\ ~funs[f].defined
       /\ funs' = [funs EXCEPT ![f] = [returns |-> s.returns, args |-> s.args,
                                       defined |-> TRUE]]
  /\ UNCHANGED <<scopes, calls, acts, mode, res, out>>

-----------------------------------------------------------------------------
(* let.                                                                    *)

Declared(k, n, v, next) ==
  [scopes EXCEPT ![k] = NewScope(Bind(scopes[k].vars, n, v), next)]

\* The type of a string counts its token, quotes included; the cells reserved
\* are one fewer than an array of that type has.
LetString ==
  /\ Stmt("string")
  /\ \E n \in Names, s \in Strings :
       /\ scopes' = Declared(Depth, n,
                             Variable(NextFree, ArrayType(s.size), s.size + 3),
                             NextFree + s.size + 3)
       /\ out' = InsertString(out, NextFree, s.chars)
  /\ UNCHANGED <<calls, acts, mode, res, funs>>

\* Mutant of LetStruct: one cell too few is reserved.
LetStructShort ==
  /\ Stmt("struct")
  /\ \E n \in Names, t \in StructTypes :
       /\ n \notin Declares(scopes[Depth].vars)
       /\ scopes' = Declared(Depth, n, Variable(NextFree, t, t.size),
                             NextFree + t.size - 1)
  /\ UNCHANGED <<calls, acts, mode, res, funs, out>>

\* handle_new_struct.
LetStruct ==
  /\ Stmt("struct")
  /\ \E n \in Names, t \in StructTypes :
       /\ n \notin Declares(scopes[Depth].vars)
       /\ scopes' = Declared(Depth, n, Variable(NextFree, t, t.size),
                             NextFree + t.size)
  /\ UNCHANGED <<calls, acts, mode, res, funs, out>>

Let ==
  /\ Stmt("let")
  /\ EvalWith(Append(acts, Pending("let")))
  /\ UNCHANGED <<scopes, calls, funs, out>>

\* A name of the innermost scope keeps its cell, any other gets a new one.
LetValueOf(n) ==
  /\ Resume("let")
  /\ IF n \in Declares(scopes[Top.scope].vars)
       THEN /\ out' = Assign(out, scopes[Top.scope].vars[n].addr, res)
            /\ scopes' = WithNext(Top.scope, Top.mark)
       ELSE /\ out' = Assign(out, Top.mark, res)
            /\ scopes' = Declared(Top.scope, n, Variable(Top.mark, IntegerType, 1),
                                  Top.mark + 1)
  /\ StmtWith(Under)
  /\ UNCHANGED <<calls, funs>>

LetValue == \E n \in Names : LetValueOf(n)

-----------------------------------------------------------------------------
(* Assignment to a variable or field.                                      *)

Set ==
  /\ Stmt("set")
  /\ Places # {}
  /\ EvalWith(Append(acts, Pending("set")))
  /\ UNCHANGED <<scopes, calls, funs, out>>

\* Mutant of SetValue: the temp is not given back.
SetValueKeepsTemp ==
  /\ Resume("set")
  /\ \E p \in Places : out' = Assign(out, p.addr, res)
  /\ StmtWith(Under)
  /\ UNCHANGED <<scopes, calls, funs>>

SetValueAt(p) ==
  /\ Resume("set")
  /\ out' = Assign(out, p.addr, res)
  /\ scopes' = IF res.type = "TEMP" THEN WithNext(Top.scope, Top.mark) ELSE scopes
  /\ StmtWith(Under)
  /\ UNCHANGED <<calls, funs>>

SetValue == \E p \in Places : SetValueAt(p)

-----------------------------------------------------------------------------
(* Arrays.                                                                 *)

CreateArray ==
  /\ Stmt("array")
  /\ Names \ Declares(scopes[Depth].vars) # {}
  /\ EvalWith(Append(acts, Pending("array")))
  /\ UNCHANGED <<scopes, calls, funs, out>>

\* The size must be a constant. An array longer than the bound MaxArray ends the
\* behaviour: what such a program compiles to is not examined.
ArraySize ==
  /\ Resume("array")
  /\ IF res.type # "CONST"
       THEN Reject
     ELSE IF res.val > MaxArray
       THEN mode' = "bound" /\ UNCHANGED <<scopes, calls, acts, res, funs, out>>
       ELSE /\ \E n \in Names \ Declares(scopes[Top.scope].vars) :
                 scopes' = Declared(Top.scope, n,
                                    Variable(Top.mark, ArrayType(res.val),
                                             res.val + 4),
                                    (Top.mark + res.val + 4) % Word)
            /\ StmtWith(Under)
            /\ UNCHANGED <<calls, funs, out>>

AssignArray ==
  /\ Stmt("store")
  /\ \E p \in ArrayPlaces :
       EvalWith(Append(acts, [Pending("index") EXCEPT !.base = p.addr,
                                                      !.len = p.type.size - 4]))
  /\ UNCHANGED <<scopes, calls, funs, out>>

\* An index held in a temp is moved into the first free cell.
IndexEvaluated ==
  LET index == IF res.type = "TEMP" THEN Temp(Top.mark) ELSE res
  IN  /\ Resume("index")
      /\ IF res.type = "TEMP"
           THEN /\ out' = Assign(out, Top.mark, res)
                /\ scopes' = WithNext(Top.scope, Top.mark + 1)
           ELSE UNCHANGED <<out, scopes>>
      /\ EvalWith(TopBecomes([Top EXCEPT !.kind = "store", !.held = index]))
      /\ UNCHANGED <<calls, funs>>

\* Mutant of ZeroIfTemp: the temps of an array store are left dirty.
LeaveTemp(o, r) == o

ZeroIfTemp(o, r) == IF r.type = "TEMP" THEN Mov(o, r.val, 0) ELSE o

\* A target in a temp is moved next to where a temp index would be.
StoreValue ==
  LET target == IF res.type = "TEMP" THEN Temp(Top.mark + 1) ELSE res
      ready  == IF res.type = "TEMP" THEN Assign(out, Top.mark + 1, res) ELSE out
      stored == Sav(ready, Top.base, Top.len, Top.held, target)
  IN  /\ Resume("store")
      /\ out' = ZeroIfTemp(ZeroIfTemp(stored, Top.held), target)
      /\ scopes' = IF Top.held.type = "CONST" /\ res.type = "CONST"
                     THEN scopes
                     ELSE WithNext(Top.scope, Top.mark)
      /\ StmtWith(Under)
      /\ UNCHANGED <<calls, funs>>

-----------------------------------------------------------------------------
(* Printing.                                                               *)

\* Any variable is accepted.
PrintStr ==
  /\ Stmt("print_str")
  /\ \E p \in Places : out' = Ouz(Mov(out, p.addr + 3, 0), p.addr)
  /\ UNCHANGED <<scopes, calls, acts, mode, res, funs>>

PrintVal ==
  /\ Stmt("print_val")
  /\ EvalWith(Append(acts, Pending("print_val")))
  /\ UNCHANGED <<scopes, calls, funs, out>>

\* next_free is read after the evaluation, and stays.
ValuePrinted ==
  LET Printed(o, cell) == Mov(Itoa(o, cell, cell + 1), cell, 0)
  IN  /\ Resume("print_val")
      /\ out' = CASE res.type = "CONST" ->
                       Printed(Load(out, NextFree, res.val), NextFree)
                  [] res.type = "ADDRESS" -> Itoa(out, res.val, NextFree)
                  [] res.type = "TEMP" /\ res.val = NextFree ->
                       Printed(out, NextFree)
                  [] res.type = "TEMP" /\ res.val # NextFree ->
                       Printed(Mov(Copy(out, NextFree, res.val), res.val, 0),
                               NextFree)
      /\ StmtWith(Under)
      /\ UNCHANGED <<scopes, calls, funs>>

-----------------------------------------------------------------------------
(* Blocks.                                                                 *)

\* Mutant of Enter: the scope of the block starts at the flag or counter.
EnterLow(kind, cell, next, o) ==
  /\ scopes' = Append(WithNext(Top.scope, next), NewScope(NoVars, Top.mark))
  /\ out' = o
  /\ StmtWith(TopBecomes([Top EXCEPT !.kind = kind, !.scope = Depth + 1,
                                        !.mark = next, !.held = cell,
                                        !.before = o.dirty]))
  /\ UNCHANGED <<calls, funs>>

\* A block opens a scope of its own above the first next cells.
Enter(kind, cell, next, o) ==
  /\ scopes' = Append(WithNext(Top.scope, next), NewScope(NoVars, next))
  /\ out' = o
  /\ StmtWith(TopBecomes([Top EXCEPT !.kind = kind, !.scope = Depth + 1,
                                        !.mark = next, !.held = cell,
                                        !.before = o.dirty]))
  /\ UNCHANGED <<calls, funs>>

Leave(op) ==
  /\ scopes' = ScopeRemoved
  /\ out' = Close(out, op, Top.held.val, Top.before)
  /\ StmtWith(Under)
  /\ UNCHANGED <<calls, funs>>

Loop ==
  /\ Stmt("loop")
  /\ EvalWith(Append(acts, Pending("loop")))
  /\ UNCHANGED <<scopes, calls, funs, out>>

\* A variable is its own counter; any other value gets a counter cell.
LoopEnter ==
  LET counter == IF res.type = "ADDRESS" THEN res.val ELSE Top.mark
      next    == IF res.type = "ADDRESS" THEN scopes[Top.scope].next
                                         ELSE Top.mark + 1
      held    == IF res.type = "ADDRESS" THEN res ELSE Temp(counter)
  IN  /\ Resume("loop")
      /\ Enter("loopbody", held, next,
               Open(Assign(out, counter, res), "LOOP", counter))

LoopLeave ==
  /\ mode = "stmt" /\ acts # <<>> /\ Top.kind = "loopbody"
  /\ Leave("ENDLOOP")

If ==
  /\ Stmt("if")
  /\ EvalWith(Append(acts, Pending("if")))
  /\ UNCHANGED <<scopes, calls, funs, out>>

\* The flag is always a copy, so that the end of the block may clear it.
IfEnter ==
  LET flag == Top.mark
  IN  /\ Resume("if")
      /\ Enter("ifbody", Temp(flag), flag + 1,
               Open(CopyTo(out, flag, res), "DOIF", flag))

IfLeave ==
  /\ mode = "stmt" /\ acts # <<>> /\ Top.kind = "ifbody"
  /\ Leave("ENDIF")

-----------------------------------------------------------------------------
(* The whole compilation.                                                  *)

Init ==
  /\ scopes = <<NewScope(NoVars, 1)>>
  /\ calls = <<>>
  /\ acts = <<>>
  /\ mode = "stmt"
  /\ res = NoResult
  /\ funs = [f \in Funs |-> NoFunction]
  /\ out = NoOutput

\* The last statement of the program has been compiled.
Finish ==
  /\ mode = "stmt"
  /\ acts = <<>>
  /\ mode' = "done"
  /\ UNCHANGED <<scopes, calls, acts, res, funs, out>>

\* A program may be wrong at any point: an unknown variable, field, type or
\* function, a string literal in an expression, an index into something that is
\* not an array, a call of a function in progress or with another number or
\* type of arguments, a second definition, a statement after a return.
Illegal ==
  /\ \/ mode \in {"stmt", "expr"}
     \/ mode = "args" /\ Top.nth < Len(funs[Top.name].args)
  /\ Reject

Terminated == mode \in {"done", "error", "bound"} /\ UNCHANGED vars

Eval ==
  \/ EvalNumber \/ EvalVar \/ EvalReadChar \/ EvalElement \/ EvalUnary
  \/ EvalBinary \/ EvalCall \/ EvalArgument

Resumption ==
  \/ ElementRead \/ UnaryConst \/ UnaryFlip \/ LeftEvaluated \/ FoldConstants
  \/ FoldOnTape \/ BindValue \/ ReturnValue \/ LetValue \/ SetValue
  \/ ArraySize \/ IndexEvaluated \/ StoreValue \/ ValuePrinted \/ LoopEnter
  \/ IfEnter

Statement ==
  \/ CallStmt \/ ReturnStmt \/ DefineFunction \/ LetString \/ LetStruct \/ Let
  \/ Set \/ CreateArray \/ AssignArray \/ PrintStr \/ PrintVal \/ Loop \/ If

Calling == BindAlias \/ BeginCall \/ EndCallInExpr \/ EndCallStmt

Next ==
  \/ Eval \/ Resumption \/ Statement \/ Calling
  \/ LoopLeave \/ IfLeave \/ Finish \/ Illegal \/ Terminated

Spec == Init /\ [][Next]_vars
=============================================================================
