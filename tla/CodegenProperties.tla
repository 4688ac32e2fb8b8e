-------------------------- MODULE CodegenProperties --------------------------
(***************************************************************************)
(* What makes the code generator correct: the allocation of tape cells to  *)
(* variables and temporaries, the zero invariant the generated code lives  *)
(* by, and the inlining of calls.                                          *)
(***************************************************************************)
EXTENDS Codegen

\* A constant is a size_t.
EvalResults ==
  {r \in [type : {"CONST", "ADDRESS", "TEMP", "NONE"}, val : Nat] :
     r.type = "CONST" => r.val < Word}

Scope == [vars : [Names -> Variables], next : Nat]

Call == [name : Funs, scope_barrier : Nat, returns_value : BOOLEAN,
         has_returned : BOOLEAN, ret_addr : Nat]

StmtKinds == {"let", "set", "loop", "if", "print_val", "array", "index", "store",
              "return"}
ExprKinds == {"element", "unary", "left", "right"}

Activation ==
  [kind : StmtKinds \cup ExprKinds \cup Blocks \cup {"call"}, scope : Nat \ {0}, mark : Nat,
   base : Nat, len : Int, held : EvalResults, name : Funs \cup {""},
   binds : [Names -> Variables], nth : Nat, before : SUBSET Nat]

Function == [returns : BOOLEAN, args : Seq([name : Names, type : KnownTypes]),
             defined : BOOLEAN]

\* The types of the variables, and which of them a mode needs: a scope is always
\* open, the scopes that activations and calls refer to exist, something waits
\* for every value and every argument, and no folding makes a constant that is no
\* size_t.
TypeOK ==
  /\ scopes \in Seq(Scope) /\ scopes # <<>>
  /\ calls \in Seq(Call)
  /\ \A i \in 1..Len(calls) : calls[i].scope_barrier \in 1..Depth
  /\ acts \in Seq(Activation)
  /\ \A i \in 1..Len(acts) : acts[i].scope \in 1..Depth
  /\ mode \in {"stmt", "expr", "value", "args", "done", "error", "bound"}
  /\ mode \in {"expr", "value", "args"} => acts # <<>>
  /\ res \in EvalResults /\ (mode = "value" => res.type # "NONE")
  /\ funs \in [Funs -> Function]
  /\ out.dirty \subseteq Nat /\ out.unmet \subseteq Nat

\* The variables that own cells, each as the scope and name that hold it.
Owners ==
  {o \in (1..Depth) \X Names : scopes[o[1]].vars[o[2]].len > 0}

CellsOf(v)      == v.addr..(v.addr + v.len - 1)
TypedCellsOf(v) == v.addr..(v.addr + v.type.size - 1)
VarOf(o)        == scopes[o[1]].vars[o[2]]

\* The cells an activation holds on to while it waits.
HeldCells(a) ==
  (IF a.held.type = "TEMP" THEN {a.held.val} ELSE {}) \cup
  (IF a.kind = "call" THEN UNION {CellsOf(a.binds[n]) : n \in Names} ELSE {})

\* codegen.cpp:255, "Cells at next_free and above are zero": at any point of
\* the compilation, every cell the code written so far may leave nonzero is
\* below next_free of the innermost scope; cell 0 is zero as well.
ZeroInvariant == \A c \in out.dirty : 0 < c /\ c < NextFree

\* The contracts between codegen and ir.cpp: no instruction is written whose dump,
\* flag or accumulate-into-zero cells may be nonzero when control first gets there.
ScratchZero == out.unmet = {}

\* No two variables own a common cell, and all of them end below next_free:
\* neither shadowing, nor a block or a call frame that ends, nor a temp given
\* back makes the allocator hand out a live variable's cell.
VariablesDisjoint ==
  /\ \A o \in Owners : VarOf(o).addr > 0 /\ VarOf(o).addr + VarOf(o).len <= NextFree
  /\ \A o, p \in Owners : o # p => CellsOf(VarOf(o)) \cap CellsOf(VarOf(p)) = {}

\* codegen.cpp:797, "Arrays require size + 4 bytes to function": no two variables
\* have a common cell among the cells their TYPES give them.
TypedCellsDisjoint ==
  \A o, p \in Owners : o # p => TypedCellsOf(VarOf(o)) \cap TypedCellsOf(VarOf(p)) = {}

\* The cells of the intermediate values: what an activation holds, what eval
\* has just returned, the return value of the function that ends. A cell of
\* these is below next_free, belongs to no variable and to nobody else: the
\* TEMP of codegen.h, "A scratch cell owned by the evaluator".
TempsOwned ==
  LET Held(i)   == HeldCells(acts[i])
      AllHeld   == UNION {Held(i) : i \in 1..Len(acts)}
      current   == (IF res.type = "TEMP" THEN {res.val} ELSE {}) \cup
                   (IF HasReturned THEN {CurrentCall.ret_addr} ELSE {})
  IN  /\ \A c \in AllHeld \cup current : 0 < c /\ c < NextFree
      /\ \A i, j \in 1..Len(acts) : i # j => Held(i) \cap Held(j) = {}
      /\ AllHeld \cap current = {}
      /\ \A o \in Owners : CellsOf(VarOf(o)) \cap (AllHeld \cup current) = {}

\* The Scope& and the ActiveCall* a generator took before a nested eval are still
\* the innermost scope and the current call when it resumes (compiler.h:64,
\* "statement generators hold Scope references across eval() calls, and a
\* function call inside the expression pushes a frame scope", and compiler.h:74),
\* and next_free has not gone below the one it read.
ReferencesCurrent ==
  mode = "value" => /\ Top.scope = Depth /\ Top.mark <= NextFree
                    /\ Top.kind = "return" => Top.nth = Len(calls)

\* How activations, scopes and calls nest: what makes the C++ recursion, the
\* scope stack and the call stack, kept apart in the code, unwind together.
\* Every activation works in the scope below it, a block in one of its own.
ScopesNest ==
  /\ Depth = IF acts = <<>> THEN 1 ELSE Top.scope
  /\ \A i \in 1..Len(acts) :
       acts[i].scope = (IF i = 1 THEN 1 ELSE acts[i - 1].scope)
                         + (IF acts[i].kind \in Blocks THEN 1 ELSE 0)
  /\ \A i, j \in 1..Len(acts) :
       i < j => /\ acts[i].scope <= acts[j].scope
                /\ acts[j].kind \in Blocks => acts[i].scope < acts[j].scope

\* Statements are on the bottom of the stack or in a block, expressions above
\* what waits for them; a call is one or the other.
StackShape ==
  \A i \in 1..Len(acts) :
    /\ acts[i].kind \in StmtKinds \cup {"loopbody", "ifbody"}
         => i = 1 \/ acts[i - 1].kind \in Blocks
    /\ acts[i].kind \in ExprKinds
         => i > 1 /\ acts[i - 1].kind \notin Blocks

ModeShape ==
  /\ mode = "stmt" => acts = <<>> \/ Top.kind \in Blocks
  /\ mode \in {"expr", "value"} => acts # <<>> /\ Top.kind \notin Blocks
  /\ mode = "args" => acts # <<>> /\ Top.kind = "call"

\* Each call in progress has its body, and its frame scope is that body's.
CallsNest ==
  /\ \A j, k \in 1..Len(calls) : j < k => calls[j].scope_barrier < calls[k].scope_barrier
  /\ \A k \in 1..Len(calls) : \E i \in 1..Len(acts) :
       acts[i].kind = "body" /\ acts[i].scope = calls[k].scope_barrier
  /\ \A i \in 1..Len(acts) : acts[i].kind = "body" =>
       \E k \in 1..Len(calls) : calls[k].scope_barrier = acts[i].scope

\* The call whose arguments are being bound is of a function, and of one that is
\* not in progress in its caller.
CalleesNew ==
  \A i \in 1..Len(acts) : acts[i].kind = "call" =>
    /\ acts[i].name \in Funs
    /\ \A k \in 1..Len(calls) :
         calls[k].scope_barrier <= acts[i].scope => calls[k].name # acts[i].name

Nesting == ScopesNest /\ StackShape /\ ModeShape /\ CallsNest /\ CalleesNew

\* README.md, "No recursion": the functions being inlined are all different,
\* so that inlining a program comes to an end.
NoRecursion ==
  \A i, j \in 1..Len(calls) : calls[i].name = calls[j].name => i = j

\* codegen.h:37, "Temps it allocates are reclaimed by the caller": when a let, an
\* assignment to a variable, the creation of an array or a store into one is
\* done, every cell it took since it began belongs to a variable of its scope. It
\* does not hold of print_val, which keeps the cell of a temporary
\* (codegen.cpp:740), and says nothing of loop, if and return, whose cells stay
\* in use.
Reclaims(kind) ==
  mode = "value" /\ mode' = "stmt" /\ Top.kind = kind =>
    \A c \in Top.mark..(NextFree' - 1) :
      \E n \in Names : c \in CellsOf(scopes'[Depth].vars[n])

StatementsReclaim ==
  [][Reclaims("let") /\ Reclaims("set") /\ Reclaims("array") /\ Reclaims("store")]_vars

\* README.md, "after a call returns, every cell it used is zeroed and
\* reclaimed": after a call statement next_free is back where it was before the
\* call, and after a call in an expression just past the return value; either
\* way only the return value is left in the frame.
CallsReclaim ==
  [][mode = "stmt" /\ Len(calls') < Len(calls) =>
       LET ret == IF mode' = "value" THEN {res'.val} ELSE {}
       IN  /\ \A c \in out'.dirty : c >= Top.base => c \in ret
           /\ \A c \in ret : NextFree' = c + 1
           /\ mode' = "stmt" => NextFree' = Top.base]_vars

\* The cells the instructions written by a step may change (needs KeepCode).
Changed ==
  UNION {out'.code[i].writes : i \in (Len(out.code) + 1)..Len(out'.code)}

\* print_str zeroes the cell before the text it expects, which is another
\* variable's, or an activation's, if it is given an Integer.
Misprints ==
  \E i \in (Len(out.code) + 1)..Len(out'.code) :
    /\ out'.code[i].op = "OUZ"
    /\ \A p \in ArrayPlaces : p.addr # out'.code[i].args[1]

\* codegen.h:19, "A scratch cell owned by the evaluator": while an operand, an
\* index, a loop counter or an if flag waits in its cell, no instruction written
\* meanwhile, inlined bodies and nested blocks included, changes the cell, but
\* for a misuse of print_str (README.md:180, "will almost definitely destroy
\* your program").
HeldUntouched ==
  [][~Misprints => \A i \in 1..Len(acts) :
       i <= Len(acts') /\ acts'[i] = acts[i] => Changed \cap HeldCells(acts[i]) = {}]_vars

\* codegen.h:15, "Read-only: it must never be operated on in place": the code of
\* an expression, short of the bodies it inlines, changes no cell of a variable
\* but the header of the array it indexes.
ExpressionStep ==
  \/ mode = "expr"
  \/ mode = "value" /\ Top.kind \in {"element", "unary", "right", "call"}

ExpressionsReadOnly ==
  [][ExpressionStep =>
       LET header == IF Top.kind = "element" THEN Top.base..(Top.base + 3) ELSE {}
       IN  \A o \in Owners : Changed \cap CellsOf(VarOf(o)) \subseteq header]_vars

\* README.md, "Function bodies are isolated: they see only their parameters and
\* locals": what is written while a body is inlined changes cells of its own
\* frame and of the variables it was given by reference, never other cells of a
\* caller, but for a misuse of print_str.
Reach(a) ==
  {c \in Changed : c >= a.base} \cup
  UNION {TypedCellsOf(a.binds[n]) : n \in {m \in Declares(a.binds) : a.binds[m].len = 0}}

CallsIsolated ==
  [][~Misprints => \A i \in 1..Len(acts) :
       acts[i].kind = "body" => Changed \subseteq Reach(acts[i])]_vars
=============================================================================
