------------------------------- MODULE Meaning -------------------------------
(***************************************************************************)
(* What a biff program means, next to what its code does.  The program     *)
(* that Codegen compiles is also evaluated directly, on the values of its  *)
(* variables instead of a tape.  Numbers wrap around at Byte, and what     *)
(* the operators make of them is what README.md says they do.              *)
(*                                                                         *)
(* A variable that is an operand stands for itself until the operator is   *)
(* applied, as an argument that is a variable stands for it throughout     *)
(* the call.                                                               *)
(*                                                                         *)
(* The programs have neither loops, whose bodies run more than once, nor   *)
(* strings, and index their arrays in range.                               *)
(***************************************************************************)
EXTENDS IrMachine

\* size_t counts modulo a multiple of what a cell does.
ASSUME WidthAssumption == Word % Byte = 0

VARIABLES
  meant,   \* the values of the variables and array elements, by their cells
  worth,   \* what res stands for, if that is not a variable
  owed,    \* the same for the held operand of each activation in acts
  typed,   \* the characters read but not yet read by the code
  shown    \* the numbers printed but not yet printed by the code

meaningVars == <<meant, worth, owed, typed, shown>>

\* The values of res and of the operand that the top activation holds.
ValueOf(r, w) == IF r.type = "ADDRESS" THEN meant[r.val] ELSE w

Value == ValueOf(res, worth)
Held  == ValueOf(Top.held, owed[Len(owed)])

Meant(op, l, r) ==
  CASE op = "OR"  -> Truth(l # 0 \/ r # 0)
    [] op = "AND" -> Truth(l # 0 /\ r # 0)
    [] OTHER      -> Computed(op, l, r) % Byte

\* A statement has no effect in an if whose condition was zero.
Live ==
  \A i \in 1..Len(acts) : acts[i].kind = "ifbody" => owed[i] # 0

\* Variables come and go with the cells below next_free; new ones are zero.
Sets(cell, val) ==
  meant' = [c \in 0..TapeSize |->
              IF c >= scopes'[Len(scopes')].next THEN 0
              ELSE IF c = cell /\ Live THEN val ELSE meant[c]]

SetsNothing == Sets(0, meant[0])

Yields(val) == worth' = IF Live THEN val ELSE 0
NoYield     == worth' = 0

Pushes  == owed' = Append(owed, 0)
Pops    == owed' = Pop(owed, 1)
Becomes(val) == owed' = Append(Pop(owed, 1), val)

NoIO == UNCHANGED <<typed, shown>>

-----------------------------------------------------------------------------
(* Expressions.                                                            *)

Leaves ==
  \/ EvalNumber /\ SetsNothing /\ Yields(res'.val % Byte) /\ UNCHANGED owed /\ NoIO
  \/ EvalVar /\ SetsNothing /\ NoYield /\ UNCHANGED owed /\ NoIO
  \/ /\ EvalReadChar
     /\ SetsNothing
     /\ \E input \in Inputs :
          /\ Yields(input)
          /\ typed' = IF Live THEN Append(typed, input) ELSE typed
     /\ UNCHANGED <<owed, shown>>

Operands ==
  /\ EvalElement \/ EvalUnary \/ EvalBinary \/ EvalCall
  /\ SetsNothing /\ NoYield /\ Pushes /\ NoIO

Element ==
  /\ ElementRead
  /\ SetsNothing
  /\ Yields(meant[Top.base + 4 + Value])
  /\ Pops /\ NoIO

Unary ==
  /\ UnaryConst \/ UnaryFlip
  /\ SetsNothing /\ Yields(Truth(Value = 0)) /\ Pops /\ NoIO

Left == LeftEvaluated /\ SetsNothing /\ NoYield /\ Becomes(worth) /\ NoIO

\* Constants are numbers of type size_t until they are written. One that is no
\* byte is compared and divided as it is.
FitsByte(op) ==
  op \in {"ADD", "SUB", "MUL"} \/ (Top.held.val < Byte /\ res.val < Byte)

Folded ==
  \E op \in Ops :
    /\ FoldConstantsBy(op)
    /\ SetsNothing
    /\ IF mode' = "error" THEN NoYield
       ELSE IF FitsByte(op) THEN Yields(Meant(op, Held, Value))
       ELSE Yields(res'.val % Byte)
    /\ Pops /\ NoIO

Computation ==
  \E op \in Ops :
    /\ FoldOnTapeBy(op)
    /\ Live /\ op \in {"DIV", "MOD"} => Value # 0
    /\ SetsNothing /\ Yields(Meant(op, Held, Value)) /\ Pops /\ NoIO

-----------------------------------------------------------------------------
(* Calls.                                                                  *)

Arguments ==
  /\ BindAlias \/ EvalArgument \/ BeginCall
  /\ SetsNothing /\ NoYield /\ UNCHANGED owed /\ NoIO

Argument ==
  BindValue /\ Sets(Top.mark, Value) /\ NoYield /\ UNCHANGED owed /\ NoIO

Returning == ReturnValue /\ Sets(Top.mark, Value) /\ NoYield /\ Pops /\ NoIO

CallYields ==
  /\ EndCallInExpr
  /\ SetsNothing /\ NoIO
  /\ IF HasReturned THEN Yields(meant[CurrentCall.ret_addr]) /\ Pops
                    ELSE NoYield /\ UNCHANGED owed

CallEnds ==
  /\ EndCallStmt
  /\ SetsNothing /\ NoYield /\ NoIO
  /\ IF mode' = "error" THEN UNCHANGED owed ELSE Pops

-----------------------------------------------------------------------------
(* Statements.                                                             *)

Starts ==
  /\ Let \/ Set \/ CreateArray \/ AssignArray \/ PrintVal \/ If \/ CallStmt \/ ReturnStmt
  /\ SetsNothing /\ NoYield /\ Pushes /\ NoIO

Steady ==
  /\ DefineFunction \/ LetStruct \/ Finish \/ Illegal \/ Terminated
  /\ SetsNothing /\ NoYield /\ UNCHANGED owed /\ NoIO

LetMeans ==
  \E n \in Names :
    /\ LetValueOf(n)
    /\ Sets(scopes'[Top.scope].vars[n].addr, Value)
    /\ NoYield /\ Pops /\ NoIO

SetMeans ==
  \E p \in Places : SetValueAt(p) /\ Sets(p.addr, Value) /\ NoYield /\ Pops /\ NoIO

ArrayMeans ==
  /\ ArraySize
  /\ SetsNothing /\ NoYield /\ NoIO
  /\ IF mode' = "stmt" THEN Pops ELSE UNCHANGED owed

IndexMeans == IndexEvaluated /\ SetsNothing /\ NoYield /\ Becomes(worth) /\ NoIO

StoreMeans ==
  /\ StoreValue
  /\ Sets(Top.base + 4 + Held, Value)
  /\ NoYield /\ Pops /\ NoIO

PrintMeans ==
  /\ ValuePrinted
  /\ SetsNothing /\ NoYield /\ Pops
  /\ shown' = IF Live THEN Append(shown, Value) ELSE shown
  /\ UNCHANGED typed

IfMeans == IfEnter /\ SetsNothing /\ NoYield /\ Becomes(Value) /\ NoIO

IfEnds == IfLeave /\ SetsNothing /\ NoYield /\ Pops /\ NoIO

-----------------------------------------------------------------------------
\* Nothing is said of a program that indexes an array out of range.
OutOfRange ==
  /\ mode = "value" /\ Live
  /\ \/ /\ Top.kind = "element"
        /\ \A p \in ArrayPlaces : p.addr = Top.base => Value >= p.type.size - 4
     \/ Top.kind = "store" /\ Held >= Top.len

CompileMeaning ==
  /\ Running => ~Complete
  /\ ~OutOfRange
  /\ \/ Leaves \/ Operands \/ Element \/ Unary \/ Left \/ Folded \/ Computation
     \/ Arguments \/ Argument \/ Returning \/ CallYields \/ CallEnds
     \/ Starts \/ Steady \/ LetMeans \/ SetMeans \/ ArrayMeans \/ IndexMeans
     \/ StoreMeans \/ PrintMeans \/ IfMeans \/ IfEnds
  /\ UNCHANGED machineVars

Rest(s) == SubSeq(s, 2, Len(s))

\* The code reads the characters in the order in which the program did.
ExecuteMeaning ==
  /\ ExecuteReading(IF typed = <<>> THEN 0 ELSE Head(typed))
  /\ typed' = IF Here.op = "READ_CHAR" THEN Rest(typed) ELSE typed
  /\ shown' = IF Here.op = "ITOA" THEN Rest(shown) ELSE shown
  /\ UNCHANGED <<meant, worth, owed>>

MeaningInit ==
  /\ MachineInit
  /\ meant = [c \in 0..TapeSize |-> 0]
  /\ worth = 0
  /\ owed = <<>> /\ typed = <<>> /\ shown = <<>>

MeaningNext ==
  \/ CompileMeaning
  \/ ExecuteMeaning
  \/ Stopped /\ UNCHANGED meaningVars
  \/ OutOfRange /\ UNCHANGED <<vars, machineVars, meaningVars>>

MeaningSpec == MeaningInit /\ [][MeaningNext]_<<vars, machineVars, meaningVars>>

-----------------------------------------------------------------------------
\* The cells that hold the value of a variable: of an array its elements.
ValueCells(v) ==
  CASE v.type = IntegerType      -> {v.addr}
    [] v.type.class = "ARRAY"    -> (v.addr + 4)..(v.addr + v.type.size - 1)
    [] v.type.class = "USERDEF"  ->
         {v.addr + p.offset : p \in {q \in v.type.places : q.type = IntegerType}}

LiveCells ==
  UNION {ValueCells(scopes[k].vars[n]) :
           <<k, n>> \in {x \in (1..Depth) \X Names : x[2] \in Declares(scopes[x[1]].vars)}}

\* README.md, "Arithmetic and Comparison Operators", "If Statements", "Functions":
\* when the code written so far has run, every variable of every scope, the
\* callers' ones included, and every element of an array has the value that the
\* program gave it, and so has the value that eval has just returned.
ValuesRight ==
  ~Running =>
    /\ \A c \in LiveCells : tape[c] = meant[c]
    /\ mode = "value" /\ Live =>
         CASE res.type = "TEMP"    -> tape[res.val] = worth
           [] res.type = "CONST"   -> res.val % Byte = worth
           [] res.type = "ADDRESS" -> tape[res.val] = meant[res.val]

\* What the code prints are the numbers the program prints, in their order, and
\* all of them.
PrintsRight ==
  /\ Running /\ Complete /\ Here.op = "ITOA" =>
       shown # <<>> /\ tape[Here.args[1]] = Head(shown)
  /\ ~Running => shown = <<>> /\ typed = <<>>
=============================================================================
