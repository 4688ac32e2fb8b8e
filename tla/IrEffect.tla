------------------------------ MODULE IrEffect ------------------------------
(***************************************************************************)
(* What one IR instruction does to a tape, when the cells its gadget takes *)
(* to be zero are zero: the promise of ir.h. IrMachine runs whole programs *)
(* by it, and Backend compares the brainfuck of ir.cpp with it.            *)
(***************************************************************************)
EXTENDS IrTape, FiniteSets

\* The operand of an instruction: a constant or a cell.
Operand(t, r, width) == IF r.type = "CONST" THEN r.val % width ELSE t[r.val]

\* Mutant of Put: a cell holds any number.
PutUnbounded(t, cell, val, width) == [t EXCEPT ![cell] = val]

\* A cell counts modulo width.
Put(t, cell, val, width) == [t EXCEPT ![cell] = val % width]

\* What a binary operator makes of two cell values. OR is an addition; AND is
\* the right operand when the left one is not zero.
Computed(op, l, r) ==
  CASE op \in {"ADD", "OR"}  -> l + r
    [] op = "SUB"            -> l - r
    [] op = "MUL"            -> l * r
    [] op = "DIV"            -> l \div r
    [] op = "MOD"            -> l % r
    [] op = "AND"            -> IF l = 0 THEN 0 ELSE r
    [] op = "EQ"             -> Truth(l = r)
    [] op = "NEQ"            -> Truth(l # r)
    [] op = "LESS"           -> Truth(l < r)
    [] op = "GREATER"        -> Truth(l > r)
    [] op = "LESS_OR_EQ"     -> Truth(l <= r)
    [] op = "GREATER_OR_EQ"  -> Truth(l >= r)

\* After a division by zero the pointer is not where the next instruction takes
\* it to be, and an array whose first cell is not zero is not read and written
\* where its index says. What the program does from there on is not modelled.
Derails(ins, t, width) ==
  \/ ins.op \in {"DIV", "MOD"} /\ Operand(t, ins.args[2], width) = 0
  \/ ins.op \in {"RA", "SAV"} /\ t[ins.args[1]] # 0

\* BinaryOp writes ADD with three arguments, an operator of the language; Add
\* and Copy write it with two cells.
IsOperator(ins) == ins.op \in BinOps /\ Len(ins.args) = 3

Effect(ins, t, input, width) ==
  LET a == ins.args[1]
      Into(cell, val) == Put(t, cell, val, width)
      Right == Operand(t, ins.args[2], width)
  IN  CASE ins.op = "MOV"        -> Into(a, ins.args[2])
        [] ins.op = "ADD" /\ ~IsOperator(ins) -> Into(a, t[a] + t[ins.args[2]])
        [] ins.op = "ADD_CONST"  -> Into(a, t[a] + ins.args[2])
        [] ins.op = "FLIP"       -> Into(a, Truth(t[a] = 0))
        [] ins.op = "READ_CHAR"  -> Into(a, input)
        [] ins.op = "INSERT_STRING" ->
             [c \in DOMAIN t |-> IF c \in ins.writes THEN (t[c] + 1) % width ELSE t[c]]
        [] ins.op = "OUZ"        -> Into(a + 3, 0)
        [] ins.op = "RA"         -> Into(ins.args[3], t[a + 4 + Right])
        [] ins.op = "SAV"        ->
             Into(a + 4 + Right, Operand(t, ins.args[3], width))
        [] IsOperator(ins)       ->
             Into(IF ins.op \in Flags THEN ins.args[3] ELSE a,
                  Computed(ins.op, t[a], Right))
        [] ins.op = "ENDLOOP"    -> Into(a, t[a] - 1)
        [] ins.op = "ENDIF"      -> Into(a, 0)
        [] OTHER                 -> t

\* What it prints: a number in decimal, or the cells up to the first zero.
Prints(ins, t) ==
  LET a == ins.args[1]
      ends == {c \in DOMAIN t : c >= a + 4 /\ t[c] = 0}
      end  == CHOOSE c \in ends : \A d \in ends : c <= d
  IN  CASE ins.op = "ITOA" ->
             (IF t[a] >= 100 THEN <<48 + (t[a] \div 100)>> ELSE <<>>) \o
             (IF t[a] >= 10 THEN <<48 + ((t[a] \div 10) % 10)>> ELSE <<>>) \o
             <<48 + (t[a] % 10)>>
        [] ins.op = "OUZ"  -> [i \in 1..(end - a - 4) |-> t[a + 3 + i]]
        [] OTHER -> <<>>

-----------------------------------------------------------------------------
(* Blocks nest: the partner of a "[" is the first "]" at which as many have *)
(* been closed as opened.                                                   *)

Opens(ins)  == ins.op \in {"LOOP", "DOIF"}
Closes(ins) == ins.op \in {"ENDLOOP", "ENDIF"}

\* How many more blocks code[i] to code[j] open than they close.
Balance(code, i, j) ==
  Cardinality({k \in i..j : Opens(code[k])}) - Cardinality({k \in i..j : Closes(code[k])})

Partners(code, i, j) ==
  /\ Opens(code[i]) /\ Closes(code[j]) /\ Balance(code, i, j) = 0
  /\ \A k \in i..(j - 1) : Balance(code, i, k) > 0

\* What runs after code[i] has left the tape t: "[" skips a block whose cell is
\* zero, "]" repeats one whose cell is not.
Successors(code, i, t) ==
  LET cell == code[i].args[1]
  IN  CASE Opens(code[i]) /\ t[cell] = 0 ->
             {j + 1 : j \in {k \in i..Len(code) : Partners(code, i, k)}}
        [] Closes(code[i]) /\ t[cell] # 0 ->
             {j + 1 : j \in {k \in 1..i : Partners(code, k, i)}}
        [] OTHER -> {i + 1}

\* The cells an instruction takes to be zero are.
ContractMet(ins, t) == \A c \in ins.needs : t[c] = 0
=============================================================================
