------------------------------ MODULE MCBackend ------------------------------
(***************************************************************************)
(* Constants for model-checking Backend: the programs are single IR        *)
(* instructions, written as codegen.cpp writes them, and small blocks.     *)
(***************************************************************************)
EXTENDS Backend

\* The tapes that hold any of the values in the free cells and zero elsewhere.
Tapes(last, free, values) ==
  {[c \in 0..last |-> IF c \in free THEN t[c] ELSE 0] : t \in [free -> values]}

Program(o, counts, starts) == [code |-> o.code, width |-> counts, starts |-> starts]

Address(c) == [type |-> "ADDRESS", val |-> c]
Const(v)   == [type |-> "CONST", val |-> v]

-----------------------------------------------------------------------------
\* The binary operators. Cell 1 is the left operand, cell 2 may be the right
\* one, 3 and up are scratch, and the last cell is nobody's.
Binary(op, right) ==
  LET ins   == [BinaryOp(NoOutput, op, 1, right, 3) EXCEPT !.code = <<@[1]>>]
      last  == 3 + Scratch[op]
      cells == IF right.type = "CONST" THEN {1, last} ELSE {1, right.val, last}
  IN  Program(ins, 4, {t \in Tapes(last, cells, 0..3) :
                         op \in {"DIV", "MOD"} /\ right.type = "ADDRESS" =>
                           t[right.val] # 0})

Operators == <<"ADD", "SUB", "OR", "AND", "MUL", "DIV", "MOD", "EQ", "NEQ", "LESS",
               "GREATER", "LESS_OR_EQ", "GREATER_OR_EQ">>

\* codegen.cpp never multiplies a cell by itself.
Binaries ==
  [i \in 1..13 |-> Binary(Operators[i], Address(2))] \o
  [i \in 1..13 |-> Binary(Operators[i], Const(2))] \o
  [i \in 1..12 |->
     Binary(SelectSeq(Operators, LAMBDA op : op # "MUL")[i], Address(1))]

-----------------------------------------------------------------------------
\* The other straight-line instructions, on cells 1 and 2.
Simple(o) == Program(o, 4, Tapes(3, {1, 2, 3}, 0..3))

WithZero(cells) == {t \in Tapes(3, {1, 2, 3}, 0..3) : \A c \in cells : t[c] = 0}

Simples ==
  << Simple(Mov(NoOutput, 2, 0)), Simple(Mov(NoOutput, 1, 7)),
     Simple(Add(NoOutput, 1, 2)), Simple(Flip(NoOutput, 2)), Simple(ReadChar(NoOutput, 2)),
     Program(Copy(NoOutput, 2, 1), 4, WithZero({2})),
     Program(Load(NoOutput, 1, 3), 4, WithZero({1})) >>

\* A number with one digit and with more; the tape is that of a real cell.
Numbers ==
  << Program(Itoa(NoOutput, 1, 3), 256, Tapes(12, {1}, {0, 7, 10, 100, 205, 255})) >>

\* A string at cell 1 and its printing. The cell before the text and the text
\* itself may hold anything; there is a zero after it.
Texts ==
  << Program(InsertString(NoOutput, 0, 2), 4, Tapes(6, {1, 2, 3}, 0..3)),
     Program(Ouz(NoOutput, 0), 4, Tapes(6, {1, 3, 4, 5}, 0..3)) >>

-----------------------------------------------------------------------------
\* An array with three elements at cell 3, its elements at 7; cells 1 and 2 hold
\* an index and a value, cell 10 is nobody's.
Elements(index) ==
  {t \in Tapes(10, {1, 2} \cup 7..10, 0..2) :
     /\ t[10] = 2
     /\ index.type = "CONST" => t[1] = 1}

Arrays ==
  << Program(Ra(NoOutput, 3, Address(1), 2), 8, Elements(Address(1))),
     Program(Ra(NoOutput, 3, Address(1), 1), 8, Elements(Address(1))),
     Program(Ra(NoOutput, 3, Const(2), 2), 8, Elements(Const(2))),
     Program(Sav(NoOutput, 3, 3, Address(1), Address(2)), 8, Elements(Address(1))),
     Program(Sav(NoOutput, 3, 3, Address(1), Address(1)), 8, Elements(Address(1))),
     Program(Sav(NoOutput, 3, 3, Address(1), Const(5)), 8, Elements(Address(1))),
     Program(Sav(NoOutput, 3, 3, Const(2), Address(2)), 8, Elements(Const(2))),
     Program(Sav(NoOutput, 3, 3, Const(0), Const(5)), 8, Elements(Const(0))) >>

-----------------------------------------------------------------------------
\* Blocks: a counted loop with one in it, and an if in a loop.
Block(op, end, cell, body(_), o) ==
  Close(body(Open(o, op, cell)), end, cell, {})

Blocks ==
  LET Inner(o)  == Load(Mov(Add(o, 3, 2), 4, 0), 4, 1)
      Empty(o)  == o
      Nested(o) == Add(Block("DOIF", "ENDIF", 2, Inner, o), 4, 3)
      Counted(o) == Add(Block("LOOP", "ENDLOOP", 2, Inner, Mov(o, 2, 2)), 3, 4)
      blocks == <<Block("LOOP", "ENDLOOP", 1, Empty, NoOutput),
                  Block("DOIF", "ENDIF", 1, Inner, NoOutput),
                  Block("LOOP", "ENDLOOP", 1, Inner, NoOutput),
                  Block("LOOP", "ENDLOOP", 1, Nested, NoOutput),
                  Block("LOOP", "ENDLOOP", 1, Counted, NoOutput)>>
  IN  [i \in 1..Len(blocks) |-> Program(blocks[i], 4, Tapes(5, {1, 2, 5}, 0..3))]

\* RA_CONST into cell 12, where a byte counts modulo 8.
FarDest == <<Program(Ra(NoOutput, 3, Const(2), 12), 8, Tapes(12, 7..9, 0..2))>>

MCPrograms == Binaries \o Simples \o Numbers \o Texts \o Arrays \o Blocks
=============================================================================
