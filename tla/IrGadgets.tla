------------------------------ MODULE IrGadgets ------------------------------
(***************************************************************************)
(* The brainfuck that IRFileWriter (ir.cpp) writes for an instruction, by  *)
(* way of compile_line in ircompile.cpp.                                   *)
(*                                                                         *)
(* A text is a sequence of tokens [op, n]: "move" n cells to the right,    *)
(* "add" n to the cell, and the other characters with n = 1.  Runs that    *)
(* the code writes in a loop are one token.                                *)
(***************************************************************************)
EXTENDS IrTape, SequencesExt

Token(op, n) == [op |-> op, n |-> n]

Character(c) ==
  CASE c = ">" -> Token("move", 1)
    [] c = "<" -> Token("move", -1)
    [] c = "+" -> Token("add", 1)
    [] c = "-" -> Token("add", -1)
    [] OTHER   -> Token(c, 1)

Bf(s) == [i \in 1..Len(s) |-> Character(SubSeq(s, i, i))]

\* IRFileWriter::shift.
Shift(from, to) == IF from = to THEN <<>> ELSE <<Token("move", to - from)>>

Plus(n) == IF n = 0 THEN <<>> ELSE <<Token("add", n)>>

\* From cell 0 to each of the stops, a cell and what is written there, and back.
Visit(stops) ==
  LET From(i) == IF i = 1 THEN 0 ELSE stops[i - 1][1]
  IN  FlattenSeq([i \in 1..Len(stops) |-> Shift(From(i), stops[i][1]) \o stops[i][2]])
        \o Shift(stops[Len(stops)][1], 0)

Route(stops) == Visit([i \in 1..Len(stops) |-> <<stops[i][1], Bf(stops[i][2])>>])

-----------------------------------------------------------------------------
MovText(addr, val) == Visit(<< <<addr, Bf("[-]") \o Plus(val)>> >>)

\* Mutant of Transfer: the source is not put back.
TransferOnly(dest, src, n) ==
  Visit(<< <<src, Bf("[")>>, <<dest, Plus(n)>>, <<src, Bf("-]")>> >>)

\* n is added to dest as often as src says, and src comes back from cell 0.
Transfer(dest, src, n) ==
  Visit(<< <<src, Bf("[")>>, <<dest, Plus(n)>>, <<0, Bf("+")>>, <<src, Bf("-]")>>,
           <<0, Bf("[")>>, <<src, Bf("+")>>, <<0, Bf("-]")>> >>)

AddText(dest, src) == Transfer(IF src = dest THEN 0 ELSE dest, src, 1)

AddConstText(dest, val) == Visit(<< <<dest, Plus(val)>> >>)

SubText(dest, src) == IF src = dest THEN MovText(src, 0) ELSE Transfer(dest, src, -1)

SubConstText(dest, val) == AddConstText(dest, -val)

\* Characters whose code is 1, which is as good as any.
InsertStringText(dest, chars) ==
  Visit([i \in 1..(chars + 1) |->
           <<dest + 3 + i, IF i <= chars THEN Plus(1) ELSE <<>> >>])

OuzText(addr) == Route(<< <<addr + 3, "[-]>[.>]<[<]">> >>)

LoopText(cell)    == Route(<< <<cell, "[">> >>)
EndLoopText(cell) == Route(<< <<cell, "-]">> >>)
EndIfText(cell)   == Route(<< <<cell, "[-]]">> >>)

\* Cell 0 is one unless addr is not zero, and what it holds goes to addr.
FlipText(addr) ==
  Route(<< <<0, "+">>, <<addr, "[">>, <<0, "-">>, <<addr, "[-]]">>, <<0, "[-">>,
            <<addr, "+">>, <<0, "]">> >>)

ReadCharText(addr) == Route(<< <<addr, ",">> >>)

-----------------------------------------------------------------------------
(* The binary operators. Their right operand r is a cell or a constant,    *)
(* which parse_byte has cut down to width; the methods for the two differ  *)
(* only in how the operand is put into place.                              *)

Byte(r, width) == r.val % width

\* Add the operand to a cell, subtract it from one.
Plussed(cell, r, width) ==
  IF r.type = "CONST" THEN AddConstText(cell, Byte(r, width)) ELSE AddText(cell, r.val)

Minussed(cell, r, width) ==
  IF r.type = "CONST" THEN SubConstText(cell, Byte(r, width)) ELSE SubText(cell, r.val)

MulText(dest, r, dump, width) ==
  MovText(dump, 0) \o AddText(dump, dest) \o MovText(dest, 0) \o MovText(dump + 1, 0) \o
  LoopText(dump) \o Plussed(dump + 1, r, width) \o LoopText(dump + 1) \o
  AddConstText(dest, 1) \o EndLoopText(dump + 1) \o EndLoopText(dump)

NeqText(a, r, flag, width) ==
  MovText(flag, 0) \o Plussed(flag, r, width) \o SubText(flag, a) \o
  LoopText(flag) \o AddConstText(flag + 1, 1) \o EndIfText(flag) \o
  LoopText(flag + 1) \o MovText(flag, 0) \o AddConstText(flag, 1) \o EndIfText(flag + 1)

EqText(a, r, flag, width) == NeqText(a, r, flag, width) \o FlipText(flag)

\* Both numbers are counted down together, the smaller one decides: l < r.
LessText(l, r, flag, width) ==
  LET x == flag
      y == flag + 1
      temp0 == flag + 2
      temp1 == flag + 3
  IN  Plussed(x, l, width) \o Plussed(y, r, width) \o
      Route(<< <<temp0, "[-]">>, <<temp1, "[-]>[-]+>[-]<<">>,
                <<y, "[">>, <<temp0, "+">>, <<temp1, "+">>, <<y, "-]">>,
                <<temp0, "[">>, <<y, "+">>, <<temp0, "-]">>,
                <<x, "[">>, <<temp0, "+">>, <<x, "-]+">>,
                <<temp1, "[>-]>[<">>, <<x, "-">>, <<temp0, "[-]">>, <<temp1, ">->]<+<">>,
                <<temp0, "[">>, <<temp1, "-[>-]>[<">>, <<x, "-">>, <<temp0, "[-]+">>,
                <<temp1, ">->]<+<">>, <<temp0, "-]">> >>) \o
      FlattenSeq([i \in 1..5 |-> MovText(flag + i, 0)])

\* The verdict of eq, one cell up, is added to that of less or greater.
OrEqualText(strict, a, r, flag, width) ==
  strict \o EqText(a, r, flag + 1, width) \o Route(<< <<flag + 1, "[<+>-]">> >>)

AndText(a, r, dump, width) ==
  LET y == IF r.type = "CONST" THEN MovText(dump + 1, Byte(r, width))
                               ELSE AddText(dump + 1, r.val)
  IN  AddText(dump, a) \o y \o
      Route(<< <<dump, "[">>, <<dump + 1, "[">>, <<dump + 2, "+">>, <<dump + 1, "-]">>,
                <<dump, "-]">>, <<dump + 1, "[-]">> >>) \o
      MovText(dump, 0) \o MovText(dump + 1, 0) \o MovText(a, 0) \o
      AddText(a, dump + 2) \o MovText(dump + 2, 0)

\* The quotient ends up three cells after dump, the remainder two.
DivModText(a, r, dump, width, quotient) ==
  LET result == IF quotient THEN dump + 3 ELSE dump + 2
      other  == IF quotient THEN dump + 2 ELSE dump + 3
  IN  AddText(dump, a) \o Plussed(dump + 1, r, width) \o
      Route(<< <<dump, "[->[->+>>]>[<<+>>[-<+>]>+>>]<<<<<]>[>>>]>[[-<+>]>+>>]<<<<<">> >>)
        \o MovText(a, 0) \o MovText(dump + 1, 0) \o MovText(other, 0) \o
      AddText(a, result) \o MovText(result, 0)

BinaryText(op, a, r, dump, width) ==
  LET left == [type |-> "ADDRESS", val |-> a]
      less    == LessText(left, r, dump, width)
      greater == LessText(r, left, dump, width)
  IN  CASE op \in {"ADD", "OR"}  -> Plussed(a, r, width)
        [] op = "SUB"            -> Minussed(a, r, width)
        [] op = "MUL"            -> MulText(a, r, dump, width)
        [] op \in {"DIV", "MOD"} -> DivModText(a, r, dump, width, op = "DIV")
        [] op = "AND"            -> AndText(a, r, dump, width)
        [] op = "NEQ"            -> NeqText(a, r, dump, width)
        [] op = "EQ"             -> EqText(a, r, dump, width)
        [] op = "LESS"           -> less
        [] op = "GREATER"        -> greater
        [] op = "LESS_OR_EQ"     -> OrEqualText(less, a, r, dump, width)
        [] op = "GREATER_OR_EQ"  -> OrEqualText(greater, a, r, dump, width)

-----------------------------------------------------------------------------
(* Numbers in decimal, and the elements of arrays.                         *)

ItoaText(addr, dump) ==
  AddText(dump, addr) \o
  Route(<< <<dump,
    ">[-]>[-]+>[-]+<[>[-<-<<[->+>+<<]>[-<+>]>>]++++++++++>[-]+>[-]>[-]>[-]<<<<<[->-[>+>>]>[[-<+>]+>+>>]<<<<<]>>-[-<<+>>]<[-]++++++++[-<++++++>]>>[-<<+>>]<<]<[.[-]<]<[-]">> >>)

\* Two copies of the index: one to go to the element by, one to come back.
IndexText(base, index, width) ==
  IF index.type = "CONST"
    THEN MovText(base + 1, Byte(index, width)) \o MovText(base + 2, Byte(index, width))
    ELSE MovText(base + 1, 0) \o MovText(base + 2, 0) \o
         AddText(base + 1, index.val) \o AddText(base + 2, index.val)

\* compile_line reads the destination of RA_CONST with parse_byte too.
RaText(base, index, dest, width) ==
  LET to == IF index.type = "CONST" THEN dest % width ELSE dest
  IN  IndexText(base, index, width) \o MovText(base + 3, 0) \o
      Route(<< <<base,
        ">[>>>[-<<<<+>>>>]<<[->+<]<[->+<]>-]>>>[-<+<<+>>>]<<<[->>>+<<<]>[[-<+>]>[-<+>]<<<<[->>>>+<<<<]>>-]<<">> >>) \o
      MovText(to, 0) \o AddText(to, base + 3) \o MovText(base + 3, 0)

SavText(base, index, target, width) ==
  LET target3 == IF target.type = "CONST" THEN MovText(base + 3, Byte(target, width))
                 ELSE MovText(base + 3, 0) \o AddText(base + 3, target.val)
  IN  IndexText(base, index, width) \o target3 \o
      Route(<< <<base,
        ">[>>>[-<<<<+>>>>]<[->+<]<[->+<]<[->+<]>-]>>>[-]<[->+<]<[[-<+>]<<<[->>>>+<<<<]>>-]<<">> >>) \o
      MovText(base + 3, 0)

-----------------------------------------------------------------------------
\* compile_line: the method for an instruction of IrTape.
GadgetText(ins, width) ==
  LET a == ins.args[1]
      b == ins.args[2]
      c == ins.args[3]
  IN  CASE ins.op = "MOV"           -> MovText(a, b % width)
        [] ins.op = "ADD" /\ Len(ins.args) = 2 -> AddText(a, b)
        [] ins.op = "ADD_CONST"     -> AddConstText(a, b % width)
        [] ins.op = "FLIP"          -> FlipText(a)
        [] ins.op = "READ_CHAR"     -> ReadCharText(a)
        [] ins.op = "ITOA"          -> ItoaText(a, b)
        [] ins.op = "INSERT_STRING" -> InsertStringText(a, b)
        [] ins.op = "OUZ"           -> OuzText(a)
        [] ins.op = "RA"            -> RaText(a, b, c, width)
        [] ins.op = "SAV"           -> SavText(a, b, c, width)
        [] ins.op \in {"LOOP", "DOIF"} -> LoopText(a)
        [] ins.op = "ENDLOOP"       -> EndLoopText(a)
        [] ins.op = "ENDIF"         -> EndIfText(a)
        [] ins.op \in BinOps /\ Len(ins.args) = 3 -> BinaryText(ins.op, a, b, c, width)
=============================================================================
