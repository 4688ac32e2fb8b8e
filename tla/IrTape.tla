------------------------------- MODULE IrTape -------------------------------
(***************************************************************************)
(* The IR that codegen.cpp writes, seen as what each instruction does to   *)
(* the brainfuck tape.  One operator per instruction, named after the      *)
(* method of IRFileWriter (ir.h, ir.cpp) that ircompile calls for it.      *)
(*                                                                         *)
(* The output of the compiler is a record "o":                             *)
(*   code   the instructions written so far (kept only if KeepCode)        *)
(*   dirty  the cells that may be nonzero when control first reaches the   *)
(*          end of the code written so far.  A cell outside it is zero     *)
(*          for certain.                                                   *)
(*   unmet  the cells some instruction took to be zero (its dump or flag,  *)
(*          the target of a copy) while they were dirty                    *)
(*                                                                         *)
(* Cell 0 is the scratch of ADD, SUB and FLIP.  Array accesses are taken   *)
(* to stay inside the array: the language has no bounds checks.            *)
(***************************************************************************)
EXTENDS Integers, Sequences

CONSTANT KeepCode   \* BOOLEAN: whether the instructions themselves are kept

ASSUME KeepCodeAssumption == KeepCode \in BOOLEAN

Truth(b) == IF b THEN 1 ELSE 0

NoOutput == [code |-> <<>>, dirty |-> {}, unmet |-> {}]

\* Write one instruction: "writes" are the cells it may change besides cell 0,
\* "needs" the cells it takes to be zero, "dirty" the dirty cells after it.
Emit(o, op, args, writes, needs, dirty) ==
  [code  |-> IF KeepCode
               THEN Append(o.code, [op |-> op, args |-> args,
                                    writes |-> writes, needs |-> needs])
               ELSE <<>>,
   dirty |-> dirty,
   unmet |-> o.unmet \cup (needs \cap o.dirty)]

-----------------------------------------------------------------------------
(* Straight-line instructions.                                             *)

\* Mutant of Mov: the cell is taken to be zero after it, whatever the value.
MovCleans(o, addr, val) ==
  Emit(o, "MOV", <<addr, val>>, {addr}, {}, o.dirty \ {addr})

Mov(o, addr, val) ==
  Emit(o, "MOV", <<addr, val>>, {addr}, {},
       IF val = 0 THEN o.dirty \ {addr} ELSE o.dirty \cup {addr})

Add(o, dest, src) ==
  Emit(o, "ADD", <<dest, src>>, {dest}, {0}, o.dirty \cup {dest})

\* The same ADD where codegen.cpp uses it as a copy, dest being zero.
Copy(o, dest, src) ==
  Emit(o, "ADD", <<dest, src>>, {dest}, {0, dest}, o.dirty \cup {dest})

\* ADD_CONST into a cell taken to be zero.
Load(o, dest, val) ==
  Emit(o, "ADD_CONST", <<dest, val>>, {dest}, {dest}, o.dirty \cup {dest})

Flip(o, addr) ==
  Emit(o, "FLIP", <<addr>>, {addr}, {0}, o.dirty \cup {addr})

ReadChar(o, addr) ==
  Emit(o, "READ_CHAR", <<addr>>, {addr}, {}, o.dirty \cup {addr})

\* Prints the number in addr. The gadget works in ten cells from dump up, where
\* ir.h speaks of eight, and leaves them zero.
Itoa(o, addr, dump) ==
  LET scratch == dump..(dump + 9)
  IN  Emit(o, "ITOA", <<addr, dump>>, scratch, {0} \cup scratch, o.dirty)

\* The characters go four cells after dest and are added to what is there;
\* the cell after the last one is the terminator.
InsertString(o, dest, chars) ==
  LET text == (dest + 4)..(dest + 3 + chars)
  IN  Emit(o, "INSERT_STRING", <<dest, chars>>, text,
           text \cup {dest + 4 + chars}, o.dirty \cup text)

\* OUZ with "." : zeroes the cell before the first character, prints the rest.
Ouz(o, addr) ==
  Emit(o, "OUZ", <<addr>>, {addr + 3}, {}, o.dirty \ {addr + 3})

-----------------------------------------------------------------------------
(* Arrays: four header cells, then the elements.                           *)

\* RA and RA_CONST clear the header cells they use and overwrite dest.
Ra(o, base, index, dest) ==
  Emit(o, "RA", <<base, index, dest>>, {dest} \cup base..(base + 3), {0},
       o.dirty \cup {dest})

\* SAV, SAV_INDEX_CONST, SAV_VAL_CONST and SAV_FULL_CONST: one of the len
\* elements changes.
Sav(o, base, len, index, target) ==
  Emit(o, "SAV", <<base, index, target>>, base..(base + 3 + len), {0},
       o.dirty \cup (base + 4)..(base + 3 + len))

-----------------------------------------------------------------------------
(* The binary operators: acc is the left operand and receives the result;  *)
(* right is a constant or a cell.                                          *)

Flags   == {"EQ", "NEQ", "LESS", "GREATER", "LESS_OR_EQ", "GREATER_OR_EQ"}
BinOps  == {"ADD", "SUB", "MUL", "DIV", "MOD", "OR", "AND"} \cup Flags

\* The cells from dump (flag for the comparisons) up that the gadget works in.
\* They are taken to be zero before, and but for a verdict it leaves them zero.
\* DIV and MOD work in six, where ir.h speaks of four.
Scratch ==
  [op \in BinOps |->
     IF op \in {"ADD", "SUB", "OR"} THEN 0
     ELSE IF op \in {"MUL", "EQ", "NEQ"} THEN 2
     ELSE IF op = "AND" THEN 3
     ELSE 6]

\* A comparison leaves its verdict in dump, from where it is moved into acc.
BinaryOp(o, op, acc, right, dump) ==
  LET scratch == dump..(dump + Scratch[op] - 1)
      args    == <<acc, right, dump>>
  IN  IF op \in Flags
        THEN Mov(Add(Mov(Emit(o, op, args, scratch, {0} \cup scratch,
                              o.dirty \cup {dump}),
                         acc, 0),
                     acc, dump),
                 dump, 0)
        ELSE Emit(o, op, args, {acc} \cup scratch, {0} \cup scratch,
                  o.dirty \cup {acc})

-----------------------------------------------------------------------------
(* Control flow.  A block may be skipped or left at its end, so what is    *)
(* dirty after it is what was dirty before it or is dirty at its end,      *)
(* without the flag or counter, which both ends leave at zero.  The cells  *)
(* a loop body finds dirty are those of its FIRST iteration only.          *)

Open(o, op, cell) == Emit(o, op, <<cell>>, {}, {}, o.dirty)

Close(o, op, cell, before) ==
  Emit(o, op, <<cell>>, {cell}, {}, (o.dirty \cup before) \ {cell})

\* A MOV to zero for each cell from first to last, except the kept one, if any.
Wipe(o, first, last, kept) ==
  LET spared   == kept \cap first..last
      Wiped(i) == first + i - 1 + Truth(\E c \in spared : c < first + i)
      movs     == [i \in 1..(last - first + 1 - Truth(spared # {})) |->
                     [op |-> "MOV", args |-> <<Wiped(i), 0>>,
                      writes |-> {Wiped(i)}, needs |-> {}]]
  IN  [code  |-> IF KeepCode THEN o.code \o movs ELSE <<>>,
       dirty |-> o.dirty \ ((first..last) \ kept),
       unmet |-> o.unmet]
=============================================================================
