------------------------------- MODULE Backend -------------------------------
(***************************************************************************)
(* From IR to a running program: the brainfuck of ir.cpp goes through      *)
(* bfopt (bfopt.cpp) and is run by the interpreter (interpreter.cpp), one  *)
(* character, or one run of "+" or "-", at a time.                         *)
(***************************************************************************)
EXTENDS IrGadgets

CONSTANTS
  Programs,  \* a sequence of [code, width, starts]: the instructions, how far a
             \* cell counts, the tapes it may find
  Inputs     \* the characters read_char may read

VARIABLES
  code,      \* the IR of the program that runs
  width,     \* how far a cell counts
  text,      \* its brainfuck
  match,     \* for every bracket in it, where its partner is
  pos,       \* curr_instr
  ptr,       \* the cell the interpreter is at
  tape,
  output,    \* what has been written to cout
  entered    \* history: tape and output when the current IR instruction began

vars == <<code, width, text, match, pos, ptr, tape, output, entered>>

\* A run of moves as one. Mutant of Net: those to the left are lost.
NetRight(moves) == FoldLeft(LAMBDA net, m : IF m.n > 0 THEN net + m.n ELSE net, 0, moves)

Net(moves) == FoldLeft(LAMBDA net, m : net + m.n, 0, moves)

\* bfopt keeps back the moves it reads and writes what they come to before the
\* next other character, and at the end. An instruction of its output is such a
\* character with the moves before it.
Optimize(tokens) ==
  LET written == SelectSeq([i \in 1..Len(tokens) |-> i], LAMBDA i : tokens[i].op # "move")
      Since(k) == IF k = 1 THEN 1 ELSE written[k - 1] + 1
      Moves(k) == SubSeq(tokens, Since(k), written[k] - 1)
  IN  [k \in 1..Len(written) |-> [move |-> Net(Moves(k))] @@ tokens[written[k]]]

\* Every token with the instruction it comes from; the end is an instruction too.
Brainfuck ==
  LET Gadget(i) == IF i > Len(code) THEN <<Token("end", 0)>>
                                    ELSE GadgetText(code[i], width)
      From(i)   == LET gadget == Gadget(i)
                   IN  [j \in 1..Len(gadget) |-> [from |-> i] @@ gadget[j]]
  IN  Optimize(FlattenSeq([i \in 1..(Len(code) + 1) |-> From(i)]))

\* run_bf finds the partners of brackets before it runs anything.
MatchOf(bf) ==
  LET brackets == SelectSeq([i \in 1..Len(bf) |-> i], LAMBDA i : bf[i].op \in {"[", "]"})
      Nested(read, i) ==
        IF bf[i].op = "[" THEN [read EXCEPT !.open = Append(@, i)]
        ELSE LET open == read.open[Len(read.open)]
             IN  [open  |-> SubSeq(read.open, 1, Len(read.open) - 1),
                  match |-> (open :> i) @@ (i :> open) @@ read.match]
  IN  FoldLeft(Nested, [open |-> <<>>, match |-> <<>>], brackets).match

-----------------------------------------------------------------------------
Here  == text[pos]
Cell  == ptr + Here.move
Value == tape[Cell]

\* A new IR instruction begins, or one of a block begins again.
Begins(next) ==
  \/ text[next].from # Here.from
  \/ Here.op = "]" /\ text[match[pos]].from # Here.from

GoTo(next) ==
  /\ pos' = next
  /\ ptr' = Cell
  /\ entered' = IF Begins(next) THEN [tape |-> tape', output |-> output'] ELSE entered
  /\ UNCHANGED <<code, width, text, match>>

At(ops) == Here.op \in ops /\ Cell \in DOMAIN tape

\* Mutant of Count: a cell does not wrap around.
CountUnbounded ==
  /\ At({"add"})
  /\ tape' = [tape EXCEPT ![Cell] = Value + Here.n]
  /\ UNCHANGED output
  /\ GoTo(pos + 1)

Count ==
  /\ At({"add"})
  /\ tape' = [tape EXCEPT ![Cell] = (Value + Here.n) % width]
  /\ UNCHANGED output
  /\ GoTo(pos + 1)

Jumps == (Here.op = "[" /\ Value = 0) \/ (Here.op = "]" /\ Value # 0)

Bracket ==
  /\ At({"[", "]"})
  /\ UNCHANGED <<tape, output>>
  /\ GoTo(IF Jumps THEN match[pos] + 1 ELSE pos + 1)

PutChar ==
  /\ At({"."})
  /\ output' = Append(output, Value)
  /\ UNCHANGED tape
  /\ GoTo(pos + 1)

\* The end of the input reads as zero.
GetChar ==
  /\ At({","})
  /\ \E input \in Inputs : tape' = [tape EXCEPT ![Cell] = input]
  /\ UNCHANGED output
  /\ GoTo(pos + 1)

Stopped == Here.op = "end" /\ UNCHANGED vars

Init ==
  /\ \E i \in 1..Len(Programs) :
       /\ code = Programs[i].code
       /\ width = Programs[i].width
       /\ text = Brainfuck
       /\ match = MatchOf(text)
       /\ tape \in Programs[i].starts
  /\ pos = 1
  /\ ptr = 0
  /\ output = <<>>
  /\ entered = [tape |-> tape, output |-> <<>>]

Next == Count \/ Bracket \/ PutChar \/ GetChar \/ Stopped

\* The interpreter runs on until the program ends.
Spec == Init /\ [][Next]_vars /\ WF_vars(Next)
-----------------------------------------------------------------------------
TypeOK ==
  /\ pos \in 1..Len(text)
  /\ tape \in [DOMAIN tape -> 0..(width - 1)]

\* The interpreter does not check where its pointer is (interpreter.cpp:42): no
\* gadget leaves the cells it was given, and the program ends at cell 0 again.
PointerHeld == Cell \in DOMAIN tape /\ (Here.op = "end" => Cell = 0)

\* IRFileWriter's promise in ir.h: whenever the instruction's last character has
\* run, the tape is what the IR instruction makes of it, its scratch cells zero
\* again and every other cell as it was, and what it had to print is printed; and
\* every instruction ends, but for a division by zero.
IR == INSTANCE IrRun WITH
        tape    <- entered.tape,
        printed <- entered.output,
        pc      <- Here.from

MeansIR == IR!Spec
=============================================================================
