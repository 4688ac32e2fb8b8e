-------------------------------- MODULE IrRun --------------------------------
(***************************************************************************)
(* A compiled program as its author sees it: the IR instructions run one   *)
(* after the other, each with the effect that ir.h promises.               *)
(***************************************************************************)
EXTENDS IrEffect

CONSTANTS
  Programs,  \* a sequence of [code, width, starts]: the instructions, how far a
             \* cell counts, the tapes it may find
  Inputs     \* the characters read_char may read

VARIABLES
  code,      \* the program that runs
  width,     \* how far a cell counts
  tape,      \* its cells
  pc,        \* the instruction that runs next
  printed    \* the characters printed so far

runVars == <<code, width, tape, pc, printed>>

Init ==
  /\ \E i \in 1..Len(Programs) :
       /\ code = Programs[i].code
       /\ width = Programs[i].width
       /\ tape \in Programs[i].starts
  /\ pc = 1
  /\ printed = <<>>

Execute ==
  /\ pc <= Len(code)
  /\ ContractMet(code[pc], tape)
  /\ ~Derails(code[pc], tape, width)
  /\ \E input \in Inputs : tape' = Effect(code[pc], tape, input, width)
  /\ pc' \in Successors(code, pc, tape')
  /\ printed' = printed \o Prints(code[pc], tape)
  /\ UNCHANGED <<code, width>>

\* Whatever can run does.
Spec == Init /\ [][Execute]_runVars /\ WF_runVars(Execute)
=============================================================================
