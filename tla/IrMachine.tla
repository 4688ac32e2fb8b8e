------------------------------ MODULE IrMachine ------------------------------
(***************************************************************************)
(* The compiled program running: the IR that Codegen writes is executed on *)
(* a tape of cells that count modulo Byte.                                 *)
(*                                                                         *)
(* The program does not run while it is compiled, but running its code as  *)
(* soon as it is written makes no difference to either, and lets the code  *)
(* be forgotten once it has run, so that programs have no longest length.  *)
(* The code of a block is kept until the block is closed and has run.      *)
(*                                                                         *)
(* An instruction has the effect that ir.h promises (IrEffect) when the    *)
(* cells it takes to be zero are. Where one of these is not, the run has   *)
(* already gone wrong and stops.                                           *)
(***************************************************************************)
EXTENDS Codegen, IrEffect

CONSTANTS
  Byte,       \* cells count modulo Byte
  TapeSize,   \* bound: the last cell the programs of the model reach
  Inputs      \* the characters read_char may read

ASSUME MachineAssumption ==
  Byte \in Nat \ {0, 1} /\ TapeSize \in Nat /\ Inputs \subseteq 0..(Byte - 1)

VARIABLES
  tape,   \* the cells
  pc      \* the instruction about to run

machineVars == <<tape, pc>>

Here == out.code[pc]

Running == pc <= Len(out.code)

\* A block that is still being compiled cannot run yet.
Complete == Balance(out.code, 1, Len(out.code)) = 0

MachineInit ==
  /\ Init
  /\ tape = [c \in 0..TapeSize |-> 0]
  /\ pc = 1

Compile == (Running => ~Complete) /\ Next /\ UNCHANGED machineVars

\* Once all of it has run the code is forgotten.
Forgotten(o) == [code |-> <<>>, dirty |-> o.dirty, unmet |-> o.unmet]

ExecuteReading(input) ==
  /\ Running /\ Complete
  /\ ContractMet(Here, tape)
  /\ ~Derails(Here, tape, Byte)
  /\ tape' = Effect(Here, tape, input, Byte)
  /\ \E next \in Successors(out.code, pc, tape') :
       IF next <= Len(out.code)
         THEN pc' = next /\ UNCHANGED out
         ELSE pc' = 1 /\ out' = Forgotten(out)
  /\ UNCHANGED <<scopes, calls, acts, mode, res, funs>>

Execute == \E input \in Inputs : ExecuteReading(input)

\* The run has gone wrong, or it does what is not modelled.
Stopped ==
  /\ Running /\ Complete
  /\ ~ContractMet(Here, tape) \/ Derails(Here, tape, Byte)
  /\ UNCHANGED <<vars, machineVars>>

MachineNext == Compile \/ Execute \/ Stopped

MachineSpec == MachineInit /\ [][MachineNext]_<<vars, machineVars>>

-----------------------------------------------------------------------------
MachineTypeOK ==
  /\ tape \in [0..TapeSize -> 0..(Byte - 1)]
  /\ pc \in 1..(Len(out.code) + 1)

\* codegen.cpp:255, "Cells at next_free and above are zero, so they can serve as
\* the dump scratch the ops require": whenever an instruction runs, the cells
\* its gadget takes to be zero are zero.
ContractsHold == Running /\ Complete => ContractMet(Here, tape)

\* What Codegen takes to be zero is zero: when all the code written so far has
\* run, a cell that is not zero is one of those the compiler reckons with.
DirtySound ==
  ~Running => \A c \in DOMAIN tape : tape[c] # 0 => c \in out.dirty
=============================================================================
