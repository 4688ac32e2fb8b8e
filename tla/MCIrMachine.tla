----------------------------- MODULE MCIrMachine -----------------------------
(***************************************************************************)
(* Constants for model-checking IrMachine: programs with loops.            *)
(***************************************************************************)
EXTENDS IrMachine

LoopKinds == {"let", "loop", "print_val"}
=============================================================================
