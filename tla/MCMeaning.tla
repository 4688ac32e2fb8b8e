----------------------------- MODULE MCMeaning ------------------------------
(***************************************************************************)
(* Constants for model-checking Meaning.                                   *)
(***************************************************************************)
EXTENDS Meaning, CodegenProperties, TLC

CONSTANTS f, g

Scalar(n) == [name |-> n, type |-> IntegerType]

\* A function of one argument, and a procedure of two.
Getter  == [returns |-> TRUE, args |-> <<Scalar("x")>>]
TwoArgs == [returns |-> FALSE, args |-> <<Scalar("x"), Scalar("y")>>]

MCSignatures == {Getter, TwoArgs}

\* The two functions differ in name only.
FunSymmetry == Permutations({f, g})

\* struct Inner { Integer a, }  struct Outer { Inner i, Integer b, }
Inner == StructOf("Inner", <<IntegerType>>)
Outer == StructOf("Outer", <<Inner, IntegerType>>)

MCStructTypes == {Inner, Outer}

DataKinds ==
  {"let", "set", "read_char", "binary", "unary", "if", "print_val", "struct", "array",
   "store", "element"}
CallKinds    == {"let", "set", "def", "call", "return"}
BooleanKinds == {"let", "binary"}

HasArray == \E k \in 1..Depth, n \in Names : scopes[k].vars[n].type.class = "ARRAY"

InIf == \E i \in 1..Len(acts) : acts[i].kind = "ifbody"

\* Bound: an if is examined where there are no arrays, and the cells from 5 up
\* are there for the arrays.
Separate == IF HasArray THEN ~InIf ELSE NextFree < 5

\* What a compilation ends in tells its ends apart no further.
MeaningView ==
  IF mode \in {"done", "error", "bound"} THEN <<mode>>
  ELSE <<vars, machineVars, meaningVars>>
=============================================================================
