------------------------------ MODULE MCCodegen ------------------------------
(***************************************************************************)
(* Constants for model-checking Codegen: small sets of names, literals and *)
(* operators, and the statement and expression forms of each run.          *)
(***************************************************************************)
EXTENDS CodegenProperties, TLC

CONSTANTS f, g

\* struct Pair { Integer a, Integer b, }
Pair == StructOf("Pair", <<IntegerType, IntegerType>>)

\* The literal "a": a token of three characters.
OneLetter == [size |-> 3, chars |-> 1]

Parm(n, t) == [name |-> n, type |-> t]

Procedure == [returns |-> FALSE, args |-> <<Parm("x", IntegerType)>>]
Getter    == [returns |-> TRUE, args |-> <<Parm("x", IntegerType)>>]

MCStrings      == {OneLetter}
MCStructTypes  == {Pair}
CallSignatures == {Procedure, Getter}

\* The two functions differ in name only.
FunSymmetry == Permutations({f, g})

ExprOps   == {"SUB", "LESS", "AND", "DIV"}
ExprForms == {"let", "set", "read_char", "unary", "binary", "element", "array",
              "store", "print_val"}
CallForms == {"let", "set", "read_char", "binary", "def", "call", "return"}
BlockForms == {"let", "set", "loop", "if", "string", "struct", "print_str",
               "print_val", "read_char"}

HasText == \E k \in 1..Depth, n \in Names : scopes[k].vars[n].type.class = "ARRAY"

\* Bound: the cells from 5 up are there for the strings, and what comes after one.
Separate == NextFree < 5 \/ (HasText /\ Len(acts) < 3)

\* The state but for the code already written: with MaxCode out of reach no step
\* depends on it, and a property that looks at the code looks at what one step
\* adds. How a compilation has ended tells its ends apart no further.
StateView ==
  IF mode \in {"done", "error", "bound"} THEN <<mode>>
  ELSE <<scopes, calls, acts, mode, res, funs, out.dirty, out.unmet>>
=============================================================================
