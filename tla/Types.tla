-------------------------------- MODULE Types --------------------------------
(***************************************************************************)
(* The types of biff (types.cpp): how many cells a value takes, and where  *)
(* in a struct its fields lie.  A type is a record of its name, its class, *)
(* its size and its places, which are the fields of a struct with those of *)
(* the structs nested in it, each as its offset and type.                  *)
(***************************************************************************)
EXTENDS Integers, Sequences

IntegerType == [name |-> "Integer", class |-> "BUILTIN", size |-> 1, places |-> {}]

ArrayType(n) == [name |-> "[]", class |-> "ARRAY", size |-> n + 4, places |-> {}]

StructType(name) == [name |-> name, class |-> "USERDEF", size |-> 0, places |-> {}]

\* The next field starts where the fields before it end.
AddField(t, type) ==
  LET Place(p) == [offset |-> t.size + p.offset, type |-> p.type]
  IN  [t EXCEPT !.size   = @ + type.size,
                !.places = @ \cup {[offset |-> t.size, type |-> type]}
                             \cup {Place(p) : p \in type.places}]

\* DefineStructStmt::generate: a struct of fields of these types.
StructOf(name, types) ==
  LET upTo[i \in 0..Len(types)] ==
        IF i = 0 THEN StructType(name) ELSE AddField(upTo[i - 1], types[i])
  IN  upTo[Len(types)]
=============================================================================
