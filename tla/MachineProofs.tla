---------------------------- MODULE MachineProofs ---------------------------
(***************************************************************************)
(* Proofs about the compiled program running: what the compiler takes to   *)
(* be zero is zero when it runs, whichever way it goes through its ifs.    *)
(*                                                                         *)
(* The compiler keeps one set of dirty cells, of the end of the code it    *)
(* has written. The run may be anywhere in that code. So the proofs go by  *)
(* a chart of the code: at each instruction the cells that may be nonzero  *)
(* when it is about to run. That every step of the compiler continues the  *)
(* chart is the first half of the proof, that the run keeps to it the      *)
(* second. Where the blocks begin that are still open has to be known too, *)
(* for what a block found dirty is dirty again when it is skipped.         *)
(*                                                                         *)
(* Of a program with loops none of this holds: the dirty cells of a loop   *)
(* body are those of its first iteration only.                             *)
(***************************************************************************)
EXTENDS IrMachine, WriteProofs, FiniteSetTheorems

-----------------------------------------------------------------------------
(* How blocks nest.                                                        *)

\* Sets without a common element are counted one after the other.
LEMMA ApartCounted ==
  ASSUME NEW S, NEW T, IsFiniteSet(S), IsFiniteSet(T), S \cap T = {}
  PROVE  /\ Cardinality(S \cup T) = Cardinality(S) + Cardinality(T)
         /\ Cardinality(S) \in Nat /\ Cardinality(T) \in Nat
<1>1. Cardinality(S) \in Nat /\ Cardinality(T) \in Nat
  BY FS_CardinalityType
<1>2. Cardinality(S \cup T) = Cardinality(S) + Cardinality(T) - Cardinality(S \cap T)
  BY FS_Union
<1>3. Cardinality(S \cap T) = 0
  BY FS_EmptySet
<1>. QED  BY <1>1, <1>2, <1>3

\* Opened and closed before i, and from i to j.
LEMMA BalanceApart ==
  ASSUME NEW code, NEW i \in Nat, NEW j \in Nat, 1 <= i, i <= j + 1
  PROVE  /\ Balance(code, 1, j) = Balance(code, 1, i - 1) + Balance(code, i, j)
         /\ Balance(code, 1, j) \in Int /\ Balance(code, 1, i - 1) \in Int
         /\ Balance(code, i, j) \in Int
<1>. DEFINE O(a, b) == {k \in a..b : Opens(code[k])}
            C(a, b) == {k \in a..b : Closes(code[k])}
<1>1. O(1, i - 1) \cap O(i, j) = {} /\ O(1, j) = O(1, i - 1) \cup O(i, j)
  OBVIOUS
<1>2. C(1, i - 1) \cap C(i, j) = {} /\ C(1, j) = C(1, i - 1) \cup C(i, j)
  OBVIOUS
<1>0. \A a, b \in Int : IsFiniteSet(O(a, b)) /\ IsFiniteSet(C(a, b))
  <2>. SUFFICES ASSUME NEW a \in Int, NEW b \in Int
                PROVE  IsFiniteSet(O(a, b)) /\ IsFiniteSet(C(a, b))
    OBVIOUS
  <2>1. IsFiniteSet(a..b) /\ O(a, b) \in SUBSET (a..b) /\ C(a, b) \in SUBSET (a..b)
    BY FS_Interval
  <2>. QED  BY <2>1, FS_Subset
<1>3. /\ Balance(code, 1, j) = Cardinality(O(1, j)) - Cardinality(C(1, j))
      /\ Balance(code, 1, i - 1) = Cardinality(O(1, i - 1)) - Cardinality(C(1, i - 1))
      /\ Balance(code, i, j) = Cardinality(O(i, j)) - Cardinality(C(i, j))
  BY DEF Balance
<1>. HIDE DEF O, C
<1>4. /\ Cardinality(O(1, j)) = Cardinality(O(1, i - 1)) + Cardinality(O(i, j))
      /\ Cardinality(O(1, i - 1)) \in Nat /\ Cardinality(O(i, j)) \in Nat
  BY <1>0, <1>1, ApartCounted
<1>5. /\ Cardinality(C(1, j)) = Cardinality(C(1, i - 1)) + Cardinality(C(i, j))
      /\ Cardinality(C(1, i - 1)) \in Nat /\ Cardinality(C(i, j)) \in Nat
  BY <1>0, <1>2, ApartCounted
<1>. QED  BY <1>3, <1>4, <1>5

\* One instruction more.
LEMMA BalanceStep ==
  ASSUME NEW code, NEW j \in Nat, 1 <= j
  PROVE  /\ Balance(code, 1, j) \in Int /\ Balance(code, 1, j - 1) \in Int
         /\ Opens(code[j]) => Balance(code, 1, j) = Balance(code, 1, j - 1) + 1
         /\ Closes(code[j]) => Balance(code, 1, j) = Balance(code, 1, j - 1) - 1
<1>1. /\ Balance(code, 1, j) = Balance(code, 1, j - 1) + Balance(code, j, j)
      /\ Balance(code, 1, j) \in Int /\ Balance(code, 1, j - 1) \in Int
  BY BalanceApart
<1>2. ~(Opens(code[j]) /\ Closes(code[j]))
  BY DEF Opens, Closes
<1>3. Cardinality({j}) = 1 /\ Cardinality({}) = 0
  BY FS_Singleton, FS_EmptySet
<1>4. /\ Opens(code[j]) => /\ {k \in j..j : Opens(code[k])} = {j}
                           /\ {k \in j..j : Closes(code[k])} = {}
      /\ Closes(code[j]) => /\ {k \in j..j : Opens(code[k])} = {}
                            /\ {k \in j..j : Closes(code[k])} = {j}
  BY <1>2
<1>5. /\ Opens(code[j]) => Balance(code, j, j) = 1 - 0
      /\ Closes(code[j]) => Balance(code, j, j) = 0 - 1
  BY <1>3, <1>4 DEF Balance
<1>. QED  BY <1>1, <1>5

Flat(ins) == ~Opens(ins) /\ ~Closes(ins)

\* What is counted is the same where the code is.
LEMMA SameBalance ==
  ASSUME NEW code, NEW longer, NEW i \in Nat, NEW j \in Nat,
         \A k \in i..j : longer[k] = code[k]
  PROVE  Balance(longer, i, j) = Balance(code, i, j)
<1>1. /\ {k \in i..j : Opens(longer[k])} = {k \in i..j : Opens(code[k])}
      /\ {k \in i..j : Closes(longer[k])} = {k \in i..j : Closes(code[k])}
  OBVIOUS
<1>. QED  BY <1>1 DEF Balance

LEMMA SamePrefix ==
  ASSUME NEW code, NEW longer, NEW j \in Nat, \A k \in 1..j : longer[k] = code[k]
  PROVE  Balance(longer, 1, j) = Balance(code, 1, j)
<1>1. /\ {k \in 1..j : Opens(longer[k])} = {k \in 1..j : Opens(code[k])}
      /\ {k \in 1..j : Closes(longer[k])} = {k \in 1..j : Closes(code[k])}
  OBVIOUS
<1>. QED  BY <1>1 DEF Balance

\* Instructions that are not of a block change no balance.
LEMMA FlatBalance ==
  ASSUME NEW code, NEW longer, NEW n \in Nat, NEW j \in Nat, n <= j,
         \A k \in 1..n : longer[k] = code[k], \A k \in (n + 1)..j : Flat(longer[k])
  PROVE  Balance(longer, 1, j) = Balance(code, 1, n)
<1>1. /\ {k \in 1..j : Opens(longer[k])} = {k \in 1..n : Opens(code[k])}
      /\ {k \in 1..j : Closes(longer[k])} = {k \in 1..n : Closes(code[k])}
  BY DEF Flat
<1>. QED  BY <1>1 DEF Balance

\* Partners in a code are partners in what it begins.
LEMMA SamePartners ==
  ASSUME NEW code, NEW longer, NEW i \in Nat, NEW j \in Nat, i <= j,
         \A k \in i..j : longer[k] = code[k], Partners(longer, i, j)
  PROVE  Partners(code, i, j)
<1>1. longer[i] = code[i] /\ longer[j] = code[j]
  OBVIOUS
<1>2. Balance(code, i, j) = 0
  BY SameBalance DEF Partners
<1>3. ASSUME NEW k \in i..(j - 1)
      PROVE  Balance(code, i, k) > 0
  <2>1. k \in Nat /\ \A l \in i..k : longer[l] = code[l]
    OBVIOUS
  <2>2. Balance(longer, i, k) = Balance(code, i, k)
    BY <2>1, SameBalance
  <2>. QED  BY <2>2 DEF Partners
<1>. QED  BY <1>1, <1>2, <1>3 DEF Partners

-----------------------------------------------------------------------------
(* What an instruction leaves that is not zero.                            *)

Tapes == [0..TapeSize -> 0..(Byte - 1)]

Support(t) == {c \in DOMAIN t : t[c] # 0}

\* The cell a value is in.
Source(r) == IF r.type = "CONST" THEN {} ELSE {r.val}

\* The tape is long enough for the instruction, and an index is one of an
\* element of its array.
Within(ins, t) ==
  LET a == ins.args[1]
      element == a + 4 + Operand(t, ins.args[2], Byte)
  IN  /\ {a} \cup ins.writes \cup ins.needs \subseteq DOMAIN t
      /\ ins.op = "ADD" /\ ~IsOperator(ins) => ins.args[2] \in DOMAIN t
      /\ IsOperator(ins) => Source(ins.args[2]) \subseteq DOMAIN t
      /\ ins.op = "RA" => Source(ins.args[2]) \subseteq DOMAIN t /\ element \in DOMAIN t
      /\ ins.op = "SAV" => /\ Source(ins.args[2]) \subseteq DOMAIN t
                           /\ Source(ins.args[3]) \subseteq DOMAIN t
                           /\ element \in ins.writes \ (a..(a + 3))

\* From a tape on which only the cells "before" may be nonzero the instruction
\* makes one on which only the cells "after" may be.
Sound(ins, before, after) ==
  \A t \in Tapes, input \in Inputs :
    Support(t) \subseteq before /\ Within(ins, t) /\ ~Derails(ins, t, Byte) =>
      LET u == Effect(ins, t, input, Byte)
      IN  u \in Tapes /\ Support(u) \subseteq after

\* Sound for less before and more after.
LEMMA SoundMore ==
  ASSUME NEW ins, NEW A, NEW B, NEW C, NEW D, Sound(ins, B, C), A \subseteq B, C \subseteq D
  PROVE  Sound(ins, A, D)
<1>. SUFFICES ASSUME NEW t \in Tapes, NEW input \in Inputs,
                     Support(t) \subseteq A, Within(ins, t), ~Derails(ins, t, Byte)
              PROVE  LET u == Effect(ins, t, input, Byte)
                     IN  u \in Tapes /\ Support(u) \subseteq D
  BY DEF Sound
<1>. DEFINE u == Effect(ins, t, input, Byte)
<1>1. u \in Tapes /\ Support(u) \subseteq C
  <2>1. Support(t) \subseteq B
    OBVIOUS
  <2>. QED  BY <2>1 DEF Sound
<1>. HIDE DEF u
<1>2. Support(u) \subseteq D
  BY <1>1
<1>. QED  BY <1>1, <1>2 DEF u

LEMMA Bytes ==
  /\ Byte \in Nat /\ Byte >= 2 /\ TapeSize \in Nat
  /\ \A v \in Int : v % Byte \in 0..(Byte - 1)
  /\ 0 % Byte = 0
  /\ \A v \in Inputs : v \in Int
<1>1. Byte \in Nat /\ Byte >= 2 /\ TapeSize \in Nat /\ Inputs \subseteq 0..(Byte - 1)
  BY MachineAssumption
<1>. QED  BY <1>1

\* A cell is written, or zeroed.
LEMMA PutSound ==
  ASSUME NEW t \in Tapes, NEW cell, NEW val \in Int
  PROVE  /\ Put(t, cell, val, Byte) \in Tapes
         /\ Support(Put(t, cell, val, Byte)) \subseteq Support(t) \cup {cell}
         /\ val = 0 => Support(Put(t, cell, val, Byte)) \subseteq Support(t) \ {cell}
<1>. DEFINE v == val % Byte
<1>1. v \in 0..(Byte - 1) /\ (val = 0 => v = 0)
  BY Bytes
<1>. HIDE DEF v
<1>2. Put(t, cell, val, Byte) = [t EXCEPT ![cell] = v]
  BY DEF Put, v
<1>. QED  BY <1>1, <1>2 DEF Tapes, Support

LEMMA CellTypes ==
  ASSUME NEW t \in Tapes, NEW c \in DOMAIN t
  PROVE  t[c] \in Nat /\ t[c] \in Int
<1>1. DOMAIN t = 0..TapeSize /\ t \in [0..TapeSize -> 0..(Byte - 1)] /\ Byte \in Nat
  BY Bytes DEF Tapes
<1>2. t[c] \in 0..(Byte - 1)
  BY <1>1
<1>. QED  BY <1>1, <1>2

LEMMA OperandTypes ==
  ASSUME NEW t \in Tapes, NEW r, r.type = "CONST" => r.val \in Int, Source(r) \subseteq DOMAIN t
  PROVE  Operand(t, r, Byte) \in Nat
<1>1. CASE r.type = "CONST"
  BY <1>1, Bytes DEF Operand
<1>2. CASE r.type # "CONST"
  BY <1>2, CellTypes DEF Operand, Source
<1>. QED  BY <1>1, <1>2

LEMMA ComputedTypes ==
  ASSUME NEW op \in BinOps, NEW l \in Nat, NEW r \in Nat, op \in {"DIV", "MOD"} => r # 0
  PROVE  Computed(op, l, r) \in Int
<1>1. l + r \in Int /\ l - r \in Int /\ l * r \in Int /\ \A b : Truth(b) \in Int
  BY DEF Truth
<1>2. op \in {"DIV", "MOD"} => l \div r \in Int /\ l % r \in Int
  OBVIOUS
<1>. QED  BY <1>1, <1>2 DEF Computed, BinOps, Flags

LEMMA NotOperator == \A ins : ins.op \notin BinOps => ~IsOperator(ins)
BY DEF IsOperator

\* The effect of each instruction but the operators, ADD and the loops.
LEMMA EffectOf ==
  ASSUME NEW ins, NEW t, NEW input, NEW a, a = ins.args[1]
  PROVE  LET u == Effect(ins, t, input, Byte)
         IN  /\ ins.op = "MOV" => u = Put(t, a, ins.args[2], Byte)
             /\ ins.op = "ADD_CONST" => u = Put(t, a, t[a] + ins.args[2], Byte)
             /\ ins.op = "FLIP" => u = Put(t, a, Truth(t[a] = 0), Byte)
             /\ ins.op = "READ_CHAR" => u = Put(t, a, input, Byte)
             /\ ins.op = "INSERT_STRING" =>
                  u = [c \in DOMAIN t |-> IF c \in ins.writes THEN (t[c] + 1) % Byte ELSE t[c]]
             /\ ins.op = "OUZ" => u = Put(t, a + 3, 0, Byte)
             /\ ins.op = "RA" =>
                  u = Put(t, ins.args[3], t[a + 4 + Operand(t, ins.args[2], Byte)], Byte)
             /\ ins.op = "SAV" =>
                  u = Put(t, a + 4 + Operand(t, ins.args[2], Byte), Operand(t, ins.args[3], Byte), Byte)
             /\ ins.op = "ENDIF" => u = Put(t, a, 0, Byte)
             /\ ins.op \in {"ITOA", "DOIF"} => u = t
<1>1. ins.op \in {"MOV", "ADD_CONST", "FLIP", "READ_CHAR", "INSERT_STRING", "OUZ", "RA", "SAV",
                  "ENDIF", "ITOA", "DOIF"} => ~IsOperator(ins)
  BY NotOperator DEF BinOps, Flags
<1>. QED  BY <1>1 DEF Effect

\* The instructions that write one cell.
LEMMA MovSound ==
  ASSUME NEW ins, ins.op = "MOV", NEW a, NEW v \in Int, ins.args = <<a, v>>, NEW A
  PROVE  Sound(ins, A, IF v = 0 THEN A \ {a} ELSE A \cup {a})
<1>1. ins.args[1] = a /\ ins.args[2] = v
  OBVIOUS
<1>2. \A t, input : Effect(ins, t, input, Byte) = Put(t, a, v, Byte)
  BY <1>1, EffectOf
<1>. QED  BY <1>2, PutSound DEF Sound

LEMMA AddSound ==
  ASSUME NEW ins, ins.op = "ADD", NEW a, NEW b, ins.args = <<a, b>>, NEW A
  PROVE  Sound(ins, A, A \cup {a})
<1>1. ins.args[1] = a /\ ins.args[2] = b /\ ~IsOperator(ins)
  BY DEF IsOperator
<1>2. \A t, input : Effect(ins, t, input, Byte) = Put(t, a, t[a] + t[b], Byte)
  BY <1>1 DEF Effect
<1>3. ASSUME NEW t \in Tapes, Within(ins, t)
      PROVE  t[a] + t[b] \in Int
  <2>1. a \in DOMAIN t /\ b \in DOMAIN t
    BY <1>1, <1>3 DEF Within
  <2>2. t[a] \in Int /\ t[b] \in Int
    BY <2>1, CellTypes
  <2>. QED  BY <2>2
<1>. QED  BY <1>2, <1>3, PutSound DEF Sound

LEMMA CellSound ==
  ASSUME NEW ins, ins.op \in {"ADD_CONST", "FLIP", "READ_CHAR"}, NEW a, ins.args[1] = a,
         ins.op = "ADD_CONST" => ins.args[2] \in Int, NEW A
  PROVE  Sound(ins, A, A \cup {a})
<1>. SUFFICES ASSUME NEW t \in Tapes, NEW input \in Inputs,
                     Support(t) \subseteq A, Within(ins, t)
              PROVE  LET u == Effect(ins, t, input, Byte)
                     IN  u \in Tapes /\ Support(u) \subseteq A \cup {a}
  BY DEF Sound
<1>1. a \in DOMAIN t
  BY DEF Within
<1>2. t[a] \in Int /\ input \in Int /\ Truth(t[a] = 0) \in Int
  BY <1>1, CellTypes, Bytes DEF Truth
<1>3. \E v \in Int : Effect(ins, t, input, Byte) = Put(t, a, v, Byte)
  <2>1. CASE ins.op = "ADD_CONST"
    <3>1. Effect(ins, t, input, Byte) = Put(t, a, t[a] + ins.args[2], Byte)
      BY <2>1, EffectOf
    <3>2. t[a] + ins.args[2] \in Int
      BY <1>2, <2>1
    <3>. QED  BY <3>1, <3>2
  <2>2. CASE ins.op = "FLIP"
    BY <1>2, <2>2, EffectOf
  <2>3. CASE ins.op = "READ_CHAR"
    BY <1>2, <2>3, EffectOf
  <2>. QED  BY <2>1, <2>2, <2>3
<1>. QED  BY <1>3, PutSound

LEMMA ItoaSound ==
  ASSUME NEW ins, ins.op = "ITOA", NEW A
  PROVE  Sound(ins, A, A)
<1>1. \A t, input : Effect(ins, t, input, Byte) = t
  BY EffectOf
<1>. QED  BY <1>1 DEF Sound

LEMMA StringSound ==
  ASSUME NEW ins, ins.op = "INSERT_STRING", NEW A
  PROVE  Sound(ins, A, A \cup ins.writes)
<1>. SUFFICES ASSUME NEW t \in Tapes, NEW input \in Inputs, Support(t) \subseteq A
              PROVE  LET u == Effect(ins, t, input, Byte)
                     IN  u \in Tapes /\ Support(u) \subseteq A \cup ins.writes
  BY DEF Sound
<1>. DEFINE u == [c \in DOMAIN t |-> IF c \in ins.writes THEN (t[c] + 1) % Byte ELSE t[c]]
<1>1. Effect(ins, t, input, Byte) = u
  BY EffectOf
<1>2. ASSUME NEW c \in DOMAIN t
      PROVE  u[c] \in 0..(Byte - 1)
  <2>1. t[c] + 1 \in Int /\ t[c] \in 0..(Byte - 1)
    BY CellTypes DEF Tapes
  <2>2. (t[c] + 1) % Byte \in 0..(Byte - 1)
    BY <2>1, Bytes
  <2>. QED  BY <2>1, <2>2
<1>3. DOMAIN t = 0..TapeSize /\ DOMAIN u = 0..TapeSize
  BY DEF Tapes
<1>4. \A c \in DOMAIN t : c \notin ins.writes => u[c] = t[c]
  OBVIOUS
<1>5. u = [c \in 0..TapeSize |-> u[c]]
  BY <1>3
<1>. HIDE DEF u
<1>6. u \in Tapes
  BY <1>2, <1>3, <1>5 DEF Tapes
<1>7. Support(u) \subseteq A \cup ins.writes
  BY <1>3, <1>4 DEF Support
<1>. QED  BY <1>1, <1>6, <1>7

LEMMA OuzSound ==
  ASSUME NEW ins, ins.op = "OUZ", NEW a, ins.args = <<a>>, NEW A
  PROVE  Sound(ins, A, A \ {a + 3})
<1>1. ins.args[1] = a
  OBVIOUS
<1>2. \A t, input : Effect(ins, t, input, Byte) = Put(t, a + 3, 0, Byte)
  BY <1>1, EffectOf
<1>. QED  BY <1>2, PutSound DEF Sound

LEMMA RaSound ==
  ASSUME NEW ins, ins.op = "RA", NEW a, NEW r, NEW d, ins.args = <<a, r, d>>, NEW A
  PROVE  Sound(ins, A, A \cup {d})
<1>. SUFFICES ASSUME NEW t \in Tapes, NEW input \in Inputs,
                     Support(t) \subseteq A, Within(ins, t)
              PROVE  LET u == Effect(ins, t, input, Byte)
                     IN  u \in Tapes /\ Support(u) \subseteq A \cup {d}
  BY DEF Sound
<1>. DEFINE e == a + 4 + Operand(t, r, Byte)
<1>1. ins.args[1] = a /\ ins.args[2] = r /\ ins.args[3] = d
  OBVIOUS
<1>2. e \in DOMAIN t
  BY <1>1 DEF Within
<1>3. Effect(ins, t, input, Byte) = Put(t, d, t[e], Byte)
  BY <1>1, EffectOf
<1>. HIDE DEF e
<1>. QED  BY <1>2, <1>3, CellTypes, PutSound

LEMMA SavSound ==
  ASSUME NEW ins, ins.op = "SAV", NEW a, NEW r, NEW s, ins.args = <<a, r, s>>,
         s.type = "CONST" => s.val \in Int, NEW A
  PROVE  Sound(ins, A, A \cup (ins.writes \ (a..(a + 3))))
<1>. SUFFICES ASSUME NEW t \in Tapes, NEW input \in Inputs,
                     Support(t) \subseteq A, Within(ins, t)
              PROVE  LET u == Effect(ins, t, input, Byte)
                     IN  u \in Tapes /\ Support(u) \subseteq A \cup (ins.writes \ (a..(a + 3)))
  BY DEF Sound
<1>. DEFINE e == a + 4 + Operand(t, r, Byte)
            v == Operand(t, s, Byte)
            all == ins.writes \ (a..(a + 3))
<1>1. ins.args[1] = a /\ ins.args[2] = r /\ ins.args[3] = s
  OBVIOUS
<1>2. e \in all /\ Source(s) \subseteq DOMAIN t
  BY <1>1 DEF Within
<1>3. v \in Int
  BY <1>2, OperandTypes
<1>4. Effect(ins, t, input, Byte) = Put(t, e, v, Byte)
  BY <1>1, EffectOf
<1>. HIDE DEF e, v, all
<1>5. Put(t, e, v, Byte) \in Tapes /\ Support(Put(t, e, v, Byte)) \subseteq A \cup all
  BY <1>2, <1>3, PutSound
<1>. QED  BY <1>4, <1>5 DEF all

\* The operators of the language.
LEMMA OperatorSound ==
  ASSUME NEW ins, ins.op \in BinOps, NEW acc, NEW r, NEW dump, ins.args = <<acc, r, dump>>,
         r.type = "CONST" => r.val \in Int, NEW A
  PROVE  Sound(ins, A, A \cup {IF ins.op \in Flags THEN dump ELSE acc})
<1>. DEFINE cell == IF ins.op \in Flags THEN dump ELSE acc
<1>. SUFFICES ASSUME NEW t \in Tapes, NEW input \in Inputs,
                     Support(t) \subseteq A, Within(ins, t), ~Derails(ins, t, Byte)
              PROVE  LET u == Effect(ins, t, input, Byte)
                     IN  u \in Tapes /\ Support(u) \subseteq A \cup {cell}
  BY DEF Sound
<1>. DEFINE x == Operand(t, r, Byte)
            v == Computed(ins.op, t[acc], x)
<1>1. ins.args[1] = acc /\ ins.args[2] = r /\ ins.args[3] = dump /\ IsOperator(ins)
  BY DEF IsOperator
<1>2. acc \in DOMAIN t /\ Source(r) \subseteq DOMAIN t
  BY <1>1 DEF Within
<1>3. ins.op \in {"DIV", "MOD"} => x # 0
  BY <1>1 DEF Derails
<1>4. x \in Nat /\ t[acc] \in Nat
  BY <1>2, OperandTypes, CellTypes
<1>5. Effect(ins, t, input, Byte) = Put(t, cell, v, Byte)
  <2>1. ins.op \notin {"MOV", "ADD_CONST", "FLIP", "READ_CHAR", "INSERT_STRING", "OUZ", "RA",
                       "SAV", "ENDLOOP", "ENDIF"}
    BY DEF BinOps, Flags
  <2>. QED  BY <1>1, <2>1 DEF Effect
<1>. HIDE DEF x
<1>6. v \in Int
  BY <1>3, <1>4, ComputedTypes
<1>. HIDE DEF v, cell
<1>. QED  BY <1>5, <1>6, PutSound

-----------------------------------------------------------------------------
(* What may be nonzero at each instruction of the code.                    *)

\* One instruction, with what may be nonzero before and after it.
Charted(ins, unmet, before, after) ==
  /\ ins.op \notin {"LOOP", "ENDLOOP"}
  /\ ins.needs \cap before \subseteq unmet
  /\ Opens(ins) => before \subseteq after
  /\ Closes(ins) => before \ {ins.args[1]} \subseteq after
  /\ Flat(ins) => Sound(ins, before, after)

\* trace[i] is what may be nonzero when code[i] is about to run, whichever way
\* the run has taken through the blocks.
Chart(o, trace) ==
  /\ \A i \in 1..Len(o.code) : Charted(o.code[i], o.unmet, trace[i], trace[i + 1])
  /\ \A i \in 1..Len(o.code) : \A j \in i..Len(o.code) :
       Partners(o.code, i, j) => trace[i] \ {o.code[i].args[1]} \subseteq trace[j + 1]
  /\ trace[Len(o.code) + 1] \subseteq o.dirty

Agree(s, t, n) == \A i \in 1..n : t[i] = s[i]

\* p is o and instructions that neither open nor close a block.
Straight(o, p) ==
  /\ Coded(o) /\ Coded(p) /\ Len(o.code) <= Len(p.code)
  /\ Agree(o.code, p.code, Len(o.code))
  /\ \A i \in (Len(o.code) + 1)..Len(p.code) : Flat(p.code[i])
  /\ \A trace : Chart(o, trace) =>
       \E later : Chart(p, later) /\ Agree(trace, later, Len(o.code) + 1)

LEMMA StraightCoded == \A o, p : Straight(o, p) => Coded(o) /\ Coded(p)
BY DEF Straight

LEMMA StraightNothing ==
  ASSUME NEW o, Coded(o)
  PROVE  Straight(o, o)
<1>1. Len(o.code) \in Nat
  BY CodeLength
<1>. QED  BY <1>1 DEF Straight, Agree

\* Straight code behind straight code.
LEMMA StraightThen ==
  ASSUME NEW o, NEW p, NEW q, Straight(o, p), Straight(p, q)
  PROVE  Straight(o, q)
<1>. DEFINE k == Len(o.code)
            l == Len(p.code)
            n == Len(q.code)
<1>1. /\ k \in Nat /\ l \in Nat /\ n \in Nat /\ k <= l /\ l <= n /\ Coded(o) /\ Coded(q)
      /\ \A i \in 1..k : p.code[i] = o.code[i]
      /\ \A i \in 1..l : q.code[i] = p.code[i]
      /\ \A i \in (k + 1)..l : Flat(p.code[i])
      /\ \A i \in (l + 1)..n : Flat(q.code[i])
  BY CodeLength DEF Straight, Agree
<1>2. ASSUME NEW trace, Chart(o, trace)
      PROVE  \E later : Chart(q, later) /\ Agree(trace, later, k + 1)
  <2>1. PICK mid : Chart(p, mid) /\ Agree(trace, mid, k + 1)
    BY <1>2 DEF Straight
  <2>2. PICK later : Chart(q, later) /\ Agree(mid, later, l + 1)
    BY <2>1 DEF Straight
  <2>. HIDE DEF k, l, n
  <2>3. Agree(trace, later, k + 1)
    <3>1. \A i \in 1..(k + 1) : i \in 1..(l + 1)
      BY <1>1
    <3>. QED  BY <2>1, <2>2, <3>1 DEF Agree
  <2>. QED  BY <2>2, <2>3
<1>. HIDE DEF k, l, n
<1>3. \A i \in 1..k : q.code[i] = o.code[i]
  BY <1>1
<1>4. ASSUME NEW i \in (k + 1)..n
      PROVE  Flat(q.code[i])
  <2>1. CASE i \in 1..l
    <3>1. q.code[i] = p.code[i] /\ i \in (k + 1)..l
      BY <1>1, <1>4, <2>1
    <3>. QED  BY <1>1, <3>1
  <2>2. CASE i \in (l + 1)..n
    BY <1>1, <2>2
  <2>. QED  BY <1>1, <1>4, <2>1, <2>2
<1>. QED  BY <1>1, <1>2, <1>3, <1>4 DEF Straight, Agree, k, l, n

LEMMA ChartedMore ==
  ASSUME NEW ins, NEW unmet, NEW more, NEW A, NEW B, NEW C, NEW D,
         Charted(ins, unmet, B, C), A \subseteq B, C \subseteq D, unmet \subseteq more
  PROVE  Charted(ins, more, A, D)
<1>1. Flat(ins) => Sound(ins, A, D)
  BY SoundMore DEF Charted
<1>. QED  BY <1>1 DEF Charted

\* The chart of a code and one of what follows it.
LEMMA ChartMore ==
  ASSUME NEW o, NEW p, NEW trace, NEW later, NEW n \in Nat, NEW l \in Nat,
         Chart(o, trace), n = Len(o.code), l = Len(p.code), n <= l,
         Agree(o.code, p.code, n), o.unmet \subseteq p.unmet,
         Agree(trace, later, n + 1), later[l + 1] \subseteq p.dirty,
         \A i \in (n + 1)..l : Charted(p.code[i], p.unmet, later[i], later[i + 1]),
         \A i \in 1..l : \A j \in (n + 1)..l :
           i <= j /\ Partners(p.code, i, j) =>
             later[i] \ {p.code[i].args[1]} \subseteq later[j + 1]
  PROVE  Chart(p, later)
<1>1. ASSUME NEW i \in 1..l
      PROVE  Charted(p.code[i], p.unmet, later[i], later[i + 1])
  <2>1. CASE i \in 1..n
    <3>1. /\ p.code[i] = o.code[i] /\ later[i] = trace[i] /\ later[i + 1] = trace[i + 1]
          /\ i \in 1..(n + 1) /\ i + 1 \in 1..(n + 1)
      BY <2>1 DEF Agree
    <3>2. Charted(o.code[i], o.unmet, trace[i], trace[i + 1])
      BY <2>1 DEF Chart
    <3>3. Charted(o.code[i], p.unmet, trace[i], trace[i + 1])
      BY <3>2, ChartedMore
    <3>. QED  BY <3>1, <3>3
  <2>2. CASE i \in (n + 1)..l
    BY <2>2
  <2>. QED  BY <2>1, <2>2
<1>2. ASSUME NEW i \in 1..l, NEW j \in i..l, Partners(p.code, i, j)
      PROVE  later[i] \ {p.code[i].args[1]} \subseteq later[j + 1]
  <2>1. CASE j \in 1..n
    <3>1. /\ i \in 1..n /\ j \in i..n /\ i \in Nat /\ j \in Nat /\ i <= j
          /\ \A k \in i..j : k \in 1..n
          /\ i \in 1..(n + 1) /\ j + 1 \in 1..(n + 1)
      BY <2>1
    <3>2. \A k \in i..j : p.code[k] = o.code[k]
      BY <3>1 DEF Agree
    <3>3. Partners(o.code, i, j)
      BY <1>2, <3>1, <3>2, SamePartners
    <3>4. trace[i] \ {o.code[i].args[1]} \subseteq trace[j + 1]
      BY <3>1, <3>3 DEF Chart
    <3>5. later[i] = trace[i] /\ later[j + 1] = trace[j + 1] /\ p.code[i] = o.code[i]
      BY <3>1, <3>2 DEF Agree
    <3>. QED  BY <3>4, <3>5
  <2>2. CASE j \in (n + 1)..l
    <3>1. i <= j
      OBVIOUS
    <3>. QED  BY <1>2, <2>2, <3>1
  <2>. QED  BY <2>1, <2>2
<1>. QED  BY <1>1, <1>2 DEF Chart

\* An instruction that is not a block's closes none.
LEMMA FlatParts ==
  ASSUME NEW code, NEW i, NEW j, Flat(code[j])
  PROVE  ~Partners(code, i, j)
BY DEF Partners, Flat

\* One instruction is written.
Ins(op, args, writes, needs) == [op |-> op, args |-> args, writes |-> writes, needs |-> needs]

LEMMA EmitCode ==
  ASSUME KeepCode, NEW o, Coded(o), NEW op, NEW args, NEW writes, NEW needs, NEW dirty
  PROVE  LET e == Emit(o, op, args, writes, needs, dirty)
             n == Len(o.code)
         IN  /\ n \in Nat /\ Coded(e) /\ Len(e.code) = n + 1 /\ Agree(o.code, e.code, n)
             /\ e.code[n + 1] = Ins(op, args, writes, needs)
             /\ e.dirty = dirty /\ e.unmet = o.unmet \cup (needs \cap o.dirty)
<1>. DEFINE e == Emit(o, op, args, writes, needs, dirty)
            n == Len(o.code)
            ins == Ins(op, args, writes, needs)
<1>1. PICK S : o.code \in Seq(S)
  BY DEF Coded
<1>2. /\ e.code = Append(o.code, ins)
      /\ e.dirty = dirty /\ e.unmet = o.unmet \cup (needs \cap o.dirty)
  BY DEF Emit, Ins
<1>. HIDE DEF e, n, ins
<1>3. /\ e.code \in Seq(S \cup {ins}) /\ Len(e.code) = n + 1 /\ n \in Nat
      /\ e.code[n + 1] = ins /\ \A i \in 1..n : e.code[i] = o.code[i]
  <2>1. o.code \in Seq(S \cup {ins}) /\ ins \in S \cup {ins}
    BY <1>1
  <2>. QED  BY <1>2, <2>1, Pushed DEF n
<1>4. Coded(e)
  BY <1>3 DEF Coded
<1>. QED  BY <1>2, <1>3, <1>4 DEF e, n, ins, Agree

\* The chart of the code with it: a block it closes has been charted.
LEMMA EmitChart ==
  ASSUME NEW o, NEW e, NEW trace, Chart(o, trace), NEW n \in Nat, Agree(o.code, e.code, n),
         n = Len(o.code), Len(e.code) = n + 1, NEW ins, e.code[n + 1] = ins,
         e.unmet = o.unmet \cup (ins.needs \cap o.dirty),
         ins.op \notin {"LOOP", "ENDLOOP"},
         Opens(ins) => o.dirty \subseteq e.dirty,
         Closes(ins) => o.dirty \ {ins.args[1]} \subseteq e.dirty,
         Flat(ins) => Sound(ins, o.dirty, e.dirty),
         \A i \in 1..n : Partners(e.code, i, n + 1) =>
                           trace[i] \ {o.code[i].args[1]} \subseteq e.dirty
  PROVE  \E later : Chart(e, later) /\ Agree(trace, later, n + 1)
<1>. DEFINE dirty == e.dirty
            later == [i \in 1..(n + 2) |-> IF i = n + 2 THEN dirty ELSE trace[i]]
<1>. HIDE DEF dirty
<1>1. Len(e.code) = n + 1 /\ e.code[n + 1] = ins /\ e.dirty = dirty
  BY DEF dirty
<1>2. /\ later[n + 2] = dirty /\ Agree(trace, later, n + 1)
      /\ later[n + 1] = trace[n + 1] /\ trace[n + 1] \subseteq o.dirty
  BY <1>1 DEF Agree, Chart
<1>. HIDE DEF later
<1>3. Charted(ins, e.unmet, o.dirty, dirty)
  BY <1>1 DEF Charted
<1>4. Charted(ins, e.unmet, later[n + 1], later[n + 2])
  BY <1>2, <1>3, ChartedMore
<1>5. ASSUME NEW i \in 1..(n + 1), Partners(e.code, i, n + 1)
      PROVE  later[i] \ {e.code[i].args[1]} \subseteq later[n + 2]
  <2>1. CASE i = n + 1
    BY <1>5, <2>1 DEF Partners, Opens, Closes
  <2>2. CASE i # n + 1
    <3>1. i \in 1..n /\ i \in 1..(n + 1)
      BY <1>1, <2>2
    <3>2. later[i] = trace[i] /\ e.code[i] = o.code[i]
      BY <1>1, <1>2, <3>1 DEF Agree
    <3>. QED  BY <1>1, <1>2, <1>5, <3>1, <3>2
  <2>. QED  BY <2>1, <2>2
<1>6. Chart(e, later)
  <2>1. /\ n + 1 \in Nat /\ n <= n + 1 /\ (n + 1)..(n + 1) = {n + 1} /\ (n + 1) + 1 = n + 2
        /\ o.unmet \subseteq e.unmet
    BY <1>1
  <2>2. later[(n + 1) + 1] \subseteq e.dirty
    BY <1>1, <1>2, <2>1
  <2>3. \A i \in (n + 1)..(n + 1) : Charted(e.code[i], e.unmet, later[i], later[i + 1])
    BY <1>1, <1>4, <2>1
  <2>4. \A i \in 1..(n + 1) : \A j \in (n + 1)..(n + 1) :
          i <= j /\ Partners(e.code, i, j) =>
            later[i] \ {e.code[i].args[1]} \subseteq later[j + 1]
    <3>. SUFFICES ASSUME NEW i \in 1..(n + 1), NEW j \in (n + 1)..(n + 1), Partners(e.code, i, j)
                  PROVE  later[i] \ {e.code[i].args[1]} \subseteq later[j + 1]
      OBVIOUS
    <3>1. j = n + 1 /\ j + 1 = n + 2
      BY <2>1
    <3>2. Partners(e.code, i, n + 1)
      BY ONLY Partners(e.code, i, j), <3>1
    <3>3. later[i] \ {e.code[i].args[1]} \subseteq later[n + 2]
      BY <1>5, <3>2
    <3>. QED  BY ONLY <3>1, <3>3
  <2>. DEFINE l == n + 1
              c == o.code
              w == e.code
  <2>5. /\ Chart(o, trace) /\ n \in Nat /\ l \in Nat /\ n = Len(c) /\ l = Len(w) /\ n <= l
        /\ c = o.code /\ w = e.code
        /\ Agree(c, w, n) /\ o.unmet \subseteq e.unmet
        /\ Agree(trace, later, n + 1) /\ later[l + 1] \subseteq e.dirty
        /\ \A i \in (n + 1)..l : Charted(w[i], e.unmet, later[i], later[i + 1])
        /\ \A i \in 1..l : \A j \in (n + 1)..l :
             i <= j /\ Partners(w, i, j) => later[i] \ {w[i].args[1]} \subseteq later[j + 1]
    BY <1>1, <1>2, <2>1, <2>2, <2>3, <2>4
  <2>. HIDE DEF l, c, w
  <2>. QED  BY ONLY <2>5, ChartMore
<1>. QED  BY <1>2, <1>6

\* One instruction that is not of a block, and sound.
LEMMA EmitStraight ==
  ASSUME KeepCode, NEW o, Coded(o), NEW op, NEW args, NEW writes, NEW needs, NEW dirty,
         op \notin {"LOOP", "ENDLOOP", "DOIF", "ENDIF"},
         Sound(Ins(op, args, writes, needs), o.dirty, dirty)
  PROVE  Straight(o, Emit(o, op, args, writes, needs, dirty))
<1>. DEFINE e == Emit(o, op, args, writes, needs, dirty)
            n == Len(o.code)
            ins == Ins(op, args, writes, needs)
<1>1. ins.op = op /\ ins.needs = needs /\ Flat(ins)
  BY DEF Ins, Flat, Opens, Closes
<1>. HIDE DEF e, n, ins
<1>2. /\ n \in Nat /\ Coded(e) /\ Len(e.code) = n + 1 /\ Agree(o.code, e.code, n)
      /\ e.code[n + 1] = ins /\ e.dirty = dirty
      /\ e.unmet = o.unmet \cup (ins.needs \cap o.dirty)
  BY <1>1, EmitCode DEF e, n, ins
<1>3. ASSUME NEW trace, Chart(o, trace)
      PROVE  \E later : Chart(e, later) /\ Agree(trace, later, n + 1)
  <2>1. \A i \in 1..n : ~Partners(e.code, i, n + 1)
    BY <1>1, <1>2, FlatParts
  <2>2. /\ Opens(ins) => o.dirty \subseteq e.dirty
        /\ Closes(ins) => o.dirty \ {ins.args[1]} \subseteq e.dirty
        /\ Flat(ins) => Sound(ins, o.dirty, e.dirty)
        /\ \A i \in 1..n : Partners(e.code, i, n + 1) =>
                              trace[i] \ {o.code[i].args[1]} \subseteq e.dirty
        /\ ins.op \notin {"LOOP", "ENDLOOP"}
    BY <1>1, <1>2, <2>1 DEF Flat, ins
  <2>3. n = Len(o.code)
    BY DEF n
  <2>. QED  BY <1>2, <1>3, <2>2, <2>3, EmitChart
<1>4. \A i \in (n + 1)..Len(e.code) : Flat(e.code[i])
  <2>1. \A i \in (n + 1)..(n + 1) : i = n + 1
    BY <1>2
  <2>. QED  BY <1>1, <1>2, <2>1
<1>5. n <= Len(e.code)
  BY <1>2
<1>. QED  BY <1>2, <1>3, <1>4, <1>5 DEF Straight, e, n

-----------------------------------------------------------------------------
(* The instructions of IrTape, one after the other.                        *)

LEMMA MovStraight ==
  ASSUME KeepCode, NEW o, Coded(o), NEW a, NEW v \in Int
  PROVE  Straight(o, Mov(o, a, v))
<1>. DEFINE ins   == Ins("MOV", <<a, v>>, {a}, {})
            dirty == IF v = 0 THEN o.dirty \ {a} ELSE o.dirty \cup {a}
<1>1. ins.op = "MOV" /\ ins.args = <<a, v>>
  BY DEF Ins
<1>2. Sound(ins, o.dirty, dirty)
  <2>. HIDE DEF ins
  <2>. QED  BY <1>1, MovSound
<1>. HIDE DEF dirty
<1>3. Straight(o, Emit(o, "MOV", <<a, v>>, {a}, {}, dirty))
  BY <1>2, EmitStraight
<1>. QED  BY <1>3 DEF Mov, dirty

LEMMA AddStraight ==
  ASSUME KeepCode, NEW o, Coded(o), NEW a, NEW b
  PROVE  Straight(o, Add(o, a, b)) /\ Straight(o, Copy(o, a, b))
<1>. DEFINE dirty == o.dirty \cup {a}
<1>1. ASSUME NEW needs
      PROVE  Straight(o, Emit(o, "ADD", <<a, b>>, {a}, needs, dirty))
  <2>. DEFINE ins == Ins("ADD", <<a, b>>, {a}, needs)
  <2>1. ins.op = "ADD" /\ ins.args = <<a, b>>
    BY DEF Ins
  <2>2. Sound(ins, o.dirty, dirty)
    <3>. HIDE DEF ins
    <3>. QED  BY <2>1, AddSound
  <2>. HIDE DEF dirty
  <2>. QED  BY <2>2, EmitStraight
<1>. QED  BY <1>1 DEF Add, Copy

LEMMA CellStraight ==
  ASSUME KeepCode, NEW o, Coded(o), NEW a, NEW v \in Int
  PROVE  /\ Straight(o, Load(o, a, v)) /\ Straight(o, Flip(o, a))
         /\ Straight(o, ReadChar(o, a))
<1>. DEFINE dirty == o.dirty \cup {a}
<1>1. ASSUME NEW op \in {"ADD_CONST", "FLIP", "READ_CHAR"}, NEW args, NEW needs, args[1] = a,
             op = "ADD_CONST" => args[2] \in Int
      PROVE  Straight(o, Emit(o, op, args, {a}, needs, dirty))
  <2>. DEFINE ins == Ins(op, args, {a}, needs)
  <2>1. ins.op = op /\ ins.args = args
    BY DEF Ins
  <2>2. Sound(ins, o.dirty, dirty)
    <3>. HIDE DEF ins
    <3>. QED  BY <1>1, <2>1, CellSound
  <2>3. op \notin {"LOOP", "ENDLOOP", "DOIF", "ENDIF"}
    OBVIOUS
  <2>. HIDE DEF dirty
  <2>. QED  BY <2>2, <2>3, EmitStraight
<1>2. <<a, v>>[1] = a /\ <<a, v>>[2] = v /\ <<a>>[1] = a
  OBVIOUS
<1>. HIDE DEF dirty
<1>3. Straight(o, Emit(o, "ADD_CONST", <<a, v>>, {a}, {a}, dirty))
  BY <1>1, <1>2
<1>4. Straight(o, Emit(o, "FLIP", <<a>>, {a}, {0}, dirty))
  BY <1>1, <1>2
<1>5. Straight(o, Emit(o, "READ_CHAR", <<a>>, {a}, {}, dirty))
  BY <1>1, <1>2
<1>. QED  BY <1>3, <1>4, <1>5 DEF Load, Flip, ReadChar, dirty

LEMMA PrintStraight ==
  ASSUME KeepCode, NEW o, Coded(o), NEW a, NEW b
  PROVE  /\ Straight(o, Itoa(o, a, b)) /\ Straight(o, InsertString(o, a, b))
         /\ Straight(o, Ouz(o, a))
<1>1. ASSUME NEW args, NEW writes, NEW needs
      PROVE  Straight(o, Emit(o, "ITOA", args, writes, needs, o.dirty))
  <2>. DEFINE ins == Ins("ITOA", args, writes, needs)
  <2>1. ins.op = "ITOA"
    BY DEF Ins
  <2>2. Sound(ins, o.dirty, o.dirty)
    <3>. HIDE DEF ins
    <3>. QED  BY <2>1, ItoaSound
  <2>. QED  BY <2>2, EmitStraight
<1>2. ASSUME NEW args, NEW text, NEW needs
      PROVE  Straight(o, Emit(o, "INSERT_STRING", args, text, needs, o.dirty \cup text))
  <2>. DEFINE ins == Ins("INSERT_STRING", args, text, needs)
              dirty == o.dirty \cup text
  <2>1. ins.op = "INSERT_STRING" /\ ins.writes = text
    BY DEF Ins
  <2>2. Sound(ins, o.dirty, dirty)
    <3>. HIDE DEF ins
    <3>. QED  BY <2>1, StringSound
  <2>. HIDE DEF dirty
  <2>3. Straight(o, Emit(o, "INSERT_STRING", args, text, needs, dirty))
    BY <2>2, EmitStraight
  <2>. QED  BY <2>3 DEF dirty
<1>3. Straight(o, Emit(o, "OUZ", <<a>>, {a + 3}, {}, o.dirty \ {a + 3}))
  <2>. DEFINE ins == Ins("OUZ", <<a>>, {a + 3}, {})
              dirty == o.dirty \ {a + 3}
  <2>1. ins.op = "OUZ" /\ ins.args = <<a>>
    BY DEF Ins
  <2>2. Sound(ins, o.dirty, dirty)
    <3>. HIDE DEF ins
    <3>. QED  BY <2>1, OuzSound
  <2>. HIDE DEF dirty
  <2>3. Straight(o, Emit(o, "OUZ", <<a>>, {a + 3}, {}, dirty))
    BY <2>2, EmitStraight
  <2>. QED  BY <2>3 DEF dirty
<1>. QED  BY <1>1, <1>2, <1>3 DEF Itoa, InsertString, Ouz

Valued(r) == r.type = "CONST" => r.val \in Int

LEMMA RaStraight ==
  ASSUME KeepCode, NEW o, Coded(o), NEW base, NEW r, NEW s
  PROVE  Straight(o, Ra(o, base, r, s))
<1>. DEFINE args == <<base, r, s>>
            writes == {s} \cup base..(base + 3)
            ins == Ins("RA", args, writes, {0})
            dirty == o.dirty \cup {s}
<1>1. ins.op = "RA" /\ ins.args = <<base, r, s>>
  BY DEF Ins
<1>2. Sound(ins, o.dirty, dirty)
  <2>. HIDE DEF ins
  <2>. QED  BY <1>1, RaSound
<1>. HIDE DEF dirty, writes, args
<1>3. Straight(o, Emit(o, "RA", args, writes, {0}, dirty))
  BY <1>2, EmitStraight
<1>. QED  BY <1>3 DEF Ra, dirty, writes, args

LEMMA SavStraight ==
  ASSUME KeepCode, NEW o, Coded(o), NEW base \in Nat, NEW len \in Int, NEW r, NEW s, Valued(s)
  PROVE  Straight(o, Sav(o, base, len, r, s))
<1>. DEFINE args == <<base, r, s>>
            writes == base..(base + 3 + len)
            elements == (base + 4)..(base + 3 + len)
            ins == Ins("SAV", args, writes, {0})
            dirty == o.dirty \cup elements
<1>1. ins.op = "SAV" /\ ins.args = <<base, r, s>> /\ ins.writes = writes
  BY DEF Ins
<1>2. Sound(ins, o.dirty, o.dirty \cup (ins.writes \ (base..(base + 3))))
  <2>. HIDE DEF ins
  <2>. QED  BY <1>1, SavSound DEF Valued
<1>3. ins.writes \ (base..(base + 3)) \subseteq elements
  BY <1>1
<1>. HIDE DEF ins, elements
<1>4. Sound(ins, o.dirty, dirty)
  BY <1>2, <1>3, SoundMore
<1>. HIDE DEF dirty, writes, args
<1>5. Straight(o, Emit(o, "SAV", args, writes, {0}, dirty))
  BY <1>4, EmitStraight DEF ins
<1>. QED  BY <1>5 DEF Sav, dirty, writes, args, elements

LEMMA BinaryOpStraight ==
  ASSUME KeepCode, NEW o, Coded(o), NEW op \in BinOps, NEW acc, NEW r, Valued(r), NEW dump
  PROVE  Straight(o, BinaryOp(o, op, acc, r, dump))
<1>. DEFINE scratch == dump..(dump + Scratch[op] - 1)
            args    == <<acc, r, dump>>
            writes  == IF op \in Flags THEN scratch ELSE {acc} \cup scratch
            needs   == {0} \cup scratch
            dirty   == o.dirty \cup {IF op \in Flags THEN dump ELSE acc}
            ins     == Ins(op, args, writes, needs)
            p == Emit(o, op, args, writes, needs, dirty)
<1>1. ins.op = op /\ ins.args = <<acc, r, dump>>
  BY DEF Ins
<1>2. Sound(ins, o.dirty, dirty)
  <2>. HIDE DEF ins
  <2>. QED  BY <1>1, OperatorSound DEF Valued
<1>3. op \notin {"LOOP", "ENDLOOP", "DOIF", "ENDIF"}
  BY DEF BinOps, Flags
<1>4. BinaryOp(o, op, acc, r, dump)
        = IF op \in Flags THEN Mov(Add(Mov(p, acc, 0), acc, dump), dump, 0) ELSE p
  BY DEF BinaryOp
<1>. HIDE DEF dirty, writes, needs, args
<1>5. Straight(o, p)
  BY <1>2, <1>3, EmitStraight
<1>. HIDE DEF p
<1>. DEFINE q == Mov(p, acc, 0)
            t == Add(q, acc, dump)
            u == Mov(t, dump, 0)
<1>6. Straight(p, q)
  BY <1>5, StraightCoded, MovStraight
<1>. HIDE DEF q
<1>7. Straight(q, t)
  BY <1>6, StraightCoded, AddStraight
<1>. HIDE DEF t
<1>8. Straight(t, u)
  BY <1>7, StraightCoded, MovStraight
<1>. HIDE DEF u
<1>9. Straight(o, q)
  BY <1>5, <1>6, StraightThen
<1>10. Straight(o, t)
  BY <1>7, <1>9, StraightThen
<1>11. Straight(o, u)
  BY <1>8, <1>10, StraightThen
<1>. QED  BY <1>4, <1>5, <1>11 DEF q, t, u

\* A value that eval may return.
Evaluated(r) == r.type \in {"CONST", "ADDRESS", "TEMP"} /\ r.val \in Int

LEMMA AssignStraight ==
  ASSUME KeepCode, NEW o, Coded(o), NEW dest, NEW r, Evaluated(r)
  PROVE  Straight(o, Assign(o, dest, r)) /\ Straight(o, CopyTo(o, dest, r))
<1>. DEFINE p == Mov(o, dest, 0)
            q == Add(p, dest, r.val)
            s == Mov(q, r.val, 0)
            t == Mov(o, dest, r.val)
            c == Copy(o, dest, r.val)
            d == Mov(c, r.val, 0)
<1>1. Straight(o, p) /\ Straight(o, t) /\ Straight(o, c) /\ Straight(o, o)
  BY MovStraight, AddStraight, StraightNothing DEF Evaluated
<1>. HIDE DEF p, t, c
<1>2. Straight(p, q) /\ Straight(c, d)
  BY <1>1, StraightCoded, AddStraight, MovStraight
<1>. HIDE DEF q, d
<1>3. Straight(q, s)
  BY <1>2, StraightCoded, MovStraight
<1>. HIDE DEF s
<1>4. Straight(o, q) /\ Straight(o, d)
  BY <1>1, <1>2, StraightThen
<1>5. Straight(o, s)
  BY <1>3, <1>4, StraightThen
<1>6. Assign(o, dest, r) \in {o, t, q, s}
  <2>1. r.type = "CONST" => Assign(o, dest, r) = t
    BY DEF Assign, t
  <2>2. r.type # "CONST" /\ r.val = dest => Assign(o, dest, r) = o
    BY DEF Assign
  <2>3. r.type = "ADDRESS" /\ r.val # dest => Assign(o, dest, r) = q
    BY DEF Assign, q, p
  <2>4. r.type = "TEMP" /\ r.val # dest => Assign(o, dest, r) = s
    BY DEF Assign, s, q, p
  <2>. QED  BY <2>1, <2>2, <2>3, <2>4 DEF Evaluated
<1>7. CopyTo(o, dest, r) \in {o, t, c, d}
  <2>1. r.type = "CONST" => CopyTo(o, dest, r) = t
    BY DEF CopyTo, t
  <2>2. r.type = "ADDRESS" => CopyTo(o, dest, r) = c
    BY DEF CopyTo, c
  <2>3. r.type = "TEMP" /\ r.val = dest => CopyTo(o, dest, r) = o
    BY DEF CopyTo
  <2>4. r.type = "TEMP" /\ r.val # dest => CopyTo(o, dest, r) = d
    BY DEF CopyTo, d, c
  <2>. QED  BY <2>1, <2>2, <2>3, <2>4 DEF Evaluated
<1>. QED  BY <1>1, <1>4, <1>5, <1>6, <1>7

LEMMA MovsCoded ==
  ASSUME NEW S, NEW T, NEW code, code \in Seq(S), NEW l \in Nat,
         NEW movs, movs \in [1..l -> T], NEW w, w = code \o movs, NEW k, k = Len(code)
  PROVE  /\ w \in Seq(S \cup T) /\ Len(w) = k + l /\ k \in Nat
         /\ \A i \in 1..k : w[i] = code[i]
         /\ \A i \in 1..l : w[k + i] = movs[i]
<1>. DEFINE V == S \cup T
<1>1. movs \in Seq(T) /\ Len(movs) = l
  OBVIOUS
<1>2. code \in Seq(V) /\ movs \in Seq(V)
  BY <1>1
<1>. HIDE DEF V
<1>3. /\ code \o movs \in Seq(V) /\ Len(code \o movs) = Len(code) + Len(movs)
      /\ Len(code) \in Nat
      /\ \A i \in 1..Len(code) : (code \o movs)[i] = code[i]
      /\ \A i \in 1..Len(movs) : (code \o movs)[Len(code) + i] = movs[i]
  BY ONLY <1>2, Joined
<1>4. /\ w \in Seq(V) /\ Len(w) = k + l /\ k \in Nat
      /\ \A i \in 1..k : w[i] = code[i]
      /\ \A i \in 1..l : w[k + i] = movs[i]
  BY ONLY w = code \o movs, k = Len(code), <1>1, <1>3
<1>. QED  BY <1>4 DEF V

LEMMA MovZeroSound ==
  ASSUME NEW ins, ins.op = "MOV", NEW a, ins.args = <<a, 0>>, NEW A
  PROVE  Sound(ins, A, A \ {a})
<1>1. ins.args[1] = a /\ ins.args[2] = 0 /\ 0 \in Int
  OBVIOUS
<1>2. \A t, input : Effect(ins, t, input, Byte) = Put(t, a, 0, Byte)
  BY <1>1, EffectOf
<1>. QED  BY <1>1, <1>2, PutSound DEF Sound

\* The MOVs that zero a frame, one after the other.
LEMMA WipeStraight ==
  ASSUME KeepCode, NEW o, Coded(o), NEW first \in Nat, NEW last \in Int, NEW kept
  PROVE  Straight(o, Wipe(o, first, last, kept))
<1>. DEFINE spared == kept \cap first..last
            n == last - first + 1 - Truth(spared # {})
            Wiped == [i \in 1..n |-> first + i - 1 + Truth(\E c \in spared : c < first + i)]
            F == [i \in 1..n |-> Ins("MOV", <<Wiped[i], 0>>, {Wiped[i]}, {})]
            movs == F
            w == Wipe(o, first, last, kept)
            k == Len(o.code)
            l == IF n > 0 THEN n ELSE 0
<1>1. n \in Int
  BY DEF Truth
<1>2. /\ w.code = o.code \o movs /\ w.unmet = o.unmet
      /\ w.dirty = o.dirty \ ((first..last) \ kept)
  BY DEF Wipe, Ins
<1>3. \A c \in (first..last) \ kept : \E i \in 1..n : Wiped[i] = c
  <2>1. /\ spared = kept \cap first..last
        /\ n \in {last - first + 1, last - first} /\ (spared = {} => n = last - first + 1)
    BY DEF Truth
  <2>2. ASSUME NEW i \in 1..n
        PROVE  /\ (\E s \in spared : s < first + i) => Wiped[i] = first + i - 1 + 1
               /\ (\A s \in spared : ~(s < first + i)) => Wiped[i] = first + i - 1 + 0
    <3>1. Wiped[i] = first + i - 1 + Truth(\E c \in spared : c < first + i)
      OBVIOUS
    <3>. HIDE DEF spared, n, Wiped
    <3>. QED  BY <3>1 DEF Truth
  <2>. HIDE DEF spared, n, Wiped
  <2>3. ASSUME NEW c \in (first..last) \ kept
        PROVE  \E i \in 1..n : Wiped[i] = c
    <3>1. c \in Int /\ first <= c /\ c <= last /\ c \notin spared
      BY <2>1
    <3>2. \A s \in spared : s \in Int /\ first <= s /\ s <= last /\ s # c
      BY <2>1, <3>1
    <3>3. CASE \E s \in spared : s < c
      <4>. DEFINE i == c - first
      <4>1. i \in 1..n /\ first + i = c /\ first + i - 1 + 1 = c
        BY <2>1, <3>1, <3>2, <3>3
      <4>. HIDE DEF i
      <4>. QED  BY <2>2, <3>3, <4>1
    <3>4. CASE \A s \in spared : ~(s < c)
      <4>. DEFINE i == c - first + 1
      <4>1. spared # {} => c < last
        BY <3>1, <3>2, <3>4
      <4>2. i \in 1..n /\ first + i = c + 1 /\ first + i - 1 + 0 = c
        BY <2>1, <3>1, <4>1
      <4>3. \A s \in spared : ~(s < c + 1)
        BY <3>1, <3>2, <3>4
      <4>. HIDE DEF i
      <4>. QED  BY <2>2, <4>2, <4>3
    <3>. QED  BY <3>3, <3>4
  <2>. QED  BY <2>3
<1>4. \A i \in 1..n : F[i] = Ins("MOV", <<Wiped[i], 0>>, {Wiped[i]}, {})
  OBVIOUS
<1>. HIDE DEF spared, Wiped, w
<1>5. PICK S : o.code \in Seq(S)
  BY DEF Coded
<1>. HIDE DEF n
<1>0. l \in Nat /\ 1..n = 1..l
  BY <1>1
<1>. DEFINE T == {Ins("MOV", <<Wiped[i], 0>>, {Wiped[i]}, {}) : i \in 1..n}
<1>00. F \in [1..l -> T]
  BY <1>0
<1>. HIDE DEF F, T, k, l
<1>6. /\ w.code \in Seq(S \cup T)
      /\ Len(w.code) = k + l /\ k \in Nat /\ l \in Nat
      /\ \A i \in 1..k : w.code[i] = o.code[i]
      /\ \A i \in 1..l : w.code[k + i] = F[i] /\ i \in 1..n
  <2>1. k = Len(o.code) /\ w.code = o.code \o F /\ l \in Nat
    BY <1>0, <1>2 DEF k
  <2>2. /\ w.code \in Seq(S \cup T) /\ Len(w.code) = k + l /\ k \in Nat
        /\ \A i \in 1..k : w.code[i] = o.code[i]
        /\ \A i \in 1..l : w.code[k + i] = F[i]
    <3>. DEFINE v == w.code
                c == o.code
    <3>1. c \in Seq(S) /\ v = c \o F /\ k = Len(c)
      BY <1>5, <2>1
    <3>. HIDE DEF v, c
    <3>2. /\ v \in Seq(S \cup T) /\ Len(v) = k + l /\ k \in Nat
          /\ \A i \in 1..k : v[i] = c[i]
          /\ \A i \in 1..l : v[k + i] = F[i]
      BY ONLY <1>00, <2>1, <3>1, MovsCoded
    <3>. QED  BY <3>2 DEF v, c
  <2>. QED  BY <1>0, <2>1, <2>2
<1>7. Coded(w)
  BY <1>6 DEF Coded
<1>8. ASSUME NEW m \in 1..l
      PROVE  /\ w.code[k + m] = Ins("MOV", <<Wiped[m], 0>>, {Wiped[m]}, {})
             /\ w.code[k + m].op = "MOV" /\ w.code[k + m].args = <<Wiped[m], 0>>
             /\ w.code[k + m].needs = {} /\ Flat(w.code[k + m])
  <2>1. w.code[k + m] = Ins("MOV", <<Wiped[m], 0>>, {Wiped[m]}, {})
    BY <1>4, <1>6
  <2>. QED  BY <2>1 DEF Ins, Flat, Opens, Closes
<1>9. \A i \in (k + 1)..(k + l) : i - k \in 1..l /\ k + (i - k) = i
  BY <1>6
<1>10. \A i \in (k + 1)..(k + l) : Flat(w.code[i])
  BY <1>8, <1>9
<1>11. ASSUME NEW trace, Chart(o, trace)
       PROVE  \E later : Chart(w, later) /\ Agree(trace, later, k + 1)
  <2>. DEFINE Gone == [m \in 0..l |-> {Wiped[j] : j \in 1..m}]
              later == [i \in 1..(k + l + 1) |->
                          IF i <= k + 1 THEN trace[i] ELSE o.dirty \ Gone[i - k - 1]]
  <2>1. Agree(trace, later, k + 1)
    BY <1>6 DEF Agree
  <2>0. \A m \in 0..l : Gone[m] = {Wiped[j] : j \in 1..m}
    OBVIOUS
  <2>. HIDE DEF Gone
  <2>2. trace[k + 1] \subseteq o.dirty
    BY <1>11 DEF Chart, k
  <2>3. ASSUME NEW m \in 0..l
        PROVE  /\ later[k + m + 1] \subseteq o.dirty \ Gone[m]
               /\ m > 0 => later[k + m + 1] = o.dirty \ Gone[m]
    <3>1. CASE m = 0
      <4>1. later[k + m + 1] = trace[k + 1]
        BY <1>6, <3>1
      <4>2. Gone[m] = {}
        BY <2>0, <3>1
      <4>. HIDE DEF later
      <4>. QED  BY <2>2, <3>1, <4>1, <4>2
    <3>2. CASE m > 0
      <4>1. /\ k + m + 1 \in 1..(k + l + 1) /\ ~(k + m + 1 <= k + 1)
            /\ (k + m + 1) - k - 1 = m
        BY <1>6, <3>2
      <4>2. later[k + m + 1] = IF k + m + 1 <= k + 1 THEN trace[k + m + 1]
                               ELSE o.dirty \ Gone[(k + m + 1) - k - 1]
        BY <4>1
      <4>. HIDE DEF later
      <4>3. later[k + m + 1] = o.dirty \ Gone[(k + m + 1) - k - 1]
        BY ONLY <4>1, <4>2
      <4>4. later[k + m + 1] = o.dirty \ Gone[m]
        BY ONLY <4>1, <4>3
      <4>. QED  BY <4>4
    <3>. HIDE DEF later
    <3>3. m = 0 \/ m > 0
      OBVIOUS
    <3>. QED  BY ONLY <3>1, <3>2, <3>3
  <2>. HIDE DEF later
  <2>4. ASSUME NEW m \in 1..l
        PROVE  Charted(w.code[k + m], w.unmet, later[k + m], later[k + m + 1])
    <3>. DEFINE ins == w.code[k + m]
    <3>1. /\ ins.op = "MOV" /\ ins.args = <<Wiped[m], 0>> /\ ins.needs = {} /\ Flat(ins)
      BY <1>8
    <3>2. /\ later[k + m] \subseteq o.dirty \ Gone[m - 1]
          /\ later[k + m + 1] = o.dirty \ Gone[m]
      <4>1. m - 1 \in 0..l /\ m \in 0..l /\ m > 0 /\ k + (m - 1) + 1 = k + m
        BY <1>6
      <4>. QED  BY <2>3, <4>1
    <3>3. (o.dirty \ Gone[m - 1]) \ {Wiped[m]} \subseteq o.dirty \ Gone[m]
      <4>1. m \in 0..l /\ m - 1 \in 0..l /\ \A j \in 1..m : j = m \/ j \in 1..(m - 1)
        BY <1>6
      <4>. QED  BY <2>0, <4>1
    <3>. HIDE DEF ins
    <3>4. Sound(ins, o.dirty \ Gone[m - 1], (o.dirty \ Gone[m - 1]) \ {Wiped[m]})
      BY <3>1, MovZeroSound
    <3>5. Sound(ins, later[k + m], later[k + m + 1])
      BY <3>2, <3>3, <3>4, SoundMore
    <3>6. Charted(ins, w.unmet, later[k + m], later[k + m + 1])
      BY <3>1, <3>5 DEF Charted, Flat
    <3>. QED  BY <3>6 DEF ins
  <2>5. later[k + l + 1] \subseteq w.dirty
    <3>1. l \in 0..l /\ \A i \in 1..n : i \in 1..l
      <4>1. l \in 0..l
        BY <1>0
      <4>. QED  BY <1>0, <4>1
    <3>2. later[k + l + 1] \subseteq o.dirty \ Gone[l]
      BY <2>3, <3>1
    <3>3. o.dirty \ Gone[l] \subseteq w.dirty
      BY <1>2, <1>3, <2>0, <3>1
    <3>. QED  BY <3>2, <3>3
  <2>6. \A i \in (k + 1)..(k + l) : Charted(w.code[i], w.unmet, later[i], later[i + 1])
    BY <1>9, <2>4
  <2>7. \A i \in 1..(k + l) : \A j \in (k + 1)..(k + l) :
          i <= j /\ Partners(w.code, i, j) =>
            later[i] \ {w.code[i].args[1]} \subseteq later[j + 1]
    BY <1>10, FlatParts
  <2>8. /\ k + l \in Nat /\ k <= k + l /\ k = Len(o.code) /\ k + l = Len(w.code)
        /\ Agree(o.code, w.code, k) /\ o.unmet \subseteq w.unmet
    <3>1. k = Len(o.code)
      BY DEF k
    <3>2. k + l \in Nat /\ k <= k + l
      BY <1>6
    <3>. QED  BY <1>2, <1>6, <3>1, <3>2 DEF Agree
  <2>9. Chart(w, later)
    BY <1>6, <1>11, <2>1, <2>5, <2>6, <2>7, <2>8, ChartMore
  <2>. QED  BY <2>1, <2>9
<1>12. k <= Len(w.code) /\ Agree(o.code, w.code, k)
  BY <1>6 DEF Agree
<1>13. Straight(o, w)
  BY <1>6, <1>7, <1>10, <1>11, <1>12 DEF Straight, k
<1>. QED  BY <1>13 DEF w

-----------------------------------------------------------------------------
(* What a step of the compiler writes and makes of the blocks that are open. *)

\* Programs without loops, over types and strings the memory they take fits.
Runnable == Fitting /\ KeepCode /\ "loop" \notin Kinds

Loopless == \A i \in 1..Len(acts) : acts[i].kind \notin {"loop", "loopbody"}

\* An activation that is no block of the program.
Plain(a) == a.kind \notin {"loop", "loopbody", "ifbody"}

\* A step that neither opens nor closes a block.
Quiet ==
  /\ Straight(out, out')
  /\ \/ acts' = acts
     \/ \E a : Plain(a) /\ acts' = Append(acts, a)
     \/ /\ acts # <<>> /\ Plain(Top)
        /\ \/ acts' = Under
           \/ \E a : Plain(a) /\ acts' = TopBecomes(a)

\* A step that writes nothing.
LEMMA SilentQuiet ==
  ASSUME Coded(out), out' = out,
         \/ acts' = acts
         \/ \E a : Plain(a) /\ acts' = Append(acts, a)
         \/ /\ acts # <<>> /\ Plain(Top)
            /\ \/ acts' = Under
               \/ \E a : Plain(a) /\ acts' = TopBecomes(a)
  PROVE  Quiet
<1>1. Straight(out, out')
  BY StraightNothing
<1>. QED  BY <1>1 DEF Quiet

LEMMA QuietSilent ==
  ASSUME OInv, Known, Coded(out),
         \/ EvalNumber \/ EvalVar \/ UnaryConst \/ FoldConstants \/ LetStruct
         \/ DefineFunction \/ ArraySize \/ BindAlias \/ EvalArgument \/ BeginCall
         \/ LeftEvaluated \/ Finish \/ Illegal \/ Terminated \/ UNCHANGED vars
  PROVE  Quiet
<1>1. IInv
  BY DEF OInv
<1>2. CASE EvalNumber \/ EvalVar \/ LetStruct \/ DefineFunction \/ Finish \/ Illegal
           \/ Terminated \/ UNCHANGED vars
  <2>1. acts' = acts /\ out' = out
    BY <1>2 DEF EvalNumber, EvalVar, LetStruct, DefineFunction, Finish, Illegal, Reject,
       Terminated, vars, Return
  <2>. QED  BY <2>1, SilentQuiet
<1>3. CASE UnaryConst \/ FoldConstants \/ ArraySize
  <2>1. acts # <<>>
    BY <1>3, ValueOwned DEF UnaryConst, FoldConstants, FoldConstantsBy, ArraySize, Resume
  <2>2. Plain(Top)
    BY <1>3 DEF UnaryConst, FoldConstants, FoldConstantsBy, ArraySize, Resume, Plain
  <2>3. out' = out /\ (acts' = acts \/ acts' = Under)
    BY <1>3 DEF UnaryConst, FoldConstants, FoldConstantsBy, ArraySize, Return, Reject, StmtWith
  <2>. QED  BY <2>1, <2>2, <2>3, SilentQuiet
<1>4. CASE BindAlias \/ EvalArgument \/ BeginCall
  <2>1. mode = "args" /\ out' = out
    BY <1>4 DEF BindAlias, EvalArgument, BeginCall
  <2>2. acts # <<>> /\ Top.kind = "call"
    BY <1>1, <2>1 DEF IInv, ModeShape
  <2>3. Top \in Activation
    BY <1>1, <2>2, TopFacts DEF IInv, Types
  <2>4. PICK a : acts' = TopBecomes(a) /\ a.kind \in {"call", "body"}
    <3>1. CASE BindAlias
      <4>1. PICK p \in ArgPlaces : acts' = TopBecomes(Bound(Top, Variable(p.addr, p.type, 0)))
        BY <3>1 DEF BindAlias, BindWith
      <4>2. Bound(Top, Variable(p.addr, p.type, 0)).kind = "call"
        BY <2>2, <2>3 DEF Bound, Activation
      <4>. QED  BY <4>1, <4>2
    <3>2. CASE EvalArgument
      <4>1. acts' = TopBecomes([Top EXCEPT !.mark = NextFree, !.scope = Depth])
        BY <3>2 DEF EvalArgument, EvalWith
      <4>2. [Top EXCEPT !.mark = NextFree, !.scope = Depth].kind = "call"
        BY <2>2, <2>3 DEF Activation
      <4>. QED  BY <4>1, <4>2
    <3>3. CASE BeginCall
      <4>1. acts' = TopBecomes([Top EXCEPT !.kind = "body", !.scope = Depth + 1,
                                           !.mark = NextFree])
        BY <3>3 DEF BeginCall, StmtWith
      <4>2. [Top EXCEPT !.kind = "body", !.scope = Depth + 1, !.mark = NextFree].kind = "body"
        BY <2>3 DEF Activation
      <4>. QED  BY <4>1, <4>2
    <3>. QED  BY <1>4, <3>1, <3>2, <3>3
  <2>5. Plain(a) /\ Plain(Top)
    BY <2>2, <2>4 DEF Plain
  <2>. QED  BY <2>1, <2>2, <2>4, <2>5, SilentQuiet
<1>5. CASE LeftEvaluated
  <2>. DEFINE c == Pending("right")
              a == [c EXCEPT !.held = res]
  <2>1. mode = "value" /\ out' = out /\ acts' = TopBecomes(a) /\ Top.kind = "left"
    BY <1>5 DEF LeftEvaluated, Resume, EvalWith
  <2>2. acts # <<>>
    BY <2>1, ValueOwned
  <2>3. a.kind = "right"
    BY DEF Pending
  <2>. HIDE DEF a
  <2>4. Plain(a) /\ Plain(Top)
    BY <2>1, <2>3 DEF Plain
  <2>. QED  BY <2>1, <2>2, <2>4, SilentQuiet
<1>. QED  BY <1>2, <1>3, <1>4, <1>5

LEMMA QuietWaiting ==
  ASSUME Runnable, Coded(out),
         \/ EvalElement \/ EvalUnary \/ EvalBinary \/ EvalCall \/ CallStmt
         \/ ReturnStmt \/ Let \/ Set \/ CreateArray \/ AssignArray \/ PrintVal
         \/ Loop \/ If
  PROVE  Quiet
<1>1. out' = out /\ ~Loop
  <2>1. out' = out
    BY DEF EvalElement, EvalUnary, EvalBinary, EvalCall, CallStmt, CallBegins, ReturnStmt, Let,
       Set, CreateArray, AssignArray, PrintVal, Loop, If
  <2>2. ~Loop
    BY DEF Runnable, Loop, Stmt
  <2>. QED  BY <2>1, <2>2
<1>2. PICK a : /\ acts' = Append(acts, a)
               /\ a.kind \in {"element", "unary", "left", "call", "return", "let", "set",
                              "array", "index", "print_val", "if"}
  <2>1. CASE EvalElement
    <3>1. PICK p \in ArrayPlaces : acts' = Append(acts, [Pending("element") EXCEPT !.base = p.addr])
      BY <2>1 DEF EvalElement, EvalWith
    <3>2. [Pending("element") EXCEPT !.base = p.addr].kind = "element"
      BY DEF Pending
    <3>. QED  BY <3>1, <3>2
  <2>2. CASE EvalCall \/ CallStmt
    <3>1. PICK f \in Funs : acts' = Append(acts, [Pending("call") EXCEPT !.base = NextFree,
                                                                        !.name = f])
      BY <2>2 DEF EvalCall, CallStmt, CallBegins, BindWith
    <3>2. [Pending("call") EXCEPT !.base = NextFree, !.name = f].kind = "call"
      BY DEF Pending
    <3>. QED  BY <3>1, <3>2
  <2>3. CASE ReturnStmt
    <3>1. acts' = Append(acts, [Pending("return") EXCEPT !.nth = Len(calls)])
      BY <2>3 DEF ReturnStmt, EvalWith
    <3>2. [Pending("return") EXCEPT !.nth = Len(calls)].kind = "return"
      BY DEF Pending
    <3>. QED  BY <3>1, <3>2
  <2>4. CASE AssignArray
    <3>1. PICK p \in ArrayPlaces :
            acts' = Append(acts, [Pending("index") EXCEPT !.base = p.addr,
                                                          !.len = p.type.size - 4])
      BY <2>4 DEF AssignArray, EvalWith
    <3>2. [Pending("index") EXCEPT !.base = p.addr, !.len = p.type.size - 4].kind = "index"
      BY DEF Pending
    <3>. QED  BY <3>1, <3>2
  <2>5. CASE EvalUnary \/ EvalBinary \/ Let \/ Set \/ CreateArray \/ PrintVal \/ If
    <3>1. PICK kind \in {"unary", "left", "let", "set", "array", "print_val", "if"} :
            acts' = Append(acts, Pending(kind))
      BY <2>5 DEF EvalUnary, EvalBinary, Let, Set, CreateArray, PrintVal, If, EvalWith
    <3>2. Pending(kind).kind = kind
      BY DEF Pending
    <3>. QED  BY <3>1, <3>2
  <2>. QED  BY <1>1, <2>1, <2>2, <2>3, <2>4, <2>5
<1>3. Plain(a)
  BY <1>2 DEF Plain
<1>. QED  BY <1>1, <1>2, <1>3, SilentQuiet

LEMMA QuietExpression ==
  ASSUME Runnable, OInv, Known, Coded(out), ElementRead \/ UnaryFlip \/ FoldOnTape \/ BindValue
  PROVE  Quiet
<1>0. KeepCode
  BY DEF Runnable
<1>1. mode = "value" /\ Top.kind \in {"element", "unary", "right", "call"}
  BY DEF ElementRead, UnaryFlip, FoldOnTape, FoldOnTapeBy, BindValue, Resume
<1>2. /\ acts # <<>> /\ Top \in Activation /\ Top.mark \in Nat /\ Top.base \in Nat
      /\ res.type \in {"CONST", "ADDRESS", "TEMP"} /\ res.val \in Nat /\ Top.held.val \in Nat
  BY <1>1, ValueOwned
<1>3. Evaluated(res) /\ Valued(res) /\ 0 \in Int /\ Plain(Top)
  BY <1>1, <1>2 DEF Evaluated, Valued, Plain
<1>4. CASE ElementRead
  <2>. DEFINE read == Ra(out, Top.base, res, Top.mark)
  <2>1. /\ out' = IF res.type = "TEMP" /\ res.val # Top.mark THEN Mov(read, res.val, 0) ELSE read
        /\ acts' = Under
    BY <1>4 DEF ElementRead, Return
  <2>2. Straight(out, read)
    BY <1>0, RaStraight
  <2>. HIDE DEF read
  <2>3. Straight(read, Mov(read, res.val, 0))
    BY <1>0, <1>3, <2>2, MovStraight, StraightCoded
  <2>4. Straight(out, Mov(read, res.val, 0))
    BY <2>2, <2>3, StraightThen
  <2>. QED  BY <1>2, <1>3, <2>1, <2>2, <2>4 DEF Quiet
<1>5. CASE UnaryFlip
  <2>. DEFINE e == Assign(out, Top.mark, res)
  <2>1. out' = Flip(e, Top.mark) /\ acts' = Under
    BY <1>5 DEF UnaryFlip, Return
  <2>2. Straight(out, e)
    BY <1>0, <1>3, AssignStraight
  <2>. HIDE DEF e
  <2>3. Straight(e, Flip(e, Top.mark))
    BY <1>0, <1>3, <2>2, CellStraight, StraightCoded
  <2>4. Straight(out, Flip(e, Top.mark))
    BY <2>2, <2>3, StraightThen
  <2>. QED  BY <1>2, <1>3, <2>1, <2>4 DEF Quiet
<1>6. CASE BindValue
  <2>. DEFINE a == Bound(Top, Variable(Top.mark, IntegerType, 1))
  <2>1. out' = CopyTo(out, Top.mark, res) /\ acts' = TopBecomes(a) /\ Top.kind = "call"
    BY <1>6 DEF BindValue, BindWith, Resume
  <2>2. a.kind = "call"
    BY <1>2, <2>1 DEF Bound, Activation
  <2>. HIDE DEF a
  <2>3. Plain(a)
    BY <2>2 DEF Plain
  <2>4. Straight(out, CopyTo(out, Top.mark, res))
    BY <1>0, <1>3, AssignStraight
  <2>. QED  BY <1>2, <1>3, <2>1, <2>3, <2>4 DEF Quiet
<1>7. CASE FoldOnTape
  <2>. DEFINE left == Top.held
              acc  == Accumulator(left, NextFree)
              dump == IF left.type = "TEMP" THEN NextFree ELSE NextFree + 1
  <2>1. PICK op \in Ops : FoldOnTapeBy(op)
    BY <1>7 DEF FoldOnTape
  <2>. DEFINE e == Assign(out, acc, left)
              folded == BinaryOp(e, op, acc, res, dump)
  <2>2. /\ out' = IF res.type = "TEMP" THEN Mov(folded, res.val, 0) ELSE folded
        /\ Top.kind = "right" /\ acts' = Under
    <3>1. scopes[Top.scope].next = NextFree
      BY <1>1, ValueOwned
    <3>. QED  BY <2>1, <3>1 DEF FoldOnTapeBy, Resume, Return
  <2>3. op \in BinOps /\ Evaluated(left)
    <3>1. IInv
      BY DEF OInv
    <3>. QED  BY <1>2, <2>2, <3>1, KnownTop, LiteralsAssumption DEF Evaluated
  <2>. HIDE DEF acc, dump, left
  <2>4. Straight(out, e)
    BY <1>0, <2>3, AssignStraight
  <2>. HIDE DEF e
  <2>5. Straight(e, folded)
    BY <1>0, <1>3, <2>3, <2>4, BinaryOpStraight, StraightCoded
  <2>. HIDE DEF folded
  <2>6. Straight(folded, Mov(folded, res.val, 0))
    BY <1>0, <1>3, <2>5, MovStraight, StraightCoded
  <2>7. Straight(out, folded)
    BY <2>4, <2>5, StraightThen
  <2>8. Straight(out, Mov(folded, res.val, 0))
    BY <2>6, <2>7, StraightThen
  <2>. QED  BY <1>2, <1>3, <2>2, <2>7, <2>8 DEF Quiet
<1>. QED  BY <1>4, <1>5, <1>6, <1>7

LEMMA QuietStatement ==
  ASSUME Runnable, OInv, Coded(out),
         ReturnValue \/ LetValue \/ SetValue \/ IndexEvaluated \/ StoreValue \/ ValuePrinted
  PROVE  Quiet
<1>0. KeepCode
  BY DEF Runnable
<1>1. mode = "value" /\ Plain(Top)
  BY DEF ReturnValue, LetValue, LetValueOf, SetValue, SetValueAt, IndexEvaluated, StoreValue,
     ValuePrinted, Resume, Plain
<1>2. /\ acts # <<>> /\ Top \in Activation /\ Top.mark \in Nat /\ Top.base \in Nat
      /\ NextFree \in Nat /\ Top.len \in Int
      /\ res.type \in {"CONST", "ADDRESS", "TEMP"} /\ res.val \in Nat
  BY <1>1, ValueOwned DEF Activation
<1>3. Evaluated(res) /\ Valued(res) /\ 0 \in Int
  BY <1>2 DEF Evaluated, Valued
<1>4. \A dest : Straight(out, Assign(out, dest, res)) /\ Straight(out, CopyTo(out, dest, res))
  BY <1>0, <1>3, AssignStraight
<1>5. Straight(out, out)
  BY StraightNothing
<1>6. CASE ReturnValue \/ LetValue \/ SetValue
  <2>1. acts' = Under
    BY <1>6 DEF ReturnValue, LetValue, LetValueOf, SetValue, SetValueAt, StmtWith
  <2>2. \E dest : out' = Assign(out, dest, res) \/ out' = CopyTo(out, dest, res)
    BY <1>6 DEF ReturnValue, LetValue, LetValueOf, SetValue, SetValueAt
  <2>3. Straight(out, out')
    BY <1>4, <2>2
  <2>. QED  BY <1>1, <1>2, <2>1, <2>3 DEF Quiet
<1>7. CASE IndexEvaluated
  <2>. DEFINE x == IF res.type = "TEMP" THEN Temp(Top.mark) ELSE res
              a == [Top EXCEPT !.kind = "store", !.held = x]
  <2>1. acts' = TopBecomes(a) /\ (out' = out \/ out' = Assign(out, Top.mark, res))
    BY <1>7 DEF IndexEvaluated, EvalWith
  <2>2. a.kind = "store"
    BY <1>2 DEF Activation
  <2>. HIDE DEF a
  <2>3. Plain(a)
    BY <2>2 DEF Plain
  <2>4. Straight(out, out')
    BY <1>4, <1>5, <2>1
  <2>. QED  BY <1>1, <1>2, <2>1, <2>3, <2>4 DEF Quiet
<1>8. ASSUME NEW o, Straight(out, o), NEW r
      PROVE  Straight(out, ZeroIfTemp(o, r))
  <2>1. Straight(o, Mov(o, r.val, 0))
    BY <1>0, <1>3, <1>8, MovStraight, StraightCoded
  <2>2. Straight(out, Mov(o, r.val, 0))
    BY <1>8, <2>1, StraightThen
  <2>. QED  BY <1>8, <2>2 DEF ZeroIfTemp
<1>9. CASE StoreValue
  <2>. DEFINE target == IF res.type = "TEMP" THEN Temp(Top.mark + 1) ELSE res
              ready  == IF res.type = "TEMP" THEN Assign(out, Top.mark + 1, res) ELSE out
              stored == Sav(ready, Top.base, Top.len, Top.held, target)
              z      == ZeroIfTemp(stored, Top.held)
  <2>1. out' = ZeroIfTemp(z, target) /\ acts' = Under
    BY <1>9 DEF StoreValue, StmtWith
  <2>2. Straight(out, ready)
    BY <1>4, <1>5
  <2>3. Valued(target)
    BY <1>3 DEF Valued, Temp
  <2>. HIDE DEF target, ready
  <2>4. Straight(ready, stored)
    BY <1>0, <1>2, <2>2, <2>3, SavStraight, StraightCoded
  <2>. HIDE DEF stored
  <2>5. Straight(out, stored)
    BY <2>2, <2>4, StraightThen
  <2>6. Straight(out, z)
    BY <1>8, <2>5
  <2>. HIDE DEF z
  <2>7. Straight(out, out')
    BY <1>8, <2>1, <2>6
  <2>. QED  BY <1>1, <1>2, <2>1, <2>7 DEF Quiet
<1>10. CASE ValuePrinted
  <2>. DEFINE Printed(o, cell) == Mov(Itoa(o, cell, cell + 1), cell, 0)
              load == Load(out, NextFree, res.val)
              copy == Copy(out, NextFree, res.val)
              moved == Mov(copy, res.val, 0)
  <2>1. /\ out' = CASE res.type = "CONST" -> Printed(load, NextFree)
                    [] res.type = "ADDRESS" -> Itoa(out, res.val, NextFree)
                    [] res.type = "TEMP" /\ res.val = NextFree -> Printed(out, NextFree)
                    [] res.type = "TEMP" /\ res.val # NextFree -> Printed(moved, NextFree)
        /\ acts' = Under
    BY <1>10 DEF ValuePrinted, StmtWith
  <2>2. ASSUME NEW o, Straight(out, o), NEW cell
        PROVE  Straight(out, Printed(o, cell))
    <3>. DEFINE j == Itoa(o, cell, cell + 1)
    <3>1. Straight(o, j)
      BY <1>0, <2>2, PrintStraight, StraightCoded
    <3>. HIDE DEF j
    <3>2. Straight(j, Mov(j, cell, 0))
      BY <1>0, <1>3, <3>1, MovStraight, StraightCoded
    <3>3. Straight(out, j)
      BY <2>2, <3>1, StraightThen
    <3>4. Straight(out, Mov(j, cell, 0))
      BY <3>2, <3>3, StraightThen
    <3>. QED  BY <3>4 DEF j
  <2>3. Straight(out, load) /\ Straight(out, copy) /\ Straight(out, Itoa(out, res.val, NextFree))
    <3>1. res.val \in Int
      BY <1>2
    <3>. QED  BY <1>0, <3>1, CellStraight, AddStraight, PrintStraight
  <2>. HIDE DEF load, copy
  <2>4. Straight(copy, moved)
    BY <1>0, <1>3, <2>3, MovStraight, StraightCoded
  <2>5. Straight(out, moved)
    BY <2>3, <2>4, StraightThen
  <2>. HIDE DEF moved, Printed
  <2>6. /\ Straight(out, Printed(out, NextFree)) /\ Straight(out, Printed(load, NextFree))
        /\ Straight(out, Printed(moved, NextFree))
    BY <1>5, <2>2, <2>3, <2>5
  <2>7. Straight(out, out')
    BY <1>2, <2>1, <2>3, <2>6
  <2>. QED  BY <1>1, <1>2, <2>1, <2>7 DEF Quiet
<1>. QED  BY <1>6, <1>7, <1>9, <1>10

LEMMA QuietCalling ==
  ASSUME Runnable, OInv, Coded(out), EndCallInExpr \/ EndCallStmt
  PROVE  Quiet
<1>1. acts # <<>> /\ Plain(Top) /\ KeepCode /\ 0 \in Int
  BY DEF EndCallInExpr, EndCallStmt, BodyEnds, Plain, Runnable
<1>2. Top.base \in Nat /\ NextFree \in Nat
  <2>1. IInv /\ Top \in Activation
    BY <1>1, TopFacts DEF OInv, IInv, Types
  <2>. QED  BY <1>1, <2>1, FloorOfTop, ActivationTypes
<1>3. NextFree - 1 \in Int
  BY <1>2
<1>4. Straight(out, FrameWiped)
  BY <1>1, <1>2, <1>3, WipeStraight DEF FrameWiped
<1>5. Straight(out, Mov(FrameWiped, CurrentCall.ret_addr, 0))
  <2>. DEFINE w == FrameWiped
              c == CurrentCall.ret_addr
  <2>. HIDE DEF w, c
  <2>1. Straight(w, Mov(w, c, 0))
    BY <1>1, <1>4, MovStraight, StraightCoded DEF w
  <2>2. Straight(out, Mov(w, c, 0))
    BY <1>4, <2>1, StraightThen DEF w
  <2>. QED  BY <2>2 DEF w, c
<1>6. Straight(out, out)
  BY StraightNothing
<1>7. out' = out \/ out' = FrameWiped \/ out' = Mov(FrameWiped, CurrentCall.ret_addr, 0)
  BY DEF EndCallInExpr, EndCallStmt, Reject
<1>8. acts' = Under \/ acts' = acts
  BY DEF EndCallInExpr, EndCallStmt, Reject, Return, StmtWith
<1>. QED  BY <1>1, <1>4, <1>5, <1>6, <1>7, <1>8 DEF Quiet

LEMMA QuietSitting ==
  ASSUME Runnable, Coded(out), EvalReadChar \/ LetString \/ PrintStr
  PROVE  Quiet
<1>1. KeepCode /\ 0 \in Int
  BY DEF Runnable
<1>2. acts' = acts
  BY DEF EvalReadChar, LetString, PrintStr, Return
<1>3. CASE EvalReadChar
  <2>1. out' = ReadChar(out, NextFree)
    BY <1>3 DEF EvalReadChar
  <2>. QED  BY <1>1, <1>2, <2>1, CellStraight DEF Quiet
<1>4. CASE LetString
  <2>1. PICK s \in Strings : out' = InsertString(out, NextFree, s.chars)
    BY <1>4 DEF LetString
  <2>. QED  BY <1>1, <1>2, <2>1, PrintStraight DEF Quiet
<1>5. CASE PrintStr
  <2>1. PICK p \in Places : out' = Ouz(Mov(out, p.addr + 3, 0), p.addr)
    BY <1>5 DEF PrintStr
  <2>. DEFINE e == Mov(out, p.addr + 3, 0)
  <2>2. Straight(out, e)
    BY <1>1, MovStraight
  <2>. HIDE DEF e
  <2>3. Straight(e, Ouz(e, p.addr))
    BY <1>1, <2>2, PrintStraight, StraightCoded
  <2>4. Straight(out, Ouz(e, p.addr))
    BY <2>2, <2>3, StraightThen
  <2>. QED  BY <1>2, <2>1, <2>4 DEF Quiet, e
<1>. QED  BY <1>3, <1>4, <1>5

\* In a program without loops only an if opens or closes a block.
LEMMA StepQuiet ==
  ASSUME Runnable, OInv, Known, Coded(out), Loopless, [Next]_vars
  PROVE  Quiet \/ IfEnter \/ IfLeave
<1>1. CASE UNCHANGED vars \/ Finish \/ Illegal \/ Terminated
  BY <1>1, QuietSilent
<1>2. CASE Eval
  BY <1>2, QuietSilent, QuietWaiting, QuietSitting DEF Eval
<1>3. CASE Resumption
  <2>1. ~LoopEnter
    <3>1. SUFFICES ASSUME LoopEnter
                   PROVE  FALSE
      OBVIOUS
    <3>2. mode = "value" /\ Top.kind = "loop"
      BY <3>1 DEF LoopEnter, Resume
    <3>3. Len(acts) \in 1..Len(acts) /\ Top = acts[Len(acts)]
      BY <3>2, ValueOwned DEF OInv, IInv, Types, StackTypes, Top
    <3>. QED  BY <3>2, <3>3 DEF Loopless
  <2>. QED  BY <1>3, <2>1, QuietSilent, QuietExpression, QuietStatement DEF Resumption
<1>4. CASE Statement
  BY <1>4, QuietSilent, QuietWaiting, QuietSitting DEF Statement
<1>5. CASE Calling
  BY <1>5, QuietSilent, QuietCalling DEF Calling
<1>6. CASE LoopLeave \/ IfLeave
  <2>1. ~LoopLeave
    <3>1. SUFFICES ASSUME LoopLeave
                   PROVE  FALSE
      OBVIOUS
    <3>2. acts # <<>> /\ Top.kind = "loopbody"
      BY <3>1 DEF LoopLeave
    <3>3. Len(acts) \in 1..Len(acts) /\ Top = acts[Len(acts)]
      BY <3>2 DEF OInv, IInv, Types, StackTypes, Top
    <3>. QED  BY <3>2, <3>3 DEF Loopless
  <2>. QED  BY <1>6, <2>1
<1>. QED  BY <1>1, <1>2, <1>3, <1>4, <1>5, <1>6 DEF Next

-----------------------------------------------------------------------------
(* Where the blocks that are open begin.                                   *)

BlockActs(stack, m) == {b \in 1..m : stack[b].kind = "ifbody"}

\* door[b] is the "[" of the block b. What it found dirty the block remembers,
\* and since then no more blocks have been closed than opened.
Doors(o, stack, door, trace) ==
  /\ Balance(o.code, 1, Len(o.code)) = Cardinality(BlockActs(stack, Len(stack)))
  /\ \A b \in BlockActs(stack, Len(stack)) :
       /\ door[b] \in 1..Len(o.code) /\ Opens(o.code[door[b]])
       /\ o.code[door[b]].args[1] = stack[b].held.val
       /\ trace[door[b]] \subseteq stack[b].before
       /\ Balance(o.code, 1, door[b]) = Cardinality(BlockActs(stack, b))
       /\ \A k \in door[b]..Len(o.code) :
            Balance(o.code, 1, k) >= Balance(o.code, 1, door[b])

LEMMA BalanceInt ==
  ASSUME NEW code, NEW j \in Nat
  PROVE  Balance(code, 1, j) \in Int
<1>1. 1 \in Nat /\ 1 <= 1 /\ 1 <= j + 1
  OBVIOUS
<1>. QED  BY <1>1, BalanceApart

LEMMA BlocksFinite ==
  ASSUME NEW stack, NEW m \in Nat
  PROVE  IsFiniteSet(BlockActs(stack, m)) /\ Cardinality(BlockActs(stack, m)) \in Nat
<1>1. IsFiniteSet(1..m)
  BY FS_Interval
<1>2. BlockActs(stack, m) \subseteq 1..m
  BY DEF BlockActs
<1>. QED  BY <1>1, <1>2, FS_Subset, FS_CardinalityType

\* The blocks are the same in both stacks.
SameBlocks(s, t) ==
  /\ BlockActs(t, Len(t)) = BlockActs(s, Len(s))
  /\ \A b \in BlockActs(s, Len(s)) : t[b] = s[b] /\ BlockActs(t, b) = BlockActs(s, b)

\* Stacks that differ in an activation on top that is no block.
LEMMA PlainEnds ==
  ASSUME NEW s, NEW t, NEW m \in Nat, Len(s) \in {m, m + 1}, Len(t) \in {m, m + 1},
         \A i \in 1..m : t[i] = s[i],
         Len(s) = m + 1 => Plain(s[m + 1]), Len(t) = m + 1 => Plain(t[m + 1])
  PROVE  SameBlocks(s, t)
<1>1. /\ \A i \in 1..Len(s) : i \in 1..m \/ (i = m + 1 /\ Len(s) = m + 1)
      /\ \A i \in 1..Len(t) : i \in 1..m \/ (i = m + 1 /\ Len(t) = m + 1)
      /\ \A i \in 1..m : i \in 1..Len(s) /\ i \in 1..Len(t)
  OBVIOUS
<1>2. /\ BlockActs(s, Len(s)) = {b \in 1..m : s[b].kind = "ifbody"}
      /\ BlockActs(t, Len(t)) = {b \in 1..m : t[b].kind = "ifbody"}
  BY <1>1 DEF BlockActs, Plain
<1>3. ASSUME NEW b \in 1..m
      PROVE  BlockActs(t, b) = BlockActs(s, b)
  <2>1. \A i \in 1..b : i \in 1..m
    OBVIOUS
  <2>. QED  BY <2>1 DEF BlockActs
<1>. QED  BY <1>2, <1>3 DEF SameBlocks

LEMMA QuietBlocks ==
  ASSUME IInv, Quiet
  PROVE  SameBlocks(acts, acts') /\ (Loopless => Loopless')
<1>. DEFINE n == Len(acts)
<1>1. n \in Nat
  BY Rearranged
<1>2. CASE acts' = acts
  BY <1>2 DEF SameBlocks, Loopless
<1>3. CASE \E a : Plain(a) /\ acts' = Append(acts, a)
  <2>1. PICK a : Plain(a) /\ acts' = Append(acts, a)
    BY <1>3
  <2>2. Len(acts') = n + 1 /\ acts'[n + 1] = a /\ \A i \in 1..n : acts'[i] = acts[i]
    BY <2>1, Rearranged
  <2>3. SameBlocks(acts, acts')
    <3>1. Len(acts) \in {n, n + 1} /\ Len(acts') \in {n, n + 1} /\ Len(acts) # n + 1
          /\ Plain(acts'[n + 1])
      BY <1>1, <2>1, <2>2
    <3>. HIDE DEF n
    <3>. QED  BY ONLY <1>1, <2>2, <3>1, PlainEnds
  <2>4. \A i \in 1..Len(acts') : i \in 1..n \/ i = n + 1
    BY <1>1, <2>2
  <2>. QED  BY <2>1, <2>2, <2>3, <2>4 DEF Loopless, Plain
<1>4. CASE acts # <<>> /\ Plain(Top) /\ acts' = Under
  <2>1. n >= 1 /\ Len(acts') = n - 1 /\ \A i \in 1..(n - 1) : acts'[i] = acts[i]
    BY <1>4, Rearranged
  <2>. DEFINE m == n - 1
  <2>2. m \in Nat /\ n = m + 1 /\ Len(acts') = m /\ acts[m + 1] = Top
        /\ \A i \in 1..m : acts'[i] = acts[i] /\ i \in 1..n
    BY <1>1, <2>1 DEF Top
  <2>. HIDE DEF m
  <2>3. SameBlocks(acts, acts')
    <3>1. Len(acts) \in {m, m + 1} /\ Len(acts') \in {m, m + 1} /\ Len(acts') # m + 1
          /\ Plain(acts[m + 1])
      BY <1>4, <2>2
    <3>. QED  BY ONLY <2>2, <3>1, PlainEnds
  <2>. QED  BY <2>2, <2>3 DEF Loopless
<1>5. CASE acts # <<>> /\ Plain(Top) /\ \E a : Plain(a) /\ acts' = TopBecomes(a)
  <2>0. PICK a : Plain(a) /\ acts' = TopBecomes(a)
    BY <1>5
  <2>1. n >= 1 /\ Len(acts') = n /\ acts'[n] = a /\ \A i \in 1..(n - 1) : acts'[i] = acts[i]
    BY <1>5, <2>0, Rearranged
  <2>. DEFINE m == n - 1
  <2>2. m \in Nat /\ n = m + 1 /\ Len(acts') = m + 1 /\ acts[m + 1] = Top /\ acts'[m + 1] = a
        /\ \A i \in 1..m : acts'[i] = acts[i] /\ i \in 1..n
    BY <1>1, <2>1 DEF Top
  <2>. HIDE DEF m
  <2>3. SameBlocks(acts, acts')
    <3>1. Len(acts) \in {m, m + 1} /\ Len(acts') \in {m, m + 1}
          /\ Plain(acts[m + 1]) /\ Plain(acts'[m + 1])
      BY <1>5, <2>0, <2>2
    <3>. QED  BY ONLY <2>2, <3>1, PlainEnds
  <2>4. \A i \in 1..Len(acts') : i \in 1..m \/ i = m + 1
    BY <2>2
  <2>. QED  BY <2>0, <2>2, <2>3, <2>4 DEF Loopless, Plain
<1>. QED  BY <1>2, <1>3, <1>4, <1>5 DEF Quiet

\* They begin where they did, whatever is written behind them.
LEMMA DoorsStay ==
  ASSUME NEW o, NEW p, Straight(o, p), NEW s, NEW t, SameBlocks(s, t),
         NEW door, NEW trace, Doors(o, s, door, trace),
         NEW later, Agree(trace, later, Len(o.code) + 1)
  PROVE  Doors(p, t, door, later)
<1>. DEFINE n == Len(o.code)
            l == Len(p.code)
<1>1. /\ n \in Nat /\ l \in Nat /\ n <= l
      /\ \A i \in 1..n : p.code[i] = o.code[i]
      /\ \A i \in (n + 1)..l : Flat(p.code[i])
  BY CodeLength DEF Straight, Agree
<1>2. ASSUME NEW j \in n..l
      PROVE  Balance(p.code, 1, j) = Balance(o.code, 1, n)
  <2>1. j \in Nat /\ n <= j /\ \A i \in (n + 1)..j : i \in (n + 1)..l
    BY <1>1
  <2>2. \A i \in (n + 1)..j : Flat(p.code[i])
    BY <1>1, <2>1
  <2>. HIDE DEF n, l
  <2>. QED  BY ONLY <1>1, <2>1, <2>2, FlatBalance
<1>3. ASSUME NEW j \in 1..n
      PROVE  Balance(p.code, 1, j) = Balance(o.code, 1, j)
  <2>1. j \in Nat /\ \A i \in 1..j : i \in 1..n
    BY <1>1
  <2>. DEFINE c == o.code
              w == p.code
  <2>2. \A i \in 1..j : w[i] = c[i]
    BY <1>1, <2>1
  <2>. HIDE DEF c, w
  <2>3. Balance(w, 1, j) = Balance(c, 1, j)
    BY ONLY <2>1, <2>2, SamePrefix
  <2>. QED  BY <2>3 DEF c, w
<1>4. /\ BlockActs(t, Len(t)) = BlockActs(s, Len(s))
      /\ \A b \in BlockActs(s, Len(s)) : t[b] = s[b] /\ BlockActs(t, b) = BlockActs(s, b)
  BY DEF SameBlocks
<1>5. Balance(p.code, 1, l) = Cardinality(BlockActs(t, Len(t)))
  <2>1. l \in n..l
    BY <1>1
  <2>. QED  BY <1>2, <1>4, <2>1 DEF Doors
<1>6. ASSUME NEW b \in BlockActs(s, Len(s))
      PROVE  /\ door[b] \in 1..l /\ Opens(p.code[door[b]])
             /\ p.code[door[b]].args[1] = t[b].held.val
             /\ later[door[b]] \subseteq t[b].before
             /\ Balance(p.code, 1, door[b]) = Cardinality(BlockActs(t, b))
             /\ \A k \in door[b]..l : Balance(p.code, 1, k) >= Balance(p.code, 1, door[b])
  <2>. DEFINE d == door[b]
  <2>1. /\ d \in 1..n /\ Opens(o.code[d])
        /\ o.code[d].args[1] = s[b].held.val
        /\ trace[d] \subseteq s[b].before
        /\ Balance(o.code, 1, d) = Cardinality(BlockActs(s, b))
        /\ \A k \in d..n : Balance(o.code, 1, k) >= Balance(o.code, 1, d)
    BY DEF Doors
  <2>. HIDE DEF d, n, l
  <2>2. d \in 1..l /\ d \in 1..(n + 1) /\ n \in d..n
    BY <1>1, <2>1
  <2>3. p.code[d] = o.code[d] /\ later[d] = trace[d]
        /\ Balance(p.code, 1, d) = Balance(o.code, 1, d)
    BY <1>1, <1>3, <2>1, <2>2 DEF Agree, n
  <2>4. ASSUME NEW k \in d..l
        PROVE  Balance(p.code, 1, k) >= Balance(p.code, 1, d)
    <3>1. CASE k \in d..n
      <4>1. k \in 1..n
        BY <2>1, <3>1
      <4>. QED  BY <1>3, <2>1, <2>3, <3>1, <4>1
    <3>2. CASE k \notin d..n
      <4>1. k \in n..l
        BY <1>1, <2>1, <3>2
      <4>. QED  BY <1>2, <2>1, <2>2, <2>3, <4>1
    <3>. QED  BY <3>1, <3>2
  <2>. QED  BY <1>4, <2>1, <2>2, <2>3, <2>4 DEF d
<1>. QED  BY <1>4, <1>5, <1>6 DEF Doors

\* The balance of a code with one instruction more.
LEMMA BalanceMore ==
  ASSUME NEW code, NEW longer, NEW n \in Nat, Agree(code, longer, n)
  PROVE  /\ \A k \in 0..n : /\ Balance(longer, 1, k) = Balance(code, 1, k)
                            /\ Balance(code, 1, k) \in Int
         /\ Balance(longer, 1, n + 1) \in Int
         /\ Opens(longer[n + 1]) => Balance(longer, 1, n + 1) = Balance(code, 1, n) + 1
         /\ Closes(longer[n + 1]) => Balance(longer, 1, n + 1) = Balance(code, 1, n) - 1
<1>1. ASSUME NEW k \in 0..n
      PROVE  Balance(longer, 1, k) = Balance(code, 1, k) /\ Balance(code, 1, k) \in Int
  <2>1. k \in Nat
    OBVIOUS
  <2>2. \A i \in 1..k : longer[i] = code[i]
    BY DEF Agree
  <2>3. Balance(longer, 1, k) = Balance(code, 1, k)
    BY ONLY <2>1, <2>2, SamePrefix
  <2>. QED  BY <2>1, <2>3, BalanceInt
<1>2. n + 1 \in Nat /\ 1 <= n + 1 /\ (n + 1) - 1 = n /\ n \in 0..n
  OBVIOUS
<1>. DEFINE j == n + 1
<1>3. /\ Balance(longer, 1, j) \in Int
      /\ Opens(longer[j]) => Balance(longer, 1, j) = Balance(longer, 1, j - 1) + 1
      /\ Closes(longer[j]) => Balance(longer, 1, j) = Balance(longer, 1, j - 1) - 1
  <2>1. j \in Nat /\ 1 <= j
    BY <1>2
  <2>. HIDE DEF j
  <2>. QED  BY <2>1, BalanceStep
<1>. QED  BY <1>1, <1>2, <1>3

\* The "[" that the "]" of the innermost block belongs to is the block's.
LEMMA DoorPartner ==
  ASSUME NEW o, NEW s, NEW door, NEW trace, Doors(o, s, door, trace),
         NEW n \in Nat, n = Len(o.code), NEW m, m = Len(s), m \in Nat \ {0}, s[m].kind = "ifbody",
         NEW code, Agree(o.code, code, n), Closes(code[n + 1]),
         NEW i \in 1..n, Partners(code, i, n + 1)
  PROVE  i = door[m]
<1>. DEFINE B(k) == Balance(code, 1, k)
            d == door[m]
            open == Cardinality(BlockActs(s, m))
<1>1. open \in Nat
  BY BlocksFinite
<1>2. m \in BlockActs(s, m)
  BY DEF BlockActs
<1>3. /\ Balance(o.code, 1, n) = open /\ d \in 1..n
      /\ Balance(o.code, 1, d) = open
      /\ \A k \in d..n : Balance(o.code, 1, k) >= Balance(o.code, 1, d)
      /\ Opens(o.code[d])
  BY <1>2 DEF Doors
<1>. HIDE DEF d, open
<1>4. /\ \A k \in 0..n : B(k) = Balance(o.code, 1, k) /\ B(k) \in Int
      /\ B(n + 1) = Balance(o.code, 1, n) - 1
  BY BalanceMore
<1>5. B(n + 1) = open - 1
  BY <1>3, <1>4
<1>6. \A k \in d..n : B(k) >= open
  <2>1. \A k \in d..n : k \in 0..n
    BY <1>3
  <2>. QED  BY <1>3, <1>4, <2>1
<1>7. B(d - 1) = open - 1
  <2>1. d \in Nat /\ 1 <= d /\ d \in 0..n /\ Opens(code[d])
    BY <1>3 DEF Agree
  <2>2. /\ Balance(code, 1, d) = Balance(code, 1, d - 1) + 1
        /\ Balance(code, 1, d) \in Int /\ Balance(code, 1, d - 1) \in Int
    BY <2>1, BalanceStep
  <2>3. B(d) = open
    BY <1>3, <1>4, <2>1
  <2>. QED  BY <1>1, <2>2, <2>3
<1>8. ASSUME NEW k \in Nat, i <= k + 1
      PROVE  B(k) = B(i - 1) + Balance(code, i, k) /\ B(i - 1) \in Int /\ Balance(code, i, k) \in Int
  <2>1. i \in Nat /\ 1 <= i
    OBVIOUS
  <2>. QED  BY <1>8, <2>1, BalanceApart
<1>9. B(i - 1) = open - 1
  <2>1. n + 1 \in Nat /\ i <= (n + 1) + 1
    OBVIOUS
  <2>2. Balance(code, i, n + 1) = 0
    BY DEF Partners
  <2>. QED  BY <1>5, <1>8, <2>1, <2>2
<1>10. \A k \in i..n : B(k) > open - 1
  <2>. SUFFICES ASSUME NEW k \in i..n
                PROVE  B(k) > open - 1
    OBVIOUS
  <2>1. k \in Nat /\ i <= k + 1 /\ k \in i..((n + 1) - 1)
    OBVIOUS
  <2>2. Balance(code, i, k) > 0
    BY <2>1 DEF Partners
  <2>3. B(k) = B(i - 1) + Balance(code, i, k) /\ Balance(code, i, k) \in Int
    BY <1>8, <2>1
  <2>. HIDE DEF B
  <2>. QED  BY <1>1, <1>9, <2>2, <2>3
<1>. HIDE DEF B
<1>11. ~(i < d)
  <2>1. i < d => d - 1 \in i..n
    BY <1>3
  <2>. QED  BY <1>1, <1>7, <1>10, <2>1
<1>12. ~(d < i)
  <2>1. d < i => i - 1 \in d..n
    BY <1>3
  <2>. QED  BY <1>1, <1>6, <1>9, <2>1
<1>13. i \in Nat /\ d \in Nat
  BY <1>3
<1>. QED  BY <1>11, <1>12, <1>13 DEF d

\* A block begins with the instruction that was written.
DoorAdded(door, m, n) == [b \in 1..m |-> IF b = m THEN n + 1 ELSE door[b]]

LEMMA DoorOpens ==
  ASSUME NEW o, NEW s, NEW door, NEW trace, Doors(o, s, door, trace),
         NEW n \in Nat, n = Len(o.code), NEW m, m = Len(s), m \in Nat \ {0}, s[m].kind # "ifbody",
         NEW t, Len(t) = m, \A i \in 1..(m - 1) : t[i] = s[i], t[m].kind = "ifbody",
         NEW e, Agree(o.code, e.code, n), Len(e.code) = n + 1, Opens(e.code[n + 1]),
         e.code[n + 1].args[1] = t[m].held.val,
         NEW later, Agree(trace, later, n + 1), later[n + 1] \subseteq t[m].before
  PROVE  Doors(e, t, DoorAdded(door, m, n), later)
<1>. DEFINE doors == [b \in 1..m |-> IF b = m THEN n + 1 ELSE door[b]]
            B(k) == Balance(e.code, 1, k)
<1>1. /\ \A k \in 0..n : B(k) = Balance(o.code, 1, k) /\ B(k) \in Int
      /\ B(n + 1) = Balance(o.code, 1, n) + 1
  <2>. DEFINE c == o.code
              w == e.code
  <2>1. Agree(c, w, n) /\ Opens(w[n + 1])
    OBVIOUS
  <2>. HIDE DEF c, w
  <2>2. /\ \A k \in 0..n : Balance(w, 1, k) = Balance(c, 1, k) /\ Balance(c, 1, k) \in Int
        /\ Balance(w, 1, n + 1) = Balance(c, 1, n) + 1
    BY ONLY <2>1, BalanceMore
  <2>3. \A k \in 0..n : Balance(w, 1, k) \in Int
    BY <2>2
  <2>. QED  BY <2>2, <2>3 DEF c, w
<1>2. /\ BlockActs(t, m) = BlockActs(s, m) \cup {m} /\ m \notin BlockActs(s, m)
      /\ \A b \in BlockActs(s, m) : /\ b \in 1..(m - 1) /\ BlockActs(t, b) = BlockActs(s, b)
                                    /\ t[b] = s[b]
  <2>1. \A i \in 1..m : i \in 1..(m - 1) \/ i = m
    OBVIOUS
  <2>2. \A i \in 1..(m - 1) : i \in 1..m /\ i # m
    OBVIOUS
  <2>3. m \in 1..m
    OBVIOUS
  <2>4. ASSUME NEW b \in BlockActs(s, m)
        PROVE  b \in 1..(m - 1) /\ BlockActs(t, b) = BlockActs(s, b) /\ t[b] = s[b]
    <3>1. b \in 1..(m - 1)
      BY <2>1 DEF BlockActs
    <3>2. \A i \in 1..b : i \in 1..(m - 1)
      BY <3>1
    <3>. QED  BY <3>1, <3>2 DEF BlockActs
  <2>5. m \notin BlockActs(s, m)
    BY DEF BlockActs
  <2>6. BlockActs(t, m) = BlockActs(s, m) \cup {m}
    BY <2>1, <2>2, <2>3 DEF BlockActs
  <2>. QED  BY <2>4, <2>5, <2>6
<1>3. Cardinality(BlockActs(t, m)) = Cardinality(BlockActs(s, m)) + 1
      /\ Cardinality(BlockActs(s, m)) \in Nat
  <2>. DEFINE S == BlockActs(s, m)
              T == BlockActs(t, m)
  <2>1. IsFiniteSet(S) /\ Cardinality(S) \in Nat
    BY BlocksFinite
  <2>2. T = S \cup {m} /\ m \notin S
    BY <1>2
  <2>. HIDE DEF S, T
  <2>3. Cardinality(S \cup {m}) = Cardinality(S) + 1
    BY ONLY <2>1, <2>2, FS_AddElement
  <2>4. Cardinality(T) = Cardinality(S) + 1 /\ Cardinality(S) \in Nat
    BY ONLY <2>1, <2>2, <2>3
  <2>. QED  BY ONLY <2>4 DEF S, T
<1>4. Balance(o.code, 1, n) = Cardinality(BlockActs(s, m))
  BY DEF Doors
<1>5. B(n + 1) = Cardinality(BlockActs(t, m))
  BY <1>1, <1>3, <1>4
<1>6. ASSUME NEW b \in BlockActs(s, m)
      PROVE  /\ doors[b] \in 1..(n + 1) /\ Opens(e.code[doors[b]])
             /\ e.code[doors[b]].args[1] = t[b].held.val
             /\ later[doors[b]] \subseteq t[b].before
             /\ B(doors[b]) = Cardinality(BlockActs(t, b))
             /\ \A k \in doors[b]..(n + 1) : B(k) >= B(doors[b])
  <2>. DEFINE d == door[b]
  <2>1. /\ d \in 1..n /\ Opens(o.code[d])
        /\ o.code[d].args[1] = s[b].held.val
        /\ trace[d] \subseteq s[b].before
        /\ Balance(o.code, 1, d) = Cardinality(BlockActs(s, b))
        /\ \A k \in d..n : Balance(o.code, 1, k) >= Balance(o.code, 1, d)
    BY DEF Doors
  <2>2. b \in 1..(m - 1) /\ b # m /\ b \in 1..m /\ doors[b] = d
    BY <1>2
  <2>. HIDE DEF doors, d
  <2>3. d \in 1..(n + 1) /\ d \in 0..n /\ n \in d..n /\ n \in 0..n
    BY <2>1
  <2>4. e.code[d] = o.code[d] /\ later[d] = trace[d] /\ B(d) = Balance(o.code, 1, d)
    BY <1>1, <2>1, <2>3 DEF Agree
  <2>5. ASSUME NEW k \in d..(n + 1)
        PROVE  B(k) >= B(d)
    <3>1. CASE k = n + 1
      <4>1. B(k) = Balance(o.code, 1, n) + 1 /\ B(n) = Balance(o.code, 1, n) /\ B(n) \in Int
        BY <1>1, <2>3, <3>1
      <4>2. Balance(o.code, 1, n) >= Balance(o.code, 1, d) /\ B(d) = Balance(o.code, 1, d)
            /\ B(d) \in Int
        BY <1>1, <2>1, <2>3, <2>4
      <4>. HIDE DEF B
      <4>. QED  BY <4>1, <4>2
    <3>2. CASE k # n + 1
      <4>1. k \in d..n /\ k \in 0..n
        BY <2>1, <3>2
      <4>. QED  BY <1>1, <2>1, <2>4, <4>1
    <3>. QED  BY <3>1, <3>2
  <2>. HIDE DEF B
  <2>. QED  BY <1>2, <2>1, <2>2, <2>3, <2>4, <2>5
<1>7. /\ doors[m] \in 1..(n + 1) /\ Opens(e.code[doors[m]])
      /\ e.code[doors[m]].args[1] = t[m].held.val
      /\ later[doors[m]] \subseteq t[m].before
      /\ B(doors[m]) = Cardinality(BlockActs(t, m))
      /\ \A k \in doors[m]..(n + 1) : B(k) >= B(doors[m])
  <2>1. doors[m] = n + 1 /\ n + 1 \in 1..(n + 1) /\ \A k \in (n + 1)..(n + 1) : k = n + 1
    OBVIOUS
  <2>2. B(n + 1) >= B(n + 1)
    BY <1>3, <1>5
  <2>. HIDE DEF doors, B
  <2>. QED  BY <1>5, <2>1, <2>2
<1>. HIDE DEF doors
<1>8. Doors(e, t, doors, later)
  BY <1>2, <1>5, <1>6, <1>7 DEF Doors
<1>. QED  BY <1>8 DEF DoorAdded, doors

\* The innermost block has ended.
LEMMA DoorCloses ==
  ASSUME NEW o, NEW s, NEW door, NEW trace, Doors(o, s, door, trace),
         NEW n \in Nat, n = Len(o.code), NEW m, m = Len(s), m \in Nat \ {0}, s[m].kind = "ifbody",
         NEW t, Len(t) = m - 1, \A i \in 1..(m - 1) : t[i] = s[i],
         NEW e, Agree(o.code, e.code, n), Len(e.code) = n + 1, Closes(e.code[n + 1]),
         NEW later, Agree(trace, later, n + 1)
  PROVE  Doors(e, t, door, later)
<1>. DEFINE B(k) == Balance(e.code, 1, k)
            inner == BlockActs(t, m - 1)
<1>1. /\ \A k \in 0..n : B(k) = Balance(o.code, 1, k) /\ B(k) \in Int
      /\ B(n + 1) = Balance(o.code, 1, n) - 1
  <2>. DEFINE c == o.code
              w == e.code
  <2>1. Agree(c, w, n) /\ Closes(w[n + 1])
    OBVIOUS
  <2>. HIDE DEF c, w
  <2>2. /\ \A k \in 0..n : Balance(w, 1, k) = Balance(c, 1, k) /\ Balance(c, 1, k) \in Int
        /\ Balance(w, 1, n + 1) = Balance(c, 1, n) - 1
    BY ONLY <2>1, BalanceMore
  <2>3. \A k \in 0..n : Balance(w, 1, k) \in Int
    BY <2>2
  <2>. QED  BY <2>2, <2>3 DEF c, w
<1>2. /\ BlockActs(s, m) = inner \cup {m} /\ m \notin inner
      /\ \A b \in inner : /\ b \in 1..(m - 1) /\ BlockActs(t, b) = BlockActs(s, b)
                          /\ t[b] = s[b] /\ BlockActs(t, b) \subseteq inner
  <2>1. \A i \in 1..m : i \in 1..(m - 1) \/ i = m
    OBVIOUS
  <2>2. \A i \in 1..(m - 1) : i \in 1..m /\ i # m
    OBVIOUS
  <2>3. m \in 1..m
    OBVIOUS
  <2>4. ASSUME NEW b \in inner
        PROVE  /\ b \in 1..(m - 1) /\ BlockActs(t, b) = BlockActs(s, b) /\ t[b] = s[b]
               /\ BlockActs(t, b) \subseteq inner
    <3>1. b \in 1..(m - 1)
      BY DEF BlockActs
    <3>2. \A i \in 1..b : i \in 1..(m - 1)
      BY <3>1
    <3>. QED  BY <3>1, <3>2 DEF BlockActs
  <2>5. m \notin inner
    BY <2>2 DEF BlockActs
  <2>6. BlockActs(s, m) = inner \cup {m}
    BY <2>1, <2>2, <2>3 DEF BlockActs
  <2>. QED  BY <2>4, <2>5, <2>6
<1>3. /\ m - 1 \in Nat /\ IsFiniteSet(inner) /\ Cardinality(inner) \in Nat
      /\ Cardinality(BlockActs(s, m)) = Cardinality(inner) + 1
  <2>1. m - 1 \in Nat
    OBVIOUS
  <2>2. IsFiniteSet(inner) /\ Cardinality(inner) \in Nat
    BY <2>1, BlocksFinite
  <2>. HIDE DEF inner
  <2>3. Cardinality(inner \cup {m}) = Cardinality(inner) + 1
    BY <1>2, <2>2, FS_AddElement
  <2>. QED  BY <1>2, <2>1, <2>2, <2>3
<1>4. Balance(o.code, 1, n) = Cardinality(BlockActs(s, m))
  BY DEF Doors
<1>5. B(n + 1) = Cardinality(inner)
  BY <1>1, <1>3, <1>4
<1>6. ASSUME NEW b \in inner
      PROVE  /\ door[b] \in 1..(n + 1) /\ Opens(e.code[door[b]])
             /\ e.code[door[b]].args[1] = t[b].held.val
             /\ later[door[b]] \subseteq t[b].before
             /\ B(door[b]) = Cardinality(BlockActs(t, b))
             /\ \A k \in door[b]..(n + 1) : B(k) >= B(door[b])
  <2>. DEFINE d == door[b]
  <2>1. /\ d \in 1..n /\ Opens(o.code[d])
        /\ o.code[d].args[1] = s[b].held.val
        /\ trace[d] \subseteq s[b].before
        /\ Balance(o.code, 1, d) = Cardinality(BlockActs(s, b))
        /\ \A k \in d..n : Balance(o.code, 1, k) >= Balance(o.code, 1, d)
    BY <1>2 DEF Doors
  <2>. HIDE DEF d, inner
  <2>3. d \in 1..(n + 1) /\ d \in 0..n
    BY <2>1
  <2>4. e.code[d] = o.code[d] /\ later[d] = trace[d] /\ B(d) = Balance(o.code, 1, d)
    BY <1>1, <2>1, <2>3 DEF Agree
  <2>6. /\ Cardinality(BlockActs(t, b)) \in Nat
        /\ Cardinality(BlockActs(t, b)) <= Cardinality(inner)
    BY <1>2, <1>3, FS_Subset, FS_CardinalityType
  <2>5. ASSUME NEW k \in d..(n + 1)
        PROVE  B(k) >= B(d)
    <3>1. CASE k = n + 1
      <4>1. B(k) = Cardinality(inner) /\ B(d) = Cardinality(BlockActs(t, b))
        BY <1>2, <1>5, <2>1, <2>4, <3>1
      <4>. QED  BY <1>3, <2>6, <4>1
    <3>2. CASE k # n + 1
      <4>1. k \in d..n /\ k \in 0..n
        BY <2>1, <3>2
      <4>. QED  BY <1>1, <2>1, <2>4, <4>1
    <3>. QED  BY <3>1, <3>2
  <2>. HIDE DEF B
  <2>. QED  BY <1>2, <2>1, <2>3, <2>4, <2>5 DEF d
<1>. QED  BY <1>5, <1>6 DEF Doors

-----------------------------------------------------------------------------
(* The code of a step of the compiler is charted.                          *)

\* A chart of the code, and where its blocks begin, once the step has been taken.
Recharted(trace) ==
  \E later, doors :
    /\ Chart(out', later) /\ Agree(trace, later, Len(out.code) + 1)
    /\ Doors(out', acts', doors, later)

LEMMA QuietCharted ==
  ASSUME IInv, Quiet, NEW trace, Chart(out, trace), NEW door, Doors(out, acts, door, trace)
  PROVE  Recharted(trace)
<1>1. Straight(out, out') /\ SameBlocks(acts, acts')
  BY QuietBlocks DEF Quiet
<1>2. PICK later : Chart(out', later) /\ Agree(trace, later, Len(out.code) + 1)
  BY <1>1 DEF Straight
<1>3. Doors(out', acts', door, later)
  BY <1>1, <1>2, DoorsStay
<1>. QED  BY <1>2, <1>3 DEF Recharted

\* What agrees with what agrees.
LEMMA AgreeThen ==
  ASSUME NEW s, NEW t, NEW u, NEW k \in Nat, NEW n \in Nat, k <= n, Agree(s, t, k), Agree(t, u, n)
  PROVE  Agree(s, u, k)
<1>1. \A i \in 1..k : i \in 1..n
  OBVIOUS
<1>. QED  BY <1>1 DEF Agree

\* The body of an if begins.
LEMMA EnterCharted ==
  ASSUME Runnable, OInv, Coded(out), IfEnter,
         NEW trace, Chart(out, trace), NEW door, Doors(out, acts, door, trace)
  PROVE  Recharted(trace) /\ (Loopless => Loopless')
<1>. DEFINE flag == Top.mark
            c == CopyTo(out, flag, res)
            e == Open(c, "DOIF", flag)
            a == [Top EXCEPT !.kind = "ifbody", !.scope = Depth + 1,
                             !.mark = flag + 1, !.held = Temp(flag), !.before = e.dirty]
            k == Len(out.code)
            n == Len(c.code)
            m == Len(acts)
<1>1. KeepCode /\ mode = "value" /\ Top.kind = "if" /\ out' = e /\ acts' = TopBecomes(a)
  BY DEF Runnable, IfEnter, Resume, Enter, StmtWith
<1>2. acts # <<>> /\ Top \in Activation /\ Evaluated(res) /\ IInv
  BY <1>1, ValueOwned DEF Evaluated, OInv
<1>3. a.kind = "ifbody" /\ a.held.val = flag /\ a.before = e.dirty
  BY <1>2 DEF Activation, Temp
<1>. HIDE DEF a
<1>4. /\ m \in Nat \ {0} /\ acts[m].kind = "if" /\ Len(acts') = m /\ acts'[m] = a
      /\ \A i \in 1..(m - 1) : acts'[i] = acts[i]
  <2>1. /\ m \in Nat /\ m >= 1 /\ Len(acts') = m /\ acts'[m] = a
        /\ \A i \in 1..(m - 1) : acts'[i] = acts[i]
    BY <1>1, <1>2, Rearranged
  <2>. QED  BY <1>1, <2>1 DEF Top
<1>5. Straight(out, c)
  BY <1>1, <1>2, AssignStraight
<1>. DEFINE ins == Ins("DOIF", <<flag>>, {}, {})
<1>6. /\ n \in Nat /\ Coded(e) /\ Len(e.code) = n + 1 /\ Agree(c.code, e.code, n)
      /\ e.code[n + 1] = ins /\ e.dirty = c.dirty
      /\ e.unmet = c.unmet \cup ({} \cap c.dirty)
  <2>1. Coded(c)
    BY <1>5, StraightCoded
  <2>. DEFINE dirty == c.dirty
              args == <<flag>>
              none == {}
              w == Emit(c, "DOIF", args, none, none, dirty)
  <2>2. KeepCode /\ e = w /\ ins = Ins("DOIF", args, {}, {})
    BY <1>1 DEF Open
  <2>. HIDE DEF c, e, n, ins, dirty, args, none
  <2>3. /\ Len(c.code) \in Nat /\ Coded(w) /\ Len(w.code) = Len(c.code) + 1
        /\ Agree(c.code, w.code, Len(c.code))
        /\ w.code[Len(c.code) + 1] = Ins("DOIF", args, none, none)
        /\ w.dirty = dirty /\ w.unmet = c.unmet \cup (none \cap c.dirty)
    BY ONLY <2>1, <2>2, EmitCode DEF w
  <2>. QED  BY <2>2, <2>3 DEF n, dirty, args, none, w
<1>7. /\ ins.op = "DOIF" /\ ins.args[1] = flag /\ ins.needs = {} /\ Opens(ins) /\ ~Closes(ins)
      /\ ~Flat(ins)
  BY DEF Ins, Opens, Closes, Flat
<1>. HIDE DEF ins, c, e, flag
<1>8. PICK first : Chart(c, first) /\ Agree(trace, first, k + 1)
  BY <1>5 DEF Straight
<1>9. Doors(c, acts, door, first)
  <2>1. SameBlocks(acts, acts)
    BY DEF SameBlocks
  <2>. QED  BY <1>5, <1>8, <2>1, DoorsStay
<1>10. PICK later : Chart(e, later) /\ Agree(first, later, n + 1)
  <2>1. \A i \in 1..n : ~Partners(e.code, i, n + 1)
    BY <1>6, <1>7 DEF Partners
  <2>2. /\ n \in Nat /\ n = Len(c.code) /\ Len(e.code) = n + 1 /\ Agree(c.code, e.code, n)
        /\ e.code[n + 1] = ins /\ e.unmet = c.unmet \cup (ins.needs \cap c.dirty)
        /\ ins.op \notin {"LOOP", "ENDLOOP"}
        /\ Opens(ins) => c.dirty \subseteq e.dirty
    BY <1>6, <1>7
  <2>. HIDE DEF n
  <2>. QED  BY <1>7, <1>8, <2>1, <2>2, EmitChart
<1>11. later[n + 1] \subseteq acts'[m].before
  <2>1. n + 1 \in 1..(n + 1)
    BY <1>6
  <2>2. later[n + 1] = first[n + 1]
    BY <1>10, <2>1 DEF Agree
  <2>3. first[n + 1] \subseteq c.dirty
    BY <1>8 DEF Chart
  <2>. QED  BY <1>3, <1>4, <1>6, <2>2, <2>3
<1>12. PICK doors : Doors(e, acts', doors, later)
  <2>1. /\ acts[m].kind # "ifbody" /\ acts'[m].kind = "ifbody"
        /\ Opens(e.code[n + 1]) /\ e.code[n + 1].args[1] = acts'[m].held.val
    BY <1>3, <1>4, <1>6, <1>7
  <2>2. n = Len(c.code) /\ m = Len(acts)
    OBVIOUS
  <2>3. n \in Nat /\ Len(e.code) = n + 1 /\ Agree(c.code, e.code, n)
    BY <1>6
  <2>. HIDE DEF n, m
  <2>. DEFINE s == acts
              t == acts'
  <2>4. /\ Doors(c, s, door, first) /\ n \in Nat /\ n = Len(c.code)
        /\ m = Len(s) /\ m \in Nat \ {0} /\ s[m].kind # "ifbody"
        /\ Len(t) = m /\ \A i \in 1..(m - 1) : t[i] = s[i]
        /\ t[m].kind = "ifbody" /\ Agree(c.code, e.code, n) /\ Len(e.code) = n + 1
        /\ Opens(e.code[n + 1]) /\ e.code[n + 1].args[1] = t[m].held.val
        /\ Agree(first, later, n + 1) /\ later[n + 1] \subseteq t[m].before
    BY <1>4, <1>9, <1>10, <1>11, <2>1, <2>2, <2>3
  <2>. HIDE DEF s, t
  <2>5. Doors(e, t, DoorAdded(door, m, n), later)
    BY ONLY <2>4, DoorOpens
  <2>. QED  BY <2>5 DEF t
<1>13. Agree(trace, later, k + 1)
  <2>1. k \in Nat /\ k <= n
    BY <1>5, CodeLength DEF Straight
  <2>2. k + 1 \in Nat /\ n + 1 \in Nat /\ k + 1 <= n + 1
    BY <1>6, <2>1
  <2>. HIDE DEF k, n
  <2>. QED  BY <1>8, <1>10, <2>2, AgreeThen
<1>14. Recharted(trace)
  BY <1>1, <1>10, <1>12, <1>13 DEF Recharted
<1>15. ASSUME Loopless
       PROVE  Loopless'
  <2>1. \A i \in 1..m : i \in 1..(m - 1) \/ i = m
    BY <1>4
  <2>. QED  BY <1>3, <1>4, <1>15, <2>1 DEF Loopless
<1>. QED  BY <1>14, <1>15

\* The body of an if ends: what it found dirty is dirty again.
LEMMA LeaveCharted ==
  ASSUME Runnable, OInv, Known, Coded(out), IfLeave,
         NEW trace, Chart(out, trace), NEW door, Doors(out, acts, door, trace)
  PROVE  Recharted(trace) /\ (Loopless => Loopless')
<1>. DEFINE flag == Top.held.val
            dirty == (out.dirty \cup Top.before) \ {flag}
            e == Close(out, "ENDIF", flag, Top.before)
            n == Len(out.code)
            m == Len(acts)
            ins == Ins("ENDIF", <<flag>>, {flag}, {})
<1>1. KeepCode /\ acts # <<>> /\ Top.kind = "ifbody" /\ out' = e /\ acts' = Under /\ IInv
  BY DEF Runnable, IfLeave, Leave, StmtWith, OInv
<1>2. /\ m \in Nat \ {0} /\ acts[m] = Top /\ Len(acts') = m - 1
      /\ \A i \in 1..(m - 1) : acts'[i] = acts[i]
  <2>1. m \in Nat /\ m >= 1 /\ Len(acts') = m - 1 /\ \A i \in 1..(m - 1) : acts'[i] = acts[i]
    BY <1>1, Rearranged
  <2>. QED  BY <2>1 DEF Top
<1>3. /\ n \in Nat /\ Coded(e) /\ Len(e.code) = n + 1 /\ Agree(out.code, e.code, n)
      /\ e.code[n + 1] = ins /\ e.dirty = dirty
      /\ e.unmet = out.unmet \cup ({} \cap out.dirty)
  <2>. DEFINE args == <<flag>>
              cells == {flag}
              none == {}
              w == Emit(out, "ENDIF", args, cells, none, dirty)
  <2>1. KeepCode /\ e = w /\ ins = Ins("ENDIF", args, cells, {})
    BY <1>1 DEF Close
  <2>. HIDE DEF e, n, ins, dirty, args, cells, none
  <2>2. /\ Len(out.code) \in Nat /\ Coded(w) /\ Len(w.code) = Len(out.code) + 1
        /\ Agree(out.code, w.code, Len(out.code))
        /\ w.code[Len(out.code) + 1] = Ins("ENDIF", args, cells, none)
        /\ w.dirty = dirty /\ w.unmet = out.unmet \cup (none \cap out.dirty)
    BY ONLY Coded(out), <2>1, EmitCode DEF w
  <2>. QED  BY <2>1, <2>2 DEF n, none, w
<1>4. /\ ins.op = "ENDIF" /\ ins.args[1] = flag /\ ins.needs = {} /\ Closes(ins) /\ ~Opens(ins)
      /\ ~Flat(ins)
  BY DEF Ins, Opens, Closes, Flat
<1>. HIDE DEF ins, e, n, m
<1>5. ASSUME NEW i \in 1..n, Partners(e.code, i, n + 1)
      PROVE  trace[i] \ {out.code[i].args[1]} \subseteq e.dirty
  <2>1. i = door[m]
    <3>1. n = Len(out.code) /\ m = Len(acts) /\ acts[m].kind = "ifbody" /\ Closes(e.code[n + 1])
      BY <1>1, <1>2, <1>3, <1>4 DEF n, m
    <3>. DEFINE code == e.code
                o == out
                s == acts
    <3>2. /\ Doors(o, s, door, trace) /\ n \in Nat /\ n = Len(o.code)
          /\ m = Len(s) /\ m \in Nat \ {0} /\ s[m].kind = "ifbody"
          /\ Agree(o.code, code, n) /\ Closes(code[n + 1])
          /\ i \in 1..n /\ Partners(code, i, n + 1)
      BY <1>2, <1>3, <1>5, <3>1
    <3>. HIDE DEF code, o, s
    <3>. QED  BY ONLY <3>2, DoorPartner
  <2>2. m \in BlockActs(acts, Len(acts))
    BY <1>1, <1>2 DEF BlockActs, m
  <2>3. out.code[i].args[1] = flag /\ trace[i] \subseteq Top.before
    BY <1>2, <2>1, <2>2 DEF Doors
  <2>. QED  BY <1>3, <2>3
<1>6. PICK later : Chart(e, later) /\ Agree(trace, later, n + 1)
  <2>1. /\ n = Len(out.code) /\ Len(e.code) = n + 1 /\ Agree(out.code, e.code, n)
        /\ e.code[n + 1] = ins /\ e.unmet = out.unmet \cup (ins.needs \cap out.dirty)
        /\ ins.op \notin {"LOOP", "ENDLOOP"}
        /\ Closes(ins) => out.dirty \ {ins.args[1]} \subseteq e.dirty
    BY <1>3, <1>4 DEF n
  <2>. QED  BY <1>3, <1>4, <1>5, <2>1, EmitChart
<1>7. Doors(e, acts', door, later)
  <2>1. n = Len(out.code) /\ m = Len(acts) /\ acts[m].kind = "ifbody" /\ Closes(e.code[n + 1])
    BY <1>1, <1>2, <1>3, <1>4 DEF n, m
  <2>. DEFINE o == out
              s == acts
              t == acts'
  <2>2. /\ Doors(o, s, door, trace) /\ n \in Nat /\ n = Len(o.code)
        /\ m = Len(s) /\ m \in Nat \ {0} /\ s[m].kind = "ifbody"
        /\ Len(t) = m - 1 /\ \A i \in 1..(m - 1) : t[i] = s[i]
        /\ Agree(o.code, e.code, n) /\ Len(e.code) = n + 1 /\ Closes(e.code[n + 1])
        /\ Agree(trace, later, n + 1)
    BY <1>2, <1>3, <1>6, <2>1
  <2>. HIDE DEF o, s, t
  <2>3. Doors(e, t, door, later)
    BY ONLY <2>2, DoorCloses
  <2>. QED  BY <2>3 DEF t
<1>8. Recharted(trace)
  BY <1>1, <1>6, <1>7 DEF Recharted, n
<1>9. ASSUME Loopless
      PROVE  Loopless'
  <2>1. \A i \in 1..(m - 1) : i \in 1..m
    BY <1>2
  <2>. QED  BY <1>2, <1>9, <2>1 DEF Loopless, m
<1>. QED  BY <1>8, <1>9

\* Every step of the compiler continues the chart.
LEMMA StepCharted ==
  ASSUME Runnable, OInv, Known, Coded(out), Loopless, [Next]_vars,
         NEW trace, Chart(out, trace), NEW door, Doors(out, acts, door, trace)
  PROVE  Recharted(trace) /\ Loopless'
<1>1. CASE Quiet
  BY <1>1, QuietCharted, QuietBlocks DEF OInv
<1>2. CASE IfEnter
  BY <1>2, EnterCharted
<1>3. CASE IfLeave
  BY <1>3, LeaveCharted
<1>. QED  BY <1>1, <1>2, <1>3, StepQuiet

-----------------------------------------------------------------------------
(* The code runs.                                                          *)

\* An instruction takes the tape from what may be nonzero before it to what may
\* be nonzero before the next one, whichever that is.
LEMMA InstructionStays ==
  ASSUME NEW o, NEW trace, Chart(o, trace), NEW n \in Nat, n = Len(o.code),
         NEW code, code = o.code, NEW i \in 1..n, NEW ins, ins = code[i],
         NEW t \in Tapes, Support(t) \subseteq trace[i],
         Within(ins, t), ~Derails(ins, t, Byte), NEW input \in Inputs,
         NEW u, u = Effect(ins, t, input, Byte), NEW next \in Successors(code, i, u)
  PROVE  u \in Tapes /\ next \in 1..(n + 1) /\ Support(u) \subseteq trace[next]
<1>. DEFINE a == ins.args[1]
<1>1. Charted(ins, o.unmet, trace[i], trace[i + 1])
  BY DEF Chart
<1>2. i + 1 \in 1..(n + 1)
  OBVIOUS
<1>3. CASE Flat(ins)
  <2>1. Sound(ins, trace[i], trace[i + 1])
    BY <1>1, <1>3 DEF Charted
  <2>2. u \in Tapes /\ Support(u) \subseteq trace[i + 1]
    BY <2>1 DEF Sound
  <2>3. next = i + 1
    BY <1>3 DEF Successors, Flat
  <2>. QED  BY <1>2, <2>2, <2>3
<1>4. CASE Opens(ins)
  <2>1. u = t
    BY <1>1, <1>4, EffectOf DEF Charted, Opens
  <2>2. CASE t[a] = 0
    <3>1. PICK j \in i..n : Partners(code, i, j) /\ next = j + 1
      BY <1>4, <2>1, <2>2 DEF Successors
    <3>2. trace[i] \ {a} \subseteq trace[j + 1]
      BY <3>1 DEF Chart
    <3>3. a \notin Support(t)
      BY <2>2 DEF Support
    <3>4. j + 1 \in 1..(n + 1)
      BY <3>1
    <3>. QED  BY <2>1, <3>1, <3>2, <3>3, <3>4
  <2>3. CASE t[a] # 0
    <3>1. next = i + 1
      BY <1>4, <2>1, <2>3 DEF Successors, Opens, Closes
    <3>2. trace[i] \subseteq trace[i + 1]
      BY <1>1, <1>4 DEF Charted
    <3>. QED  BY <1>2, <2>1, <3>1, <3>2
  <2>. QED  BY <2>2, <2>3
<1>5. CASE Closes(ins)
  <2>1. u = Put(t, a, 0, Byte)
    BY <1>1, <1>5, EffectOf DEF Charted, Closes
  <2>2. a \in DOMAIN t
    BY DEF Within
  <2>3. u \in Tapes /\ Support(u) \subseteq Support(t) \ {a}
    BY <2>1, PutSound
  <2>4. u[a] = 0
    BY <2>1, <2>2, Bytes DEF Put
  <2>5. next = i + 1
    BY <1>5, <2>4 DEF Successors, Opens, Closes
  <2>6. trace[i] \ {a} \subseteq trace[i + 1]
    BY <1>1, <1>5 DEF Charted
  <2>. QED  BY <1>2, <2>3, <2>5, <2>6
<1>. QED  BY <1>3, <1>4, <1>5 DEF Flat

-----------------------------------------------------------------------------
(* The inductive invariant of the compiler and the run of what it writes.   *)

\* Only what is charted for the next instruction is nonzero.
Foreseen ==
  \E trace, door :
    /\ Chart(out, trace) /\ Doors(out, acts, door, trace)
    /\ Support(tape) \subseteq trace[pc]

CompilerInv == OInv /\ ZInv /\ Known /\ Coded(out) /\ Loopless

MInv ==
  /\ CompilerInv
  /\ tape \in Tapes /\ pc \in 1..(Len(out.code) + 1)
  /\ pc # 1 => Complete /\ Running
  /\ Foreseen

\* Where there is no code the chart is what is dirty.
LEMMA NoCode ==
  ASSUME NEW o, Len(o.code) = 0, NEW s, BlockActs(s, Len(s)) = {}, NEW t,
         Support(t) \subseteq o.dirty
  PROVE  \E trace, door :
           Chart(o, trace) /\ Doors(o, s, door, trace) /\ Support(t) \subseteq trace[1]
<1>. DEFINE trace == [i \in {1} |-> o.dirty]
            door == <<>>
<1>1. trace[1] = o.dirty
  OBVIOUS
<1>. HIDE DEF trace
<1>2. \A i \in 1..Len(o.code) : FALSE
  OBVIOUS
<1>3. Chart(o, trace)
  BY <1>1, <1>2 DEF Chart
<1>4. Balance(o.code, 1, Len(o.code)) = 0 /\ Cardinality(BlockActs(s, Len(s))) = 0
  <2>1. /\ {k \in 1..Len(o.code) : Opens(o.code[k])} = {}
        /\ {k \in 1..Len(o.code) : Closes(o.code[k])} = {}
    BY <1>2
  <2>2. Cardinality({}) = 0 /\ 0 - 0 = 0
    BY FS_EmptySet
  <2>. QED  BY <2>1, <2>2 DEF Balance
<1>5. Doors(o, s, door, trace)
  BY <1>4 DEF Doors
<1>. QED  BY <1>1, <1>3, <1>5

LEMMA MachineStarts == MachineInit => MInv
<1>. SUFFICES ASSUME MachineInit
              PROVE  MInv
  OBVIOUS
<1>1. Init /\ tape = [c \in 0..TapeSize |-> 0] /\ pc = 1
  BY DEF MachineInit
<1>2. out.code = <<>> /\ Len(out.code) = 0 /\ acts = <<>> /\ Len(acts) = 0
  BY <1>1 DEF Init, NoOutput
<1>3. CompilerInv
  BY <1>1, <1>2, InitOwned, InitClean, InitKnown DEF CompilerInv, Loopless
<1>4. tape \in Tapes /\ Support(tape) = {}
  BY <1>1, Bytes DEF Tapes, Support
<1>5. BlockActs(acts, Len(acts)) = {}
  BY <1>2 DEF BlockActs
<1>6. Foreseen
  <2>1. Support(tape) \subseteq out.dirty
    BY <1>4
  <2>. QED  BY <1>1, <1>2, <1>5, <2>1, NoCode DEF Foreseen
<1>. QED  BY <1>1, <1>2, <1>3, <1>4, <1>6 DEF MInv

\* The compiler writes on.
LEMMA CompileStays ==
  ASSUME Runnable, MInv, Compile
  PROVE  MInv'
<1>1. [Next]_vars /\ tape' = tape /\ pc' = pc /\ pc = 1
  BY DEF Compile, machineVars, MInv
<1>2. PICK trace, door : /\ Chart(out, trace) /\ Doors(out, acts, door, trace)
                         /\ Support(tape) \subseteq trace[1]
  BY <1>1 DEF MInv, Foreseen
<1>3. Recharted(trace) /\ Loopless'
  BY <1>1, <1>2, StepCharted DEF MInv, CompilerInv
<1>4. CompilerInv'
  BY <1>1, <1>3, StepOwned, StepKnown, StepClean DEF MInv, CompilerInv, Runnable
<1>5. Foreseen'
  <2>1. PICK later, doors : /\ Chart(out', later) /\ Agree(trace, later, Len(out.code) + 1)
                            /\ Doors(out', acts', doors, later)
    BY <1>3 DEF Recharted
  <2>2. 1 \in 1..(Len(out.code) + 1)
    BY CodeLength DEF MInv, CompilerInv
  <2>3. later[1] = trace[1]
    BY <2>1, <2>2 DEF Agree
  <2>4. Support(tape') \subseteq later[pc']
    BY <1>1, <1>2, <2>3
  <2>. QED  BY <2>1, <2>4 DEF Foreseen
<1>6. pc' \in 1..(Len(out'.code) + 1)
  BY <1>1, <1>4, CodeLength DEF CompilerInv
<1>. QED  BY <1>1, <1>4, <1>5, <1>6 DEF MInv

\* The compiler does not look at the code it has written.
LEMMA OwnersForgotten ==
  ASSUME OInv, Known, UNCHANGED <<scopes, calls, acts, mode, res, funs>>,
         out'.dirty = out.dirty, out'.unmet = out.unmet
  PROVE  OInv' /\ IInv' /\ Known'
<1>1. OInv /\ IInv
  BY DEF OInv
<1>2. IInv'
  <2>1. Nested'
    BY <1>1, StayNested DEF IInv, Depth
  <2>2. ModeShape' /\ Types'
    BY <1>1 DEF IInv, ModeShape, Types, StackTypes, OutTypes, Top
  <2>. QED  BY <1>1, <2>1, <2>2, CallsSame, SameCallsNoRecursion DEF IInv
<1>3. OInv'
  BY <1>1, <1>2, StopOwned
<1>4. Known'
  BY DEF Known
<1>. QED  BY <1>2, <1>3, <1>4

LEMMA CodeForgotten ==
  ASSUME CompilerInv, UNCHANGED <<scopes, calls, acts, mode, res, funs>>,
         out'.dirty = out.dirty, out'.unmet = out.unmet
  PROVE  OInv' /\ ZInv' /\ Known' /\ Loopless'
<1>1. OInv /\ IInv /\ ZInv /\ Zeroed /\ NextFree \in Nat
  BY FloorOfNext DEF CompilerInv, OInv, ZInv
<1>2. OInv' /\ IInv' /\ Known'
  BY OwnersForgotten DEF CompilerInv
<1>4. VarsGo(NextFree) /\ NextFree' = NextFree
  BY <1>1, ScopesStay, SameVarsGo
<1>5. out'.unmet = {}
  BY <1>1, DirtyCells
<1>6. mode' = "value" => \A c \in out'.dirty :
        c >= Ceiling(Top) => res'.type = "TEMP" /\ c = res'.val
  BY <1>1 DEF Zeroed, ValueClean
<1>7. mode' = "value" /\ res'.type = "ADDRESS" => AnchoredAfter({res'.val}, Depth')
  <2>1. mode = "value" /\ res.type = "ADDRESS" => Anchored({res.val}, Depth)
    BY <1>1 DEF ZInv, Backings
  <2>2. Depth' = Depth
    BY DEF Depth
  <2>. QED  BY <1>1, <2>1, <2>2, AnchorsSame
<1>8. ZInv'
  BY <1>1, <1>2, <1>4, <1>5, <1>6, <1>7, SitClean
<1>9. Loopless'
  BY DEF CompilerInv, Loopless
<1>. QED  BY <1>2, <1>8, <1>9

\* The program stays on its tape and inside its arrays: the language checks
\* neither.
Fits == Running /\ Complete => Within(Here, tape)

\* An instruction runs, maybe the last one.
LEMMA ExecuteStays ==
  ASSUME MInv, Fits, Execute
  PROVE  MInv'
<1>. DEFINE n == Len(out.code)
            code == out.code
            ins == Here
<1>1. PICK input \in Inputs : ExecuteReading(input)
  BY DEF Execute
<1>2. PICK next \in Successors(out.code, pc, tape') :
        IF next <= Len(out.code)
          THEN pc' = next /\ UNCHANGED out
          ELSE pc' = 1 /\ out' = Forgotten(out)
  BY <1>1 DEF ExecuteReading
<1>3. /\ Running /\ Complete /\ ~Derails(Here, tape, Byte)
      /\ tape' = Effect(Here, tape, input, Byte)
      /\ UNCHANGED <<scopes, calls, acts, mode, res, funs>>
  BY <1>1 DEF ExecuteReading
<1>4. CompilerInv /\ tape \in Tapes /\ pc \in 1..(n + 1)
  BY DEF MInv
<1>5. PICK trace, door : /\ Chart(out, trace) /\ Doors(out, acts, door, trace)
                         /\ Support(tape) \subseteq trace[pc]
  BY DEF MInv, Foreseen
<1>6. n \in Nat /\ pc \in 1..n
  BY <1>3, <1>4, CodeLength DEF CompilerInv, Running
<1>7. tape' \in Tapes /\ next \in 1..(n + 1) /\ Support(tape') \subseteq trace[next]
  <2>1. /\ n = Len(out.code) /\ code = out.code /\ ins = code[pc] /\ Within(ins, tape)
        /\ ~Derails(ins, tape, Byte) /\ tape' = Effect(ins, tape, input, Byte)
        /\ next \in Successors(code, pc, tape')
    BY <1>2, <1>3 DEF Fits, Here
  <2>. HIDE DEF n, code, ins
  <2>2. \A u : u = Effect(ins, tape, input, Byte) /\ next \in Successors(code, pc, u) =>
          u \in Tapes /\ next \in 1..(n + 1) /\ Support(u) \subseteq trace[next]
    BY <1>4, <1>5, <1>6, <2>1, InstructionStays
  <2>. QED  BY <2>1, <2>2
<1>8. CASE next <= n
  <2>1. out' = out /\ pc' = next /\ next \in 1..n
    BY <1>2, <1>6, <1>7, <1>8
  <2>2. CompilerInv'
    <3>1. OInv' /\ ZInv' /\ Known' /\ Loopless'
      BY <1>3, <1>4, <2>1, CodeForgotten
    <3>. QED  BY <1>4, <2>1, <3>1 DEF CompilerInv, Coded
  <2>3. Foreseen'
    BY <1>3, <1>5, <1>7, <2>1 DEF Foreseen
  <2>4. Complete' /\ Running'
    BY <1>3, <2>1 DEF Complete, Running
  <2>5. pc' \in 1..(Len(out'.code) + 1)
    BY <1>6, <2>1
  <2>. QED  BY <1>7, <2>2, <2>3, <2>4, <2>5 DEF MInv
<1>9. CASE ~(next <= n)
  <2>1. out' = Forgotten(out) /\ pc' = 1 /\ next = n + 1
    BY <1>2, <1>6, <1>7, <1>9
  <2>2. out'.code = <<>> /\ out'.dirty = out.dirty /\ out'.unmet = out.unmet
    BY <2>1 DEF Forgotten
  <2>3. CompilerInv'
    <3>1. OInv' /\ ZInv' /\ Known' /\ Loopless'
      BY <1>3, <1>4, <2>2, CodeForgotten
    <3>2. <<>> \in Seq({})
      OBVIOUS
    <3>. QED  BY <2>2, <3>1, <3>2 DEF CompilerInv, Coded
  <2>4. BlockActs(acts, Len(acts)) = {}
    <3>1. Cardinality(BlockActs(acts, Len(acts))) = 0
      BY <1>3, <1>5 DEF Complete, Doors
    <3>2. Len(acts) \in Nat
      BY <1>4 DEF CompilerInv, OInv, IInv, Types, StackTypes
    <3>. QED  BY <3>1, <3>2, BlocksFinite, FS_EmptySet
  <2>5. Support(tape') \subseteq out'.dirty
    BY <1>5, <1>7, <2>1, <2>2 DEF Chart
  <2>6. Foreseen'
    <3>1. Len(out'.code) = 0 /\ acts' = acts
      BY <1>3, <2>2
    <3>. QED  BY <2>1, <2>4, <2>5, <3>1, NoCode DEF Foreseen
  <2>7. pc' \in 1..(Len(out'.code) + 1)
    BY <2>1, <2>2
  <2>. QED  BY <1>7, <2>1, <2>3, <2>6, <2>7 DEF MInv
<1>. QED  BY <1>8, <1>9

\* The run has stopped.
LEMMA NothingStays ==
  ASSUME MInv, UNCHANGED <<vars, machineVars>>
  PROVE  MInv'
<1>1. /\ UNCHANGED <<scopes, calls, acts, mode, res, funs>> /\ out' = out
      /\ tape' = tape /\ pc' = pc
  BY DEF vars, machineVars
<1>2. OInv' /\ ZInv' /\ Known' /\ Loopless'
  BY <1>1, CodeForgotten DEF MInv
<1>3. CompilerInv'
  BY <1>1, <1>2 DEF CompilerInv, Coded, MInv
<1>. QED  BY <1>1, <1>3 DEF MInv, Foreseen, Complete, Running

LEMMA MachineStays ==
  ASSUME Runnable, MInv, Fits, [MachineNext]_<<vars, machineVars>>
  PROVE  MInv'
<1>1. CASE Compile
  BY <1>1, CompileStays
<1>2. CASE Execute
  BY <1>2, ExecuteStays
<1>3. CASE Stopped
  BY <1>3, NothingStays DEF Stopped
<1>4. CASE UNCHANGED <<vars, machineVars>>
  BY <1>4, NothingStays
<1>. QED  BY <1>1, <1>2, <1>3, <1>4 DEF MachineNext

LEMMA MachineKept == Runnable => (MachineSpec /\ []Fits => [](MInv /\ Fits))
<1>. SUFFICES ASSUME Runnable
              PROVE  MachineSpec /\ []Fits => [](MInv /\ Fits)
  OBVIOUS
<1>1. MInv /\ Fits /\ [MachineNext]_<<vars, machineVars>> => MInv'
  BY MachineStays
<1>. QED  BY <1>1, MachineStarts, PTL DEF MachineSpec

LEMMA ContractsMet ==
  ASSUME MInv, Fits
  PROVE  ContractsHold
<1>. SUFFICES ASSUME Running, Complete, NEW c \in Here.needs
              PROVE  tape[c] = 0
  BY DEF ContractsHold, ContractMet
<1>1. PICK trace, door : Chart(out, trace) /\ Support(tape) \subseteq trace[pc]
  BY DEF MInv, Foreseen
<1>2. pc \in 1..Len(out.code)
  BY CodeLength DEF MInv, CompilerInv, Running
<1>3. Here.needs \cap trace[pc] \subseteq out.unmet
  BY <1>1, <1>2 DEF Chart, Charted, Here
<1>4. out.unmet = {}
  BY DEF MInv, CompilerInv, ZInv, Zeroed, ScratchZero
<1>5. c \in DOMAIN tape
  BY DEF Fits, Within
<1>. QED  BY <1>1, <1>3, <1>4, <1>5 DEF Support

LEMMA DirtyKnown ==
  ASSUME MInv
  PROVE  DirtySound
<1>. SUFFICES ASSUME ~Running, NEW c \in DOMAIN tape, tape[c] # 0
              PROVE  c \in out.dirty
  BY DEF DirtySound
<1>1. PICK trace, door : Chart(out, trace) /\ Support(tape) \subseteq trace[pc]
  BY DEF MInv, Foreseen
<1>2. pc = Len(out.code) + 1
  BY CodeLength DEF MInv, CompilerInv, Running
<1>3. c \in trace[Len(out.code) + 1]
  BY <1>1, <1>2 DEF Support
<1>. QED  BY <1>1, <1>3 DEF Chart

-----------------------------------------------------------------------------
(* What is true of the compiler is true of it while its code runs, for all  *)
(* programs.                                                               *)

\* Nothing but the code and the machine changes when an instruction runs.
LEMMA RunsAside ==
  ASSUME Execute \/ Stopped \/ UNCHANGED <<vars, machineVars>>
  PROVE  /\ UNCHANGED <<scopes, calls, acts, mode, res, funs>>
         /\ out'.dirty = out.dirty /\ out'.unmet = out.unmet
         /\ out' = out \/ out'.code = <<>>
<1>1. CASE Execute
  <2>1. PICK input \in Inputs : ExecuteReading(input)
    BY <1>1 DEF Execute
  <2>2. out' = out \/ out' = Forgotten(out)
    BY <2>1 DEF ExecuteReading
  <2>3. UNCHANGED <<scopes, calls, acts, mode, res, funs>>
    BY <2>1 DEF ExecuteReading
  <2>. QED  BY <2>2, <2>3 DEF Forgotten
<1>2. CASE Stopped \/ UNCHANGED <<vars, machineVars>>
  BY <1>2 DEF Stopped, vars
<1>. QED  BY <1>1, <1>2

LEMMA OwnedAside ==
  ASSUME OInv, Known, Coded(out), [MachineNext]_<<vars, machineVars>>
  PROVE  OInv' /\ Known' /\ Coded(out')
<1>1. CASE Compile
  <2>1. [Next]_vars
    BY <1>1 DEF Compile
  <2>. QED  BY <2>1, StepOwned, StepKnown
<1>2. CASE ~Compile
  <2>1. Execute \/ Stopped \/ UNCHANGED <<vars, machineVars>>
    BY <1>2 DEF MachineNext
  <2>2. OInv' /\ Known'
    BY <2>1, RunsAside, OwnersForgotten
  <2>3. out' = out \/ out'.code = <<>>
    BY <2>1, RunsAside
  <2>4. <<>> \in Seq({})
    OBVIOUS
  <2>. QED  BY <2>2, <2>3, <2>4 DEF Coded
<1>. QED  BY <1>1, <1>2

LEMMA ConfinedAside ==
  ASSUME Filled, OInv, Known, Coded(out), Confined, [MachineNext]_<<vars, machineVars>>
  PROVE  Confined'
<1>1. CASE Compile
  <2>1. [Next]_vars /\ OInv'
    BY <1>1, StepOwned DEF Compile
  <2>. QED  BY <2>1, StepConfined
<1>2. CASE ~Compile
  <2>1. Execute \/ Stopped \/ UNCHANGED <<vars, machineVars>>
    BY <1>2 DEF MachineNext
  <2>2. UNCHANGED <<scopes, calls, acts, mode, res, funs>>
    BY <2>1, RunsAside
  <2>3. Depth' = Depth
    BY <2>2 DEF Depth
  <2>4. ASSUME NEW i \in 1..Len(acts'), acts'[i].kind = "body"
        PROVE  /\ \A k \in acts'[i].scope..Depth' : \A n \in Declares(scopes'[k].vars) :
                    TypedCellsOf(scopes'[k].vars[n]) \subseteq Span(acts'[i])
               /\ \A j \in (i + 1)..Len(acts') : Given(acts'[j]) \subseteq Span(acts'[i])
               /\ mode' = "value" /\ res'.type = "ADDRESS" => res'.val \in Span(acts'[i])
    <3>1. i \in 1..Len(acts) /\ acts[i].kind = "body"
      BY <2>2, <2>4
    <3>2. /\ \A k \in acts[i].scope..Depth : \A n \in Declares(scopes[k].vars) :
               TypedCellsOf(scopes[k].vars[n]) \subseteq Span(acts[i])
          /\ \A j \in (i + 1)..Len(acts) : Given(acts[j]) \subseteq Span(acts[i])
          /\ mode = "value" /\ res.type = "ADDRESS" => res.val \in Span(acts[i])
      BY <3>1 DEF Confined
    <3>. QED  BY ONLY <2>2, <2>3, <3>2
  <2>. QED  BY <2>4 DEF Confined
<1>. QED  BY <1>1, <1>2

LEMMA IsolatedAside ==
  ASSUME Filled, OInv, Known, Coded(out), Confined, [MachineNext]_<<vars, machineVars>>
  PROVE  [Isolated]_vars
<1>1. CASE Compile
  <2>1. [Next]_vars
    BY <1>1 DEF Compile
  <2>. QED  BY <2>1, StepIsolated
<1>2. CASE ~Compile
  <2>1. Execute \/ Stopped \/ UNCHANGED <<vars, machineVars>>
    BY <1>2 DEF MachineNext
  <2>2. out' = out \/ out'.code = <<>>
    BY <2>1, RunsAside
  <2>3. \A i \in (Len(out.code) + 1)..Len(out'.code) : FALSE
    BY <2>2, CodeLength
  <2>4. Changed = {}
    BY <2>3 DEF Changed
  <2>. QED  BY <2>4 DEF Isolated
<1>. QED  BY <1>1, <1>2

-----------------------------------------------------------------------------
(* The theorems.                                                           *)

\* Whatever a program without loops computes, as long as it stays on its tape and
\* inside its arrays: every cell holds a value of its width, and the run is at an
\* instruction of the code or at its end.
THEOREM MachineTyped == Runnable => (MachineSpec /\ []Fits => []MachineTypeOK)
<1>1. MInv => MachineTypeOK
  BY DEF MInv, MachineTypeOK, Tapes
<1>. QED  BY <1>1, MachineKept, PTL

\* codegen.cpp:255, "Cells at next_free and above are zero, so they can serve as
\* the dump scratch the ops require": under the same conditions no instruction
\* ever finds a cell nonzero that its gadget takes to be zero. Without the first
\* condition it does not hold: run machine_loop.
THEOREM ContractsKept == Runnable => (MachineSpec /\ []Fits => []ContractsHold)
<1>1. MInv /\ Fits => ContractsHold
  BY ContractsMet
<1>. QED  BY <1>1, MachineKept, PTL

\* The cells that the code written so far has left nonzero when it has run are
\* all among those the compiler reckons with.
THEOREM DirtyKept == Runnable => (MachineSpec /\ []Fits => []DirtySound)
<1>1. MInv => DirtySound
  BY DirtyKnown
<1>. QED  BY <1>1, MachineKept, PTL

\* While the program runs too no two variables own a common cell, and all of them
\* end below next_free, whatever the program.
THEOREM VariablesStayApart == MachineSpec => []VariablesDisjoint
<1>1. MachineInit => OInv /\ Known /\ Coded(out)
  BY InitOwned, InitKnown DEF MachineInit
<1>2. OInv /\ Known /\ Coded(out) /\ [MachineNext]_<<vars, machineVars>>
      => (OInv /\ Known /\ Coded(out))'
  BY OwnedAside
<1>3. OInv => VariablesDisjoint
  BY DEF OInv
<1>. QED  BY <1>1, <1>2, <1>3, PTL DEF MachineSpec

\* The code of a function's body stays in its frame and the variables it was given
\* by reference, also where what came before it has run and is forgotten.
THEOREM IsolationStays == Filled => (MachineSpec => CallsIsolated)
<1>. SUFFICES ASSUME Filled
              PROVE  MachineSpec => CallsIsolated
  OBVIOUS
<1>1. MachineInit => OInv /\ Known /\ Coded(out) /\ Confined
  BY InitOwned, InitKnown, InitConfined DEF MachineInit
<1>2. /\ OInv /\ Known /\ Coded(out) /\ Confined /\ [MachineNext]_<<vars, machineVars>>
      => (OInv /\ Known /\ Coded(out) /\ Confined)' /\ [Isolated]_vars
  BY OwnedAside, ConfinedAside, IsolatedAside
<1>. QED  BY <1>1, <1>2, PTL DEF MachineSpec, CallsIsolated, Isolated
=============================================================================
