------------------------------ MODULE ZeroProofs ------------------------------
(***************************************************************************)
(* Proofs about the zero invariant the generated code lives by: the cells  *)
(* from next_free up are zero, so that no gadget is given scratch that is  *)
(* not.                                                                    *)
(*                                                                         *)
(* Two things have to be known: where a place of the program points, which *)
(* is into cells that some variable owns, and what of the cells that are   *)
(* given back may be dirty.                                                *)
(***************************************************************************)
EXTENDS OwnershipProofs

-----------------------------------------------------------------------------
(* What is assumed of the program.                                         *)

\* No struct is empty, a literal is in quotes, and elements are not assigned in
\* a program that has strings: the type of a string has one cell more than it
\* has reserved.
Fitting ==
  /\ \A t \in StructTypes : t.size > 0
  /\ \A s \in Strings : s.chars + 2 <= s.size
  /\ "store" \in Kinds => Strings = {}

-----------------------------------------------------------------------------
(* The inductive invariant.                                                *)

\* The cells a program may write to by naming a place: of an array only the
\* header, unless it assigns to elements.
Reached(p) ==
  IF p.type.class = "ARRAY" /\ "store" \notin Kinds THEN p.addr..(p.addr + 3)
                                                   ELSE TypedCellsOf(p)

\* A variable of one of the first k scopes owns these cells.
Anchored(cells, k) ==
  \E o \in Owners : o[1] <= k /\ cells \subseteq CellsOf(VarOf(o))

\* A variable reaches its own cells; an alias those of a variable further out.
Backed(v, k) ==
  /\ v.len > 0 => Reached(v) \subseteq CellsOf(v)
  /\ v.len = 0 => Anchored(Reached(v), k)

Backings ==
  /\ \A k \in 1..Depth : \A n \in Declares(scopes[k].vars) :
       Backed(scopes[k].vars[n], k - 1)
  /\ \A i \in 1..Len(acts) :
       /\ acts[i].kind = "call" =>
            \A n \in Declares(acts[i].binds) : Backed(acts[i].binds[n], acts[i].scope)
       /\ acts[i].kind \in {"index", "store"} =>
            Anchored(acts[i].base..(acts[i].base + 3 + acts[i].len), acts[i].scope)
       /\ acts[i].kind = "element" =>
            Anchored(acts[i].base..(acts[i].base + 3), acts[i].scope)
       /\ acts[i].kind = "loopbody" /\ acts[i].held.type = "ADDRESS" =>
            Anchored({acts[i].held.val}, acts[i].scope - 1)
       /\ acts[i].kind = "store" /\ acts[i].held.type = "TEMP" =>
            acts[i].held.val = acts[i].mark
  /\ mode = "value" /\ res.type = "ADDRESS" => Anchored({res.val}, Depth)

\* While a right operand is evaluated, the cells that the left one has left
\* reserved around its value.
Gap(stack, i) ==
  {c \in Nat : /\ stack[i].kind = "right"
               /\ Ceiling(stack[i - 1]) <= c /\ c < stack[i].mark
               /\ ~(stack[i].held.type = "TEMP" /\ c = stack[i].held.val)}

\* None of these cells is in a gap of the first m activations.
Tidy(cells, stack, m) == \A i \in 1..m : cells \cap Gap(stack, i) = {}

\* What a block finds dirty is dirty again when it is skipped.
BlocksTidy ==
  \A i \in 1..Len(acts) : acts[i].kind \in {"loopbody", "ifbody"} =>
    /\ \A c \in acts[i].before : 0 < c /\ c < acts[i].mark
    /\ Tidy(acts[i].before, acts, i - 1)

\* Of what an evaluation has taken only its value is dirty.
ValueClean ==
  mode = "value" =>
    \A c \in out.dirty : c >= Ceiling(Top) => res.type = "TEMP" /\ c = res.val

GapsFree ==
  \A i \in 1..Len(acts) : \A o \in Owners : CellsOf(VarOf(o)) \cap Gap(acts, i) = {}

Zeroed ==
  /\ ZeroInvariant /\ ScratchZero /\ ValueClean /\ BlocksTidy /\ GapsFree
  /\ Tidy(out.dirty, acts, Len(acts))

ZInv == Backings /\ Zeroed

-----------------------------------------------------------------------------
(* Where places point.                                                     *)

LEMMA SizesKnown ==
  ASSUME Fitting
  PROVE  /\ \A t \in KnownTypes : t.size \in Nat /\ t.size >= 1
         /\ \A t \in KnownTypes : t.class = "ARRAY" => t.size >= 4
         /\ \A t \in KnownTypes : t.places # {} => t \in StructTypes /\ t.class # "ARRAY"
<1>1. ASSUME NEW t \in StructTypes
      PROVE  t.size \in Nat /\ t.size >= 1 /\ t.class # "ARRAY"
  BY StructsAssumption DEF Fitting
<1>2. IntegerType.size = 1 /\ IntegerType.places = {} /\ IntegerType.class # "ARRAY"
  BY DEF IntegerType
<1>3. ASSUME NEW n \in 0..Word
      PROVE  ArrayType(n).size = n + 4 /\ ArrayType(n).places = {}
  BY DEF ArrayType
<1>4. Word \in Nat
  BY BoundsAssumption
<1>5. ASSUME NEW t \in KnownTypes
      PROVE  /\ t.size \in Nat /\ t.size >= 1 /\ (t.class = "ARRAY" => t.size >= 4)
             /\ t.places # {} => t \in StructTypes /\ t.class # "ARRAY"
  <2>1. CASE t \in StructTypes
    BY <1>1, <2>1
  <2>2. CASE t = IntegerType
    BY <1>2, <2>2
  <2>3. CASE \E n \in 0..Word : t = ArrayType(n)
    BY <1>3, <1>4, <2>3
  <2>. QED  BY <2>1, <2>2, <2>3 DEF KnownTypes
<1>. QED  BY <1>5

\* What a place reaches.
LEMMA ReachedCells ==
  ASSUME Fitting, NEW p, p.addr \in Nat, p.type \in KnownTypes
  PROVE  /\ p.addr \in Reached(p)
         /\ Reached(p) \subseteq TypedCellsOf(p)
         /\ p.type.class # "ARRAY" \/ "store" \in Kinds => Reached(p) = TypedCellsOf(p)
         /\ \A c \in TypedCellsOf(p) : c \in Nat /\ p.addr <= c /\ c < p.addr + p.type.size
<1>1. p.type.size \in Nat /\ p.type.size >= 1 /\ (p.type.class = "ARRAY" => p.type.size >= 4)
  BY SizesKnown
<1>2. \A c \in TypedCellsOf(p) : c \in Nat /\ p.addr <= c /\ c < p.addr + p.type.size
  BY <1>1 DEF TypedCellsOf
<1>3. p.addr \in TypedCellsOf(p)
  BY <1>1 DEF TypedCellsOf
<1>4. p.type.class = "ARRAY" => p.addr..(p.addr + 3) \subseteq TypedCellsOf(p)
  BY <1>1 DEF TypedCellsOf
<1>. QED  BY <1>2, <1>3, <1>4 DEF Reached

\* A field reaches cells of its struct.
LEMMA FieldsInside ==
  ASSUME Fitting, NEW v \in Variables, NEW p \in FieldPlaces(v) \cup {PlaceOf(v)}
  PROVE  p.addr \in Nat /\ p.type \in KnownTypes /\ Reached(p) \subseteq Reached(v)
<1>1. v.addr \in Nat /\ v.type \in KnownTypes
  BY DEF Variables
<1>2. CASE p = PlaceOf(v)
  BY <1>1, <1>2 DEF PlaceOf, Reached, TypedCellsOf
<1>3. CASE p \in FieldPlaces(v)
  <2>1. PICK q \in v.type.places : p = [addr |-> v.addr + q.offset, type |-> q.type]
    BY <1>3 DEF FieldPlaces
  <2>2. v.type \in StructTypes /\ v.type.class # "ARRAY" /\ v.type.size \in Nat
    BY <1>1, <2>1, SizesKnown
  <2>3. /\ q.offset \in Nat /\ q.type \in KnownTypes
        /\ q.offset + q.type.size <= v.type.size
    BY <2>1, <2>2, StructsAssumption
  <2>4. q.type.size \in Nat
    BY <2>3, SizesKnown
  <2>5. p.addr = v.addr + q.offset /\ p.type = q.type
    BY <2>1
  <2>6. p.addr \in Nat /\ p.type \in KnownTypes
    BY <1>1, <2>3, <2>5
  <2>7. Reached(p) \subseteq TypedCellsOf(p) /\ Reached(v) = TypedCellsOf(v)
    BY <1>1, <2>2, <2>6, ReachedCells
  <2>8. TypedCellsOf(p) \subseteq TypedCellsOf(v)
    BY <1>1, <2>2, <2>3, <2>4, <2>5 DEF TypedCellsOf
  <2>. QED  BY <2>6, <2>7, <2>8
<1>. QED  BY <1>2, <1>3

\* A place that a program may name lies in cells that a variable owns.
LEMMA PlacesAnchored ==
  ASSUME Fitting, IInv, Backings
  PROVE  /\ \A p \in Places : p \in ArgPlaces
         /\ \A p \in ArgPlaces : /\ p.addr \in Nat /\ p.type \in KnownTypes
                                 /\ p.addr \in Reached(p) /\ Anchored(Reached(p), Depth)
<1>1. \A p \in Places : p \in ArgPlaces
  BY DEF Places, ArgPlaces
<1>2. Typed /\ Barrier \in Nat /\ Barrier >= 1 /\ Depth \in Nat
  BY StatesTyped, Context DEF IInv, Barrier
<1>3. ASSUME NEW v \in Visible
      PROVE  v \in Variables /\ Anchored(Reached(v), Depth)
  <2>1. PICK n \in Names : \E k \in Holders(n) : v = scopes[k].vars[n]
    BY DEF Visible, Resolve
  <2>2. PICK k \in Holders(n) : v = scopes[k].vars[n]
    BY <2>1
  <2>3. k \in 1..Depth /\ n \in Declares(scopes[k].vars)
    BY <1>2, <2>2 DEF Holders
  <2>4. Backed(v, k - 1) /\ v \in Variables /\ v.len \in Nat
    BY <1>2, <2>2, <2>3, VariableCells DEF Backings, Typed
  <2>5. CASE v.len > 0
    <3>1. <<k, n>> \in Owners /\ VarOf(<<k, n>>) = v
      BY <2>2, <2>3, <2>5 DEF Owners, VarOf
    <3>2. <<k, n>>[1] <= Depth
      BY <1>2, <2>3
    <3>. QED  BY <2>4, <2>5, <3>1, <3>2 DEF Backed, Anchored
  <2>6. CASE v.len = 0
    <3>1. PICK o \in Owners : o[1] <= k - 1 /\ Reached(v) \subseteq CellsOf(VarOf(o))
      BY <2>4, <2>6 DEF Backed, Anchored
    <3>2. o[1] <= Depth
      BY <1>2, <2>3, <3>1 DEF Typed
    <3>. QED  BY <2>4, <3>1, <3>2 DEF Anchored
  <2>. QED  BY <2>4, <2>5, <2>6
<1>4. ASSUME NEW p \in ArgPlaces
      PROVE  /\ p.addr \in Nat /\ p.type \in KnownTypes
             /\ p.addr \in Reached(p) /\ Anchored(Reached(p), Depth)
  <2>1. PICK v \in Visible : p \in FieldPlaces(v) \cup {PlaceOf(v)}
    BY DEF ArgPlaces
  <2>2. /\ p.addr \in Nat /\ p.type \in KnownTypes /\ Reached(p) \subseteq Reached(v)
        /\ Anchored(Reached(v), Depth)
    BY <1>3, <2>1, FieldsInside
  <2>3. Anchored(Reached(p), Depth)
    BY <2>2 DEF Anchored
  <2>. QED  BY <2>2, <2>3, ReachedCells
<1>. QED  BY <1>1, <1>4

-----------------------------------------------------------------------------
(* What a step does to the variables.                                      *)

\* After the step a variable of one of the first k scopes owns these cells.
AnchoredAfter(cells, k) ==
  \E o \in Owners' : o[1] <= k /\ cells \subseteq CellsOf(NewVar(o))

\* Only the innermost scope changes, and when it does a statement is to follow:
\* what is new there is above b, or an alias.
NewIn(v, b) ==
  \/ v = Undeclared
  \/ v.len > 0 /\ b <= v.addr /\ Reached(v) \subseteq CellsOf(v)
  \/ v.len = 0 /\ AnchoredAfter(Reached(v), Depth' - 1)

VarsGo(b) ==
  /\ \A k \in 1..(Depth' - 1) : k <= Depth /\ scopes'[k].vars = scopes[k].vars
  /\ \/ Depth' <= Depth /\ scopes'[Depth'].vars = scopes[Depth'].vars
     \/ /\ mode' = "stmt"
        /\ \A n \in Names :
             \/ Depth' <= Depth /\ scopes'[Depth'].vars[n] = scopes[Depth'].vars[n]
             \/ NewIn(scopes'[Depth'].vars[n], b)

LEMMA AnchorsStay ==
  ASSUME NEW b, VarsGo(b), NEW cells, NEW k \in Nat, Anchored(cells, k),
         Depth \in Nat, Depth' \in Nat,
         \/ k < Depth'
         \/ k = Depth' /\ Depth' <= Depth /\ scopes'[Depth'].vars = scopes[Depth'].vars
  PROVE  AnchoredAfter(cells, k)
<1>1. PICK o \in Owners : o[1] <= k /\ cells \subseteq CellsOf(VarOf(o))
  BY DEF Anchored
<1>2. o[1] \in 1..Depth /\ o[2] \in Names /\ o = <<o[1], o[2]>> /\ VarOf(o).len > 0
  BY DEF Owners, VarOf
<1>3. o[1] \in 1..Depth' /\ scopes'[o[1]].vars = scopes[o[1]].vars
  BY <1>1, <1>2 DEF VarsGo
<1>4. o \in Owners' /\ NewVar(o) = VarOf(o)
  BY <1>2, <1>3 DEF Owners, NewVar, VarOf
<1>. QED  BY <1>1, <1>4 DEF AnchoredAfter

LEMMA AnchorsSame ==
  ASSUME scopes' = scopes
  PROVE  \A cells, k : Anchored(cells, k) => AnchoredAfter(cells, k)
<1>1. Owners' = Owners /\ \A o : NewVar(o) = VarOf(o)
  BY DEF Owners, NewVar, VarOf, Depth
<1>. QED  BY <1>1 DEF Anchored, AnchoredAfter

\* Where statements are compiled all that waits for an expression is further out.
Inside ==
  mode = "stmt" => \A i \in 1..Len(acts) : acts[i].kind \notin Blocks => acts[i].scope < Depth

LEMMA StatementsInside == IInv => Inside
<1>. SUFFICES ASSUME IInv, mode = "stmt", NEW i \in 1..Len(acts), acts[i].kind \notin Blocks
              PROVE  acts[i].scope < Depth
  BY DEF Inside
<1>1. Len(acts) \in Nat /\ Len(acts) \in 1..Len(acts) /\ acts # <<>>
  BY StatesTyped DEF Typed
<1>2. Top.kind \in Blocks /\ Top = acts[Len(acts)] /\ Top.scope = Depth
  BY <1>1, Context DEF IInv, ModeShape, Top
<1>3. i < Len(acts)
  BY <1>1, <1>2
<1>. QED  BY <1>1, <1>2, <1>3 DEF IInv, Nested, ScopesNest

LEMMA StatementsInsideAfter == IInv' => Inside'
BY StatementsInside, PTL

\* What an activation above those that stay refers to.
Refers(a) ==
  /\ a.kind = "call" => \A n \in Declares(a.binds) :
       /\ a.binds[n].len > 0 => Reached(a.binds[n]) \subseteq CellsOf(a.binds[n])
       /\ a.binds[n].len = 0 => AnchoredAfter(Reached(a.binds[n]), a.scope)
  /\ a.kind \in {"index", "store"} =>
       AnchoredAfter(a.base..(a.base + 3 + a.len), a.scope)
  /\ a.kind = "element" => AnchoredAfter(a.base..(a.base + 3), a.scope)
  /\ a.kind = "loopbody" /\ a.held.type = "ADDRESS" =>
       AnchoredAfter({a.held.val}, a.scope - 1)
  /\ a.kind = "store" /\ a.held.type = "TEMP" => a.held.val = a.mark

LEMMA BackingsStep ==
  ASSUME IInv, IInv', Backings, NEW m, Kept(m), NEW b, VarsGo(b),
         Len(acts') = m + 1 => Refers(acts'[m + 1]),
         mode' = "value" /\ res'.type = "ADDRESS" => AnchoredAfter({res'.val}, Depth')
  PROVE  Backings'
<1>1. /\ Typed /\ Typed' /\ Depth \in Nat /\ Depth' \in Nat /\ Depth' >= 1
      /\ m \in Nat /\ Len(acts) \in Nat /\ Len(acts') \in Nat
      /\ \A i \in 1..Len(acts') : \/ i \in 1..m /\ i \in 1..Len(acts) /\ acts'[i] = acts[i]
                                  \/ i = m + 1 /\ Len(acts') = m + 1
  BY StatesTyped, StatesTypedAfter, ActsAfter DEF Typed
<1>2. ASSUME NEW k \in 1..Depth', NEW n \in Declares(scopes'[k].vars)
      PROVE  LET v == scopes'[k].vars[n]
             IN  /\ v.len > 0 => Reached(v) \subseteq CellsOf(v)
                 /\ v.len = 0 => AnchoredAfter(Reached(v), k - 1)
  <2>. DEFINE v == scopes'[k].vars[n]
  <2>1. n \in Names /\ v # Undeclared
    BY DEF Declares
  <2>2. CASE k <= Depth /\ v = scopes[k].vars[n]
    <3>1. k \in 1..Depth /\ n \in Declares(scopes[k].vars)
      BY <1>1, <2>1, <2>2 DEF Declares
    <3>2. Backed(v, k - 1)
      BY <2>2, <3>1 DEF Backings
    <3>3. k - 1 \in Nat /\ k - 1 < Depth'
      BY <1>1
    <3>4. Anchored(Reached(v), k - 1) => AnchoredAfter(Reached(v), k - 1)
      BY <1>1, <3>3, AnchorsStay
    <3>. QED  BY <3>2, <3>4 DEF Backed
  <2>3. CASE k = Depth' /\ NewIn(v, b)
    BY <1>1, <2>1, <2>3 DEF NewIn
  <2>4. \/ k <= Depth /\ v = scopes[k].vars[n]
        \/ k = Depth' /\ NewIn(v, b)
    <3>1. CASE k \in 1..(Depth' - 1)
      <4>1. k <= Depth /\ scopes'[k].vars = scopes[k].vars
        BY <3>1 DEF VarsGo
      <4>. QED  BY <4>1
    <3>2. CASE k = Depth'
      BY <1>1, <2>1, <3>2 DEF VarsGo
    <3>3. k \in 1..(Depth' - 1) \/ k = Depth'
      BY <1>1
    <3>. QED  BY <3>1, <3>2, <3>3
  <2>. QED  BY <2>2, <2>3, <2>4
<1>3. ASSUME NEW i \in 1..Len(acts'),
             acts'[i].kind \in {"call", "index", "store", "element", "loopbody"}
      PROVE  Refers(acts'[i])
  <2>1. CASE i \in 1..m /\ i \in 1..Len(acts) /\ acts'[i] = acts[i]
    <3>. DEFINE a == acts[i]
    <3>1. a.scope \in Nat /\ a.scope >= 1 /\ a.scope <= Depth'
      <4>1. acts[i] \in Activation
        BY <1>1, <2>1 DEF Typed
      <4>2. i \in 1..Len(acts') /\ acts'[i].scope <= Depth'
        BY <1>1 DEF Typed
      <4>3. a.scope \in Nat \ {0}
        BY <4>1 DEF Activation
      <4>. QED  BY <2>1, <4>2, <4>3
    <3>2. \/ a.scope < Depth' \/ a.kind \in Blocks
          \/ Depth' <= Depth /\ scopes'[Depth'].vars = scopes[Depth'].vars
      <4>1. mode' = "stmt" /\ a.kind \notin Blocks => a.scope < Depth'
        BY <2>1, <3>1, StatementsInsideAfter DEF Inside
      <4>. QED  BY <4>1 DEF VarsGo
    <3>3. a.kind \notin Blocks =>
            \A cells : Anchored(cells, a.scope) => AnchoredAfter(cells, a.scope)
      BY <1>1, <3>1, <3>2, AnchorsStay
    <3>6. \A cells : Anchored(cells, a.scope - 1) => AnchoredAfter(cells, a.scope - 1)
      <4>1. a.scope - 1 \in Nat /\ a.scope - 1 < Depth'
        BY <1>1, <3>1
      <4>. QED  BY <1>1, <4>1, AnchorsStay
    <3>7. a.kind \notin Blocks \/ a.kind = "loopbody"
      BY <1>3, <2>1 DEF Blocks
    <3>4. /\ a.kind = "call" => \A n \in Declares(a.binds) : Backed(a.binds[n], a.scope)
          /\ a.kind \in {"index", "store"} =>
               Anchored(a.base..(a.base + 3 + a.len), a.scope)
          /\ a.kind = "element" => Anchored(a.base..(a.base + 3), a.scope)
          /\ a.kind = "loopbody" /\ a.held.type = "ADDRESS" =>
               Anchored({a.held.val}, a.scope - 1)
          /\ a.kind = "store" /\ a.held.type = "TEMP" => a.held.val = a.mark
      BY <2>1 DEF Backings
    <3>5. Refers(a)
      BY <3>3, <3>4, <3>6, <3>7 DEF Refers, Backed, Blocks
    <3>. QED  BY <2>1, <3>5
  <2>2. CASE i = m + 1 /\ Len(acts') = m + 1
    BY <2>2
  <2>. QED  BY <1>1, <2>1, <2>2
<1>. QED  BY <1>2, <1>3 DEF Backings, Backed, Refers, Anchored, AnchoredAfter, NewVar, VarOf

-----------------------------------------------------------------------------
(* What a step does to the dirty cells.                                    *)

\* The gaps of the activations that stay.
LEMMA GapsStay ==
  ASSUME IInv, IInv', NEW m, Kept(m)
  PROVE  \A i \in 1..m : Gap(acts', i) = Gap(acts, i)
<1>. SUFFICES ASSUME NEW i \in 1..m
              PROVE  Gap(acts', i) = Gap(acts, i)
  OBVIOUS
<1>1. m \in Nat /\ i \in 1..Len(acts) /\ acts'[i] = acts[i]
  BY ActsAfter DEF Kept
<1>2. CASE acts[i].kind = "right"
  <2>1. i > 1
    BY <1>1, <1>2 DEF IInv, Nested, StackShape, ExprKinds
  <2>2. acts'[i - 1] = acts[i - 1]
    BY <1>1, <2>1 DEF Kept
  <2>. QED  BY <1>1, <2>2 DEF Gap
<1>3. CASE acts[i].kind # "right"
  BY <1>1, <1>3 DEF Gap
<1>. QED  BY <1>2, <1>3

\* They are below what is taken above them.
LEMMA GapsBelow ==
  ASSUME IInv, NEW m \in 0..Len(acts), NEW b \in Nat, \A i \in 1..m : Ceiling(acts[i]) <= b
  PROVE  \A i \in 1..m : \A c \in Gap(acts, i) : c \in Nat /\ c < b
<1>. SUFFICES ASSUME NEW i \in 1..m, NEW c \in Gap(acts, i)
              PROVE  c \in Nat /\ c < b
  OBVIOUS
<1>1. i \in 1..Len(acts) /\ Typed
  BY StatesTyped DEF Typed
<1>2. /\ acts[i].mark \in Nat /\ Ceiling(acts[i]) \in Nat
      /\ acts[i].mark <= Ceiling(acts[i])
  BY <1>1 DEF Typed
<1>3. c \in Nat /\ c < acts[i].mark
  BY DEF Gap
<1>. QED  BY <1>2, <1>3

\* What is dirtied above them or in a variable is not in them.
LEMMA TidyStep ==
  ASSUME IInv, Zeroed, NEW m \in 0..Len(acts), NEW b \in Nat,
         \A i \in 1..m : Ceiling(acts[i]) <= b, NEW cells,
         \A c \in cells : \/ c \in out.dirty \/ b <= c
                          \/ \E o \in Owners : c \in CellsOf(VarOf(o))
  PROVE  Tidy(cells, acts, m)
<1>. SUFFICES ASSUME NEW i \in 1..m, NEW c \in cells, c \in Gap(acts, i)
              PROVE  FALSE
  BY DEF Tidy
<1>1. i \in 1..Len(acts)
  BY StatesTyped DEF Typed
<1>2. c \in Nat /\ c < b
  BY GapsBelow
<1>3. c \notin out.dirty
  BY <1>1 DEF Zeroed, Tidy
<1>4. \A o \in Owners : c \notin CellsOf(VarOf(o))
  BY <1>1 DEF Zeroed, GapsFree
<1>. QED  BY <1>2, <1>3, <1>4

LEMMA GapsFreeStep ==
  ASSUME IInv, IInv', GapsFree, NEW m, Kept(m), NEW b \in Nat, VarsGo(b),
         \A i \in 1..m : Ceiling(acts[i]) <= b,
         Len(acts') = m + 1 /\ acts'[m + 1].kind = "right" =>
           \A o \in Owners' : CellsOf(NewVar(o)) \cap Gap(acts', m + 1) = {}
  PROVE  GapsFree'
<1>1. /\ Typed' /\ m \in Nat /\ m \in 0..Len(acts) /\ Depth' \in Nat /\ Depth' >= 1
      /\ Len(acts) \in Nat /\ Len(acts') \in Nat
      /\ \A i \in 1..Len(acts') : \/ i \in 1..m /\ i \in 1..Len(acts) /\ acts'[i] = acts[i]
                                  \/ i = m + 1 /\ Len(acts') = m + 1
  BY StatesTypedAfter, ActsAfter DEF Typed, Kept
<1>2. \A i \in 1..m : /\ Gap(acts', i) = Gap(acts, i)
                      /\ \A c \in Gap(acts, i) : c \in Nat /\ c < b
  BY <1>1, GapsStay, GapsBelow
<1>3. ASSUME NEW o \in Owners'
      PROVE  \/ o \in Owners /\ NewVar(o) = VarOf(o)
             \/ \A c \in CellsOf(NewVar(o)) : c \in Nat /\ b <= c
  <2>1. /\ o[1] \in 1..Depth' /\ o[2] \in Names /\ o = <<o[1], o[2]>>
        /\ NewVar(o) = scopes'[o[1]].vars[o[2]] /\ NewVar(o).len > 0
    BY DEF Owners, NewVar
  <2>2. CASE o[1] <= Depth /\ NewVar(o) = scopes[o[1]].vars[o[2]]
    <3>1. o[1] \in 1..Depth
      BY <1>1, <2>1, <2>2, StatesTyped DEF Typed
    <3>2. o \in Owners
      BY <2>1, <2>2, <3>1 DEF Owners
    <3>. QED  BY <2>2, <3>2 DEF VarOf
  <2>3. CASE o[1] = Depth' /\ NewIn(NewVar(o), b)
    <3>1. NewVar(o) \in Variables /\ NewVar(o).addr \in Nat
      BY <1>1 DEF Typed, NewVar, VarOf
    <3>2. Undeclared.len = 0
      BY DEF Undeclared, Variable
    <3>3. b <= NewVar(o).addr
      BY <2>1, <2>3, <3>2 DEF NewIn
    <3>. QED  BY <3>1, <3>3, Cells
  <2>4. \/ o[1] <= Depth /\ NewVar(o) = scopes[o[1]].vars[o[2]]
        \/ o[1] = Depth' /\ NewIn(NewVar(o), b)
    BY <1>1, <2>1 DEF VarsGo
  <2>. QED  BY <2>2, <2>3, <2>4
<1>4. ASSUME NEW i \in 1..Len(acts'), NEW o \in Owners'
      PROVE  CellsOf(NewVar(o)) \cap Gap(acts', i) = {}
  <2>1. CASE i \in 1..m /\ i \in 1..Len(acts)
    <3>1. o \in Owners => CellsOf(VarOf(o)) \cap Gap(acts, i) = {}
      BY <2>1 DEF GapsFree
    <3>. QED  BY <1>2, <1>3, <2>1, <3>1
  <2>2. CASE i = m + 1 /\ Len(acts') = m + 1
    <3>1. acts'[i].kind # "right" => Gap(acts', i) = {}
      BY DEF Gap
    <3>. QED  BY <2>2, <3>1
  <2>. QED  BY <1>1, <2>1, <2>2
<1>. QED  BY <1>4 DEF GapsFree, NewVar, VarOf

LEMMA BlocksTidyStep ==
  ASSUME IInv, IInv', BlocksTidy, NEW m, Kept(m),
         Len(acts') = m + 1 /\ acts'[m + 1].kind \in {"loopbody", "ifbody"} =>
           /\ \A c \in acts'[m + 1].before : 0 < c /\ c < acts'[m + 1].mark
           /\ Tidy(acts'[m + 1].before, acts, m)
  PROVE  BlocksTidy'
<1>1. /\ m \in Nat /\ Len(acts) \in Nat /\ Len(acts') \in Nat
      /\ \A i \in 1..Len(acts') : \/ i \in 1..m /\ i \in 1..Len(acts) /\ acts'[i] = acts[i]
                                  \/ i = m + 1 /\ Len(acts') = m + 1
  BY ActsAfter
<1>2. \A i \in 1..m : Gap(acts', i) = Gap(acts, i)
  BY GapsStay
<1>3. \A cells : \A j \in 0..m : Tidy(cells, acts, j) => Tidy(cells, acts', j)
  <2>1. \A j \in 0..m : \A i \in 1..j : i \in 1..m
    BY <1>1
  <2>. QED  BY <1>2, <2>1 DEF Tidy
<1>4. ASSUME NEW i \in 1..Len(acts'), acts'[i].kind \in {"loopbody", "ifbody"}
      PROVE  /\ \A c \in acts'[i].before : 0 < c /\ c < acts'[i].mark
             /\ Tidy(acts'[i].before, acts', i - 1)
  <2>1. CASE i \in 1..m /\ i \in 1..Len(acts) /\ acts'[i] = acts[i]
    <3>1. i - 1 \in 0..m
      BY <1>1, <2>1
    <3>. QED  BY <1>3, <1>4, <2>1, <3>1 DEF BlocksTidy
  <2>2. CASE i = m + 1 /\ Len(acts') = m + 1
    <3>1. i - 1 = m /\ m \in 0..m
      BY <1>1, <2>2
    <3>. QED  BY <1>3, <1>4, <2>2, <3>1
  <2>. QED  BY <1>1, <2>1, <2>2
<1>. QED  BY <1>4 DEF BlocksTidy

\* What a step writes and who it leaves above the first m activations.
Above(a, m) ==
  /\ Refers(a)
  /\ a.kind \in {"loopbody", "ifbody"} =>
       a.before = out'.dirty /\ \A c \in out'.dirty : c < a.mark
  /\ a.kind = "right" => \A c \in Gap(acts', m + 1) :
       c \notin out'.dirty /\ \A o \in Owners' : c \notin CellsOf(NewVar(o))

Cleans(m, b) ==
  /\ Kept(m)
  /\ \A i \in 1..m : Ceiling(acts[i]) <= b
  /\ VarsGo(b)
  /\ Len(acts') = m + 1 => Above(acts'[m + 1], m)
  /\ out'.unmet = {}
  /\ \A c \in out'.dirty : 0 < c /\ c < NextFree'
  /\ Tidy(out'.dirty, acts, m)
  /\ mode' = "value" => \A c \in out'.dirty :
       c >= Ceiling(acts'[Len(acts')]) => res'.type = "TEMP" /\ c = res'.val
  /\ mode' = "value" /\ res'.type = "ADDRESS" => AnchoredAfter({res'.val}, Depth')

LEMMA Cleaned ==
  ASSUME IInv, IInv', ZInv, NEW m, NEW b \in Nat, Cleans(m, b)
  PROVE  ZInv'
<1>1. Backings /\ Zeroed /\ GapsFree /\ BlocksTidy /\ Kept(m) /\ VarsGo(b)
  BY DEF ZInv, Zeroed, Cleans
<1>2. Backings'
  BY <1>1, BackingsStep DEF Cleans, Above
<1>3. GapsFree'
  BY <1>1, GapsFreeStep DEF Cleans, Above
<1>4. BlocksTidy'
  BY <1>1, BlocksTidyStep DEF Cleans, Above
<1>5. Tidy(out'.dirty, acts', Len(acts'))
  <2>1. /\ m \in Nat /\ Len(acts') \in Nat
        /\ \A i \in 1..Len(acts') : i \in 1..m \/ (i = m + 1 /\ Len(acts') = m + 1)
    BY <1>1, ActsAfter
  <2>2. ASSUME NEW i \in 1..Len(acts'), NEW c \in out'.dirty, c \in Gap(acts', i)
        PROVE  FALSE
    <3>1. CASE i \in 1..m
      <4>1. Gap(acts', i) = Gap(acts, i)
        BY <1>1, <3>1, GapsStay
      <4>. QED  BY <2>2, <3>1, <4>1 DEF Cleans, Tidy
    <3>2. CASE i = m + 1 /\ Len(acts') = m + 1
      <4>1. acts'[i].kind = "right"
        BY <2>2 DEF Gap
      <4>. QED  BY <2>2, <3>2, <4>1 DEF Cleans, Above
    <3>. QED  BY <2>1, <3>1, <3>2
  <2>. QED  BY <2>2 DEF Tidy
<1>6. ZeroInvariant' /\ ScratchZero'
  BY DEF Cleans, ZeroInvariant, ScratchZero
<1>7. ValueClean'
  <2>1. Top' = acts'[Len(acts')]
    BY DEF Top
  <2>. QED  BY <2>1 DEF Cleans, ValueClean
<1>. QED  BY <1>2, <1>3, <1>4, <1>5, <1>6, <1>7 DEF ZInv, Zeroed

-----------------------------------------------------------------------------
(* What the instructions dirty.                                            *)

\* Cells that are not dirty are not missed.
LEMMA NoneUnmet ==
  \A o, op, args, writes, needs, dirty :
    LET e == Emit(o, op, args, writes, needs, dirty)
    IN  /\ e.dirty = dirty
        /\ (\A c \in needs : c \notin o.dirty) => e.unmet = o.unmet
<1>. SUFFICES ASSUME NEW o, NEW op, NEW args, NEW writes, NEW needs, NEW dirty
              PROVE  LET e == Emit(o, op, args, writes, needs, dirty)
                     IN  /\ e.dirty = dirty
                         /\ (\A c \in needs : c \notin o.dirty) => e.unmet = o.unmet
  OBVIOUS
<1>. DEFINE e == Emit(o, op, args, writes, needs, dirty)
<1>1. e.dirty = dirty /\ e.unmet = o.unmet \cup (needs \cap o.dirty)
  BY DEF Emit
<1>2. ASSUME \A c \in needs : c \notin o.dirty
      PROVE  o.unmet \cup (needs \cap o.dirty) = o.unmet
  BY <1>2
<1>. QED  BY <1>1, <1>2

LEMMA TapeCleans ==
  ASSUME NEW o, 0 \notin o.dirty
  PROVE  /\ \A a, v : LET e == Mov(o, a, v)
                      IN  /\ e.unmet = o.unmet
                          /\ \A c \in e.dirty : c \in o.dirty \/ c = a
                          /\ v = 0 => e.dirty = o.dirty \ {a}
         /\ \A a, s : LET e == Add(o, a, s)
                      IN  e.unmet = o.unmet /\ e.dirty = o.dirty \cup {a}
         /\ \A a, s : a \notin o.dirty =>
              LET e == Copy(o, a, s)
              IN  e.unmet = o.unmet /\ e.dirty = o.dirty \cup {a}
         /\ \A a, s : a \notin o.dirty =>
              LET e == Load(o, a, s)
              IN  e.unmet = o.unmet /\ e.dirty = o.dirty \cup {a}
         /\ \A a : LET e == Flip(o, a)
                   IN  e.unmet = o.unmet /\ e.dirty = o.dirty \cup {a}
         /\ \A a : LET e == ReadChar(o, a)
                   IN  e.unmet = o.unmet /\ e.dirty = o.dirty \cup {a}
         /\ \A a : LET e == Ouz(o, a)
                   IN  e.unmet = o.unmet /\ e.dirty \subseteq o.dirty
         /\ \A op, a : LET e == Open(o, op, a)
                       IN  e.unmet = o.unmet /\ e.dirty = o.dirty
         /\ \A b, i, d : LET e == Ra(o, b, i, d)
                         IN  e.unmet = o.unmet /\ e.dirty = o.dirty \cup {d}
         /\ \A b, l, i, t : LET e == Sav(o, b, l, i, t)
                            IN  /\ e.unmet = o.unmet
                                /\ e.dirty = o.dirty \cup (b + 4)..(b + 3 + l)
<1>1. \A a, v : LET e == Mov(o, a, v)
                IN  /\ e.unmet = o.unmet
                    /\ \A c \in e.dirty : c \in o.dirty \/ c = a
                    /\ v = 0 => e.dirty = o.dirty \ {a}
  BY NoneUnmet DEF Mov
<1>2. \A a, s : LET e == Add(o, a, s)
                IN  e.unmet = o.unmet /\ e.dirty = o.dirty \cup {a}
  BY NoneUnmet DEF Add
<1>3. \A a, s : a \notin o.dirty =>
        LET e == Copy(o, a, s)
        IN  e.unmet = o.unmet /\ e.dirty = o.dirty \cup {a}
  BY NoneUnmet DEF Copy
<1>4. \A a, s : a \notin o.dirty =>
        LET e == Load(o, a, s)
        IN  e.unmet = o.unmet /\ e.dirty = o.dirty \cup {a}
  BY NoneUnmet DEF Load
<1>5. /\ \A a : LET e == Flip(o, a)
                IN  e.unmet = o.unmet /\ e.dirty = o.dirty \cup {a}
      /\ \A a : LET e == ReadChar(o, a)
                IN  e.unmet = o.unmet /\ e.dirty = o.dirty \cup {a}
      /\ \A a : LET e == Ouz(o, a)
                IN  e.unmet = o.unmet /\ e.dirty \subseteq o.dirty
  BY NoneUnmet DEF Flip, ReadChar, Ouz
<1>6. \A op, a : LET e == Open(o, op, a)
                 IN  e.unmet = o.unmet /\ e.dirty = o.dirty
  BY NoneUnmet DEF Open
<1>7. \A b, i, d : LET e == Ra(o, b, i, d)
                   IN  e.unmet = o.unmet /\ e.dirty = o.dirty \cup {d}
  BY NoneUnmet DEF Ra
<1>8. \A b, l, i, t : LET e == Sav(o, b, l, i, t)
                      IN  /\ e.unmet = o.unmet
                          /\ e.dirty = o.dirty \cup (b + 4)..(b + 3 + l)
  BY NoneUnmet DEF Sav
<1>. QED  BY <1>1, <1>2, <1>3, <1>4, <1>5, <1>6, <1>7, <1>8

\* A value is moved: where it was is clean, where it goes may be dirty.
Moved(e, o, dest, r) ==
  /\ e.unmet = o.unmet
  /\ \A c \in e.dirty : c = dest \/ (c \in o.dirty /\ ~(r.type = "TEMP" /\ c = r.val))

LEMMA AssignCleans ==
  ASSUME NEW o, 0 \notin o.dirty, NEW dest \in Nat, NEW r \in EvalResults
  PROVE  Moved(Assign(o, dest, r), o, dest, r)
<1>. DEFINE e == Assign(o, dest, r)
            m == Mov(o, dest, 0)
            a == Add(m, dest, r.val)
<1>1. m.unmet = o.unmet /\ m.dirty = o.dirty \ {dest} /\ 0 \notin m.dirty
  BY TapeCleans
<1>. HIDE DEF m
<1>2. a.unmet = o.unmet /\ a.dirty = o.dirty \cup {dest}
  BY <1>1, TapeCleans
<1>. HIDE DEF a
<1>3. CASE r.type = "CONST"
  <2>1. e = Mov(o, dest, r.val)
    BY <1>3 DEF Assign
  <2>. HIDE DEF e
  <2>2. e.unmet = o.unmet /\ \A c \in e.dirty : c \in o.dirty \/ c = dest
    BY <2>1, TapeCleans
  <2>3. Moved(e, o, dest, r)
    BY <1>3, <2>2 DEF Moved
  <2>. QED  BY <2>3 DEF e
<1>4. CASE r.type # "CONST" /\ r.val = dest
  <2>1. e = o
    BY <1>4 DEF Assign
  <2>2. Moved(o, o, dest, r)
    BY <1>4 DEF Moved
  <2>. QED  BY <2>1, <2>2
<1>5. CASE r.type = "ADDRESS" /\ r.val # dest
  <2>1. e = a
    BY <1>5 DEF Assign, a, m
  <2>2. Moved(a, o, dest, r)
    BY <1>2, <1>5 DEF Moved
  <2>. QED  BY <2>1, <2>2
<1>6. CASE r.type \in {"TEMP", "NONE"} /\ r.val # dest
  <2>1. e = Mov(a, r.val, 0)
    BY <1>6 DEF Assign, a, m
  <2>. HIDE DEF e
  <2>2. e.unmet = a.unmet /\ e.dirty = a.dirty \ {r.val}
    BY <2>1, NoneUnmet DEF Mov
  <2>3. Moved(e, o, dest, r)
    BY <1>2, <1>6, <2>2 DEF Moved
  <2>. QED  BY <2>3 DEF e
<1>. QED  BY <1>3, <1>4, <1>5, <1>6 DEF EvalResults

LEMMA CopyToCleans ==
  ASSUME NEW o, 0 \notin o.dirty, NEW dest \in Nat, NEW r \in EvalResults,
         r.type \in {"CONST", "ADDRESS", "TEMP"},
         dest \notin o.dirty \/ (r.type = "TEMP" /\ r.val = dest)
  PROVE  Moved(CopyTo(o, dest, r), o, dest, r)
<1>. DEFINE e == CopyTo(o, dest, r)
            a == Copy(o, dest, r.val)
<1>1. dest \notin o.dirty => a.unmet = o.unmet /\ a.dirty = o.dirty \cup {dest}
  BY TapeCleans
<1>. HIDE DEF a
<1>2. CASE r.type = "CONST"
  <2>1. e = Mov(o, dest, r.val)
    BY <1>2 DEF CopyTo
  <2>. HIDE DEF e
  <2>2. e.unmet = o.unmet /\ \A c \in e.dirty : c \in o.dirty \/ c = dest
    BY <2>1, TapeCleans
  <2>3. Moved(e, o, dest, r)
    BY <1>2, <2>2 DEF Moved
  <2>. QED  BY <2>3 DEF e
<1>3. CASE r.type = "ADDRESS"
  <2>1. e = a
    BY <1>3 DEF CopyTo, a
  <2>2. Moved(a, o, dest, r)
    BY <1>1, <1>3 DEF Moved
  <2>. QED  BY <2>1, <2>2
<1>4. CASE r.type = "TEMP" /\ r.val = dest
  <2>1. e = o
    BY <1>4 DEF CopyTo
  <2>2. Moved(o, o, dest, r)
    BY <1>4 DEF Moved
  <2>. QED  BY <2>1, <2>2
<1>5. CASE r.type = "TEMP" /\ r.val # dest
  <2>1. e = Mov(a, r.val, 0)
    BY <1>5 DEF CopyTo, a
  <2>. HIDE DEF e
  <2>2. e.unmet = a.unmet /\ e.dirty = a.dirty \ {r.val}
    BY <2>1, NoneUnmet DEF Mov
  <2>3. Moved(e, o, dest, r)
    BY <1>1, <1>5, <2>2 DEF Moved
  <2>. QED  BY <2>3 DEF e
<1>. QED  BY <1>2, <1>3, <1>4, <1>5

\* An operator works in cells that nothing else has dirtied, and leaves its result.
LEMMA BinaryOpCleans ==
  ASSUME NEW o, 0 \notin o.dirty, NEW op \in BinOps, NEW acc \in Nat, NEW dump \in Nat,
         acc < dump, \A c \in o.dirty : c \in Nat /\ c < dump, NEW right
  PROVE  LET e == BinaryOp(o, op, acc, right, dump)
         IN  e.unmet = o.unmet /\ \A c \in e.dirty : c = acc \/ c \in o.dirty
<1>. DEFINE e == BinaryOp(o, op, acc, right, dump)
            scratch == dump..(dump + Scratch[op] - 1)
            args == <<acc, right, dump>>
<1>1. \A c \in {0} \cup scratch : c \notin o.dirty
  BY DEF Scratch
<1>2. CASE op \in Flags
  <2>. DEFINE f == Emit(o, op, args, scratch, {0} \cup scratch, o.dirty \cup {dump})
              m == Mov(f, acc, 0)
              a == Add(m, acc, dump)
  <2>1. f.unmet = o.unmet /\ f.dirty = o.dirty \cup {dump}
    BY <1>1, NoneUnmet
  <2>2. e = Mov(a, dump, 0)
    BY <1>2 DEF BinaryOp
  <2>. HIDE DEF f, e
  <2>3. 0 \notin f.dirty
    BY <2>1
  <2>4. m.unmet = f.unmet /\ m.dirty = f.dirty \ {acc}
    BY <2>3, TapeCleans
  <2>. HIDE DEF m
  <2>5. a.unmet = m.unmet /\ a.dirty = m.dirty \cup {acc} /\ 0 \notin m.dirty
    BY <2>3, <2>4, TapeCleans
  <2>. HIDE DEF a
  <2>6. e.unmet = a.unmet /\ e.dirty = a.dirty \ {dump}
    BY <2>2, NoneUnmet DEF Mov
  <2>7. e.unmet = o.unmet /\ \A c \in e.dirty : c = acc \/ c \in o.dirty
    BY <2>1, <2>4, <2>5, <2>6
  <2>. QED  BY <2>7 DEF e
<1>3. CASE op \notin Flags
  <2>1. e = Emit(o, op, args, {acc} \cup scratch, {0} \cup scratch, o.dirty \cup {acc})
    BY <1>3 DEF BinaryOp
  <2>2. e.unmet = o.unmet /\ e.dirty = o.dirty \cup {acc}
    BY <1>1, <2>1, NoneUnmet
  <2>. QED  BY <2>2
<1>. QED  BY <1>2, <1>3

-----------------------------------------------------------------------------
(* The invariant through each kind of step.                                *)

\* The cells that are dirty, and those of the variables.
LEMMA DirtyCells ==
  ASSUME OInv, Zeroed
  PROVE  /\ out.unmet = {} /\ 0 \notin out.dirty
         /\ \A c \in out.dirty : c \in Nat /\ 0 < c /\ c < NextFree
         /\ \A o \in Owners : \A c \in CellsOf(VarOf(o)) : c \in Nat /\ 0 < c /\ c < NextFree
         /\ acts # <<>> /\ Top.kind \notin Blocks =>
              \A o \in Owners : \A c \in CellsOf(VarOf(o)) : c < Floor(Top)
<1>1. IInv /\ Typed /\ VariablesDisjoint /\ out.dirty \subseteq Nat
  BY StatesTyped DEF OInv, IInv, Types, OutTypes
<1>2. out.unmet = {} /\ \A c \in out.dirty : 0 < c /\ c < NextFree
  BY DEF Zeroed, ZeroInvariant, ScratchZero
<1>3. ASSUME NEW o \in Owners, NEW c \in CellsOf(VarOf(o))
      PROVE  /\ c \in Nat /\ 0 < c /\ c < NextFree
             /\ acts # <<>> /\ Top.kind \notin Blocks => c < Floor(Top)
  <2>1. /\ VarOf(o) \in Variables /\ VarOf(o).addr \in Nat /\ EndOf(VarOf(o)) \in Nat
        /\ NextFree \in Nat
    BY <1>1 DEF Typed
  <2>2. c \in Nat /\ VarOf(o).addr <= c /\ c < EndOf(VarOf(o))
    BY <2>1, Cells
  <2>3. 0 < VarOf(o).addr /\ EndOf(VarOf(o)) <= NextFree
    BY <1>1 DEF VariablesDisjoint, EndOf
  <2>4. acts # <<>> /\ Top.kind \notin Blocks =>
          EndOf(VarOf(o)) <= Floor(Top) /\ Floor(Top) \in Nat
    BY FloorOfTop
  <2>. QED  BY <2>1, <2>2, <2>3, <2>4
<1>. QED  BY <1>1, <1>2, <1>3

LEMMA SameVarsGo ==
  ASSUME IInv, SameVars, NEW b
  PROVE  VarsGo(b)
<1>1. Depth \in Nat /\ Depth >= 1
  BY StatesTyped DEF Typed
<1>. QED  BY <1>1 DEF SameVars, VarsGo

LEMMA DeclaredGo ==
  ASSUME IInv, mode' = "stmt", NEW n \in Names, NEW v, NEW next,
         scopes' = Declared(Depth, n, v, next),
         NEW b, v.len > 0, b <= v.addr, Reached(v) \subseteq CellsOf(v)
  PROVE  VarsGo(b)
<1>1. Depth \in Nat /\ Depth >= 1
  BY StatesTyped DEF Typed
<1>2. /\ Depth' = Depth /\ scopes'[Depth].vars[n] = v
      /\ \A k \in 1..Depth, p \in Names :
           k # Depth \/ p # n => scopes'[k].vars[p] = scopes[k].vars[p]
  BY VarDeclared
<1>3. \A k \in 1..(Depth' - 1) : k <= Depth /\ scopes'[k].vars = scopes[k].vars
  <2>1. \A k \in 1..Depth : k # Depth => scopes'[k] = scopes[k]
    BY Context DEF Declared, IInv
  <2>. QED  BY <1>1, <1>2, <2>1
<1>. QED  BY <1>1, <1>2, <1>3 DEF VarsGo, NewIn

\* The activations stay as they are.
LEMMA SitClean ==
  ASSUME OInv, IInv', ZInv, acts' = acts, VarsGo(NextFree), NextFree' \in Nat,
         NextFree <= NextFree', out'.unmet = {},
         \A c \in out'.dirty : \/ c \in out.dirty \/ (c \in Nat /\ NextFree <= c /\ c < NextFree')
                               \/ \E o \in Owners : c \in CellsOf(VarOf(o)),
         mode' = "value" => \A c \in out'.dirty :
           c >= Ceiling(Top) => res'.type = "TEMP" /\ c = res'.val,
         mode' = "value" /\ res'.type = "ADDRESS" => AnchoredAfter({res'.val}, Depth')
  PROVE  ZInv'
<1>. DEFINE m == Len(acts)
            b == NextFree
<1>1. /\ IInv /\ Zeroed /\ acts \in Seq(Activation) /\ m \in Nat
      /\ b \in Nat /\ b >= 1 /\ \A i \in 1..m : Ceiling(acts[i]) <= b
  BY FloorOfNext DEF OInv, IInv, Types, StackTypes, ZInv
<1>2. Kept(m) /\ Len(acts') # m + 1 /\ m \in 0..Len(acts)
  BY <1>1 DEF Kept
<1>3. Tidy(out'.dirty, acts, m)
  BY <1>1, <1>2, TidyStep
<1>4. \A c \in out'.dirty : 0 < c /\ c < NextFree'
  BY <1>1, DirtyCells
<1>5. mode' = "value" => \A c \in out'.dirty :
        c >= Ceiling(acts'[Len(acts')]) => res'.type = "TEMP" /\ c = res'.val
  BY DEF Top
<1>6. Cleans(m, b)
  BY <1>1, <1>2, <1>3, <1>4, <1>5 DEF Cleans
<1>. QED  BY <1>1, <1>6, Cleaned

\* An activation is added.
LEMMA PushClean ==
  ASSUME OInv, IInv', ZInv, UNCHANGED <<scopes, out>>, mode' # "value",
         NEW a \in Activation, acts' = Append(acts, a), Refers(a),
         a.kind \notin {"loopbody", "ifbody", "right"}
  PROVE  ZInv'
<1>. DEFINE m == Len(acts)
            b == NextFree
<1>1. /\ IInv /\ Zeroed /\ acts \in Seq(Activation) /\ m \in Nat
      /\ b \in Nat /\ b >= 1 /\ \A i \in 1..m : Ceiling(acts[i]) <= b
  BY FloorOfNext DEF OInv, IInv, Types, StackTypes, ZInv
<1>2. Kept(m) /\ acts'[m + 1] = a /\ m \in 0..Len(acts)
  BY <1>1, Pushed DEF Kept
<1>3. VarsGo(b) /\ NextFree' = NextFree
  BY <1>1, ScopesStay, SameVarsGo
<1>4. Tidy(out'.dirty, acts, m)
  BY <1>1, <1>2, TidyStep
<1>5. out'.unmet = {} /\ \A c \in out'.dirty : 0 < c /\ c < NextFree'
  BY <1>1, <1>3, DirtyCells
<1>6. Cleans(m, b)
  BY <1>1, <1>2, <1>3, <1>4, <1>5 DEF Cleans, Above
<1>. QED  BY <1>1, <1>6, Cleaned

\* The top activation goes, or another takes its place.
LEMMA TopClean ==
  ASSUME OInv, IInv', ZInv, acts # <<>>, VarsGo(Floor(Top)), out'.unmet = {},
         \/ acts' = Under
         \/ \E a \in Activation : acts' = TopBecomes(a) /\ Above(a, Len(acts) - 1),
         \A c \in out'.dirty : 0 < c /\ c < NextFree',
         \A c \in out'.dirty : \/ c \in out.dirty \/ Floor(Top) <= c
                               \/ \E o \in Owners : c \in CellsOf(VarOf(o)),
         mode' = "value" => \A c \in out'.dirty :
           c >= Ceiling(acts'[Len(acts')]) => res'.type = "TEMP" /\ c = res'.val,
         ~(mode' = "value" /\ res'.type = "ADDRESS")
  PROVE  ZInv'
<1>. DEFINE m == Len(acts) - 1
            b == Floor(Top)
<1>1. IInv /\ Zeroed /\ Len(acts) \in Nat
  BY StatesTyped DEF OInv, ZInv, Typed
<1>2. /\ m \in 0..Len(acts) /\ Kept(m)
      /\ Len(acts') = m + 1 => Above(acts'[m + 1], m)
  <2>1. CASE acts' = Under
    <3>1. m \in 0..Len(acts) /\ Kept(m) /\ Len(acts') = m /\ Len(acts') # m + 1
      BY <1>1, <2>1, AboveTop
    <3>. QED  BY <3>1
  <2>2. CASE \E a \in Activation : acts' = TopBecomes(a) /\ Above(a, m)
    BY <2>2, AboveTop
  <2>. QED  BY <2>1, <2>2
<1>3. b \in Nat /\ b >= 1 /\ \A i \in 1..m : Ceiling(acts[i]) <= b
  BY FloorOfTop
<1>. HIDE DEF m
<1>4. Tidy(out'.dirty, acts, m)
  BY <1>1, <1>2, <1>3, TidyStep
<1>5. Cleans(m, b)
  BY <1>2, <1>3, <1>4 DEF Cleans
<1>. QED  BY <1>1, <1>3, <1>5, Cleaned

-----------------------------------------------------------------------------
(* Leaves and plain statements.                                            *)

\* The compiler stops, or a step writes nothing and declares nothing.
LEMMA StopClean ==
  ASSUME OInv, IInv', ZInv, UNCHANGED <<scopes, acts, out>>,
         UNCHANGED <<mode, res>> \/ mode' # "value"
  PROVE  ZInv'
<1>1. IInv /\ Zeroed /\ NextFree \in Nat
  BY FloorOfNext DEF OInv, ZInv
<1>2. VarsGo(NextFree) /\ NextFree' = NextFree
  BY <1>1, ScopesStay, SameVarsGo
<1>3. out'.unmet = {}
  BY <1>1, DirtyCells
<1>4. mode' = "value" => \A c \in out'.dirty :
        c >= Ceiling(Top) => res'.type = "TEMP" /\ c = res'.val
  BY <1>1 DEF Zeroed, ValueClean
<1>5. mode' = "value" /\ res'.type = "ADDRESS" => AnchoredAfter({res'.val}, Depth')
  <2>1. mode' = "value" => mode = "value" /\ res' = res
    OBVIOUS
  <2>2. mode = "value" /\ res.type = "ADDRESS" => Anchored({res.val}, Depth)
    BY DEF ZInv, Backings
  <2>3. Depth' = Depth
    BY DEF Depth
  <2>. QED  BY <2>1, <2>2, <2>3, AnchorsSame
<1>. QED  BY <1>1, <1>2, <1>3, <1>4, <1>5, SitClean

LEMMA LeavesClean ==
  ASSUME Fitting, OInv, IInv', ZInv, EvalNumber \/ EvalVar \/ EvalReadChar
  PROVE  ZInv'
<1>1. IInv /\ Zeroed /\ NextFree \in Nat /\ NextFree + 1 \in Nat /\ Exact
  BY FloorOfNext DEF OInv, ZInv, Owned
<1>2. /\ out.unmet = {} /\ 0 \notin out.dirty
      /\ \A c \in out.dirty : c \in Nat /\ 0 < c /\ c < NextFree
  BY <1>1, DirtyCells
<1>3. mode = "expr" /\ NextFree = Ceiling(Top)
  BY <1>1 DEF EvalNumber, EvalVar, EvalReadChar, Expr, Exact
<1>4. CASE EvalNumber \/ EvalVar
  <2>1. acts' = acts /\ scopes' = scopes /\ out' = out
    BY <1>4 DEF EvalNumber, EvalVar, Return
  <2>2. VarsGo(NextFree) /\ NextFree' = NextFree
    BY <1>1, <2>1, ScopesStay, SameVarsGo
  <2>3. \A c \in out'.dirty : ~(c >= Ceiling(Top))
    BY <1>1, <1>2, <1>3, <2>1
  <2>4. res'.type = "ADDRESS" => AnchoredAfter({res'.val}, Depth')
    <3>1. \/ res'.type = "CONST"
          \/ \E p \in Places : res' = Address(p.addr)
      BY <1>4 DEF EvalNumber, EvalVar, Return, Const
    <3>2. \A p \in Places : Anchored({p.addr}, Depth)
      BY <1>1, PlacesAnchored DEF ZInv, Anchored
    <3>3. \A p : Address(p.addr).val = p.addr
      BY DEF Address
    <3>4. res'.type = "ADDRESS" => Anchored({res'.val}, Depth)
      BY <3>1, <3>2, <3>3
    <3>5. Depth' = Depth
      BY <2>1 DEF Depth
    <3>. QED  BY <2>1, <3>4, <3>5, AnchorsSame
  <2>. QED  BY <1>1, <1>2, <2>1, <2>2, <2>3, <2>4, SitClean
<1>5. CASE EvalReadChar
  <2>1. /\ acts' = acts /\ out' = ReadChar(out, NextFree) /\ res' = Temp(NextFree)
        /\ scopes' = WithNext(Depth, NextFree + 1)
    BY <1>5 DEF EvalReadChar, Return
  <2>2. VarsGo(NextFree) /\ NextFree' = NextFree + 1
    BY <1>1, <2>1, NextChanged, SameVarsGo
  <2>3. out'.unmet = {} /\ out'.dirty = out.dirty \cup {NextFree}
    BY <1>2, <2>1, TapeCleans
  <2>4. \A c \in out'.dirty : c >= Ceiling(Top) => res'.type = "TEMP" /\ c = res'.val
    BY <1>1, <1>2, <1>3, <2>1, <2>3 DEF Temp
  <2>5. \A c \in out'.dirty :
          c \in out.dirty \/ (c \in Nat /\ NextFree <= c /\ c < NextFree')
    BY <1>1, <2>2, <2>3
  <2>6. res'.type # "ADDRESS"
    BY <2>1 DEF Temp
  <2>. QED  BY <1>1, <2>1, <2>2, <2>3, <2>4, <2>5, <2>6, SitClean
<1>. QED  BY <1>4, <1>5

LEMMA PlainsClean ==
  ASSUME Fitting, OInv, IInv', ZInv, LetString \/ LetStruct \/ PrintStr \/ DefineFunction
  PROVE  ZInv'
<1>1. IInv /\ Zeroed /\ NextFree \in Nat
  BY FloorOfNext DEF OInv, ZInv
<1>2. /\ out.unmet = {} /\ 0 \notin out.dirty
      /\ \A c \in out.dirty : c \in Nat /\ 0 < c /\ c < NextFree
  BY <1>1, DirtyCells
<1>3. mode = "stmt" /\ mode' = "stmt" /\ acts' = acts
  BY DEF LetString, LetStruct, PrintStr, DefineFunction, Stmt
<1>4. CASE LetString
  <2>1. PICK n \in Names, s \in Strings :
          /\ scopes' = Declared(Depth, n,
                                Variable(NextFree, ArrayType(s.size), s.size + 3),
                                NextFree + s.size + 3)
          /\ out' = InsertString(out, NextFree, s.chars)
    BY <1>4 DEF LetString
  <2>. DEFINE v == Variable(NextFree, ArrayType(s.size), s.size + 3)
              next == NextFree + s.size + 3
              text == (NextFree + 4)..(NextFree + 3 + s.chars)
  <2>2. s.size \in Nat /\ s.chars \in Nat /\ s.chars + 2 <= s.size /\ "store" \notin Kinds
    BY LiteralsAssumption, BoundsAssumption DEF Fitting
  <2>3. v.addr = NextFree /\ v.len = s.size + 3 /\ v.type = ArrayType(s.size)
    BY DEF Variable
  <2>4. v.len > 0 /\ NextFree <= v.addr /\ Reached(v) \subseteq CellsOf(v)
    <3>1. v.type.class = "ARRAY"
      BY <2>3 DEF ArrayType
    <3>2. NextFree + 3 <= NextFree + (s.size + 3) - 1
      BY <1>1, <2>2
    <3>. HIDE DEF v
    <3>. QED  BY <1>1, <2>2, <2>3, <3>1, <3>2 DEF Reached, CellsOf
  <2>5. VarsGo(NextFree) /\ NextFree' = next
    <3>1. scopes' = Declared(Depth, n, v, next)
      BY <2>1
    <3>. HIDE DEF v, next
    <3>. QED  BY <1>1, <1>3, <2>4, <3>1, DeclaredGo, VarDeclared
  <2>6. out'.unmet = {} /\ out'.dirty = out.dirty \cup text
    <3>1. \A c \in text \cup {NextFree + 4 + s.chars} : c \notin out.dirty
      BY <1>1, <1>2, <2>2
    <3>. QED  BY <1>2, <2>1, <3>1, NoneUnmet DEF InsertString
  <2>7. next \in Nat /\ NextFree <= next
    BY <1>1, <2>2
  <2>8. \A c \in text : c \in Nat /\ NextFree <= c /\ c < next
    BY <1>1, <2>2
  <2>. QED  BY <1>3, <2>5, <2>6, <2>7, <2>8, SitClean
<1>5. CASE LetStruct
  <2>1. PICK n \in Names, t \in StructTypes :
          scopes' = Declared(Depth, n, Variable(NextFree, t, t.size), NextFree + t.size)
    BY <1>5 DEF LetStruct
  <2>. DEFINE v == Variable(NextFree, t, t.size)
              next == NextFree + t.size
  <2>2. t.size \in Nat /\ t.size > 0 /\ out' = out
    BY <1>5, StructsAssumption DEF Fitting, LetStruct
  <2>3. v.addr = NextFree /\ v.len = t.size /\ v.type = t
    BY DEF Variable
  <2>4. v.len > 0 /\ NextFree <= v.addr /\ Reached(v) \subseteq CellsOf(v)
    <3>1. t.class # "ARRAY"
      BY StructsAssumption
    <3>. QED  BY <1>1, <2>2, <2>3, <3>1 DEF Reached, CellsOf, TypedCellsOf
  <2>5. VarsGo(NextFree) /\ NextFree' = next
    <3>1. scopes' = Declared(Depth, n, v, next)
      BY <2>1
    <3>. HIDE DEF v, next
    <3>. QED  BY <1>1, <1>3, <2>4, <3>1, DeclaredGo, VarDeclared
  <2>. QED  BY <1>1, <1>2, <1>3, <2>2, <2>5, SitClean
<1>6. CASE PrintStr
  <2>1. PICK p \in Places : out' = Ouz(Mov(out, p.addr + 3, 0), p.addr)
    BY <1>6 DEF PrintStr
  <2>. DEFINE m == Mov(out, p.addr + 3, 0)
  <2>2. m.unmet = {} /\ m.dirty \subseteq out.dirty
    BY <1>2, TapeCleans
  <2>. HIDE DEF m
  <2>3. out'.unmet = {} /\ out'.dirty \subseteq out.dirty
    BY <1>2, <2>1, <2>2, TapeCleans DEF m
  <2>4. VarsGo(NextFree) /\ NextFree' = NextFree
    BY <1>1, <1>6, ScopesStay, SameVarsGo DEF PrintStr
  <2>. QED  BY <1>1, <1>3, <2>3, <2>4, SitClean
<1>7. CASE DefineFunction
  BY <1>3, <1>7, StopClean DEF DefineFunction
<1>. QED  BY <1>4, <1>5, <1>6, <1>7

-----------------------------------------------------------------------------
(* Steps that suspend an activation.                                       *)

LEMMA RefersToNone ==
  /\ \A a : a.kind \notin {"call", "index", "store", "element", "loopbody"} => Refers(a)
  /\ \A a : a.kind = "call" /\ a.binds = NoVars => Refers(a)
<1>1. Declares(NoVars) = {}
  BY DEF Declares, NoVars
<1>. QED  BY <1>1 DEF Refers

LEMMA PushesClean ==
  ASSUME Fitting, OInv, IInv', ZInv,
         \/ EvalElement \/ EvalUnary \/ EvalBinary \/ EvalCall \/ CallStmt
         \/ ReturnStmt \/ Let \/ Set \/ CreateArray \/ AssignArray \/ PrintVal
         \/ Loop \/ If
  PROVE  ZInv'
<1>1. IInv /\ Types /\ Nested /\ Backings
  BY DEF OInv, IInv, ZInv
<1>2. \A k \in StmtKinds \cup ExprKinds \cup {"call"} :
        Pending(k) \in Activation /\ Pending(k).kind = k /\ Pending(k).scope = Depth
  BY <1>1, PendingTypes
<1>3. ASSUME NEW k \in {"unary", "left", "return", "let", "set", "array",
                        "print_val", "loop", "if"},
             NEW a \in Activation, a.kind = k, UNCHANGED <<scopes, out>>,
             EvalWith(Append(acts, a))
      PROVE  ZInv'
  <2>1. a.kind \notin {"loopbody", "ifbody", "right", "call", "index", "store", "element"}
    BY <1>3
  <2>2. Refers(a)
    BY <2>1, RefersToNone
  <2>. QED  BY <1>3, <2>1, <2>2, PushClean DEF EvalWith
<1>4. ASSUME NEW k \in {"unary", "left", "let", "set", "array", "print_val", "loop", "if"},
             UNCHANGED <<scopes, out>>, EvalWith(Append(acts, Pending(k)))
      PROVE  ZInv'
  <2>1. Pending(k) \in Activation /\ Pending(k).kind = k
    BY <1>2, <1>4 DEF StmtKinds, ExprKinds
  <2>. QED  BY <1>3, <1>4, <2>1
<1>5. CASE EvalElement
  <2>1. PICK p \in ArrayPlaces :
          EvalWith(Append(acts, [Pending("element") EXCEPT !.base = p.addr]))
    BY <1>5 DEF EvalElement
  <2>2. /\ p.addr \in Nat /\ p.type \in KnownTypes /\ p.type.class = "ARRAY"
        /\ p \in ArgPlaces /\ Anchored(Reached(p), Depth) /\ "element" \in ExprKinds
    BY <1>1, PlacesAnchored DEF ArrayPlaces, ExprKinds
  <2>. DEFINE c == Pending("element")
              a == [c EXCEPT !.base = p.addr]
  <2>3. c \in Activation /\ c.kind = "element" /\ c.scope = Depth
    BY <1>2, <2>2
  <2>4. a \in Activation /\ a.kind = "element" /\ a.scope = Depth /\ a.base = p.addr
    <3>. HIDE DEF c
    <3>. QED  BY <2>2, <2>3 DEF Activation
  <2>5. p.addr..(p.addr + 3) \subseteq Reached(p)
    <3>1. p.type.size \in Nat /\ p.type.size >= 4
      BY <2>2, SizesKnown
    <3>. QED  BY <2>2, <3>1 DEF Reached, TypedCellsOf
  <2>6. UNCHANGED <<scopes, out>> /\ EvalWith(Append(acts, a))
    BY <1>5, <2>1 DEF EvalElement
  <2>. HIDE DEF a
  <2>7. AnchoredAfter(a.base..(a.base + 3), a.scope)
    <3>1. Anchored(p.addr..(p.addr + 3), Depth)
      BY <2>2, <2>5 DEF Anchored
    <3>. QED  BY <2>4, <2>6, <3>1, AnchorsSame
  <2>8. Refers(a) /\ a.kind \notin {"loopbody", "ifbody", "right"}
    BY <2>4, <2>7 DEF Refers
  <2>. QED  BY <2>4, <2>6, <2>8, PushClean DEF EvalWith
<1>6. CASE AssignArray
  <2>1. PICK p \in ArrayPlaces :
          EvalWith(Append(acts, [Pending("index") EXCEPT !.base = p.addr,
                                                         !.len = p.type.size - 4]))
    BY <1>6 DEF AssignArray
  <2>2. /\ p \in Places /\ p \in ArgPlaces /\ p.type.class = "ARRAY" /\ p.addr \in Nat
        /\ p.type \in KnownTypes /\ Anchored(Reached(p), Depth)
    BY <1>1, <2>1, PlacesAnchored DEF ArrayPlaces
  <2>3. p.type.size \in Nat /\ "store" \in Kinds /\ UNCHANGED <<scopes, out>>
    BY <1>6, <2>2, SizesKnown DEF AssignArray, Stmt
  <2>. DEFINE c == Pending("index")
              len == p.type.size - 4
              a == [c EXCEPT !.base = p.addr, !.len = len]
  <2>4. c \in Activation /\ c.kind = "index" /\ c.scope = Depth
    BY <1>2 DEF StmtKinds
  <2>5. /\ a \in Activation /\ a.kind = "index" /\ a.scope = Depth /\ a.base = p.addr
        /\ a.len = len
    <3>. HIDE DEF c, len
    <3>1. len \in Int
      BY <2>3 DEF len
    <3>. QED  BY <2>2, <2>4, <3>1 DEF Activation
  <2>6. a.base..(a.base + 3 + a.len) = TypedCellsOf(p)
    <3>1. p.addr + 3 + (p.type.size - 4) = p.addr + p.type.size - 1
      BY <2>2, <2>3
    <3>. HIDE DEF a
    <3>. QED  BY <2>5, <3>1 DEF TypedCellsOf
  <2>7. Reached(p) = TypedCellsOf(p)
    BY <2>3 DEF Reached
  <2>. HIDE DEF a, len
  <2>8. AnchoredAfter(a.base..(a.base + 3 + a.len), a.scope)
    <3>1. \A cells, k : Anchored(cells, k) => AnchoredAfter(cells, k)
      BY <2>3, AnchorsSame
    <3>. QED  BY <2>2, <2>5, <2>6, <2>7, <3>1
  <2>9. Refers(a) /\ a.kind \notin {"loopbody", "ifbody", "right"}
    BY <2>5, <2>8 DEF Refers
  <2>10. EvalWith(Append(acts, a))
    BY <2>1 DEF a, len
  <2>. QED  BY <2>3, <2>5, <2>9, <2>10, PushClean DEF EvalWith
<1>7. CASE ReturnStmt
  <2>. DEFINE c == Pending("return")
              a == [c EXCEPT !.nth = Len(calls)]
  <2>1. c \in Activation /\ c.kind = "return" /\ Len(calls) \in Nat
    BY <1>1, <1>2, StatesTyped DEF StmtKinds, Typed
  <2>2. a \in Activation /\ a.kind = "return"
    <3>. HIDE DEF c
    <3>. QED  BY <2>1 DEF Activation
  <2>3. EvalWith(Append(acts, a)) /\ UNCHANGED <<scopes, out>>
    BY <1>7 DEF ReturnStmt
  <2>. HIDE DEF a
  <2>. QED  BY <1>3, <2>2, <2>3
<1>8. CASE EvalCall \/ CallStmt
  <2>1. PICK f \in Funs :
          /\ BindWith(Append(acts, [Pending("call") EXCEPT !.base = NextFree, !.name = f]))
          /\ UNCHANGED <<scopes, out>>
    BY <1>8 DEF EvalCall, CallStmt, CallBegins
  <2>. DEFINE c == Pending("call")
              a == [c EXCEPT !.base = NextFree, !.name = f]
  <2>2. c \in Activation /\ c.kind = "call" /\ c.binds = NoVars /\ NextFree \in Nat
    <3>1. c.binds = NoVars
      BY DEF Pending
    <3>. QED  BY <1>1, <1>2, <3>1, Context
  <2>3. a \in Activation /\ a.kind = "call" /\ a.binds = NoVars
    <3>. HIDE DEF c
    <3>. QED  BY <2>2 DEF Activation
  <2>4. BindWith(Append(acts, a))
    BY <2>1
  <2>. HIDE DEF a
  <2>. QED  BY <2>1, <2>3, <2>4, RefersToNone, PushClean DEF BindWith
<1>9. CASE EvalUnary
  BY <1>4, <1>9 DEF EvalUnary
<1>10. CASE EvalBinary
  BY <1>4, <1>10 DEF EvalBinary
<1>11. CASE Let
  BY <1>4, <1>11 DEF Let
<1>12. CASE Set
  BY <1>4, <1>12 DEF Set
<1>13. CASE CreateArray
  BY <1>4, <1>13 DEF CreateArray
<1>14. CASE PrintVal
  BY <1>4, <1>14 DEF PrintVal
<1>15. CASE Loop
  BY <1>4, <1>15 DEF Loop
<1>16. CASE If
  BY <1>4, <1>16 DEF If
<1>. QED  BY <1>5, <1>6, <1>7, <1>8, <1>9, <1>10, <1>11, <1>12, <1>13, <1>14, <1>15, <1>16

-----------------------------------------------------------------------------
(* Steps that return a value.                                              *)

\* Of what an operator's evaluation has taken only its operands are dirty.
LEMMA OperandsDirty ==
  ASSUME OInv, Zeroed, mode = "value", Top.kind \in ExprKinds
  PROVE  /\ Len(acts) > 1 /\ acts[Len(acts) - 1].kind \notin Blocks
         /\ \A c \in out.dirty : c >= Ceiling(acts[Len(acts) - 1]) =>
              \/ res.type = "TEMP" /\ c = res.val
              \/ Top.held.type = "TEMP" /\ c = Top.held.val
<1>. DEFINE N == Len(acts)
<1>1. IInv /\ Types /\ Nested /\ StackTypes /\ Typed
  BY StatesTyped DEF OInv, IInv, Types
<1>2. /\ acts # <<>> /\ N \in Nat /\ N \in 1..N /\ Top = acts[N]
      /\ Len(acts) > 1 /\ acts[Len(acts) - 1].kind \notin Blocks
  <2>1. acts # <<>>
    BY ValueOwned
  <2>. QED  BY <1>1, <2>1, TopFacts
<1>3. Ceiling(Top) = Top.mark /\ Top.kind \notin {"call", "body"} /\ Top.mark \in Nat
      /\ (Top.held.type = "TEMP" => Top.kind = "right")
  BY ValueOwned DEF Ceiling, ExprKinds, Holding
<1>4. ASSUME NEW c \in out.dirty, c >= Ceiling(acts[N - 1]),
             ~(res.type = "TEMP" /\ c = res.val),
             ~(Top.held.type = "TEMP" /\ c = Top.held.val)
      PROVE  FALSE
  <2>1. c \in Nat
    BY DirtyCells
  <2>2. c < Top.mark
    <3>1. ~(c >= Ceiling(Top))
      BY <1>4 DEF Zeroed, ValueClean
    <3>. QED  BY <1>3, <2>1, <3>1
  <2>3. CASE Top.kind = "right"
    <3>1. N - 1 \in 1..N
      BY <1>2
    <3>2. Ceiling(acts[N - 1]) \in Nat
      BY <1>1, <3>1 DEF Typed
    <3>3. c \in Gap(acts, N)
      BY <1>2, <1>4, <2>1, <2>2, <2>3, <3>2 DEF Gap
    <3>. QED  BY <1>2, <1>4, <3>3 DEF Zeroed, Tidy
  <2>4. CASE Top.kind # "right"
    <3>1. Top.held.type # "TEMP"
      BY <1>3, <2>4
    <3>2. Floor(Top) = Top.mark
      BY <1>3, <3>1 DEF Floor
    <3>3. Floor(Top) = Ceiling(acts[N - 1])
      BY <1>2, <3>1, ExactTop
    <3>. QED  BY <1>3, <1>4, <2>1, <2>2, <3>2, <3>3
  <2>. QED  BY <2>3, <2>4
<1>. QED  BY <1>2, <1>4

\* The operands are gone, but for the cell that holds the result.
LEMMA ReturnClean ==
  ASSUME OInv, OInv', ZInv, mode = "value", Top.kind \in ExprKinds,
         NEW r, r.type # "ADDRESS", Return(Under, r), SameVars, out'.unmet = {},
         \A c \in out'.dirty :
           \/ r.type = "TEMP" /\ c = r.val
           \/ /\ c \in out.dirty
              /\ ~(res.type = "TEMP" /\ c = res.val)
              /\ ~(Top.held.type = "TEMP" /\ c = Top.held.val),
         r.type = "TEMP" => Floor(Top) <= r.val,
         r.type # "TEMP" => scopes' = scopes
  PROVE  ZInv'
<1>. DEFINE m == Len(acts) - 1
            b == Floor(Top)
<1>1. /\ IInv /\ IInv' /\ Zeroed /\ acts # <<>> /\ Typed /\ Typed'
      /\ Len(acts) > 1
  BY ValueOwned, StatesTyped, StatesTypedAfter, OperandsDirty DEF OInv, ZInv
<1>2. /\ mode' = "value" /\ acts' = Under /\ res' = r
  BY DEF Return
<1>3. /\ m \in 0..Len(acts) /\ Kept(m) /\ Len(acts') = m /\ m \in 1..m /\ Len(acts) \in Nat
  <2>1. Len(acts) \in Nat
    BY <1>1 DEF Typed
  <2>. QED  BY <1>1, <1>2, <2>1, AboveTop
<1>4. /\ acts'[Len(acts')] = acts[m] /\ Ceiling(acts[m]) \in Nat /\ Ceiling(acts[m]) <= b
      /\ b \in Nat /\ b >= 1 /\ b <= NextFree /\ NextFree \in Nat /\ NextFree' \in Nat
  <2>1. m \in 1..Len(acts) /\ m \in 1..(Len(acts) - 1)
    BY <1>3
  <2>2. /\ b \in Nat /\ b >= 1 /\ Top.mark \in Nat /\ NextFree \in Nat
        /\ b <= Top.mark /\ Top.mark <= Ceiling(Top) /\ Ceiling(Top) <= NextFree
        /\ Ceiling(Top) \in Nat /\ Ceiling(acts[m]) <= b
    BY <1>1, <2>1, FloorOfTop
  <2>. HIDE DEF m, b
  <2>3. acts'[Len(acts')] = acts[m]
    BY <1>3 DEF Kept
  <2>4. Ceiling(acts[m]) \in Nat /\ NextFree' \in Nat
    BY <1>1, <2>1 DEF Typed
  <2>5. b <= NextFree
    BY <2>2
  <2>. QED  BY <2>2, <2>3, <2>4, <2>5
<1>5. r.type = "TEMP" => b <= r.val /\ r.val < NextFree' /\ r.val \in Nat
  <2>1. TempsOwned' /\ res'.val \in Nat
    BY <1>1 DEF OInv, Typed
  <2>2. res'.type = "TEMP" => res'.val < NextFree'
    BY <2>1 DEF TempsOwned
  <2>. QED  BY <1>2, <2>1, <2>2
<1>6. b <= NextFree'
  <2>1. r.type # "TEMP" => NextFree' = NextFree
    BY ScopesStay
  <2>. HIDE DEF b
  <2>. QED  BY <1>4, <1>5, <2>1
<1>. HIDE DEF b
<1>7. ASSUME NEW c \in out'.dirty
      PROVE  /\ 0 < c /\ c < NextFree' /\ (c \in out.dirty \/ b <= c)
             /\ c >= Ceiling(acts[m]) => r.type = "TEMP" /\ c = r.val
  <2>1. CASE r.type = "TEMP" /\ c = r.val
    BY <1>4, <1>5, <2>1
  <2>2. CASE /\ c \in out.dirty
             /\ ~(res.type = "TEMP" /\ c = res.val)
             /\ ~(Top.held.type = "TEMP" /\ c = Top.held.val)
    <3>1. ~(c >= Ceiling(acts[m]))
      BY <1>1, <2>2, OperandsDirty
    <3>2. c \in Nat /\ 0 < c
      BY <1>1, <2>2, DirtyCells
    <3>3. c < NextFree'
      BY <1>4, <1>6, <3>1, <3>2
    <3>. QED  BY <2>2, <3>1, <3>2, <3>3
  <2>. QED  BY <2>1, <2>2
<1>8. VarsGo(Floor(Top)) /\ res'.type # "ADDRESS"
  BY <1>1, <1>2, SameVarsGo
<1>. QED  BY <1>1, <1>2, <1>4, <1>7, <1>8, TopClean DEF b

LEMMA ReturnsClean ==
  ASSUME OInv, OInv', ZInv,
         ElementRead \/ UnaryConst \/ UnaryFlip \/ FoldConstants \/ FoldOnTape
  PROVE  ZInv'
<1>1. IInv /\ IInv' /\ Zeroed
  BY DEF OInv, ZInv
<1>2. mode = "value" /\ Top.kind \in {"element", "unary", "right"} /\ Top.kind \in ExprKinds
  BY DEF ElementRead, UnaryConst, UnaryFlip, FoldConstants, FoldConstantsBy, FoldOnTape,
         FoldOnTapeBy, Resume, ExprKinds
<1>3. /\ acts # <<>> /\ Top.scope = Depth
      /\ Top.mark \in Nat /\ NextFree \in Nat /\ scopes[Top.scope].next = NextFree
      /\ Floor(Top) \in Nat /\ Floor(Top) >= 1
      /\ Floor(Top) <= Top.mark /\ Top.mark <= NextFree
      /\ Top.held \in EvalResults /\ Top.held.val \in Nat
      /\ res \in EvalResults /\ res.val \in Nat /\ res.type \in {"CONST", "ADDRESS", "TEMP"}
      /\ Top.held.type = "TEMP" => Top.kind = "right" /\ Floor(Top) = Top.held.val
      /\ res.type = "TEMP" => Top.mark <= res.val
      /\ Top.held.type = "TEMP" => Top.held.val < Top.mark
  <2>1. Ceiling(Top) = Top.mark
    BY <1>2 DEF Ceiling
  <2>2. Top.held.type = "TEMP" => Top.kind = "right"
    BY <1>2, ValueOwned DEF Holding
  <2>. QED  BY <1>1, <1>2, <2>1, <2>2, ValueOwned, Resumed
<1>4. /\ out.unmet = {} /\ 0 \notin out.dirty
      /\ \A c \in out.dirty : c \in Nat /\ 0 < c /\ c < NextFree
  BY <1>1, DirtyCells
<1>5. \A x \in Nat : scopes' = WithNext(Top.scope, x) => SameVars
  BY <1>1, <1>3, NextChanged
<1>6. scopes' = scopes => SameVars
  BY ScopesStay
<1>7. CASE ElementRead
  <2>. DEFINE dest  == Top.mark
              moved == res.type = "TEMP" /\ res.val # dest
              read  == Ra(out, Top.base, res, dest)
  <2>1. /\ out' = IF moved THEN Mov(read, res.val, 0) ELSE read
        /\ Return(Under, Temp(dest))
    BY <1>7 DEF ElementRead
  <2>2. SameVars
    <3>1. CASE moved
      BY <1>3, <1>5, <1>7, <3>1 DEF ElementRead
    <3>2. CASE res.type = "TEMP" /\ res.val = dest
      BY <1>6, <1>7, <3>2 DEF ElementRead
    <3>3. CASE res.type # "TEMP"
      BY <1>3, <1>5, <1>7, <3>3 DEF ElementRead
    <3>. QED  BY <3>1, <3>2, <3>3
  <2>3. read.unmet = {} /\ read.dirty = out.dirty \cup {dest} /\ 0 \notin read.dirty
    BY <1>3, <1>4, TapeCleans
  <2>. HIDE DEF read
  <2>4. out'.unmet = {} /\ \A c \in out'.dirty :
          c = dest \/ (c \in out.dirty /\ ~(res.type = "TEMP" /\ c = res.val))
    <3>1. CASE moved
      <4>1. out'.unmet = {} /\ out'.dirty = read.dirty \ {res.val}
        BY <2>1, <2>3, <3>1, TapeCleans
      <4>. QED  BY <2>3, <4>1
    <3>2. CASE ~moved
      BY <2>1, <2>3, <3>2
    <3>. QED  BY <3>1, <3>2
  <2>5. Top.held.type # "TEMP"
    BY <1>3, <1>7 DEF ElementRead, Resume
  <2>6. Temp(dest).type = "TEMP" /\ Temp(dest).val = dest
    BY DEF Temp
  <2>. QED  BY <1>2, <1>3, <2>1, <2>2, <2>4, <2>5, <2>6, ReturnClean
<1>8. CASE UnaryConst
  <2>. DEFINE r == Const(IF res.val = 0 THEN 1 ELSE 0)
  <2>1. Return(Under, r) /\ scopes' = scopes /\ out' = out /\ res.type = "CONST"
    BY <1>8 DEF UnaryConst
  <2>2. Top.held.type # "TEMP"
    BY <1>3, <1>8 DEF UnaryConst, Resume
  <2>3. r.type = "CONST"
    BY DEF Const
  <2>. HIDE DEF r
  <2>. QED  BY <1>2, <1>4, <1>6, <2>1, <2>2, <2>3, ReturnClean
<1>9. CASE UnaryFlip
  <2>. DEFINE dest == Top.mark
              e == Assign(out, dest, res)
  <2>1. out' = Flip(e, dest) /\ Return(Under, Temp(dest)) /\ Top.kind = "unary"
    BY <1>9 DEF UnaryFlip, Resume
  <2>2. SameVars
    <3>1. CASE res.type = "ADDRESS"
      BY <1>3, <1>5, <1>9, <3>1 DEF UnaryFlip
    <3>2. CASE res.type = "TEMP" /\ res.val # dest
      BY <1>3, <1>5, <1>9, <3>2 DEF UnaryFlip
    <3>3. CASE res.type = "TEMP" /\ res.val = dest
      BY <1>6, <1>9, <3>3 DEF UnaryFlip
    <3>. QED  BY <1>3, <1>9, <3>1, <3>2, <3>3 DEF UnaryFlip
  <2>3. Moved(e, out, dest, res)
    BY <1>3, <1>4, AssignCleans
  <2>. HIDE DEF e
  <2>4. e.unmet = {} /\ 0 \notin e.dirty
    BY <1>3, <1>4, <2>3 DEF Moved
  <2>5. out'.unmet = {} /\ out'.dirty = e.dirty \cup {dest}
    BY <2>1, <2>4, TapeCleans
  <2>6. Temp(dest).type = "TEMP" /\ Temp(dest).val = dest /\ Top.held.type # "TEMP"
    BY <1>3, <2>1 DEF Temp
  <2>7. \A c \in out'.dirty :
          c = dest \/ (c \in out.dirty /\ ~(res.type = "TEMP" /\ c = res.val))
    BY <2>3, <2>5 DEF Moved
  <2>. QED  BY <1>2, <1>3, <2>1, <2>2, <2>5, <2>6, <2>7, ReturnClean
<1>10. CASE FoldConstants
  <2>1. PICK op \in Ops : FoldConstantsBy(op)
    BY <1>10 DEF FoldConstants
  <2>2. CASE op \in {"DIV", "MOD"} /\ res.val = 0
    <3>1. Reject
      BY <2>1, <2>2 DEF FoldConstantsBy
    <3>. QED  BY <1>1, <3>1, StopClean DEF Reject
  <2>3. CASE ~(op \in {"DIV", "MOD"} /\ res.val = 0)
    <3>. DEFINE r == Const(Fold(op, Top.held.val, res.val))
    <3>1. Return(Under, r) /\ scopes' = scopes /\ out' = out
          /\ Top.held.type = "CONST" /\ res.type = "CONST"
      BY <2>1, <2>3 DEF FoldConstantsBy
    <3>2. r.type = "CONST"
      BY DEF Const
    <3>. HIDE DEF r
    <3>. QED  BY <1>2, <1>4, <1>6, <3>1, <3>2, ReturnClean
  <2>. QED  BY <2>2, <2>3
<1>11. CASE FoldOnTape
  <2>. DEFINE left == Top.held
              acc  == Accumulator(left, NextFree)
              dump == IF left.type = "TEMP" THEN NextFree ELSE NextFree + 1
  <2>1. PICK op \in Ops : FoldOnTapeBy(op)
    BY <1>11 DEF FoldOnTape
  <2>. DEFINE e == Assign(out, acc, left)
              folded == BinaryOp(e, op, acc, res, dump)
  <2>2. /\ scopes' = WithNext(Top.scope, Released(res, dump)) /\ Return(Under, Temp(acc))
        /\ out' = IF res.type = "TEMP" THEN Mov(folded, res.val, 0) ELSE folded
    BY <1>3, <2>1 DEF FoldOnTapeBy
  <2>3. /\ acc \in Nat /\ dump \in Nat /\ acc < dump /\ NextFree <= dump /\ acc >= 1
        /\ Floor(Top) <= acc /\ op \in BinOps
        /\ left.type = "TEMP" => acc = left.val
    BY <1>3, LiteralsAssumption DEF Accumulator
  <2>4. SameVars
    <3>1. Released(res, dump) \in Nat
      BY <1>3, <2>3 DEF Released
    <3>. QED  BY <1>5, <2>2, <3>1
  <2>. HIDE DEF acc, dump
  <2>5. Moved(e, out, acc, left)
    BY <1>3, <1>4, <2>3, AssignCleans
  <2>. HIDE DEF e
  <2>6. e.unmet = {} /\ 0 \notin e.dirty /\ \A c \in e.dirty : c \in Nat /\ c < dump
    BY <1>3, <1>4, <2>3, <2>5 DEF Moved
  <2>7. folded.unmet = {} /\ \A c \in folded.dirty : c = acc \/ c \in e.dirty
    BY <2>3, <2>6, BinaryOpCleans
  <2>. HIDE DEF folded
  <2>8. \A c \in folded.dirty :
          c = acc \/ (c \in out.dirty /\ ~(left.type = "TEMP" /\ c = left.val))
    BY <2>5, <2>7 DEF Moved
  <2>9. out'.unmet = {} /\ \A c \in out'.dirty :
          \/ c = acc
          \/ /\ c \in out.dirty /\ ~(res.type = "TEMP" /\ c = res.val)
             /\ ~(left.type = "TEMP" /\ c = left.val)
    <3>1. CASE res.type = "TEMP"
      <4>1. out'.unmet = folded.unmet /\ out'.dirty = folded.dirty \ {res.val}
        BY <2>2, <3>1, NoneUnmet DEF Mov
      <4>. QED  BY <2>7, <2>8, <4>1
    <3>2. CASE res.type # "TEMP"
      BY <2>2, <2>7, <2>8, <3>2
    <3>. QED  BY <3>1, <3>2
  <2>10. Temp(acc).type = "TEMP" /\ Temp(acc).val = acc
    BY DEF Temp
  <2>. QED  BY <1>2, <2>2, <2>3, <2>4, <2>9, <2>10, ReturnClean
<1>. QED  BY <1>7, <1>8, <1>9, <1>10, <1>11

-----------------------------------------------------------------------------
(* Steps that end a statement.                                             *)

\* What a statement's evaluation has left dirty lies above its floor.
LEMMA StatementDirty ==
  ASSUME OInv, Zeroed, Backings, mode = "value"
  PROVE  \A c \in out.dirty :
           \/ c < Floor(Top) \/ (res.type = "TEMP" /\ c = res.val)
           \/ Top.held.type = "TEMP" /\ c = Top.held.val
           \/ Top.kind \in {"right", "call"}
<1>1. IInv /\ Typed
  BY StatesTyped DEF OInv
<1>2. /\ acts # <<>> /\ Len(acts) \in 1..Len(acts) /\ Top = acts[Len(acts)]
      /\ Top.mark \in Nat /\ Top.held.val \in Nat /\ Top.kind \notin Blocks
  <2>1. acts # <<>> /\ Top.mark \in Nat /\ Top.held.val \in Nat
    BY ValueOwned
  <2>2. acts \in Seq(Activation)
    BY <1>1 DEF IInv, Types, StackTypes
  <2>. QED  BY <1>1, <2>1, <2>2 DEF Top, IInv, ModeShape
<1>. SUFFICES ASSUME NEW c \in out.dirty, ~(res.type = "TEMP" /\ c = res.val),
                     ~(Top.held.type = "TEMP" /\ c = Top.held.val),
                     Top.kind \notin {"right", "call"}
              PROVE  c < Floor(Top)
  OBVIOUS
<1>3. c \in Nat
  BY DirtyCells
<1>4. ~(c >= Ceiling(Top))
  BY DEF Zeroed, ValueClean
<1>5. CASE Top.kind = "store" /\ Top.held.type = "TEMP"
  <2>1. Top.held.val = Top.mark
    BY <1>2, <1>5 DEF Backings
  <2>2. Ceiling(Top) = Top.mark + 1 /\ Floor(Top) = Top.mark
    BY <1>5, <2>1 DEF Ceiling, Floor
  <2>. QED  BY <1>2, <1>3, <1>4, <1>5, <2>1, <2>2
<1>6. CASE ~(Top.kind = "store" /\ Top.held.type = "TEMP")
  <2>1. Top.held.type # "TEMP"
    BY <1>2, <1>6, ValueOwned DEF Holding, Blocks
  <2>2. Ceiling(Top) = Top.mark /\ Floor(Top) = Top.mark
    BY <1>2, <1>6, <2>1 DEF Ceiling, Floor, Blocks
  <2>. QED  BY <1>2, <1>3, <1>4, <2>2
<1>. QED  BY <1>5, <1>6

\* A statement leaves dirty what it found dirty, cells that variables own and
\* cells it has taken.
LEMMA DoneClean ==
  ASSUME OInv, IInv', ZInv, mode = "value", StmtWith(Under), VarsGo(Floor(Top)),
         out'.unmet = {}, NextFree' \in Nat, Floor(Top) <= NextFree',
         \A c \in out'.dirty :
           \/ c \in Nat /\ Floor(Top) <= c /\ c < NextFree'
           \/ c \in out.dirty /\ c < Floor(Top)
           \/ \E o \in Owners : c \in CellsOf(VarOf(o))
  PROVE  ZInv'
<1>1. IInv /\ Zeroed /\ acts # <<>> /\ Floor(Top) \in Nat /\ Floor(Top) >= 1
  BY ValueOwned DEF OInv, ZInv
<1>2. Top.kind \notin Blocks
  BY <1>1 DEF IInv, ModeShape
<1>3. acts' = Under /\ mode' = "stmt"
  BY DEF StmtWith
<1>4. ASSUME NEW c \in out'.dirty
      PROVE  0 < c /\ c < NextFree'
  <2>1. CASE c \in Nat /\ Floor(Top) <= c /\ c < NextFree'
    BY <1>1, <2>1
  <2>2. CASE c \in out.dirty /\ c < Floor(Top)
    <3>1. c \in Nat /\ 0 < c
      BY <1>1, <2>2, DirtyCells
    <3>. QED  BY <1>1, <2>2, <3>1
  <2>3. CASE \E o \in Owners : c \in CellsOf(VarOf(o))
    <3>1. c \in Nat /\ 0 < c /\ c < Floor(Top)
      BY <1>1, <1>2, <2>3, DirtyCells
    <3>. QED  BY <1>1, <3>1
  <2>. QED  BY <1>4, <2>1, <2>2, <2>3
<1>5. \A c \in out'.dirty : \/ c \in out.dirty \/ Floor(Top) <= c
                            \/ \E o \in Owners : c \in CellsOf(VarOf(o))
  OBVIOUS
<1>. QED  BY <1>1, <1>3, <1>4, <1>5, TopClean

\* A variable that a name of a scope stands for lies in cells that are owned.
LEMMA DeclaredAnchored ==
  ASSUME Fitting, IInv, Backings, NEW k \in 1..Depth, NEW n \in Declares(scopes[k].vars)
  PROVE  /\ scopes[k].vars[n].addr \in Nat
         /\ \E o \in Owners : scopes[k].vars[n].addr \in CellsOf(VarOf(o))
<1>. DEFINE v == scopes[k].vars[n]
<1>1. n \in Names /\ v \in Variables /\ v.addr \in Nat /\ v.type \in KnownTypes /\ v.len \in Nat
  BY StatesTyped DEF Typed, Declares, Variables
<1>2. Backed(v, k - 1) /\ v.addr \in Reached(v)
  BY <1>1, ReachedCells DEF Backings
<1>3. CASE v.len > 0
  <2>1. <<k, n>> \in Owners /\ VarOf(<<k, n>>) = v
    BY <1>1, <1>3 DEF Owners, VarOf
  <2>. HIDE DEF v
  <2>. QED  BY <1>1, <1>2, <1>3, <2>1 DEF Backed, v
<1>4. CASE v.len = 0
  BY <1>1, <1>2, <1>4 DEF Backed, Anchored
<1>. QED  BY <1>1, <1>3, <1>4

LEMMA PlaceOwned ==
  ASSUME Fitting, IInv, Backings, NEW p \in Places
  PROVE  p.addr \in Nat /\ \E o \in Owners : p.addr \in CellsOf(VarOf(o))
BY PlacesAnchored DEF Anchored

LEMMA PrintCleans ==
  ASSUME NEW o, 0 \notin o.dirty, NEW a, NEW d \in Nat, \A c \in o.dirty : c \in Nat /\ c < d
  PROVE  LET e == Itoa(o, a, d) IN e.unmet = o.unmet /\ e.dirty = o.dirty
<1>1. \A c \in {0} \cup d..(d + 9) : c \notin o.dirty
  OBVIOUS
<1>. QED  BY <1>1, NoneUnmet DEF Itoa

LEMMA SetsClean ==
  ASSUME Fitting, OInv, IInv', ZInv, LetValue \/ SetValue
  PROVE  ZInv'
<1>1. IInv /\ Zeroed /\ Backings
  BY DEF OInv, ZInv
<1>2. /\ mode = "value" /\ Top.kind \in {"let", "set"} /\ StmtWith(Under) /\ mode' = "stmt"
      /\ acts # <<>> /\ Top.scope = Depth /\ Depth \in 1..Depth
      /\ Top.mark \in Nat /\ Floor(Top) = Top.mark /\ Ceiling(Top) = Top.mark
      /\ Top.held.type # "TEMP" /\ Top.mark >= 1
      /\ res \in EvalResults /\ (res.type # "TEMP" => NextFree = Top.mark)
  <2>1. mode = "value" /\ Top.kind \in {"let", "set"} /\ StmtWith(Under) /\ mode' = "stmt"
    BY DEF LetValue, LetValueOf, SetValue, SetValueAt, Resume, StmtWith
  <2>. QED  BY <2>1, ValueOwned DEF Holding
<1>3. out.unmet = {} /\ 0 \notin out.dirty
  BY <1>1, DirtyCells
<1>4. \A dest \in Nat : out' = Assign(out, dest, res) =>
        out'.unmet = {} /\ \A c \in out'.dirty : c = dest \/ (c \in out.dirty /\ c < Floor(Top))
  <2>. SUFFICES ASSUME NEW dest \in Nat, out' = Assign(out, dest, res)
                PROVE  /\ out'.unmet = {}
                       /\ \A c \in out'.dirty : c = dest \/ (c \in out.dirty /\ c < Floor(Top))
    OBVIOUS
  <2>1. Moved(out', out, dest, res)
    BY <1>2, <1>3, AssignCleans
  <2>2. \A c \in out.dirty : c < Floor(Top) \/ (res.type = "TEMP" /\ c = res.val)
    BY <1>1, <1>2, StatementDirty
  <2>. QED  BY <1>3, <2>1, <2>2 DEF Moved
<1>5. \A x \in Nat : scopes' = WithNext(Top.scope, x) => VarsGo(Floor(Top)) /\ NextFree' = x
  BY <1>1, <1>2, NextChanged, SameVarsGo
<1>6. CASE LetValue
  <2>1. PICK n \in Names :
          /\ n \in Declares(scopes[Top.scope].vars) =>
               /\ out' = Assign(out, scopes[Top.scope].vars[n].addr, res)
               /\ scopes' = WithNext(Top.scope, Top.mark)
          /\ n \notin Declares(scopes[Top.scope].vars) =>
               /\ out' = Assign(out, Top.mark, res)
               /\ scopes' = Declared(Top.scope, n, Variable(Top.mark, IntegerType, 1),
                                     Top.mark + 1)
    BY <1>6 DEF LetValue, LetValueOf
  <2>2. CASE n \in Declares(scopes[Top.scope].vars)
    <3>. DEFINE a == scopes[Top.scope].vars[n].addr
    <3>1. a \in Nat /\ \E o \in Owners : a \in CellsOf(VarOf(o))
      BY <1>1, <1>2, <2>2, DeclaredAnchored
    <3>2. out' = Assign(out, a, res) /\ scopes' = WithNext(Top.scope, Top.mark)
      BY <2>1, <2>2
    <3>. HIDE DEF a
    <3>3. /\ out'.unmet = {}
          /\ \A c \in out'.dirty : c = a \/ (c \in out.dirty /\ c < Floor(Top))
      BY <1>4, <3>1, <3>2
    <3>4. VarsGo(Floor(Top)) /\ NextFree' = Top.mark
      BY <1>2, <1>5, <3>2
    <3>. QED  BY <1>2, <3>1, <3>3, <3>4, DoneClean
  <2>3. CASE n \notin Declares(scopes[Top.scope].vars)
    <3>. DEFINE v == Variable(Top.mark, IntegerType, 1)
    <3>1. v.len > 0 /\ Floor(Top) <= v.addr /\ Reached(v) \subseteq CellsOf(v)
      <4>1. v.addr = Top.mark /\ v.len = 1 /\ v.type = IntegerType
        BY DEF Variable
      <4>2. v.type.size = 1 /\ v.type.class # "ARRAY"
        BY <4>1 DEF IntegerType
      <4>. HIDE DEF v
      <4>. QED  BY <1>2, <4>1, <4>2 DEF Reached, TypedCellsOf, CellsOf
    <3>2. scopes' = Declared(Depth, n, v, Top.mark + 1) /\ out' = Assign(out, Top.mark, res)
      BY <1>2, <2>1, <2>3
    <3>. HIDE DEF v
    <3>3. VarsGo(Floor(Top)) /\ NextFree' = Top.mark + 1
      BY <1>1, <1>2, <3>1, <3>2, DeclaredGo, VarDeclared
    <3>4. /\ out'.unmet = {}
          /\ \A c \in out'.dirty : c = Top.mark \/ (c \in out.dirty /\ c < Floor(Top))
      BY <1>2, <1>4, <3>2
    <3>5. \A c \in out'.dirty : \/ c \in Nat /\ Floor(Top) <= c /\ c < NextFree'
                                \/ c \in out.dirty /\ c < Floor(Top)
      BY <1>2, <3>3, <3>4
    <3>. QED  BY <1>2, <3>3, <3>4, <3>5, DoneClean
  <2>. QED  BY <2>2, <2>3
<1>7. CASE SetValue
  <2>1. PICK p \in Places : SetValueAt(p)
    BY <1>7 DEF SetValue
  <2>2. p.addr \in Nat /\ \E o \in Owners : p.addr \in CellsOf(VarOf(o))
    BY <1>1, PlaceOwned
  <2>3. /\ out'.unmet = {}
        /\ \A c \in out'.dirty : c = p.addr \/ (c \in out.dirty /\ c < Floor(Top))
    BY <1>4, <2>1, <2>2 DEF SetValueAt
  <2>4. VarsGo(Floor(Top)) /\ NextFree' = Top.mark
    <3>1. CASE res.type = "TEMP"
      BY <1>2, <1>5, <2>1, <3>1 DEF SetValueAt
    <3>2. CASE res.type # "TEMP"
      BY <1>1, <1>2, <2>1, <3>2, ScopesStay, SameVarsGo DEF SetValueAt
    <3>. QED  BY <3>1, <3>2
  <2>. QED  BY <1>2, <2>2, <2>3, <2>4, DoneClean
<1>. QED  BY <1>6, <1>7

LEMMA ArrayClean ==
  ASSUME Fitting, OInv, IInv', ZInv, ArraySize
  PROVE  ZInv'
<1>1. IInv /\ Zeroed /\ Backings
  BY DEF OInv, ZInv
<1>2. /\ mode = "value" /\ Top.kind = "array" /\ Top.scope = Depth
      /\ Top.mark \in Nat /\ Floor(Top) = Top.mark /\ res.val \in Nat
      /\ Top.held.type # "TEMP"
  <2>1. mode = "value" /\ Top.kind = "array"
    BY DEF ArraySize, Resume
  <2>. QED  BY <2>1, ValueOwned DEF Holding
<1>3. CASE res.type # "CONST"
  BY <1>3, StopClean DEF ArraySize, Reject
<1>4. CASE res.type = "CONST" /\ res.val > MaxArray
  BY <1>4, StopClean DEF ArraySize
<1>5. CASE res.type = "CONST" /\ ~(res.val > MaxArray)
  <2>. DEFINE v == Variable(Top.mark, ArrayType(res.val), res.val + 4)
              next == (Top.mark + res.val + 4) % Word
  <2>1. StmtWith(Under) /\ mode' = "stmt" /\ out' = out
    BY <1>5 DEF ArraySize, StmtWith
  <2>2. PICK n \in Names : scopes' = Declared(Depth, n, v, next)
    BY <1>2, <1>5 DEF ArraySize
  <2>3. NextFree' \in Nat /\ Floor(Top) <= NextFree'
    <3>1. PICK k \in Names, w \in Variables, x \in Nat :
            scopes' = Declared(Depth, k, w, x) /\ w.addr = Top.mark /\ EndOf(w) <= x
      BY <1>5, ArrayDeclared
    <3>2. NextFree' = x
      BY <1>1, <3>1, VarDeclared
    <3>3. w.addr \in Nat /\ w.len \in Nat
      BY VariableCells
    <3>. QED  BY <1>2, <3>1, <3>2, <3>3 DEF EndOf
  <2>4. v.len > 0 /\ Floor(Top) <= v.addr /\ Reached(v) \subseteq CellsOf(v)
    <3>1. v.addr = Top.mark /\ v.len = res.val + 4 /\ v.type.size = res.val + 4
      BY DEF Variable, ArrayType
    <3>. HIDE DEF v
    <3>. QED  BY <1>2, <3>1 DEF Reached, TypedCellsOf, CellsOf
  <2>. HIDE DEF v, next
  <2>5. VarsGo(Floor(Top))
    BY <1>1, <2>1, <2>2, <2>4, DeclaredGo
  <2>6. \A c \in out.dirty : c < Floor(Top)
    BY <1>1, <1>2, <1>5, StatementDirty
  <2>7. out.unmet = {}
    BY <1>1, DirtyCells
  <2>. QED  BY <1>2, <2>1, <2>3, <2>5, <2>6, <2>7, DoneClean
<1>. QED  BY <1>3, <1>4, <1>5

LEMMA StoreClean ==
  ASSUME Fitting, OInv, IInv', ZInv, StoreValue
  PROVE  ZInv'
<1>1. IInv /\ Zeroed /\ Backings /\ Typed
  BY StatesTyped DEF OInv, ZInv
<1>2. mode = "value" /\ Top.kind = "store" /\ StmtWith(Under)
  BY DEF StoreValue, Resume
<1>3. /\ acts # <<>> /\ Top.scope = Depth /\ Top.mark \in Nat /\ Floor(Top) \in Nat
      /\ Floor(Top) <= Top.mark /\ NextFree \in Nat /\ Top.held.val \in Nat
      /\ res \in EvalResults
      /\ (res.type # "TEMP" => NextFree = Ceiling(Top))
  BY <1>2, ValueOwned
<1>4. out.unmet = {} /\ 0 \notin out.dirty
  BY <1>1, DirtyCells
<1>. DEFINE target == IF res.type = "TEMP" THEN Temp(Top.mark + 1) ELSE res
            ready  == IF res.type = "TEMP" THEN Assign(out, Top.mark + 1, res) ELSE out
            stored == Sav(ready, Top.base, Top.len, Top.held, target)
            cells  == (Top.base + 4)..(Top.base + 3 + Top.len)
            zeroed == ZeroIfTemp(stored, Top.held)
<1>5. out' = ZeroIfTemp(zeroed, target)
  BY DEF StoreValue
<1>6. \A c \in cells : \E o \in Owners : c \in CellsOf(VarOf(o))
  <2>1. Len(acts) \in 1..Len(acts) /\ Top = acts[Len(acts)]
    BY <1>1, <1>3, TopFacts DEF IInv, Types
  <2>2. PICK o \in Owners : Top.base..(Top.base + 3 + Top.len) \subseteq CellsOf(VarOf(o))
    BY <1>1, <1>2, <2>1 DEF Backings, Anchored
  <2>3. Top.base \in Nat /\ Top.len \in Int
    BY <1>1, <1>2, Resumed
  <2>4. cells \subseteq Top.base..(Top.base + 3 + Top.len)
    BY <2>3
  <2>. QED  BY <2>2, <2>4
<1>. HIDE DEF cells
<1>7. /\ ready.unmet = {} /\ 0 \notin ready.dirty
      /\ \A c \in ready.dirty : \/ res.type = "TEMP" /\ c = Top.mark + 1
                                \/ c \in out.dirty /\ ~(res.type = "TEMP" /\ c = res.val)
  <2>1. CASE res.type = "TEMP"
    <3>1. Top.mark + 1 \in Nat
      BY <1>3
    <3>2. Moved(ready, out, Top.mark + 1, res)
      BY <1>3, <1>4, <2>1, <3>1, AssignCleans
    <3>. HIDE DEF ready
    <3>. QED  BY <1>3, <1>4, <2>1, <3>2 DEF Moved
  <2>2. CASE res.type # "TEMP"
    BY <1>4, <2>2
  <2>. QED  BY <2>1, <2>2
<1>. HIDE DEF ready
<1>8. stored.unmet = {} /\ stored.dirty = ready.dirty \cup cells
  BY <1>7, TapeCleans DEF cells
<1>. HIDE DEF stored
<1>9. \A o, r : LET e == ZeroIfTemp(o, r)
                IN  /\ e.unmet = o.unmet
                    /\ \A c \in e.dirty : c \in o.dirty /\ ~(r.type = "TEMP" /\ c = r.val)
  BY NoneUnmet DEF ZeroIfTemp, Mov
<1>10. /\ zeroed.unmet = {}
       /\ \A c \in zeroed.dirty :
            c \in stored.dirty /\ ~(Top.held.type = "TEMP" /\ c = Top.held.val)
  BY <1>8, <1>9
<1>. HIDE DEF zeroed
<1>11. /\ out'.unmet = {}
       /\ \A c \in out'.dirty :
            c \in zeroed.dirty /\ ~(res.type = "TEMP" /\ c = Top.mark + 1)
  <2>1. /\ out'.unmet = {}
        /\ \A c \in out'.dirty :
             c \in zeroed.dirty /\ ~(target.type = "TEMP" /\ c = target.val)
    BY <1>5, <1>9, <1>10
  <2>2. res.type = "TEMP" => target.type = "TEMP" /\ target.val = Top.mark + 1
    BY DEF Temp
  <2>. QED  BY <2>1, <2>2
<1>12. ASSUME NEW c \in out'.dirty
       PROVE  \/ c \in out.dirty /\ c < Floor(Top)
              \/ \E o \in Owners : c \in CellsOf(VarOf(o))
  <2>1. \/ c \in cells
        \/ /\ c \in out.dirty /\ ~(res.type = "TEMP" /\ c = res.val)
           /\ ~(Top.held.type = "TEMP" /\ c = Top.held.val)
    BY <1>7, <1>8, <1>10, <1>11
  <2>2. CASE /\ c \in out.dirty /\ ~(res.type = "TEMP" /\ c = res.val)
             /\ ~(Top.held.type = "TEMP" /\ c = Top.held.val)
    <3>1. Top.kind \notin {"right", "call"}
      BY <1>2
    <3>. QED  BY <1>1, <1>2, <2>2, <3>1, StatementDirty
  <2>. QED  BY <1>6, <2>1, <2>2
<1>13. VarsGo(Floor(Top)) /\ NextFree' \in Nat /\ Floor(Top) <= NextFree'
  <2>1. scopes' = IF Top.held.type = "CONST" /\ res.type = "CONST"
                    THEN scopes ELSE WithNext(Top.scope, Top.mark)
    BY DEF StoreValue
  <2>2. CASE Top.held.type = "CONST" /\ res.type = "CONST"
    <3>1. NextFree' = NextFree /\ VarsGo(Floor(Top))
      BY <1>1, <2>1, <2>2, ScopesStay, SameVarsGo
    <3>2. NextFree = Top.mark
      BY <1>3, <2>2 DEF Ceiling
    <3>. QED  BY <1>3, <3>1, <3>2
  <2>3. CASE ~(Top.held.type = "CONST" /\ res.type = "CONST")
    <3>1. NextFree' = Top.mark /\ VarsGo(Floor(Top))
      BY <1>1, <1>3, <2>1, <2>3, NextChanged, SameVarsGo
    <3>. QED  BY <1>3, <3>1
  <2>. QED  BY <2>2, <2>3
<1>. QED  BY <1>2, <1>11, <1>12, <1>13, DoneClean

LEMMA PrintedClean ==
  ASSUME OInv, IInv', ZInv, ValuePrinted
  PROVE  ZInv'
<1>1. IInv /\ Zeroed /\ Backings
  BY DEF OInv, ZInv
<1>2. mode = "value" /\ Top.kind = "print_val" /\ StmtWith(Under) /\ scopes' = scopes
  BY DEF ValuePrinted, Resume
<1>3. /\ NextFree \in Nat /\ Floor(Top) \in Nat /\ Floor(Top) <= NextFree /\ Floor(Top) >= 1
      /\ Top.held.type # "TEMP"
      /\ res.type \in {"CONST", "ADDRESS", "TEMP"} /\ res.val \in Nat
      /\ (res.type = "TEMP" => res.val < NextFree)
  <2>1. Top.held.type # "TEMP" /\ Floor(Top) = Top.mark /\ Ceiling(Top) = Top.mark
    BY <1>2, ValueOwned DEF Holding
  <2>. QED  BY <1>2, <2>1, ValueOwned
<1>4. /\ out.unmet = {} /\ 0 \notin out.dirty
      /\ \A c \in out.dirty : c \in Nat /\ 0 < c /\ c < NextFree
  BY <1>1, DirtyCells
<1>. DEFINE n == NextFree
            Printed(o) == Mov(Itoa(o, n, n + 1), n, 0)
<1>5. ASSUME NEW o, o.unmet = {}, \A c \in o.dirty : c \in out.dirty \/ c = n
      PROVE  Printed(o).unmet = {} /\ Printed(o).dirty = o.dirty \ {n}
  <2>1. 0 \notin o.dirty /\ n + 1 \in Nat /\ \A c \in o.dirty : c \in Nat /\ c < n + 1
    BY <1>3, <1>4, <1>5
  <2>2. LET e == Itoa(o, n, n + 1) IN e.unmet = o.unmet /\ e.dirty = o.dirty
    BY <2>1, PrintCleans
  <2>. QED  BY <1>5, <2>2, NoneUnmet DEF Mov
<1>. HIDE DEF n, Printed
<1>6. out'.unmet = {}
      /\ \A c \in out'.dirty : c \in out.dirty /\ ~(res.type = "TEMP" /\ c = res.val)
  <2>1. CASE res.type = "CONST"
    <3>. DEFINE o == Load(out, n, res.val)
    <3>1. out' = Printed(o)
      BY <1>2, <2>1 DEF ValuePrinted, Printed, n
    <3>2. o.unmet = {} /\ o.dirty = out.dirty \cup {n}
      BY <1>3, <1>4, TapeCleans DEF n
    <3>. HIDE DEF o
    <3>3. Printed(o).unmet = {} /\ Printed(o).dirty = o.dirty \ {n}
      BY <1>5, <3>2
    <3>. QED  BY <2>1, <3>1, <3>2, <3>3
  <2>2. CASE res.type = "ADDRESS"
    <3>1. out' = Itoa(out, res.val, NextFree)
      BY <1>2, <2>2 DEF ValuePrinted
    <3>2. LET e == Itoa(out, res.val, NextFree) IN e.unmet = out.unmet /\ e.dirty = out.dirty
      BY <1>3, <1>4, PrintCleans
    <3>. QED  BY <1>4, <2>2, <3>1, <3>2
  <2>3. CASE res.type = "TEMP"
    <3>. DEFINE c0 == Copy(out, n, res.val)
                o == Mov(c0, res.val, 0)
    <3>1. res.val # NextFree
      BY <1>3, <2>3
    <3>2. out' = Printed(o)
      BY <1>2, <2>3, <3>1 DEF ValuePrinted, Printed, n
    <3>3. c0.unmet = {} /\ c0.dirty = out.dirty \cup {n}
      BY <1>3, <1>4, TapeCleans DEF n
    <3>. HIDE DEF c0
    <3>4. o.unmet = {} /\ o.dirty = c0.dirty \ {res.val}
      BY <3>3, NoneUnmet DEF Mov
    <3>. HIDE DEF o
    <3>5. Printed(o).unmet = {} /\ Printed(o).dirty = o.dirty \ {n}
      BY <1>5, <3>3, <3>4
    <3>. QED  BY <3>2, <3>3, <3>4, <3>5
  <2>. QED  BY <1>3, <2>1, <2>2, <2>3
<1>7. \A c \in out'.dirty : c \in out.dirty /\ c < Floor(Top)
  <2>1. Top.kind \notin {"right", "call"}
    BY <1>2
  <2>. QED  BY <1>1, <1>2, <1>3, <1>6, <2>1, StatementDirty
<1>8. VarsGo(Floor(Top)) /\ NextFree' = NextFree
  BY <1>1, <1>2, ScopesStay, SameVarsGo
<1>. QED  BY <1>2, <1>3, <1>6, <1>7, <1>8, DoneClean

LEMMA ReturnValueClean ==
  ASSUME OInv, IInv', ZInv, ReturnValue
  PROVE  ZInv'
<1>1. IInv /\ Zeroed /\ Backings
  BY DEF OInv, ZInv
<1>2. mode = "value" /\ Top.kind = "return" /\ StmtWith(Under)
  BY DEF ReturnValue, Resume
<1>3. /\ Top.scope = Depth /\ Top.mark \in Nat /\ Floor(Top) = Top.mark
      /\ Ceiling(Top) = Top.mark /\ Top.held.type # "TEMP" /\ Top.mark >= 1
      /\ res \in EvalResults /\ res.type \in {"CONST", "ADDRESS", "TEMP"}
  <2>1. Top.held.type # "TEMP" /\ Floor(Top) = Top.mark /\ Ceiling(Top) = Top.mark
    BY <1>2, ValueOwned DEF Holding
  <2>. QED  BY <1>2, <2>1, ValueOwned
<1>4. out.unmet = {} /\ 0 \notin out.dirty
  BY <1>1, DirtyCells
<1>5. \A c \in out.dirty : c < Floor(Top) \/ (res.type = "TEMP" /\ c = res.val)
  <2>1. Top.kind \notin {"right", "call"}
    BY <1>2
  <2>. QED  BY <1>1, <1>2, <1>3, <2>1, StatementDirty
<1>6. Moved(out', out, Top.mark, res)
  <2>1. out' = CopyTo(out, Top.mark, res)
    BY DEF ReturnValue
  <2>2. Top.mark \notin out.dirty \/ (res.type = "TEMP" /\ res.val = Top.mark)
    BY <1>3, <1>5
  <2>. QED  BY <1>3, <1>4, <2>1, <2>2, CopyToCleans
<1>7. VarsGo(Floor(Top)) /\ NextFree' = Top.mark + 1
  <2>1. scopes' = WithNext(Depth, Top.mark + 1) /\ Top.mark + 1 \in Nat
    BY <1>3 DEF ReturnValue
  <2>. QED  BY <1>1, <2>1, NextChanged, SameVarsGo
<1>8. \A c \in out'.dirty : \/ c \in Nat /\ Floor(Top) <= c /\ c < NextFree'
                            \/ c \in out.dirty /\ c < Floor(Top)
  BY <1>3, <1>5, <1>6, <1>7 DEF Moved
<1>9. out'.unmet = {} /\ NextFree' \in Nat /\ Floor(Top) <= NextFree'
  BY <1>3, <1>4, <1>6, <1>7 DEF Moved
<1>. QED  BY <1>2, <1>7, <1>8, <1>9, DoneClean

-----------------------------------------------------------------------------
(* Steps after which the activation waits for something else.              *)

\* The variables are the same.
LEMMA OwnersSame ==
  ASSUME SameVars
  PROVE  /\ Owners' = Owners /\ \A o \in Owners : NewVar(o) = VarOf(o)
         /\ \A cells, k : Anchored(cells, k) => AnchoredAfter(cells, k)
<1>1. \A o \in (1..Depth) \X Names : o[1] \in 1..Depth /\ NewVar(o) = VarOf(o)
  BY DEF SameVars, NewVar, VarOf
<1>2. /\ Owners  = {o \in (1..Depth) \X Names : VarOf(o).len > 0}
      /\ Owners' = {o \in (1..Depth) \X Names : NewVar(o).len > 0}
  BY DEF Owners, VarOf, NewVar, SameVars
<1>3. Owners' = Owners /\ \A o \in Owners : NewVar(o) = VarOf(o)
  BY <1>1, <1>2
<1>. QED  BY <1>3 DEF Anchored, AnchoredAfter

\* The left operand is held; what lies around its value is clean and stays so.
LEMMA LeftClean ==
  ASSUME OInv, IInv', ZInv, LeftEvaluated
  PROVE  ZInv'
<1>. DEFINE m == Len(acts) - 1
<1>1. IInv /\ Types /\ Nested /\ Zeroed
  BY DEF OInv, IInv, ZInv
<1>2. mode = "value" /\ Top.kind = "left" /\ UNCHANGED <<scopes, out>> /\ mode' = "expr"
  BY DEF LeftEvaluated, Resume, EvalWith
<1>3. /\ acts # <<>> /\ Top.held.type # "TEMP" /\ Floor(Top) = Top.mark
      /\ NextFree \in Nat /\ res \in EvalResults
  BY <1>2, ValueOwned DEF Holding
<1>4. /\ Len(acts) > 1 /\ acts[m].kind \notin Blocks
      /\ \A c \in out.dirty : c >= Ceiling(acts[m]) => res.type = "TEMP" /\ c = res.val
  BY <1>1, <1>2, <1>3, OperandsDirty DEF ExprKinds
<1>5. Floor(Top) = Ceiling(acts[m])
  BY <1>3, <1>4, ExactTop
<1>6. \A o \in Owners : \A c \in CellsOf(VarOf(o)) : c \in Nat /\ c < Floor(Top)
  BY <1>1, <1>2, <1>3, DirtyCells DEF Blocks
<1>. DEFINE c == Pending("right")
            a == [c EXCEPT !.held = res]
<1>7. a \in Activation /\ a.kind = "right" /\ a.mark = NextFree /\ a.held = res
  <2>1. c \in Activation /\ c.kind = "right" /\ c.mark = NextFree
    <3>1. "right" \in ExprKinds
      BY DEF ExprKinds
    <3>2. c.mark = NextFree
      BY DEF Pending
    <3>. QED  BY <1>1, <3>1, <3>2, PendingTypes
  <2>. HIDE DEF c
  <2>. QED  BY <1>3, <2>1 DEF Activation
<1>8. acts' = TopBecomes(a)
  BY DEF LeftEvaluated, EvalWith
<1>. HIDE DEF a
<1>9. /\ Kept(m) /\ acts'[m + 1] = a /\ m \in 1..m /\ (m + 1) - 1 = m
      /\ Floor(Top) \in Nat
  <2>1. Len(acts) \in Nat
    BY <1>1, StatesTyped DEF Typed
  <2>. QED  BY <1>3, <1>4, <1>7, <1>8, <2>1, AboveTop, FloorOfTop
<1>. HIDE DEF m
<1>10. acts'[m] = acts[m]
  BY <1>9 DEF Kept
<1>11. SameVars /\ NextFree' = NextFree
  BY <1>2, ScopesStay
<1>12. \A x \in Gap(acts', m + 1) :
         x \notin out'.dirty /\ \A o \in Owners' : x \notin CellsOf(NewVar(o))
  <2>1. ASSUME NEW x \in Gap(acts', m + 1)
        PROVE  x \in Nat /\ Floor(Top) <= x /\ ~(res.type = "TEMP" /\ x = res.val)
    BY <1>5, <1>7, <1>9, <1>10 DEF Gap
  <2>2. ASSUME NEW x \in Gap(acts', m + 1)
        PROVE  x \notin out.dirty
    BY <1>4, <1>5, <1>9, <2>1
  <2>3. ASSUME NEW x \in Gap(acts', m + 1), NEW o \in Owners
        PROVE  x \notin CellsOf(VarOf(o))
    BY <1>6, <1>9, <2>1
  <2>. QED  BY <1>2, <1>11, <2>2, <2>3, OwnersSame
<1>13. Above(a, m)
  <2>1. Refers(a)
    BY <1>7, RefersToNone
  <2>. QED  BY <1>7, <1>12, <2>1 DEF Above
<1>14. VarsGo(Floor(Top)) /\ out'.unmet = {}
       /\ \A x \in out'.dirty : 0 < x /\ x < NextFree'
  BY <1>1, <1>2, <1>11, SameVarsGo, DirtyCells
<1>. QED  BY <1>1, <1>2, <1>3, <1>7, <1>8, <1>13, <1>14, TopClean DEF m

\* The index is held in the first cell of the statement, if it is in a cell.
LEMMA IndexClean ==
  ASSUME OInv, IInv', ZInv, IndexEvaluated
  PROVE  ZInv'
<1>. DEFINE m == Len(acts) - 1
            index == IF res.type = "TEMP" THEN Temp(Top.mark) ELSE res
            t == Top
            a == [t EXCEPT !.kind = "store", !.held = index]
<1>1. IInv /\ Zeroed /\ Backings
  BY DEF OInv, ZInv
<1>2. mode = "value" /\ Top.kind = "index" /\ mode' = "expr" /\ acts' = TopBecomes(a)
  BY DEF IndexEvaluated, Resume, EvalWith
<1>3. /\ acts # <<>> /\ Top \in Activation /\ Top.scope = Depth
      /\ Top.held.type # "TEMP" /\ Floor(Top) = Top.mark /\ Ceiling(Top) = Top.mark
      /\ Top.mark \in Nat /\ Top.mark >= 1 /\ Top.mark + 1 \in Nat /\ NextFree \in Nat
      /\ res \in EvalResults /\ (res.type # "TEMP" => NextFree = Top.mark)
  <2>1. Top.held.type # "TEMP" /\ Floor(Top) = Top.mark /\ Ceiling(Top) = Top.mark
    BY <1>2, ValueOwned DEF Holding
  <2>. QED  BY <1>2, <2>1, ValueOwned
<1>4. index \in EvalResults /\ (index.type = "TEMP" => index.val = Top.mark)
  <2>1. Temp(Top.mark) \in EvalResults /\ Temp(Top.mark).val = Top.mark
    BY <1>3, ResultTypes DEF Temp
  <2>. QED  BY <1>3, <2>1
<1>5. /\ a \in Activation /\ a.kind = "store" /\ a.mark = t.mark /\ a.held = index
      /\ a.base = t.base /\ a.len = t.len /\ a.scope = t.scope
  <2>1. t \in Activation /\ "store" \in StmtKinds
    BY <1>3 DEF StmtKinds
  <2>. HIDE DEF t, index
  <2>. QED  BY <1>4, <2>1 DEF Activation
<1>. HIDE DEF a, index
<1>6. \A c \in out.dirty : c < Floor(Top) \/ (res.type = "TEMP" /\ c = res.val)
  <2>1. Top.kind \notin {"right", "call"}
    BY <1>2
  <2>. QED  BY <1>1, <1>2, <1>3, <2>1, StatementDirty
<1>7. /\ out.unmet = {} /\ 0 \notin out.dirty
      /\ \A c \in out.dirty : c \in Nat /\ 0 < c /\ c < NextFree
  BY <1>1, DirtyCells
<1>8. /\ SameVars /\ NextFree' \in Nat /\ Floor(Top) <= NextFree' /\ out'.unmet = {}
      /\ \A c \in out'.dirty : \/ c \in out.dirty /\ c < Floor(Top)
                               \/ c = Top.mark /\ c < NextFree'
  <2>1. CASE res.type = "TEMP"
    <3>1. out' = Assign(out, Top.mark, res) /\ scopes' = WithNext(Depth, Top.mark + 1)
      BY <1>3, <2>1 DEF IndexEvaluated
    <3>2. SameVars /\ NextFree' = Top.mark + 1
      BY <1>1, <1>3, <3>1, NextChanged
    <3>3. Moved(out', out, Top.mark, res)
      BY <1>3, <1>7, <3>1, AssignCleans
    <3>. QED  BY <1>3, <1>6, <1>7, <2>1, <3>2, <3>3 DEF Moved
  <2>2. CASE res.type # "TEMP"
    <3>1. out' = out /\ scopes' = scopes
      BY <2>2 DEF IndexEvaluated
    <3>2. SameVars /\ NextFree' = NextFree
      BY <3>1, ScopesStay
    <3>. QED  BY <1>3, <1>6, <1>7, <2>2, <3>1, <3>2
  <2>. QED  BY <2>1, <2>2
<1>9. Refers(a)
  <2>1. Len(acts) \in 1..Len(acts) /\ t = acts[Len(acts)]
    BY <1>1, <1>3, StatesTyped DEF Typed, Top, IInv, Types, StackTypes
  <2>2. Anchored(t.base..(t.base + 3 + t.len), t.scope)
    BY <1>1, <1>2, <2>1 DEF Backings
  <2>3. AnchoredAfter(t.base..(t.base + 3 + t.len), t.scope)
    BY <1>8, <2>2, OwnersSame
  <2>. QED  BY <1>4, <1>5, <2>3 DEF Refers
<1>10. Above(a, m)
  BY <1>5, <1>9 DEF Above
<1>11. \A c \in out'.dirty : 0 < c /\ c < NextFree' /\ (c \in out.dirty \/ Floor(Top) <= c)
  BY <1>3, <1>7, <1>8
<1>12. VarsGo(Floor(Top))
  BY <1>1, <1>8, SameVarsGo
<1>. QED  BY <1>2, <1>3, <1>5, <1>8, <1>10, <1>11, <1>12, TopClean

\* An argument is in a cell of its own or in those of a variable.
LEMMA BoundRefers ==
  ASSUME OInv, Backings, SameVars, acts # <<>>, Top.kind = "call",
         NEW a \in Activation, a.kind = "call", a.scope = Depth,
         NEW v, \A n \in Names : a.binds[n] = v \/ a.binds[n] = Top.binds[n],
         v.len > 0 => Reached(v) \subseteq CellsOf(v),
         v.len = 0 => Anchored(Reached(v), Depth)
  PROVE  Refers(a)
<1>1. IInv /\ Top.scope = Depth /\ Len(acts) \in 1..Len(acts) /\ Top = acts[Len(acts)]
  BY StatesTyped, Context DEF Typed, Top, OInv, IInv, Types, StackTypes
<1>2. \A n \in Declares(Top.binds) : Backed(Top.binds[n], Depth)
  BY <1>1 DEF Backings
<1>3. ASSUME NEW n \in Declares(a.binds)
      PROVE  /\ a.binds[n].len > 0 => Reached(a.binds[n]) \subseteq CellsOf(a.binds[n])
             /\ a.binds[n].len = 0 => Anchored(Reached(a.binds[n]), Depth)
  <2>1. n \in Names /\ a.binds[n] # Undeclared
    BY DEF Declares
  <2>2. CASE a.binds[n] = Top.binds[n]
    <3>1. n \in Declares(Top.binds)
      BY <2>1, <2>2 DEF Declares
    <3>. QED  BY <1>2, <2>2, <3>1 DEF Backed
  <2>. QED  BY <2>1, <2>2
<1>. QED  BY <1>3, OwnersSame DEF Refers

LEMMA BindClean ==
  ASSUME OInv, IInv', ZInv, mode \in {"args", "value"}, acts # <<>>, Top.kind = "call",
         SameVars, NextFree' \in Nat, Floor(Top) <= NextFree',
         NEW a \in Activation, a.kind = "call", a.scope = Depth, acts' = TopBecomes(a),
         mode' # "value",
         NEW v, \A n \in Names : a.binds[n] = v \/ a.binds[n] = Top.binds[n],
         v.len > 0 => Reached(v) \subseteq CellsOf(v),
         v.len = 0 => Anchored(Reached(v), Depth),
         out'.unmet = {}, \A c \in out'.dirty : 0 < c /\ c < NextFree',
         \A c \in out'.dirty : c \in out.dirty \/ Floor(Top) <= c
  PROVE  ZInv'
<1>1. IInv /\ Backings
  BY DEF OInv, ZInv
<1>2. Refers(a)
  BY <1>1, BoundRefers
<1>3. Above(a, Len(acts) - 1)
  BY <1>2 DEF Above
<1>4. VarsGo(Floor(Top))
  BY <1>1, SameVarsGo
<1>. QED  BY <1>3, <1>4, TopClean

LEMMA ArgumentsClean ==
  ASSUME Fitting, OInv, IInv', ZInv, BindAlias \/ EvalArgument \/ BindValue
  PROVE  ZInv'
<1>. DEFINE t == Top
<1>1. IInv /\ Types /\ Nested /\ Zeroed /\ Backings
  BY DEF OInv, IInv, ZInv
<1>2. acts # <<>> /\ Top.kind = "call" /\ mode \in {"args", "value"}
  BY <1>1 DEF IInv, ModeShape, BindAlias, EvalArgument, BindValue, Resume
<1>3. /\ t \in Activation /\ t.scope = Depth /\ Depth \in Nat \ {0} /\ NextFree \in Nat
      /\ t.mark \in Nat /\ t.mark + 1 \in Nat /\ t.binds \in [Names -> Variables]
      /\ Floor(Top) \in Nat /\ Floor(Top) >= 1 /\ Floor(Top) <= NextFree /\ Floor(Top) <= t.mark
      /\ Ceiling(Top) = t.mark
  <2>1. t \in Activation /\ t.scope = Depth /\ Depth \in Nat \ {0} /\ NextFree \in Nat
    BY <1>1, <1>2, Context
  <2>2. /\ Floor(Top) \in Nat /\ Floor(Top) >= 1 /\ Top.mark \in Nat /\ Ceiling(Top) \in Nat
        /\ Floor(Top) <= Top.mark /\ Top.mark <= Ceiling(Top) /\ Ceiling(Top) <= NextFree
    BY <1>2, FloorOfTop
  <2>. QED  BY <1>2, <2>1, <2>2, TopCall
<1>4. /\ out.unmet = {} /\ 0 \notin out.dirty
      /\ \A c \in out.dirty : c \in Nat /\ 0 < c /\ c < NextFree
  BY <1>1, DirtyCells
<1>5. ASSUME NEW v \in Variables
      PROVE  LET a == Bound(Top, v)
             IN  /\ a \in Activation /\ a.kind = "call" /\ a.scope = Depth
                 /\ \A n \in Names : a.binds[n] = v \/ a.binds[n] = Top.binds[n]
  <2>. DEFINE a == Bound(t, v)
              new == Bind(t.binds, Parameter.name, v)
  <2>1. a \in Activation /\ a.kind = "call" /\ a.scope = Depth
    BY <1>2, <1>3, BoundTypes
  <2>2. \A n \in Names : new[n] = v \/ new[n] = t.binds[n]
    BY <1>3 DEF Bind
  <2>3. a.binds = new
    <3>. HIDE DEF new, t
    <3>1. a = [t EXCEPT !.binds = new, !.nth = t.nth + 1]
      BY DEF Bound, new
    <3>. QED  BY <1>3, <3>1 DEF Activation
  <2>. QED  BY <2>1, <2>2, <2>3
<1>. HIDE DEF t
<1>6. CASE BindAlias
  <2>1. PICK p \in ArgPlaces : BindWith(TopBecomes(Bound(Top, Variable(p.addr, p.type, 0))))
    BY <1>6 DEF BindAlias
  <2>. DEFINE v == Variable(p.addr, p.type, 0)
              a == Bound(Top, v)
  <2>2. p.addr \in Nat /\ p.type \in KnownTypes /\ Anchored(Reached(p), Depth)
    BY <1>1, PlacesAnchored
  <2>3. v \in Variables /\ v.len = 0 /\ Reached(v) = Reached(p)
    <3>1. 0 \in Nat
      OBVIOUS
    <3>2. v.len = 0 /\ v.addr = p.addr /\ v.type = p.type
      BY DEF Variable
    <3>. QED  BY <2>2, <3>1, <3>2, VariableTypes DEF Reached, TypedCellsOf
  <2>4. SameVars /\ NextFree' = NextFree /\ out' = out /\ mode' # "value"
    BY <1>6, ScopesStay DEF BindAlias, BindWith
  <2>5. acts' = TopBecomes(a)
    BY <2>1 DEF BindWith
  <2>. HIDE DEF v
  <2>6. /\ a \in Activation /\ a.kind = "call" /\ a.scope = Depth
        /\ \A n \in Names : a.binds[n] = v \/ a.binds[n] = Top.binds[n]
    BY <1>5, <2>3
  <2>. HIDE DEF a
  <2>. QED  BY <1>2, <1>3, <1>4, <2>2, <2>3, <2>4, <2>5, <2>6, BindClean
<1>7. CASE EvalArgument
  <2>. DEFINE d == Depth
              next == NextFree
              a == [t EXCEPT !.mark = next, !.scope = d]
  <2>1. a \in Activation /\ a.kind = t.kind /\ a.scope = d /\ a.binds = t.binds
    <3>1. d \in Nat \ {0} /\ next \in Nat
      BY <1>3
    <3>. HIDE DEF d, next
    <3>. QED  BY <1>3, <3>1 DEF Activation
  <2>2. SameVars /\ NextFree' = NextFree /\ out' = out /\ mode' # "value"
    BY <1>7, ScopesStay DEF EvalArgument, EvalWith
  <2>3. acts' = TopBecomes(a)
    BY <1>7 DEF EvalArgument, EvalWith, t
  <2>. HIDE DEF a
  <2>. DEFINE v == Variable(0, IntegerType, 1)
  <2>4. Reached(v) \subseteq CellsOf(v) /\ v.len = 1
    BY DEF Reached, TypedCellsOf, CellsOf, Variable, IntegerType
  <2>5. a.kind = "call" /\ a.scope = Depth /\ \A n \in Names : a.binds[n] = Top.binds[n]
    BY <1>2, <2>1 DEF t
  <2>. HIDE DEF v
  <2>. QED  BY <1>2, <1>3, <1>4, <2>1, <2>2, <2>3, <2>4, <2>5, BindClean
<1>8. CASE BindValue
  <2>. DEFINE v == Variable(Top.mark, IntegerType, 1)
              a == Bound(Top, v)
  <2>1. mode = "value" /\ mode' # "value" /\ acts' = TopBecomes(a)
        /\ out' = CopyTo(out, Top.mark, res) /\ scopes' = WithNext(Depth, Top.mark + 1)
    BY <1>3, <1>8 DEF BindValue, Resume, BindWith, t
  <2>2. v \in Variables /\ v.len = 1 /\ Reached(v) \subseteq CellsOf(v)
    <3>1. 1 \in Nat
      OBVIOUS
    <3>2. v \in Variables
      BY <1>3, <3>1, VariableTypes, TypesOfTypes DEF t
    <3>. QED  BY <3>2 DEF Reached, TypedCellsOf, CellsOf, Variable, IntegerType
  <2>3. SameVars /\ NextFree' = Top.mark + 1
    BY <1>1, <1>3, <2>1, NextChanged DEF t
  <2>4. res \in EvalResults /\ res.type \in {"CONST", "ADDRESS", "TEMP"} /\ res.val \in Nat
    BY <2>1, ValueOwned
  <2>5. \A c \in out.dirty : c < Top.mark \/ (res.type = "TEMP" /\ c = res.val)
    <3>1. \A c \in out.dirty : c >= Top.mark => res.type = "TEMP" /\ c = res.val
      BY <1>1, <1>3, <2>1 DEF Zeroed, ValueClean, t
    <3>. QED  BY <1>3, <1>4, <3>1 DEF t
  <2>6. Moved(out', out, Top.mark, res)
    <3>1. Top.mark \notin out.dirty \/ (res.type = "TEMP" /\ res.val = Top.mark)
      BY <1>3, <2>5 DEF t
    <3>. QED  BY <1>3, <1>4, <2>1, <2>4, <3>1, CopyToCleans DEF t
  <2>7. /\ out'.unmet = {}
        /\ \A c \in out'.dirty : /\ 0 < c /\ c < NextFree'
                                 /\ c \in out.dirty \/ Floor(Top) <= c
    BY <1>3, <1>4, <2>3, <2>5, <2>6 DEF Moved, t
  <2>. HIDE DEF v
  <2>8. /\ a \in Activation /\ a.kind = "call" /\ a.scope = Depth
        /\ \A n \in Names : a.binds[n] = v \/ a.binds[n] = Top.binds[n]
    BY <1>5, <2>2
  <2>. HIDE DEF a
  <2>9. NextFree' \in Nat /\ Floor(Top) <= NextFree'
    BY <1>3, <2>3 DEF t
  <2>. QED  BY <1>2, <2>1, <2>2, <2>3, <2>7, <2>8, <2>9, BindClean
<1>. QED  BY <1>6, <1>7, <1>8

-----------------------------------------------------------------------------
(* Blocks.                                                                 *)

\* A block begins with no variables; what it finds dirty lies below its scope.
LEMMA EnterClean ==
  ASSUME OInv, IInv', ZInv, mode = "value", Top.kind \in {"loop", "if"},
         NEW kind \in {"loopbody", "ifbody"}, NEW cell \in EvalResults, NEW next \in Nat,
         NEW o, Enter(kind, cell, next, o), o.dirty \subseteq Nat, o.unmet = {},
         Top.mark <= next, cell.type = "ADDRESS" => cell = res,
         \A c \in o.dirty : \/ c = Top.mark /\ c < next
                            \/ c \in out.dirty /\ c < Top.mark
  PROVE  ZInv'
<1>. DEFINE t == Top
            d == Depth
            before == o.dirty
            a == [t EXCEPT !.kind = kind, !.scope = d + 1, !.mark = next,
                           !.held = cell, !.before = before]
<1>1. IInv /\ Zeroed /\ Top.kind \notin Blocks /\ Top.kind \notin Holding \cup {"call", "body"}
  BY DEF OInv, ZInv, Blocks, Holding
<1>2. /\ acts # <<>> /\ Top \in Activation /\ Top.scope = Depth
      /\ Top.mark \in Nat /\ Floor(Top) = Top.mark /\ Top.mark >= 1 /\ d \in Nat
  <2>1. Floor(Top) = Top.mark
    BY <1>1, ValueOwned
  <2>. QED  BY <1>1, <2>1, ValueOwned
<1>3. /\ a \in Activation /\ a.kind = kind /\ a.mark = next /\ a.before = before
      /\ a.scope = d + 1 /\ a.held = cell
  <2>1. before \in SUBSET Nat /\ kind \in Blocks /\ d + 1 \in Nat \ {0} /\ t \in Activation
    BY <1>2 DEF Blocks
  <2>. HIDE DEF t, d, before
  <2>. QED  BY <2>1 DEF Activation
<1>4. /\ acts' = TopBecomes(a) /\ mode' = "stmt" /\ out' = o
      /\ scopes' = Append(WithNext(Depth, next), NewScope(NoVars, next))
  BY <1>2 DEF Enter, StmtWith
<1>. HIDE DEF a, t
<1>5. /\ Depth' = Depth + 1 /\ NextFree' = next
      /\ SameVarsBelow(Depth) /\ scopes'[Depth + 1].vars = NoVars
  BY <1>1, <1>4, ScopeOpened
<1>6. VarsGo(Floor(Top))
  <2>1. \A k \in 1..(Depth' - 1) : k <= Depth /\ scopes'[k].vars = scopes[k].vars
    <3>1. Depth' - 1 = d
      BY <1>2, <1>5
    <3>2. \A k \in 1..d : k <= d
      BY <1>2
    <3>. QED  BY <1>5, <3>1, <3>2 DEF SameVarsBelow
  <2>2. \A n \in Names : scopes'[Depth'].vars[n] = Undeclared
    BY <1>5 DEF NoVars
  <2>. QED  BY <1>4, <2>1, <2>2 DEF VarsGo, NewIn
<1>7. \A c \in out'.dirty : /\ 0 < c /\ c < next
                            /\ c \in out.dirty \/ Floor(Top) <= c
  BY <1>1, <1>2, <1>4, DirtyCells
<1>8. Above(a, Len(acts) - 1)
  <2>1. cell.type = "ADDRESS" => AnchoredAfter({cell.val}, a.scope - 1)
    <3>1. mode = "value" /\ cell.type = "ADDRESS" => Anchored({cell.val}, d)
      BY DEF ZInv, Backings
    <3>2. d < Depth' /\ Depth' \in Nat /\ a.scope - 1 = d
      BY <1>2, <1>3, <1>5
    <3>. QED  BY <1>2, <1>6, <3>1, <3>2, AnchorsStay
  <2>2. Refers(a)
    BY <1>3, <2>1 DEF Refers
  <2>. QED  BY <1>3, <1>4, <1>7, <2>2 DEF Above
<1>. QED  BY <1>2, <1>3, <1>4, <1>5, <1>6, <1>7, <1>8, TopClean

LEMMA EntersClean ==
  ASSUME OInv, IInv', ZInv, LoopEnter \/ IfEnter
  PROVE  ZInv'
<1>1. mode = "value" /\ Top.kind \in {"loop", "if"} /\ IInv /\ Zeroed /\ Backings
  BY DEF LoopEnter, IfEnter, Resume, OInv, ZInv
<1>2. /\ Top.mark \in Nat /\ Top.mark + 1 \in Nat /\ Floor(Top) = Top.mark
      /\ Top.held.type # "TEMP"
      /\ res \in EvalResults /\ res.type \in {"CONST", "ADDRESS", "TEMP"} /\ res.val \in Nat
      /\ scopes[Top.scope].next = NextFree
      /\ (res.type # "TEMP" => NextFree = Top.mark)
  <2>1. Top.kind \notin Holding \cup {"call", "body"}
    BY <1>1 DEF Holding
  <2>2. Ceiling(Top) = Top.mark /\ Floor(Top) = Top.mark
    BY <1>1, <2>1, ValueOwned
  <2>. QED  BY <1>1, <2>1, <2>2, ValueOwned
<1>3. /\ out.unmet = {} /\ 0 \notin out.dirty
      /\ \A c \in out.dirty : c \in Nat
      /\ \A c \in out.dirty : c < Top.mark \/ (res.type = "TEMP" /\ c = res.val)
  <2>1. Top.kind \notin {"right", "call"}
    BY <1>1
  <2>. QED  BY <1>1, <1>2, <2>1, DirtyCells, StatementDirty
<1>4. \A o, op, cell : LET e == Open(o, op, cell)
                       IN  e.dirty = o.dirty /\ e.unmet = o.unmet
  BY NoneUnmet DEF Open
<1>5. ASSUME NEW e, Moved(e, out, Top.mark, res)
      PROVE  /\ e.unmet = {} /\ e.dirty \subseteq Nat
             /\ \A c \in e.dirty : c = Top.mark \/ (c \in out.dirty /\ c < Top.mark)
  BY <1>2, <1>3, <1>5 DEF Moved
<1>6. CASE LoopEnter /\ res.type = "ADDRESS"
  <2>. DEFINE o == Open(Assign(out, res.val, res), "LOOP", res.val)
  <2>1. Enter("loopbody", res, NextFree, o)
    BY <1>2, <1>6 DEF LoopEnter
  <2>2. Assign(out, res.val, res) = out
    BY <1>6 DEF Assign
  <2>3. o.dirty = out.dirty /\ o.unmet = out.unmet
    BY <1>4, <2>2
  <2>. HIDE DEF o
  <2>. QED  BY <1>1, <1>2, <1>3, <1>6, <2>1, <2>3, EnterClean
<1>7. CASE LoopEnter /\ res.type # "ADDRESS"
  <2>. DEFINE e == Assign(out, Top.mark, res)
              o == Open(e, "LOOP", Top.mark)
  <2>1. Enter("loopbody", Temp(Top.mark), Top.mark + 1, o)
    BY <1>7 DEF LoopEnter
  <2>2. Moved(e, out, Top.mark, res)
    BY <1>2, <1>3, AssignCleans
  <2>. HIDE DEF e
  <2>3. o.dirty = e.dirty /\ o.unmet = e.unmet
    BY <1>4
  <2>. HIDE DEF o
  <2>4. Temp(Top.mark) \in EvalResults /\ Temp(Top.mark).type # "ADDRESS"
    BY <1>2, ResultTypes DEF Temp
  <2>. QED  BY <1>1, <1>2, <1>5, <2>1, <2>2, <2>3, <2>4, EnterClean
<1>8. CASE IfEnter
  <2>. DEFINE e == CopyTo(out, Top.mark, res)
              o == Open(e, "DOIF", Top.mark)
  <2>1. Enter("ifbody", Temp(Top.mark), Top.mark + 1, o)
    BY <1>8 DEF IfEnter
  <2>2. Moved(e, out, Top.mark, res)
    <3>1. Top.mark \notin out.dirty \/ (res.type = "TEMP" /\ res.val = Top.mark)
      BY <1>2, <1>3
    <3>. QED  BY <1>2, <1>3, <3>1, CopyToCleans
  <2>. HIDE DEF e
  <2>3. o.dirty = e.dirty /\ o.unmet = e.unmet
    BY <1>4
  <2>. HIDE DEF o
  <2>4. Temp(Top.mark) \in EvalResults /\ Temp(Top.mark).type # "ADDRESS"
    BY <1>2, ResultTypes DEF Temp
  <2>. QED  BY <1>1, <1>2, <1>5, <2>1, <2>2, <2>3, <2>4, EnterClean
<1>. QED  BY <1>6, <1>7, <1>8

\* The scope of a block goes with its variables.
LEMMA ClosedGo ==
  ASSUME Depth \in Nat, Depth > 1, Depth' = Depth - 1, SameVarsBelow(Depth - 1), NEW b
  PROVE  VarsGo(b)
BY DEF SameVarsBelow, VarsGo

\* After a block what it found dirty is dirty again, for it may be skipped.
LEMMA BlocksClean ==
  ASSUME OInv, IInv', ZInv, LoopLeave \/ IfLeave
  PROVE  ZInv'
<1>. DEFINE m == Len(acts) - 1
<1>1. IInv /\ Zeroed
  BY DEF OInv, ZInv
<1>2. /\ mode = "stmt" /\ acts # <<>> /\ Top.kind \in {"loopbody", "ifbody"}
      /\ acts' = Under /\ mode' = "stmt" /\ scopes' = ScopeRemoved
      /\ \E op : out' = Close(out, op, Top.held.val, Top.before)
  BY DEF LoopLeave, IfLeave, Leave, StmtWith
<1>3. out'.unmet = out.unmet /\ \A c \in out'.dirty : c \in out.dirty \/ c \in Top.before
  BY <1>2, NoneUnmet DEF Close
<1>4. /\ m \in 0..Len(acts) /\ Kept(m) /\ Len(acts') = m /\ Len(acts') # m + 1
      /\ Len(acts) \in Nat /\ Len(acts) \in 1..Len(acts)
  <2>1. Len(acts) \in Nat /\ Len(acts) \in 1..Len(acts)
    BY <1>1, <1>2, StatesTyped DEF Typed, IInv, Types, StackTypes
  <2>. QED  BY <1>2, <2>1, AboveTop
<1>5. /\ Floor(Top) \in Nat /\ Floor(Top) >= 1 /\ NextFree \in Nat /\ Top.mark \in Nat
      /\ Top.mark <= NextFree /\ \A i \in 1..m : Ceiling(acts[i]) <= Floor(Top)
  <2>1. /\ Ceiling(Top) \in Nat /\ Top.mark \in Nat /\ NextFree \in Nat
        /\ Top.mark <= Ceiling(Top) /\ Ceiling(Top) <= NextFree
    BY <1>2, FloorOfTop
  <2>. QED  BY <1>2, <2>1, FloorOfTop
<1>6. /\ \A c \in Top.before : c \in Nat /\ 0 < c /\ c < Top.mark
      /\ Tidy(Top.before, acts, m)
  <2>1. Top = acts[Len(acts)] /\ Top.before \subseteq Nat
    <3>1. Top \in Activation
      BY <1>1, <1>2, Context DEF IInv
    <3>. QED  BY <3>1 DEF Top, Activation
  <2>. QED  BY <1>1, <1>2, <1>4, <2>1 DEF Zeroed, BlocksTidy
<1>7. VarsGo(Floor(Top)) /\ NextFree' = NextFree
  <2>1. Depth > 1 /\ Depth \in Nat
    BY <1>1, <1>2, BlockDepth DEF Blocks
  <2>2. Depth' = Depth - 1 /\ NextFree' = NextFree /\ SameVarsBelow(Depth - 1)
    BY <1>1, <1>2, <1>5, <2>1, ScopeClosed
  <2>. QED  BY <2>1, <2>2, ClosedGo
<1>8. Tidy(out'.dirty, acts, m)
  <2>1. \A i \in 1..m : i \in 1..Len(acts)
    BY <1>4
  <2>2. Tidy(out.dirty, acts, m)
    BY <1>1, <2>1 DEF Zeroed, Tidy
  <2>. QED  BY <1>3, <1>6, <2>2 DEF Tidy
<1>9. out'.unmet = {} /\ \A c \in out'.dirty : 0 < c /\ c < NextFree'
  BY <1>1, <1>3, <1>5, <1>6, <1>7, DirtyCells
<1>. HIDE DEF m
<1>10. Cleans(m, Floor(Top))
  BY <1>2, <1>4, <1>5, <1>7, <1>8, <1>9 DEF Cleans
<1>. QED  BY <1>1, <1>5, <1>10, Cleaned

-----------------------------------------------------------------------------
(* Calls.                                                                  *)

\* The parameters are all that the body sees.
LEMMA BeginClean ==
  ASSUME OInv, IInv', ZInv, BeginCall
  PROVE  ZInv'
<1>. DEFINE t == Top
            d == Depth
            next == NextFree
            a == [t EXCEPT !.kind = "body", !.scope = d + 1, !.mark = next]
<1>1. IInv /\ Types /\ Nested /\ Zeroed /\ Backings
  BY DEF OInv, IInv, ZInv
<1>2. mode = "args" /\ acts # <<>> /\ Top.kind = "call"
  BY <1>1 DEF IInv, ModeShape, BeginCall
<1>3. /\ Top \in Activation /\ Top.scope = Depth /\ d \in Nat /\ next \in Nat
      /\ Top = acts[Len(acts)] /\ Len(acts) \in 1..Len(acts)
  <2>1. Len(acts) \in 1..Len(acts)
    BY <1>1, <1>2, StatesTyped DEF Typed, Types, StackTypes
  <2>. QED  BY <1>1, <1>2, <2>1, Context DEF Top
<1>4. a \in Activation /\ a.kind = "body"
  <2>1. d + 1 \in Nat \ {0} /\ "body" \in Blocks /\ t \in Activation
    BY <1>3 DEF Blocks
  <2>. HIDE DEF t, d, next
  <2>. QED  BY <1>3, <2>1 DEF Activation
<1>5. /\ acts' = TopBecomes(a) /\ mode' = "stmt" /\ out' = out
      /\ scopes' = Append(scopes, NewScope(Top.binds, next))
  BY DEF BeginCall, StmtWith, FrameScope
<1>. HIDE DEF a, t
<1>6. /\ Depth' = d + 1 /\ NextFree' = next
      /\ SameVarsBelow(d) /\ scopes'[d + 1].vars = Top.binds
  BY <1>1, <1>3, <1>5, ScopeOpened
<1>7. \A o \in Owners : o \in Owners' /\ NewVar(o) = VarOf(o)
  <2>1. ASSUME NEW o \in Owners
        PROVE  o \in Owners' /\ NewVar(o) = VarOf(o)
    <3>1. /\ o[1] \in 1..d /\ o[1] \in 1..(d + 1) /\ o[2] \in Names
          /\ o = <<o[1], o[2]>> /\ VarOf(o).len > 0
      BY <1>3 DEF Owners, VarOf
    <3>2. scopes'[o[1]].vars = scopes[o[1]].vars
      BY <1>6, <3>1 DEF SameVarsBelow
    <3>. QED  BY <1>6, <3>1, <3>2 DEF Owners, NewVar, VarOf
  <2>. QED  BY <2>1
<1>8. ASSUME NEW n \in Names
      PROVE  NewIn(Top.binds[n], Floor(Top))
  <2>1. CASE n \in Declares(Top.binds)
    <3>1. Backed(Top.binds[n], d)
      BY <1>1, <1>2, <1>3, <2>1 DEF Backings
    <3>2. Top.binds[n].len \in Nat
      BY <1>2, TopCall, VariableCells
    <3>3. CASE Top.binds[n].len > 0
      BY <1>2, <3>1, <3>3, TopCall DEF Backed, NewIn
    <3>4. CASE Top.binds[n].len = 0
      <4>1. Anchored(Reached(Top.binds[n]), d)
        BY <3>1, <3>4 DEF Backed
      <4>2. AnchoredAfter(Reached(Top.binds[n]), d)
        BY <1>7, <4>1 DEF Anchored, AnchoredAfter
      <4>3. Depth' - 1 = d
        BY <1>3, <1>6
      <4>. QED  BY <3>4, <4>2, <4>3 DEF NewIn
    <3>. QED  BY <3>2, <3>3, <3>4
  <2>2. CASE n \notin Declares(Top.binds)
    BY <2>2 DEF Declares, NewIn
  <2>. QED  BY <2>1, <2>2
<1>9. VarsGo(Floor(Top))
  <2>1. \A k \in 1..(Depth' - 1) : k <= Depth /\ scopes'[k].vars = scopes[k].vars
    <3>1. Depth' - 1 = d /\ \A k \in 1..d : k <= d
      BY <1>3, <1>6
    <3>. QED  BY <1>6, <3>1 DEF SameVarsBelow
  <2>2. \A n \in Names : NewIn(scopes'[Depth'].vars[n], Floor(Top))
    BY <1>6, <1>8
  <2>. QED  BY <1>5, <2>1, <2>2 DEF VarsGo
<1>10. Above(a, Len(acts) - 1)
  <2>1. Refers(a)
    BY <1>4, RefersToNone
  <2>. QED  BY <1>4, <2>1 DEF Above
<1>11. out'.unmet = {} /\ \A c \in out'.dirty : 0 < c /\ c < NextFree'
  BY <1>1, <1>5, <1>6, DirtyCells
<1>. QED  BY <1>2, <1>4, <1>5, <1>9, <1>10, <1>11, TopClean

\* What is dirty once the frame has been wiped.
LEMMA FrameCleans ==
  ASSUME OInv, Zeroed, BodyEnds
  PROVE  /\ calls # <<>> /\ (HasReturned <=> CurrentCall.has_returned)
         /\ Floor(Top) = Top.base /\ Top.base \in Nat /\ Top.base >= 1
         /\ HasReturned => /\ CurrentCall.ret_addr \in Nat
                           /\ Top.base <= CurrentCall.ret_addr
         /\ FrameWiped.unmet = {}
         /\ \A c \in FrameWiped.dirty :
              /\ c \in out.dirty
              /\ c < Top.base \/ (HasReturned /\ c = CurrentCall.ret_addr)
<1>1. IInv /\ Types /\ Nested /\ Returns
  BY DEF OInv, Owned, IInv
<1>2. mode = "stmt" /\ acts # <<>> /\ Top.kind = "body"
  BY DEF BodyEnds
<1>3. Floor(Top) = Top.base /\ Top.base \in Nat /\ Top.base >= 1 /\ NextFree \in Nat
  BY <1>2, FloorOfTop DEF Floor
<1>4. calls # <<>> /\ (HasReturned <=> CurrentCall.has_returned)
  <2>1. calls # <<>>
    <3>1. Len(acts) \in 1..Len(acts) /\ Top = acts[Len(acts)]
      BY <1>1, <1>2, TopFacts DEF Types
    <3>2. PICK k \in 1..Len(calls) : calls[k].scope_barrier = acts[Len(acts)].scope
      BY <1>1, <1>2, <3>1 DEF Nested, CallsNest
    <3>3. Len(calls) \in Nat /\ Len(calls) # 0
      BY <1>1, <3>2, StatesTyped DEF Typed
    <3>. QED  BY <3>3
  <2>. QED  BY <2>1 DEF HasReturned
<1>5. HasReturned => CurrentCall.ret_addr \in Nat /\ Top.base <= CurrentCall.ret_addr
  <2>1. ASSUME HasReturned
        PROVE  CurrentCall.ret_addr \in Nat /\ Top.base <= CurrentCall.ret_addr
    <3>1. /\ Len(calls) \in 1..Len(calls) /\ calls[Len(calls)].has_returned
          /\ CurrentCall.ret_addr \in Nat
      BY <1>1, <2>1, Context DEF HasReturned, CurrentCall
    <3>. QED  BY <1>1, <1>3, <3>1 DEF Returns, CurrentCall
  <2>. QED  BY <2>1
<1>6. /\ FrameWiped.unmet = out.unmet
      /\ FrameWiped.dirty = out.dirty \ ((Top.base..(NextFree - 1)) \ Returned)
  BY DEF FrameWiped, Wipe
<1>7. ASSUME NEW c \in FrameWiped.dirty
      PROVE  c \in out.dirty /\ (c < Top.base \/ (HasReturned /\ c = CurrentCall.ret_addr))
  <2>1. c \in out.dirty /\ c \in Nat /\ c < NextFree
    BY <1>6, DirtyCells
  <2>2. c \in Top.base..(NextFree - 1) => c \in Returned
    BY <1>6
  <2>3. c < Top.base \/ c \in Returned
    BY <1>3, <2>1, <2>2
  <2>. QED  BY <1>4, <2>1, <2>3 DEF Returned
<1>. QED  BY <1>3, <1>4, <1>5, <1>6, <1>7, DirtyCells

\* Of a call that ends only its value is left, in the last cell that is taken.
Ended ==
  /\ acts' = Under /\ out'.unmet = {} /\ \E next \in Nat : CallEnded(next) /\ next = NextFree'
  /\ \A c \in out'.dirty : /\ c \in out.dirty
                           /\ c < Top.base \/ (mode' = "value" /\ c = res'.val)
  /\ \/ mode' = "stmt" /\ NextFree' = Top.base
     \/ /\ mode' = "value" /\ ~CallIsStmt /\ res'.type = "TEMP" /\ res'.val \in Nat
        /\ Top.base <= res'.val /\ NextFree' = res'.val + 1

LEMMA CallEnds ==
  ASSUME OInv, Zeroed, EndCallInExpr \/ EndCallStmt
  PROVE  \/ Ended
         \/ UNCHANGED <<scopes, calls, acts, out>> /\ mode' = "error"
<1>1. IInv /\ BodyEnds /\ mode = "stmt" /\ acts # <<>> /\ Top.kind = "body"
  BY DEF OInv, EndCallInExpr, EndCallStmt, BodyEnds
<1>2. /\ HasReturned <=> CurrentCall.has_returned
      /\ Top.base \in Nat
      /\ HasReturned => /\ CurrentCall.ret_addr \in Nat
                        /\ Top.base <= CurrentCall.ret_addr
      /\ FrameWiped.unmet = {}
      /\ \A c \in FrameWiped.dirty :
           /\ c \in out.dirty
           /\ c < Top.base \/ (HasReturned /\ c = CurrentCall.ret_addr)
  BY <1>1, FrameCleans
<1>3. FrameEnd = IF HasReturned THEN CurrentCall.ret_addr + 1 ELSE Top.base
  BY <1>2 DEF FrameEnd
<1>4. Depth > 1 /\ Depth \in Nat
  BY <1>1, BlockDepth DEF Blocks
<1>5. ASSUME NEW next \in Nat, CallEnded(next)
      PROVE  \E n \in Nat : CallEnded(n) /\ n = NextFree'
  <2>1. scopes' = [ScopeRemoved EXCEPT ![Depth - 1].next = next]
    BY <1>5 DEF CallEnded
  <2>2. NextFree' = next
    BY <1>1, <1>4, <2>1, ScopeClosed
  <2>. QED  BY <1>5, <2>2
<1>6. ASSUME NEW next \in Nat, CallEnded(next)
      PROVE  NextFree' = next
  <2>1. scopes' = [ScopeRemoved EXCEPT ![Depth - 1].next = next]
    BY <1>6 DEF CallEnded
  <2>. QED  BY <1>1, <1>4, <2>1, ScopeClosed
<1>7. CASE EndCallInExpr
  <2>1. CASE HasReturned
    <3>1. /\ CallEnded(FrameEnd) /\ acts' = Under /\ mode' = "value" /\ out' = FrameWiped
          /\ res' = Temp(CurrentCall.ret_addr) /\ ~CallIsStmt
      BY <1>7, <2>1 DEF EndCallInExpr, Return
    <3>2. res'.type = "TEMP" /\ res'.val = CurrentCall.ret_addr
      BY <3>1 DEF Temp
    <3>3. FrameEnd \in Nat /\ FrameEnd = res'.val + 1
      BY <1>2, <1>3, <2>1, <3>2
    <3>4. NextFree' = FrameEnd
      BY <1>6, <3>1, <3>3
    <3>. QED  BY <1>2, <1>5, <2>1, <3>1, <3>2, <3>3, <3>4 DEF Ended
  <2>2. CASE ~HasReturned
    BY <1>7, <2>2 DEF EndCallInExpr, Reject
  <2>. QED  BY <2>1, <2>2
<1>8. CASE EndCallStmt
  <2>1. CASE CurrentCall.returns_value /\ ~CurrentCall.has_returned
    BY <1>8, <2>1 DEF EndCallStmt, Reject
  <2>2. CASE ~(CurrentCall.returns_value /\ ~CurrentCall.has_returned)
    <3>1. /\ CallEnded(Top.base) /\ acts' = Under /\ mode' = "stmt"
          /\ out' = IF HasReturned THEN Mov(FrameWiped, CurrentCall.ret_addr, 0)
                                   ELSE FrameWiped
      BY <1>3, <1>8, <2>2 DEF EndCallStmt, StmtWith
    <3>2. NextFree' = Top.base
      BY <1>2, <1>6, <3>1
    <3>3. out'.unmet = {} /\ \A c \in out'.dirty : c \in out.dirty /\ c < Top.base
      <4>1. CASE HasReturned
        <5>1. /\ out'.unmet = FrameWiped.unmet
              /\ out'.dirty = FrameWiped.dirty \ {CurrentCall.ret_addr}
          BY <3>1, <4>1, NoneUnmet DEF Mov
        <5>. QED  BY <1>2, <5>1
      <4>2. CASE ~HasReturned
        BY <1>2, <3>1, <4>2
      <4>. QED  BY <4>1, <4>2
    <3>. QED  BY <1>2, <1>5, <3>1, <3>2, <3>3 DEF Ended
  <2>. QED  BY <2>1, <2>2
<1>. QED  BY <1>7, <1>8

LEMMA EndsClean ==
  ASSUME OInv, IInv', ZInv, EndCallInExpr \/ EndCallStmt
  PROVE  ZInv'
<1>1. IInv /\ Zeroed /\ Keeps
  BY DEF OInv, Owned, ZInv
<1>2. BodyEnds /\ mode = "stmt" /\ acts # <<>> /\ Top.kind = "body"
  BY DEF EndCallInExpr, EndCallStmt, BodyEnds
<1>3. CASE UNCHANGED <<scopes, calls, acts, out>> /\ mode' = "error"
  BY <1>3, StopClean
<1>4. CASE Ended
  <2>. DEFINE m == Len(acts) - 1
  <2>1. /\ Floor(Top) = Top.base /\ Top.base \in Nat
    BY <1>1, <1>2, FrameCleans
  <2>2. Len(acts) \in Nat /\ Len(acts) \in 1..Len(acts) /\ Top = acts[Len(acts)]
    BY <1>1, <1>2, StatesTyped DEF Typed, IInv, Types, StackTypes, Top
  <2>3. VarsGo(Floor(Top))
    <3>1. PICK next \in Nat : CallEnded(next)
      BY <1>4 DEF Ended
    <3>2. Depth > 1 /\ Depth \in Nat
      BY <1>1, <1>2, BlockDepth DEF Blocks
    <3>3. scopes' = [ScopeRemoved EXCEPT ![Depth - 1].next = next]
      BY <3>1 DEF CallEnded
    <3>4. Depth' = Depth - 1 /\ SameVarsBelow(Depth - 1)
      BY <1>1, <3>2, <3>3, ScopeClosed
    <3>. QED  BY <3>2, <3>4, ClosedGo
  <2>4. ASSUME NEW c \in out'.dirty
        PROVE  c \in out.dirty /\ c \in Nat /\ 0 < c /\ c < NextFree'
    <3>1. /\ c \in out.dirty
          /\ c < Top.base \/ (mode' = "value" /\ c = res'.val)
      BY <1>4 DEF Ended
    <3>2. c \in Nat /\ 0 < c
      BY <1>1, <3>1, DirtyCells
    <3>. QED  BY <1>4, <2>1, <3>1, <3>2 DEF Ended
  <2>5. ASSUME mode' = "value", NEW c \in out'.dirty, c >= Ceiling(acts'[Len(acts')])
        PROVE  res'.type = "TEMP" /\ c = res'.val
    <3>1. ~CallIsStmt /\ acts' = Under /\ res'.type = "TEMP"
      BY <1>4, <2>5 DEF Ended
    <3>2. Len(acts) > 1 /\ acts[Len(acts) - 1].kind \notin Blocks
      BY <3>1 DEF CallIsStmt
    <3>3. Top.held.type # "TEMP"
      BY <1>1, <1>2, <2>2 DEF Keeps, Holding
    <3>4. Floor(Top) = Ceiling(acts[Len(acts) - 1])
      BY <1>2, <3>2, <3>3, ExactTop
    <3>5. acts'[Len(acts')] = acts[m]
      <4>1. Kept(m) /\ Len(acts') = m /\ m \in 1..m
        BY <1>2, <2>2, <3>1, <3>2, AboveTop
      <4>. QED  BY <4>1 DEF Kept
    <3>6. ~(c < Top.base)
      BY <2>1, <2>4, <2>5, <3>4, <3>5
    <3>. QED  BY <1>4, <2>5, <3>1, <3>6 DEF Ended
  <2>. QED  BY <1>2, <1>4, <2>3, <2>4, <2>5, TopClean DEF Ended
<1>. QED  BY <1>1, <1>3, <1>4, CallEnds

-----------------------------------------------------------------------------
(* The theorems.                                                           *)

LEMMA InitClean == Init => ZInv
<1>. SUFFICES ASSUME Init
              PROVE  ZInv
  OBVIOUS
<1>. USE DEF Init
<1>1. /\ Len(acts) = 0 /\ Depth = 1 /\ acts = <<>> /\ mode = "stmt"
      /\ scopes[1].vars = NoVars /\ out.dirty = {} /\ out.unmet = {}
  BY DEF Depth, NewScope, NoOutput
<1>2. \A i \in 1..Len(acts) : FALSE
  BY <1>1
<1>3. Declares(scopes[1].vars) = {}
  BY <1>1 DEF Declares, NoVars
<1>4. Backings
  BY <1>1, <1>2, <1>3 DEF Backings
<1>5. Zeroed
  BY <1>1, <1>2 DEF Zeroed, ZeroInvariant, ScratchZero, ValueClean, BlocksTidy, GapsFree, Tidy
<1>. QED  BY <1>4, <1>5 DEF ZInv

LEMMA StepClean ==
  ASSUME Fitting, OInv, OInv', ZInv, [Next]_vars
  PROVE  ZInv'
<1>1. IInv'
  BY DEF OInv
<1>2. CASE UNCHANGED vars
  BY <1>1, <1>2, StopClean DEF vars
<1>3. CASE Eval
  BY <1>1, <1>3, LeavesClean, PushesClean, ArgumentsClean DEF Eval
<1>4. CASE Resumption
  <2>1. CASE ElementRead \/ UnaryConst \/ UnaryFlip \/ FoldConstants \/ FoldOnTape
    BY <2>1, ReturnsClean
  <2>2. CASE LeftEvaluated \/ IndexEvaluated \/ BindValue \/ LoopEnter \/ IfEnter
    BY <1>1, <2>2, LeftClean, IndexClean, ArgumentsClean, EntersClean
  <2>3. CASE LetValue \/ SetValue \/ ArraySize \/ StoreValue \/ ValuePrinted \/ ReturnValue
    BY <1>1, <2>3, SetsClean, ArrayClean, StoreClean, PrintedClean, ReturnValueClean
  <2>. QED  BY <1>4, <2>1, <2>2, <2>3 DEF Resumption
<1>5. CASE Statement
  BY <1>1, <1>5, PushesClean, PlainsClean DEF Statement
<1>6. CASE Calling
  BY <1>1, <1>6, ArgumentsClean, BeginClean, EndsClean DEF Calling
<1>7. CASE LoopLeave \/ IfLeave
  BY <1>1, <1>7, BlocksClean
<1>8. CASE Finish
  BY <1>1, <1>8, StopClean DEF Finish
<1>9. CASE Illegal
  BY <1>1, <1>9, StopClean DEF Illegal, Reject
<1>10. CASE Terminated
  BY <1>2, <1>10 DEF Terminated
<1>. QED  BY <1>2, <1>3, <1>4, <1>5, <1>6, <1>7, <1>8, <1>9, <1>10 DEF Next

\* What the generated code may leave dirty is known throughout every compilation
\* of a program that fits its types.
THEOREM CleanKept == Fitting => (Spec => [](OInv /\ ZInv))
<1>. SUFFICES ASSUME Fitting
              PROVE  Spec => [](OInv /\ ZInv)
  OBVIOUS
<1>1. OInv /\ ZInv /\ [Next]_vars => (OInv /\ ZInv)'
  BY StepOwned, StepClean
<1>. QED  BY <1>1, InitOwned, InitClean, PTL DEF Spec

\* codegen.cpp:255, "Cells at next_free and above are zero": whatever a program
\* that fits its types compiles to, every cell that the code written so far may
\* leave nonzero is below next_free of the innermost scope, and cell 0 is zero.
THEOREM ZeroKept == Fitting => (Spec => []ZeroInvariant)
<1>1. ZInv => ZeroInvariant
  BY DEF ZInv, Zeroed
<1>. QED  BY <1>1, CleanKept, PTL

\* No gadget of ir.cpp is given a dump, a flag or a cell to accumulate into that
\* may be nonzero when control first gets there.
THEOREM ScratchKept == Fitting => (Spec => []ScratchZero)
<1>1. ZInv => ScratchZero
  BY DEF ZInv, Zeroed
<1>. QED  BY <1>1, CleanKept, PTL

\* What CallsReclaim says of a step.
CallReclaims ==
  mode = "stmt" /\ Len(calls') < Len(calls) =>
    LET ret == IF mode' = "value" THEN {res'.val} ELSE {}
    IN  /\ \A c \in out'.dirty : c >= Top.base => c \in ret
        /\ \A c \in ret : NextFree' = c + 1
        /\ mode' = "stmt" => NextFree' = Top.base

\* Only the end of a call makes the call stack shorter.
LEMMA CallsEnd ==
  ASSUME IInv, [Next]_vars, mode = "stmt", Len(calls') < Len(calls)
  PROVE  EndCallInExpr \/ EndCallStmt
<1>1. Len(calls) \in Nat
  BY StatesTyped DEF Typed
<1>2. calls' # calls
  BY <1>1
<1>3. CASE Eval
  BY <1>3 DEF Eval, EvalNumber, EvalVar, EvalReadChar, EvalElement, EvalUnary, EvalBinary,
     EvalCall, EvalArgument, Expr
<1>4. CASE Resumption
  BY <1>4 DEF Resumption, ElementRead, UnaryConst, UnaryFlip, LeftEvaluated, FoldConstants,
     FoldConstantsBy, FoldOnTape, FoldOnTapeBy, BindValue, ReturnValue, LetValue, LetValueOf,
     SetValue, SetValueAt, ArraySize, IndexEvaluated, StoreValue, ValuePrinted, LoopEnter,
     IfEnter, Resume
<1>5. CASE Statement
  BY <1>2, <1>5 DEF Statement, CallStmt, CallBegins, ReturnStmt, DefineFunction, LetString,
     LetStruct, Let, Set, CreateArray, AssignArray, PrintStr, PrintVal, Loop, If
<1>6. CASE Calling
  BY <1>6 DEF Calling, BindAlias, BeginCall
<1>7. CASE LoopLeave \/ IfLeave \/ Finish \/ Illegal \/ Terminated \/ UNCHANGED vars
  BY <1>2, <1>7 DEF LoopLeave, IfLeave, Leave, Finish, Illegal, Reject, Terminated, vars
<1>. QED  BY <1>3, <1>4, <1>5, <1>6, <1>7 DEF Next

LEMMA StepCallReclaims ==
  ASSUME OInv, ZInv, [Next]_vars
  PROVE  CallReclaims
<1>. SUFFICES ASSUME mode = "stmt", Len(calls') < Len(calls)
              PROVE  LET ret == IF mode' = "value" THEN {res'.val} ELSE {}
                     IN  /\ \A c \in out'.dirty : c >= Top.base => c \in ret
                         /\ \A c \in ret : NextFree' = c + 1
                         /\ mode' = "stmt" => NextFree' = Top.base
  BY DEF CallReclaims
<1>1. IInv /\ Zeroed /\ (EndCallInExpr \/ EndCallStmt)
  BY CallsEnd DEF OInv, ZInv
<1>2. Len(calls) \in Nat /\ calls' # calls
  BY <1>1, StatesTyped DEF Typed
<1>3. Ended
  BY <1>1, <1>2, CallEnds
<1>4. Top.base \in Nat
  BY <1>1, FrameCleans DEF EndCallInExpr, EndCallStmt
<1>5. ASSUME NEW c \in out'.dirty, c >= Top.base
      PROVE  mode' = "value" /\ c = res'.val
  <2>1. /\ c \in out.dirty
        /\ c < Top.base \/ (mode' = "value" /\ c = res'.val)
    BY <1>3 DEF Ended
  <2>2. c \in Nat
    BY <1>1, <2>1, DirtyCells
  <2>. QED  BY <1>4, <1>5, <2>1, <2>2
<1>. QED  BY <1>3, <1>5 DEF Ended

\* README.md, "after a call returns, every cell it used is zeroed and reclaimed":
\* however deep the calls and the blocks in them nest, after a call statement
\* next_free is back where it was before the call and after a call in an
\* expression just past the return value, which alone is left in the frame.
THEOREM CallsReclaimed == Fitting => (Spec => CallsReclaim)
<1>1. OInv /\ ZInv /\ [Next]_vars => [CallReclaims]_vars
  BY StepCallReclaims
<1>2. Fitting => (Spec => [][CallReclaims]_vars)
  BY <1>1, CleanKept, PTL DEF Spec
<1>. QED  BY <1>2 DEF CallsReclaim, CallReclaims
=============================================================================
