---------------------------- MODULE OwnershipProofs ----------------------------
(***************************************************************************)
(* Proofs about the cells the code generator hands out: no two variables   *)
(* own a common cell, an intermediate value is in a cell of nobody else,   *)
(* and the references a generator holds across a nested one stay good.     *)
(*                                                                         *)
(* The tape is a stack as the activations are.  Each activation has a      *)
(* floor: what was taken before it lies below, what it and those above it  *)
(* take lies at the floor or above.  A step changes what is above one      *)
(* floor only.                                                             *)
(***************************************************************************)
EXTENDS CodegenProofs

-----------------------------------------------------------------------------
(* The inductive invariant.                                                *)

\* The lowest cell of an activation, and the first one above those it took
\* before it suspended itself.
Floor(a) ==
  IF a.kind \in {"call", "body"} THEN a.base
  ELSE IF a.held.type = "TEMP" THEN a.held.val
  ELSE a.mark

Ceiling(a) == IF a.kind = "store" /\ a.held.type = "TEMP" THEN a.mark + 1 ELSE a.mark

EndOf(v) == v.addr + v.len

\* The variable that o holds was declared before the activation began: a block
\* has declared those of its own scope itself.
Older(o, a) == o[1] < a.scope \/ (o[1] = a.scope /\ a.kind \notin Blocks)

\* Floors rise with the stack, and next_free is above all of them.
Stacked ==
  /\ NextFree >= 1
  /\ \A i \in 1..Len(acts) :
       /\ 1 <= Floor(acts[i]) /\ Floor(acts[i]) <= acts[i].mark
       /\ Ceiling(acts[i]) <= NextFree
  /\ \A i, j \in 1..Len(acts) : i < j => Ceiling(acts[i]) <= Floor(acts[j])
  /\ \A i \in 1..Len(acts) : \A o \in Owners :
       Older(o, acts[i]) => EndOf(VarOf(o)) <= Floor(acts[i])

\* Only these hold a cell, and it is below what is taken above them.
Holding == {"right", "store", "loopbody", "ifbody"}

Keeps ==
  \A i \in 1..Len(acts) : acts[i].held.type = "TEMP" =>
    acts[i].kind \in Holding /\ acts[i].held.val < Ceiling(acts[i])

\* The arguments bound so far lie in the frame, below the argument that is being
\* evaluated, each in a cell of its own.
Evaluating == mode \in {"expr", "value"}

Bindings ==
  \A i \in 1..Len(acts) : acts[i].kind = "call" =>
    /\ \A n \in Names : acts[i].binds[n].len > 0 =>
         /\ acts[i].base <= acts[i].binds[n].addr
         /\ i < Len(acts) \/ Evaluating => EndOf(acts[i].binds[n]) <= acts[i].mark
    /\ \A n, p \in Names :
         n # p => CellsOf(acts[i].binds[n]) \cap CellsOf(acts[i].binds[p]) = {}

\* Nothing is compiled between a return and the end of its body, and the call a
\* return returns from is the one whose frame scope it works in.
Returns ==
  /\ \A k \in 1..Len(calls) : calls[k].has_returned =>
       /\ k = Len(calls) /\ mode \in {"stmt", "error"}
       /\ acts # <<>> /\ Top.kind = "body" /\ Floor(Top) <= calls[k].ret_addr
  /\ \A i \in 1..Len(acts) : acts[i].kind = "return" =>
       /\ acts[i].nth \in 1..Len(calls)
       /\ calls[acts[i].nth].scope_barrier = acts[i].scope

\* A value is above what was taken before its evaluation began.
Results ==
  res.type = "TEMP" =>
    mode \in {"value", "error"} /\ acts # <<>> /\ Ceiling(Top) <= res.val

\* Nothing but its temp is left of an evaluation.
Exact ==
  /\ mode = "expr" \/ (mode = "value" /\ res.type # "TEMP") => NextFree = Ceiling(Top)
  /\ \A i \in 2..Len(acts) :
       acts[i - 1].kind \notin Blocks /\ acts[i].held.type # "TEMP"
         => Floor(acts[i]) = Ceiling(acts[i - 1])

\* The size of an array never wraps around.
Small == \A i \in 1..Len(acts) : acts[i].kind = "array" => acts[i].mark < MaxCells

Owned == Stacked /\ Keeps /\ Bindings /\ Returns /\ Results /\ Exact /\ Small

OInv == IInv /\ Owned /\ VariablesDisjoint /\ TempsOwned

-----------------------------------------------------------------------------
(* Facts about a state.                                                    *)

\* The cells an activation speaks of.
LEMMA ActivationTypes ==
  \A a \in Activation :
    /\ a.mark \in Nat /\ a.base \in Nat /\ a.nth \in Nat /\ a.scope \in Nat
    /\ a.held \in EvalResults /\ a.held.val \in Nat
    /\ a.binds \in [Names -> Variables]
    /\ Floor(a) \in Nat /\ Ceiling(a) \in Nat /\ a.mark <= Ceiling(a)
<1>. SUFFICES ASSUME NEW a \in Activation
              PROVE  /\ a.mark \in Nat /\ a.base \in Nat /\ a.nth \in Nat /\ a.scope \in Nat
                     /\ a.held \in EvalResults /\ a.held.val \in Nat
                     /\ a.binds \in [Names -> Variables]
                     /\ Floor(a) \in Nat /\ Ceiling(a) \in Nat /\ a.mark <= Ceiling(a)
  OBVIOUS
<1>1. /\ a.mark \in Nat /\ a.base \in Nat /\ a.nth \in Nat /\ a.scope \in Nat
      /\ a.held \in EvalResults /\ a.binds \in [Names -> Variables]
  BY DEF Activation
<1>2. a.held.val \in Nat
  BY <1>1 DEF EvalResults
<1>. QED  BY <1>1, <1>2 DEF Floor, Ceiling

LEMMA VariableCells ==
  \A v \in Variables : v.addr \in Nat /\ v.len \in Nat /\ EndOf(v) \in Nat
BY DEF Variables, EndOf

LEMMA NoVarsCells ==
  \A n \in Names : NoVars[n].len = 0
BY DEF NoVars, Undeclared, Variable

\* The activations, the variables and the lengths of the stacks.
Typed ==
  /\ Len(acts) \in Nat /\ Len(calls) \in Nat /\ Depth \in Nat /\ Depth >= 1
  /\ NextFree \in Nat
  /\ \A i \in 1..Len(acts) :
       /\ acts[i] \in Activation
       /\ acts[i].mark \in Nat /\ acts[i].base \in Nat
       /\ acts[i].scope \in Nat /\ acts[i].scope <= Depth
       /\ acts[i].held \in EvalResults /\ acts[i].held.val \in Nat
       /\ acts[i].binds \in [Names -> Variables]
       /\ Floor(acts[i]) \in Nat /\ Ceiling(acts[i]) \in Nat
       /\ acts[i].mark <= Ceiling(acts[i])
  /\ \A k \in 1..Depth : \A n \in Names : scopes[k].vars[n] \in Variables
  /\ \A o \in Owners : /\ VarOf(o) \in Variables /\ VarOf(o).addr \in Nat
                       /\ VarOf(o).len \in Nat /\ EndOf(VarOf(o)) \in Nat
                       /\ o[1] \in 1..Depth /\ o[2] \in Names
  /\ \A k \in 1..Len(calls) : calls[k].ret_addr \in Nat
  /\ res.val \in Nat

LEMMA StatesTyped == IInv => Typed
<1>. SUFFICES ASSUME IInv
              PROVE  Typed
  OBVIOUS
<1>1. Types /\ Nested /\ StackTypes
  BY DEF IInv, Types
<1>2. Len(acts) \in Nat /\ Len(calls) \in Nat /\ Depth \in Nat /\ Depth >= 1
      /\ NextFree \in Nat
  BY <1>1, StackFacts, Context
<1>3. \A i \in 1..Len(acts) : acts[i] \in Activation
  BY <1>1 DEF StackTypes
<1>4. \A i \in 1..Len(acts) : acts[i].scope \in Nat /\ acts[i].scope <= Depth
  BY <1>1, ScopesBelow
<1>5. \A k \in 1..Depth : \A n \in Names : scopes[k].vars[n] \in Variables
  <2>. HIDE DEF Depth
  <2>1. \A k \in 1..Depth : scopes[k].vars \in [Names -> Variables]
    BY <1>1, Context
  <2>. QED  BY <2>1
<1>6. ASSUME NEW o \in Owners
      PROVE  /\ VarOf(o) \in Variables /\ VarOf(o).addr \in Nat
             /\ VarOf(o).len \in Nat /\ EndOf(VarOf(o)) \in Nat
             /\ o[1] \in 1..Depth /\ o[2] \in Names
  <2>1. o[1] \in 1..Depth /\ o[2] \in Names
    BY DEF Owners
  <2>2. VarOf(o) \in Variables
    BY <1>5, <2>1 DEF VarOf
  <2>. QED  BY <2>1, <2>2, VariableCells
<1>7. \A k \in 1..Len(calls) : calls[k].ret_addr \in Nat
  <2>1. \A k \in 1..Len(calls) : calls[k] \in Call
    BY <1>1 DEF StackTypes
  <2>. QED  BY <2>1 DEF Call
<1>8. res.val \in Nat
  BY <1>1 DEF Types, EvalResults
<1>. QED  BY <1>2, <1>3, <1>4, <1>5, <1>6, <1>7, <1>8, ActivationTypes DEF Typed

LEMMA StatesTypedAfter == IInv' => Typed'
BY StatesTyped, PTL

\* The cells of a variable, and what they are when it is one cell.
LEMMA Cells ==
  ASSUME NEW v \in Variables
  PROVE  /\ \A c \in CellsOf(v) : c \in Nat /\ v.len > 0 /\ v.addr <= c /\ c < EndOf(v)
         /\ v.len > 0 => EndOf(v) - 1 \in CellsOf(v) /\ v.addr \in CellsOf(v)
         /\ v.len = 0 => CellsOf(v) = {}
<1>1. v.addr \in Nat /\ v.len \in Nat
  BY DEF Variables
<1>. QED  BY <1>1 DEF CellsOf, EndOf

\* What an activation holds.
LEMMA Held ==
  ASSUME NEW a \in Activation, NEW c
  PROVE  c \in HeldCells(a) <=>
           \/ a.held.type = "TEMP" /\ c = a.held.val
           \/ a.kind = "call" /\ \E n \in Names : c \in CellsOf(a.binds[n])
BY DEF HeldCells

\* Nothing has been returned while anything is evaluated.
LEMMA NoneReturned ==
  ASSUME IInv, Returns, mode \notin {"stmt", "error"} \/ ~HasReturned
  PROVE  \A k \in 1..Len(calls) : ~calls[k].has_returned
<1>. SUFFICES ASSUME NEW k \in 1..Len(calls), calls[k].has_returned
              PROVE  FALSE
  OBVIOUS
<1>1. k = Len(calls) /\ mode \in {"stmt", "error"}
  BY DEF Returns
<1>2. calls # <<>>
  BY StatesTyped DEF Typed
<1>. QED  BY <1>1, <1>2 DEF HasReturned, CurrentCall

-----------------------------------------------------------------------------
(* Steps above a floor.                                                    *)

\* The variable that o holds after the step.
NewVar(o) == scopes'[o[1]].vars[o[2]]

\* An activation that takes its cells from b up.
Based(a, b) ==
  /\ b <= Floor(a) /\ Floor(a) <= a.mark /\ Ceiling(a) <= NextFree'
  /\ a.held.type = "TEMP" => a.kind \in Holding /\ a.held.val < Ceiling(a)
  /\ a.kind = "call" =>
       /\ \A n \in Names : a.binds[n].len > 0 =>
            /\ a.base <= a.binds[n].addr /\ EndOf(a.binds[n]) <= NextFree'
            /\ Evaluating' => EndOf(a.binds[n]) <= a.mark
       /\ \A n, p \in Names :
            n # p => CellsOf(a.binds[n]) \cap CellsOf(a.binds[p]) = {}
  /\ a.kind = "return" =>
       a.nth \in 1..Len(calls') /\ calls'[a.nth].scope_barrier = a.scope
  /\ a.kind = "array" => a.mark < MaxCells

\* It is above the first m, right above the expression that waits for it.
Founded(a, b, m) ==
  /\ Based(a, b)
  /\ m >= 1 /\ acts[m].kind \notin Blocks /\ a.held.type # "TEMP"
       => Floor(a) = Ceiling(acts[m])

\* The first m activations stay, and what they and the variables that stay own
\* is below b. The fresh variables, the activation above the first m, the value
\* that is returned and the cell a return fills are at b or above.
ActsSettle(m, b) ==
  /\ Kept(m) /\ b >= 1 /\ b <= NextFree'
  /\ m = Len(acts) => mode \in {"stmt", "expr"}
  /\ \A i \in 1..m : Ceiling(acts[i]) <= b
  /\ Len(acts') = m + 1 => Founded(acts'[m + 1], b, m)
  /\ \A i \in 1..m : acts[i].kind = "return" =>
       /\ acts[i].nth \in 1..Len(calls')
       /\ calls'[acts[i].nth].scope_barrier = acts[i].scope

VarsSettle(b, fresh) ==
  /\ fresh \subseteq Owners'
  /\ \A o \in Owners' :
       o \in fresh \/ (o \in Owners /\ NewVar(o) = VarOf(o) /\ EndOf(VarOf(o)) <= b)
  /\ \A o \in fresh : /\ b <= NewVar(o).addr /\ EndOf(NewVar(o)) <= NextFree'
                      /\ \A i \in 1..Len(acts') : ~Older(o, acts'[i])
  /\ \A o, p \in fresh : o # p => CellsOf(NewVar(o)) \cap CellsOf(NewVar(p)) = {}

ValueSettles(m, b) ==
  /\ res'.type = "TEMP" =>
       /\ mode' = "value" /\ Len(acts') = m /\ m >= 1
       /\ b <= res'.val /\ res'.val < NextFree'
  /\ mode' = "expr" \/ (mode' = "value" /\ res'.type # "TEMP")
       => NextFree' = Ceiling(acts'[Len(acts')])

CallsSettle(m, b) ==
  \A k \in 1..Len(calls') : calls'[k].has_returned =>
    /\ k = Len(calls') /\ mode' = "stmt" /\ Len(acts') = m /\ m >= 1
    /\ acts[m].kind = "body"
    /\ b <= calls'[k].ret_addr /\ calls'[k].ret_addr < NextFree'

\* A step that declares a variable returns no value and leaves nothing held
\* above the floor.
FreshAlone(m, fresh) ==
  fresh # {} =>
    /\ res'.type # "TEMP"
    /\ \A k \in 1..Len(calls') : ~calls'[k].has_returned
    /\ Len(acts') = m + 1 => HeldCells(acts'[m + 1]) = {}

Settles(m, b, fresh) ==
  /\ ActsSettle(m, b) /\ VarsSettle(b, fresh) /\ ValueSettles(m, b)
  /\ CallsSettle(m, b) /\ FreshAlone(m, fresh)

\* What the first m activations hold is below b.
LEMMA KeptCells ==
  ASSUME OInv, NEW m, NEW b \in Nat, ActsSettle(m, b)
  PROVE  \A i \in 1..m : \A c \in HeldCells(acts[i]) : c \in Nat /\ 1 <= c /\ c < b
<1>. SUFFICES ASSUME NEW i \in 1..m, NEW c \in HeldCells(acts[i])
              PROVE  c \in Nat /\ 1 <= c /\ c < b
  OBVIOUS
<1>1. IInv /\ Stacked /\ Keeps /\ Bindings
  BY DEF OInv, Owned
<1>2. Len(acts) \in Nat /\ m \in Nat /\ m <= Len(acts) /\ i \in 1..Len(acts)
  BY <1>1, StatesTyped DEF Typed, ActsSettle, Kept
<1>3. /\ acts[i].mark \in Nat /\ acts[i].base \in Nat /\ acts[i].held.val \in Nat
      /\ acts[i].binds \in [Names -> Variables]
      /\ Floor(acts[i]) \in Nat /\ Ceiling(acts[i]) \in Nat
      /\ acts[i].mark <= Ceiling(acts[i])
  BY <1>1, <1>2, StatesTyped DEF Typed
<1>4. /\ 1 <= Floor(acts[i]) /\ Ceiling(acts[i]) <= b
  BY <1>1, <1>2 DEF Stacked, ActsSettle
<1>5. CASE acts[i].held.type = "TEMP" /\ c = acts[i].held.val
  <2>1. acts[i].kind \in Holding /\ acts[i].held.val < Ceiling(acts[i])
    BY <1>1, <1>2, <1>5 DEF Keeps
  <2>2. Floor(acts[i]) = acts[i].held.val
    BY <1>5, <2>1 DEF Floor, Holding
  <2>. QED  BY <1>3, <1>4, <1>5, <2>1, <2>2
<1>6. CASE acts[i].kind = "call" /\ \E n \in Names : c \in CellsOf(acts[i].binds[n])
  <2>1. PICK n \in Names : c \in CellsOf(acts[i].binds[n])
    BY <1>6
  <2>. DEFINE v == acts[i].binds[n]
  <2>2. v \in Variables
    BY <1>3
  <2>3. c \in Nat /\ v.len > 0 /\ v.addr <= c /\ c < EndOf(v) /\ v.addr \in Nat /\ EndOf(v) \in Nat
    BY <2>1, <2>2, Cells, VariableCells
  <2>4. i < Len(acts) \/ Evaluating
    <3>1. i < Len(acts) \/ m = Len(acts)
      BY <1>2
    <3>2. CASE m = Len(acts) /\ i = Len(acts)
      <4>1. acts # <<>> /\ Top.kind = "call"
        BY <1>2, <1>6, <3>2 DEF Top
      <4>2. mode # "stmt"
        BY <1>1, <4>1 DEF IInv, ModeShape, Blocks
      <4>. QED  BY <3>2, <4>2 DEF ActsSettle, Evaluating
    <3>. QED  BY <1>2, <3>1, <3>2
  <2>5. acts[i].base <= v.addr /\ EndOf(v) <= acts[i].mark
    BY <1>1, <1>2, <1>6, <2>3, <2>4 DEF Bindings
  <2>6. Floor(acts[i]) = acts[i].base
    BY <1>6 DEF Floor
  <2>. QED  BY <1>3, <1>4, <2>3, <2>5, <2>6
<1>. QED  BY <1>1, <1>2, <1>5, <1>6, StatesTyped, Held DEF Typed

\* The activations after the step.
LEMMA ActsAfter ==
  ASSUME IInv, IInv', NEW m, Kept(m)
  PROVE  /\ m \in Nat /\ Len(acts) \in Nat /\ Len(acts') \in Nat /\ m <= Len(acts)
         /\ m <= Len(acts') /\ Len(acts') <= m + 1
         /\ \A i \in 1..Len(acts') :
              \/ i \in 1..m /\ i \in 1..Len(acts) /\ acts'[i] = acts[i]
              \/ i = m + 1 /\ Len(acts') = m + 1
         /\ \A i \in 1..Len(acts') :
              /\ acts'[i] \in Activation
              /\ acts'[i].mark \in Nat /\ acts'[i].base \in Nat
              /\ acts'[i].held.val \in Nat
              /\ acts'[i].binds \in [Names -> Variables]
              /\ Floor(acts'[i]) \in Nat /\ Ceiling(acts'[i]) \in Nat
              /\ acts'[i].mark <= Ceiling(acts'[i])
         /\ NextFree' \in Nat
         /\ \A o \in Owners' : /\ NewVar(o) \in Variables /\ NewVar(o).addr \in Nat
                               /\ NewVar(o).len \in Nat /\ EndOf(NewVar(o)) \in Nat
         /\ \A k \in 1..Len(calls') : calls'[k].ret_addr \in Nat
         /\ res'.val \in Nat
<1>1. /\ m \in Nat /\ Len(acts) \in Nat /\ Len(acts') \in Nat /\ m <= Len(acts)
      /\ Len(acts') = m \/ Len(acts') = m + 1
      /\ \A i \in 1..m : acts'[i] = acts[i]
  BY StatesTyped DEF Typed, Kept
<1>2. Typed'
  BY StatesTypedAfter
<1>3. \A o \in Owners' : /\ NewVar(o) \in Variables /\ NewVar(o).addr \in Nat
                         /\ NewVar(o).len \in Nat /\ EndOf(NewVar(o)) \in Nat
  BY <1>2 DEF Typed, NewVar, VarOf
<1>. QED  BY <1>1, <1>2, <1>3 DEF Typed

LEMMA SettledStacked ==
  ASSUME OInv, IInv', NEW m, NEW b \in Nat, NEW fresh, Settles(m, b, fresh)
  PROVE  Stacked'
<1>1. /\ IInv /\ Stacked /\ ActsSettle(m, b) /\ VarsSettle(b, fresh) /\ Kept(m)
      /\ b >= 1 /\ b <= NextFree'
  BY DEF OInv, Owned, Settles, ActsSettle
<1>. DEFINE k == Len(acts')
            N == Len(acts)
<1>2. /\ m \in Nat /\ N \in Nat /\ m <= N /\ k \in Nat
      /\ \A i \in 1..k : \/ i \in 1..m /\ i \in 1..N /\ acts'[i] = acts[i]
                         \/ i = m + 1 /\ k = m + 1
      /\ \A i \in 1..k : /\ acts'[i].mark \in Nat /\ Floor(acts'[i]) \in Nat
                         /\ Ceiling(acts'[i]) \in Nat /\ acts'[i].mark <= Ceiling(acts'[i])
      /\ NextFree' \in Nat
  BY <1>1, ActsAfter
<1>3. k = m + 1 => /\ b <= Floor(acts'[m + 1]) /\ Floor(acts'[m + 1]) <= acts'[m + 1].mark
                   /\ Ceiling(acts'[m + 1]) <= NextFree'
  BY <1>1 DEF ActsSettle, Founded, Based
<1>4. \A i \in 1..m : Ceiling(acts[i]) <= b
  BY <1>1 DEF ActsSettle
<1>. HIDE DEF k, N
<1>5. NextFree' >= 1
  BY <1>1, <1>2
<1>6. ASSUME NEW i \in 1..k
      PROVE  /\ 1 <= Floor(acts'[i]) /\ Floor(acts'[i]) <= acts'[i].mark
             /\ Ceiling(acts'[i]) <= NextFree'
  <2>1. CASE i \in 1..m /\ i \in 1..N /\ acts'[i] = acts[i]
    <3>1. 1 <= Floor(acts[i]) /\ Floor(acts[i]) <= acts[i].mark
      BY <1>1, <2>1 DEF Stacked, N
    <3>. QED  BY <1>1, <1>2, <1>4, <2>1, <3>1
  <2>2. CASE i = m + 1 /\ k = m + 1
    BY <1>1, <1>2, <1>3, <2>2
  <2>. QED  BY <1>2, <2>1, <2>2
<1>7. ASSUME NEW i \in 1..k, NEW j \in 1..k, i < j
      PROVE  Ceiling(acts'[i]) <= Floor(acts'[j])
  <2>1. i \in 1..m /\ i \in 1..N /\ acts'[i] = acts[i]
    BY <1>2, <1>7
  <2>2. CASE j \in 1..m /\ j \in 1..N /\ acts'[j] = acts[j]
    <3>1. Ceiling(acts[i]) <= Floor(acts[j])
      BY <1>1, <1>7, <2>1, <2>2 DEF Stacked, N
    <3>. QED  BY <2>1, <2>2, <3>1
  <2>3. CASE j = m + 1 /\ k = m + 1
    BY <1>1, <1>2, <1>3, <1>4, <2>1, <2>3
  <2>. QED  BY <1>2, <2>2, <2>3
<1>8. ASSUME NEW i \in 1..k, NEW o \in Owners', Older(o, acts'[i])
      PROVE  EndOf(NewVar(o)) <= Floor(acts'[i])
  <2>1. o \in Owners /\ NewVar(o) = VarOf(o) /\ EndOf(VarOf(o)) <= b
    BY <1>1, <1>8 DEF VarsSettle, k
  <2>2. EndOf(VarOf(o)) \in Nat
    BY <1>1, <2>1, StatesTyped DEF Typed
  <2>3. CASE i \in 1..m /\ i \in 1..N /\ acts'[i] = acts[i]
    BY <1>1, <1>8, <2>1, <2>3 DEF Stacked, N
  <2>4. CASE i = m + 1 /\ k = m + 1
    BY <1>1, <1>2, <1>3, <2>1, <2>2, <2>4
  <2>. QED  BY <1>2, <2>3, <2>4
<1>. QED  BY <1>5, <1>6, <1>7, <1>8 DEF Stacked, k, NewVar, VarOf

LEMMA SettledHeld ==
  ASSUME OInv, IInv', NEW m, NEW b \in Nat, NEW fresh, Settles(m, b, fresh)
  PROVE  Keeps' /\ Small' /\ Results'
<1>1. /\ IInv /\ Keeps /\ Small /\ ActsSettle(m, b) /\ ValueSettles(m, b) /\ Kept(m)
  BY DEF OInv, Owned, Settles, ActsSettle
<1>2. /\ m \in Nat
      /\ \A i \in 1..Len(acts') : \/ i \in 1..m /\ i \in 1..Len(acts) /\ acts'[i] = acts[i]
                                  \/ i = m + 1 /\ Len(acts') = m + 1
  BY <1>1, ActsAfter
<1>3. Len(acts') = m + 1 =>
        /\ acts'[m + 1].held.type = "TEMP" =>
             acts'[m + 1].kind \in Holding /\ acts'[m + 1].held.val < Ceiling(acts'[m + 1])
        /\ acts'[m + 1].kind = "array" => acts'[m + 1].mark < MaxCells
  BY <1>1 DEF ActsSettle, Founded, Based
<1>4. Keeps'
  <2>1. \A i \in 1..Len(acts') : acts'[i].held.type = "TEMP" =>
          acts'[i].kind \in Holding /\ acts'[i].held.val < Ceiling(acts'[i])
    BY <1>1, <1>2, <1>3 DEF Keeps
  <2>. QED  BY <2>1 DEF Keeps
<1>5. Small'
  BY <1>1, <1>2, <1>3 DEF Small
<1>6. Results'
  <2>. SUFFICES ASSUME res'.type = "TEMP"
                PROVE  mode' \in {"value", "error"} /\ acts' # <<>> /\ Ceiling(Top') <= res'.val
    BY DEF Results
  <2>1. mode' = "value" /\ Len(acts') = m /\ m >= 1 /\ b <= res'.val
    BY <1>1 DEF ValueSettles
  <2>2. m \in 1..m /\ m \in 1..Len(acts')
    BY <1>2, <2>1
  <2>3. acts'[m] = acts[m] /\ Ceiling(acts[m]) <= b
    BY <1>1, <2>2 DEF ActsSettle, Kept
  <2>4. Top' = acts'[m] /\ acts' # <<>>
    BY <2>1, <2>2 DEF Top
  <2>5. Ceiling(acts'[m]) \in Nat /\ res'.val \in Nat
    BY <1>1, <2>2, ActsAfter
  <2>. QED  BY <2>1, <2>3, <2>4, <2>5
<1>. QED  BY <1>4, <1>5, <1>6

LEMMA SettledBindings ==
  ASSUME OInv, IInv', NEW m, NEW b \in Nat, NEW fresh, Settles(m, b, fresh)
  PROVE  Bindings'
<1>1. IInv /\ Bindings /\ ActsSettle(m, b) /\ Kept(m)
  BY DEF OInv, Owned, Settles, ActsSettle
<1>2. /\ m \in Nat /\ Len(acts) \in Nat /\ m <= Len(acts)
      /\ \A i \in 1..Len(acts') : \/ i \in 1..m /\ i \in 1..Len(acts) /\ acts'[i] = acts[i]
                                  \/ i = m + 1 /\ Len(acts') = m + 1
  BY <1>1, ActsAfter
<1>. SUFFICES ASSUME NEW i \in 1..Len(acts'), acts'[i].kind = "call"
              PROVE  /\ \A n \in Names : acts'[i].binds[n].len > 0 =>
                          /\ acts'[i].base <= acts'[i].binds[n].addr
                          /\ i < Len(acts') \/ Evaluating'
                               => EndOf(acts'[i].binds[n]) <= acts'[i].mark
                     /\ \A n, p \in Names :
                          n # p => CellsOf(acts'[i].binds[n]) \cap CellsOf(acts'[i].binds[p]) = {}
  BY DEF Bindings
<1>3. CASE i \in 1..m /\ i \in 1..Len(acts) /\ acts'[i] = acts[i]
  <2>1. i < Len(acts) \/ Evaluating
    <3>1. CASE m = Len(acts) /\ i = Len(acts)
      <4>1. acts # <<>> /\ Top.kind = "call"
        BY <1>2, <1>3, <3>1 DEF Top
      <4>2. mode # "stmt"
        BY <1>1, <4>1 DEF IInv, ModeShape, Blocks
      <4>. QED  BY <1>1, <3>1, <4>2 DEF ActsSettle, Evaluating
    <3>. QED  BY <1>2, <1>3, <3>1
  <2>. QED  BY <1>1, <1>3, <2>1 DEF Bindings
<1>4. CASE i = m + 1 /\ Len(acts') = m + 1
  <2>1. Founded(acts'[i], b, m) /\ ~(i < Len(acts'))
    BY <1>1, <1>2, <1>4 DEF ActsSettle
  <2>2. /\ \A n \in Names : acts'[i].binds[n].len > 0 =>
             /\ acts'[i].base <= acts'[i].binds[n].addr
             /\ Evaluating' => EndOf(acts'[i].binds[n]) <= acts'[i].mark
        /\ \A n, p \in Names :
             n # p => CellsOf(acts'[i].binds[n]) \cap CellsOf(acts'[i].binds[p]) = {}
    BY <2>1 DEF Founded, Based
  <2>. QED  BY <2>1, <2>2
<1>. QED  BY <1>2, <1>3, <1>4

LEMMA SettledReturns ==
  ASSUME OInv, IInv', NEW m, NEW b \in Nat, NEW fresh, Settles(m, b, fresh)
  PROVE  Returns'
<1>1. /\ IInv /\ Stacked /\ ActsSettle(m, b) /\ CallsSettle(m, b) /\ Kept(m)
  BY DEF OInv, Owned, Settles, ActsSettle
<1>2. /\ m \in Nat
      /\ \A i \in 1..Len(acts') : \/ i \in 1..m /\ i \in 1..Len(acts) /\ acts'[i] = acts[i]
                                  \/ i = m + 1 /\ Len(acts') = m + 1
  BY <1>1, ActsAfter
<1>3. ASSUME NEW k \in 1..Len(calls'), calls'[k].has_returned
      PROVE  /\ k = Len(calls') /\ mode' \in {"stmt", "error"}
             /\ acts' # <<>> /\ Top'.kind = "body" /\ Floor(Top') <= calls'[k].ret_addr
  <2>1. /\ k = Len(calls') /\ mode' = "stmt" /\ Len(acts') = m /\ m >= 1
        /\ acts[m].kind = "body" /\ b <= calls'[k].ret_addr
    BY <1>1, <1>3 DEF CallsSettle
  <2>2. m \in 1..m /\ m \in 1..Len(acts') /\ m \in 1..Len(acts)
    BY <1>2, <2>1
  <2>3. acts'[m] = acts[m] /\ Ceiling(acts[m]) <= b /\ Floor(acts[m]) <= acts[m].mark
    BY <1>1, <2>2 DEF ActsSettle, Kept, Stacked
  <2>4. Top' = acts'[m] /\ acts' # <<>>
    BY <2>1, <2>2 DEF Top
  <2>5. /\ Floor(acts[m]) \in Nat /\ acts[m].mark \in Nat /\ Ceiling(acts[m]) \in Nat
        /\ acts[m].mark <= Ceiling(acts[m]) /\ calls'[k].ret_addr \in Nat
    BY <1>1, <2>2, StatesTyped, ActsAfter DEF Typed
  <2>. QED  BY <2>1, <2>3, <2>4, <2>5
<1>4. ASSUME NEW i \in 1..Len(acts'), acts'[i].kind = "return"
      PROVE  /\ acts'[i].nth \in 1..Len(calls')
             /\ calls'[acts'[i].nth].scope_barrier = acts'[i].scope
  BY <1>1, <1>2, <1>4 DEF ActsSettle, Founded, Based
<1>. QED  BY <1>3, <1>4 DEF Returns

LEMMA SettledExact ==
  ASSUME OInv, IInv', NEW m, NEW b \in Nat, NEW fresh, Settles(m, b, fresh)
  PROVE  Exact'
<1>1. /\ IInv /\ Exact /\ ActsSettle(m, b) /\ ValueSettles(m, b) /\ Kept(m)
  BY DEF OInv, Owned, Settles, ActsSettle
<1>2. /\ m \in Nat /\ Len(acts) \in Nat /\ Len(acts') \in Nat
      /\ \A i \in 1..Len(acts') : \/ i \in 1..m /\ i \in 1..Len(acts) /\ acts'[i] = acts[i]
                                  \/ i = m + 1 /\ Len(acts') = m + 1
  BY <1>1, ActsAfter
<1>3. mode' = "expr" \/ (mode' = "value" /\ res'.type # "TEMP") => NextFree' = Ceiling(Top')
  <2>1. Top' = acts'[Len(acts')]
    BY DEF Top
  <2>. QED  BY <1>1, <2>1 DEF ValueSettles
<1>4. ASSUME NEW i \in 2..Len(acts'), acts'[i - 1].kind \notin Blocks,
             acts'[i].held.type # "TEMP"
      PROVE  Floor(acts'[i]) = Ceiling(acts'[i - 1])
  <2>1. i \in 1..Len(acts') /\ i - 1 \in 1..Len(acts') /\ i \in Nat
    BY <1>2
  <2>2. i - 1 \in 1..m /\ acts'[i - 1] = acts[i - 1]
    BY <1>2, <2>1
  <2>3. CASE i \in 1..m /\ i \in 1..Len(acts) /\ acts'[i] = acts[i]
    <3>1. i \in 2..Len(acts)
      BY <1>2, <2>1, <2>3
    <3>. QED  BY <1>1, <1>4, <2>2, <2>3, <3>1 DEF Exact
  <2>4. CASE i = m + 1 /\ Len(acts') = m + 1
    <3>1. m >= 1 /\ i - 1 = m
      BY <1>2, <2>1, <2>4
    <3>. QED  BY <1>1, <1>2, <1>4, <2>2, <2>4, <3>1 DEF ActsSettle, Founded, Based
  <2>. QED  BY <1>2, <2>1, <2>3, <2>4
<1>. QED  BY <1>3, <1>4 DEF Exact

LEMMA SettledVariables ==
  ASSUME OInv, IInv', NEW m, NEW b \in Nat, NEW fresh, Settles(m, b, fresh)
  PROVE  VariablesDisjoint'
<1>1. /\ IInv /\ VariablesDisjoint /\ VarsSettle(b, fresh) /\ Kept(m)
      /\ b >= 1 /\ b <= NextFree'
  BY DEF OInv, Settles, ActsSettle
<1>2. /\ NextFree' \in Nat
      /\ \A o \in Owners' : /\ NewVar(o) \in Variables /\ NewVar(o).addr \in Nat
                            /\ NewVar(o).len \in Nat /\ EndOf(NewVar(o)) \in Nat
  BY <1>1, ActsAfter
<1>3. \A o \in Owners' \ fresh : /\ o \in Owners /\ NewVar(o) = VarOf(o)
                                 /\ EndOf(NewVar(o)) <= b
  BY <1>1 DEF VarsSettle
<1>4. \A o \in fresh : /\ o \in Owners' /\ b <= NewVar(o).addr
                       /\ EndOf(NewVar(o)) <= NextFree'
  BY <1>1 DEF VarsSettle
<1>5. ASSUME NEW o \in Owners'
      PROVE  NewVar(o).addr > 0 /\ EndOf(NewVar(o)) <= NextFree'
  <2>1. CASE o \in fresh
    BY <1>1, <1>2, <1>4, <2>1
  <2>2. CASE o \notin fresh
    BY <1>1, <1>2, <1>3, <2>2 DEF VariablesDisjoint
  <2>. QED  BY <2>1, <2>2
<1>6. ASSUME NEW o \in Owners', NEW p \in Owners', o # p,
             NEW c \in CellsOf(NewVar(o)), c \in CellsOf(NewVar(p))
      PROVE  FALSE
  <2>1. /\ c \in Nat /\ NewVar(o).addr <= c /\ c < EndOf(NewVar(o))
        /\ NewVar(p).addr <= c /\ c < EndOf(NewVar(p))
    BY <1>2, <1>6, Cells
  <2>2. CASE o \in fresh /\ p \in fresh
    BY <1>1, <1>6, <2>2 DEF VarsSettle
  <2>3. CASE o \notin fresh /\ p \notin fresh
    BY <1>1, <1>3, <1>6, <2>3 DEF VariablesDisjoint
  <2>4. CASE o \in fresh /\ p \notin fresh
    BY <1>2, <1>3, <1>4, <2>1, <2>4
  <2>5. CASE o \notin fresh /\ p \in fresh
    BY <1>2, <1>3, <1>4, <2>1, <2>5
  <2>. QED  BY <2>2, <2>3, <2>4, <2>5
<1>7. \A o, p \in Owners' : o # p => CellsOf(NewVar(o)) \cap CellsOf(NewVar(p)) = {}
  BY <1>6
<1>. QED  BY <1>5, <1>7 DEF VariablesDisjoint, NewVar, VarOf, EndOf

\* The cells of the values that no activation holds.
Current ==
  (IF res.type = "TEMP" THEN {res.val} ELSE {}) \cup
  (IF HasReturned THEN {CurrentCall.ret_addr} ELSE {})

\* What an activation above the floor holds is at the floor or above.
LEMMA FoundedCells ==
  ASSUME IInv, IInv', NEW m, Kept(m), NEW b \in Nat,
         Len(acts') = m + 1, Founded(acts'[m + 1], b, m)
  PROVE  \A c \in HeldCells(acts'[m + 1]) : c \in Nat /\ b <= c /\ c < NextFree'
<1>. DEFINE a == acts'[m + 1]
<1>1. m \in Nat /\ m + 1 \in 1..Len(acts')
  BY ActsAfter
<1>2. /\ a \in Activation /\ a.mark \in Nat /\ a.base \in Nat /\ a.held.val \in Nat
      /\ a.binds \in [Names -> Variables]
      /\ Floor(a) \in Nat /\ Ceiling(a) \in Nat /\ NextFree' \in Nat
  BY <1>1, ActsAfter
<1>3. /\ b <= Floor(a) /\ Ceiling(a) <= NextFree'
      /\ a.held.type = "TEMP" => a.kind \in Holding /\ a.held.val < Ceiling(a)
      /\ a.kind = "call" => \A n \in Names : a.binds[n].len > 0 =>
           a.base <= a.binds[n].addr /\ EndOf(a.binds[n]) <= NextFree'
  BY DEF Founded, Based
<1>. HIDE DEF a
<1>. SUFFICES ASSUME NEW c \in HeldCells(a)
              PROVE  c \in Nat /\ b <= c /\ c < NextFree'
  BY DEF a
<1>4. CASE a.held.type = "TEMP" /\ c = a.held.val
  BY <1>2, <1>3, <1>4 DEF Floor, Holding
<1>5. CASE a.kind = "call" /\ \E n \in Names : c \in CellsOf(a.binds[n])
  <2>1. PICK n \in Names : c \in CellsOf(a.binds[n])
    BY <1>5
  <2>. DEFINE v == a.binds[n]
  <2>2. v \in Variables
    BY <1>2
  <2>3. c \in Nat /\ v.len > 0 /\ v.addr <= c /\ c < EndOf(v) /\ v.addr \in Nat /\ EndOf(v) \in Nat
    BY <2>1, <2>2, Cells, VariableCells
  <2>4. a.base <= v.addr /\ EndOf(v) <= NextFree' /\ Floor(a) = a.base
    BY <1>3, <1>5, <2>3 DEF Floor
  <2>. QED  BY <1>2, <1>3, <2>3, <2>4
<1>. QED  BY <1>2, <1>4, <1>5, Held

LEMMA SettledTemps ==
  ASSUME OInv, IInv', NEW m, NEW b \in Nat, NEW fresh, Settles(m, b, fresh)
  PROVE  TempsOwned'
<1>1. /\ IInv /\ TempsOwned /\ ActsSettle(m, b) /\ VarsSettle(b, fresh)
      /\ ValueSettles(m, b) /\ CallsSettle(m, b) /\ FreshAlone(m, fresh) /\ Kept(m)
      /\ b >= 1 /\ b <= NextFree'
  BY DEF OInv, Settles, ActsSettle
<1>2. /\ m \in Nat /\ Len(acts') \in Nat /\ NextFree' \in Nat /\ res'.val \in Nat
      /\ \A i \in 1..Len(acts') : \/ i \in 1..m /\ i \in 1..Len(acts) /\ acts'[i] = acts[i]
                                  \/ i = m + 1 /\ Len(acts') = m + 1
      /\ \A o \in Owners' : /\ NewVar(o) \in Variables /\ NewVar(o).addr \in Nat
                            /\ NewVar(o).len \in Nat /\ EndOf(NewVar(o)) \in Nat
      /\ \A k \in 1..Len(calls') : calls'[k].ret_addr \in Nat
  BY <1>1, ActsAfter
<1>3. \A i \in 1..m : \A c \in HeldCells(acts[i]) : c \in Nat /\ 1 <= c /\ c < b
  BY <1>1, KeptCells
<1>4. Len(acts') = m + 1 =>
        \A c \in HeldCells(acts'[m + 1]) : c \in Nat /\ b <= c /\ c < NextFree'
  BY <1>1, FoundedCells DEF ActsSettle
<1>5. \A c \in Current' :
        c \in Nat /\ b <= c /\ c < NextFree' /\ Len(acts') = m /\ fresh = {}
  <2>1. ASSUME res'.type = "TEMP"
        PROVE  b <= res'.val /\ res'.val < NextFree' /\ Len(acts') = m /\ fresh = {}
    BY <1>1, <2>1 DEF ValueSettles, FreshAlone
  <2>2. ASSUME HasReturned'
        PROVE  /\ CurrentCall'.ret_addr \in Nat /\ b <= CurrentCall'.ret_addr
               /\ CurrentCall'.ret_addr < NextFree' /\ Len(acts') = m /\ fresh = {}
    <3>1. calls' # <<>> /\ calls'[Len(calls')].has_returned
      BY <2>2 DEF HasReturned, CurrentCall
    <3>2. Len(calls') \in Nat
      BY StatesTypedAfter DEF Typed
    <3>3. Len(calls') \in 1..Len(calls')
      <4>1. calls' \in Seq(Call)
        BY DEF IInv, Types, StackTypes
      <4>. QED  BY <3>1, <3>2, <4>1
    <3>. QED  BY <1>1, <1>2, <3>1, <3>3 DEF CallsSettle, FreshAlone, CurrentCall
  <2>. QED  BY <1>2, <2>1, <2>2 DEF Current
<1>6. ASSUME NEW i \in 1..Len(acts'), NEW c \in HeldCells(acts'[i])
      PROVE  0 < c /\ c < NextFree'
  <2>1. CASE i \in 1..m /\ i \in 1..Len(acts) /\ acts'[i] = acts[i]
    <3>1. c \in Nat /\ 1 <= c /\ c < b
      BY <1>3, <1>6, <2>1
    <3>. QED  BY <1>1, <1>2, <3>1
  <2>2. CASE i = m + 1 /\ Len(acts') = m + 1
    <3>1. c \in Nat /\ b <= c /\ c < NextFree'
      BY <1>4, <1>6, <2>2
    <3>. QED  BY <1>1, <1>2, <3>1
  <2>. QED  BY <1>2, <2>1, <2>2
<1>7. ASSUME NEW i \in 1..Len(acts'), NEW j \in 1..Len(acts'), i # j
      PROVE  HeldCells(acts'[i]) \cap HeldCells(acts'[j]) = {}
  <2>1. CASE /\ i \in 1..m /\ i \in 1..Len(acts) /\ acts'[i] = acts[i]
             /\ j \in 1..m /\ j \in 1..Len(acts) /\ acts'[j] = acts[j]
    BY <1>1, <1>7, <2>1 DEF TempsOwned
  <2>2. CASE /\ i \in 1..m /\ i \in 1..Len(acts) /\ acts'[i] = acts[i]
             /\ j = m + 1 /\ Len(acts') = m + 1
    BY <1>3, <1>4, <2>2
  <2>3. CASE /\ j \in 1..m /\ j \in 1..Len(acts) /\ acts'[j] = acts[j]
             /\ i = m + 1 /\ Len(acts') = m + 1
    BY <1>3, <1>4, <2>3
  <2>. QED  BY <1>2, <1>7, <2>1, <2>2, <2>3
<1>8. \A i \in 1..Len(acts') : HeldCells(acts'[i]) \cap Current' = {}
  BY <1>2, <1>3, <1>5
<1>9. ASSUME NEW o \in Owners', NEW c \in CellsOf(NewVar(o))
      PROVE  c \notin Current' /\ \A i \in 1..Len(acts') : c \notin HeldCells(acts'[i])
  <2>1. c \in Nat /\ NewVar(o).addr <= c /\ c < EndOf(NewVar(o))
    BY <1>2, Cells
  <2>2. CASE o \notin fresh
    <3>1. o \in Owners /\ NewVar(o) = VarOf(o) /\ EndOf(NewVar(o)) <= b
      BY <1>1, <2>2 DEF VarsSettle
    <3>2. c < b
      BY <1>2, <2>1, <3>1
    <3>3. \A i \in 1..m : i \in 1..Len(acts) => c \notin HeldCells(acts[i])
      BY <1>1, <3>1 DEF TempsOwned
    <3>4. ASSUME NEW i \in 1..Len(acts')
          PROVE  c \notin HeldCells(acts'[i])
      <4>1. CASE i \in 1..m /\ i \in 1..Len(acts) /\ acts'[i] = acts[i]
        BY <3>3, <4>1
      <4>2. CASE i = m + 1 /\ Len(acts') = m + 1
        BY <1>4, <2>1, <3>2, <4>2
      <4>. QED  BY <1>2, <4>1, <4>2
    <3>5. c \notin Current'
      BY <1>5, <2>1, <3>2
    <3>. QED  BY <3>4, <3>5
  <2>3. CASE o \in fresh
    <3>1. b <= NewVar(o).addr
      BY <1>1, <2>3 DEF VarsSettle
    <3>2. b <= c
      BY <1>2, <2>1, <3>1
    <3>3. Len(acts') = m + 1 => HeldCells(acts'[m + 1]) = {}
      BY <1>1, <2>3 DEF FreshAlone
    <3>4. ASSUME NEW i \in 1..Len(acts')
          PROVE  c \notin HeldCells(acts'[i])
      <4>1. CASE i \in 1..m /\ i \in 1..Len(acts) /\ acts'[i] = acts[i]
        BY <1>3, <2>1, <3>2, <4>1
      <4>2. CASE i = m + 1 /\ Len(acts') = m + 1
        BY <3>3, <4>2
      <4>. QED  BY <1>2, <4>1, <4>2
    <3>5. c \notin Current'
      BY <1>5, <2>3
    <3>. QED  BY <3>4, <3>5
  <2>. QED  BY <2>2, <2>3
<1>. DEFINE A == UNION {HeldCells(acts'[i]) : i \in 1..Len(acts')}
<1>10. \A c : c \in A <=> \E i \in 1..Len(acts') : c \in HeldCells(acts'[i])
  OBVIOUS
<1>. HIDE DEF A
<1>11. /\ \A c \in A \cup Current' : 0 < c /\ c < NextFree'
       /\ A \cap Current' = {}
       /\ \A o \in Owners' : CellsOf(NewVar(o)) \cap (A \cup Current') = {}
  <2>1. \A c \in A \cup Current' : 0 < c /\ c < NextFree'
    BY <1>1, <1>5, <1>6, <1>10
  <2>2. A \cap Current' = {}
    BY <1>8, <1>10
  <2>3. \A o \in Owners' : CellsOf(NewVar(o)) \cap (A \cup Current') = {}
    BY <1>9, <1>10
  <2>. QED  BY <2>1, <2>2, <2>3
<1>. QED  BY <1>7, <1>11 DEF TempsOwned, A, Current, NewVar, VarOf

\* The invariant is kept above every floor.
LEMMA Settled ==
  ASSUME OInv, IInv', NEW m, NEW b \in Nat, NEW fresh, Settles(m, b, fresh)
  PROVE  OInv'
BY SettledStacked, SettledHeld, SettledBindings, SettledReturns, SettledExact,
   SettledVariables, SettledTemps DEF OInv, Owned

-----------------------------------------------------------------------------
(* The floors that steps leave what is below alone.                        *)

\* The floor of the top activation: what it took is above, the variables of the
\* scopes around it are below.
LEMMA FloorOfTop ==
  ASSUME OInv, acts # <<>>
  PROVE  /\ Floor(Top) \in Nat /\ Floor(Top) >= 1 /\ Top.mark \in Nat /\ NextFree \in Nat
         /\ Floor(Top) <= Top.mark /\ Top.mark <= Ceiling(Top) /\ Ceiling(Top) <= NextFree
         /\ Ceiling(Top) \in Nat
         /\ \A i \in 1..(Len(acts) - 1) : Ceiling(acts[i]) <= Floor(Top)
         /\ \A o \in Owners : o[1] < Depth \/ Top.kind \notin Blocks
              => EndOf(VarOf(o)) <= Floor(Top)
<1>1. IInv /\ Stacked /\ Typed
  BY StatesTyped DEF OInv, Owned
<1>2. Len(acts) \in Nat /\ Len(acts) \in 1..Len(acts) /\ Top = acts[Len(acts)]
  <2>1. acts \in Seq(Activation)
    BY <1>1 DEF IInv, Types, StackTypes
  <2>. QED  BY <2>1 DEF Top
<1>3. /\ Floor(Top) \in Nat /\ Floor(Top) >= 1 /\ Top.mark \in Nat /\ NextFree \in Nat
      /\ Floor(Top) <= Top.mark /\ Top.mark <= Ceiling(Top) /\ Ceiling(Top) <= NextFree
      /\ Ceiling(Top) \in Nat
  BY <1>1, <1>2 DEF Typed, Stacked
<1>4. \A i \in 1..(Len(acts) - 1) : Ceiling(acts[i]) <= Floor(Top)
  <2>1. \A i \in 1..(Len(acts) - 1) : i \in 1..Len(acts) /\ i < Len(acts)
    BY <1>2
  <2>. QED  BY <1>1, <1>2, <2>1 DEF Stacked
<1>5. ASSUME NEW o \in Owners, o[1] < Depth \/ Top.kind \notin Blocks
      PROVE  EndOf(VarOf(o)) <= Floor(Top)
  <2>1. Top.scope = Depth /\ Depth \in Nat
    BY <1>1, Context DEF IInv
  <2>2. o[1] \in 1..Depth
    BY <1>1 DEF Typed
  <2>3. Older(o, Top)
    BY <1>5, <2>1, <2>2 DEF Older
  <2>. QED  BY <1>1, <1>2, <2>3 DEF Stacked
<1>. QED  BY <1>3, <1>4, <1>5

\* next_free: everything is below.
LEMMA FloorOfNext ==
  ASSUME OInv
  PROVE  /\ NextFree \in Nat /\ NextFree >= 1
         /\ \A i \in 1..Len(acts) : Ceiling(acts[i]) <= NextFree
         /\ \A o \in Owners : EndOf(VarOf(o)) <= NextFree
BY StatesTyped DEF OInv, Owned, Stacked, Typed, VariablesDisjoint, EndOf

\* A list of statements declares its variables in a scope of its own.
Innermost == \A i \in 1..Len(acts) : \A n \in Names : ~Older(<<Depth, n>>, acts[i])

LEMMA BlocksInnermost == IInv /\ mode = "stmt" => Innermost
<1>. SUFFICES ASSUME IInv, mode = "stmt", NEW i \in 1..Len(acts), NEW n \in Names
              PROVE  ~Older(<<Depth, n>>, acts[i])
  BY DEF Innermost
<1>1. Len(acts) \in Nat /\ Len(acts) \in 1..Len(acts) /\ acts # <<>>
  BY StatesTyped DEF Typed
<1>2. Top.kind \in Blocks /\ Top = acts[Len(acts)] /\ Top.scope = Depth /\ Depth \in Nat
  BY <1>1, Context DEF IInv, ModeShape, Top
<1>3. CASE i = Len(acts)
  BY <1>2, <1>3 DEF Older
<1>4. CASE i < Len(acts)
  <2>1. acts[i].scope < Depth
    BY <1>1, <1>2, <1>4 DEF IInv, Nested, ScopesNest
  <2>2. acts[i].scope \in Nat
    BY StatesTyped DEF Typed
  <2>. QED  BY <1>2, <2>1, <2>2 DEF Older
<1>. QED  BY <1>1, <1>3, <1>4

LEMMA BlocksInnermostAfter == IInv' /\ mode' = "stmt" => Innermost'
<1>1. (IInv /\ mode = "stmt" => Innermost)'
  BY BlocksInnermost, PTL
<1>. QED  BY <1>1

-----------------------------------------------------------------------------
(* What a step does to the variables.                                      *)

SameVars == Depth' = Depth /\ \A k \in 1..Depth : scopes'[k].vars = scopes[k].vars

\* The two ways a scope changes.
LEMMA NextChanged ==
  ASSUME IInv, NEW next \in Nat, scopes' = WithNext(Depth, next)
  PROVE  SameVars /\ NextFree' = next
<1>1. /\ scopes \in Seq(Scope) /\ Depth = Len(scopes) /\ Depth \in 1..Depth /\ Depth \in Nat
      /\ scopes[Depth] \in Scope
  BY Context DEF IInv, Types, StackTypes, Depth
<1>2. Depth' = Depth
  BY <1>1 DEF WithNext, Depth
<1>3. scopes'[Depth] = [scopes[Depth] EXCEPT !.next = next]
  BY <1>1 DEF WithNext
<1>4. scopes'[Depth].vars = scopes[Depth].vars /\ scopes'[Depth].next = next
  BY <1>1, <1>3 DEF Scope
<1>5. \A k \in 1..Depth : k # Depth => scopes'[k] = scopes[k]
  BY <1>1 DEF WithNext
<1>. QED  BY <1>2, <1>4, <1>5 DEF SameVars, NextFree

LEMMA VarDeclared ==
  ASSUME IInv, NEW n \in Names, NEW v, NEW next, scopes' = Declared(Depth, n, v, next)
  PROVE  /\ Depth' = Depth /\ NextFree' = next
         /\ scopes'[Depth].vars[n] = v
         /\ \A k \in 1..Depth, p \in Names :
              k # Depth \/ p # n => scopes'[k].vars[p] = scopes[k].vars[p]
<1>1. /\ scopes \in Seq(Scope) /\ Depth = Len(scopes) /\ Depth \in 1..Depth /\ Depth \in Nat
      /\ scopes[Depth].vars \in [Names -> Variables]
  BY Context DEF IInv, Types, StackTypes, Depth
<1>2. Depth' = Depth
  BY <1>1 DEF Declared, Depth
<1>3. scopes'[Depth] = NewScope(Bind(scopes[Depth].vars, n, v), next)
  BY <1>1 DEF Declared
<1>4. \A k \in 1..Depth : k # Depth => scopes'[k] = scopes[k]
  BY <1>1 DEF Declared
<1>. QED  BY <1>1, <1>2, <1>3, <1>4 DEF NextFree, NewScope, Bind

LEMMA ScopesStay ==
  ASSUME scopes' = scopes
  PROVE  SameVars /\ NextFree' = NextFree
BY DEF SameVars, NextFree, Depth

\* No variable is declared.
LEMMA VarsStay ==
  ASSUME SameVars, NEW b, \A o \in Owners : EndOf(VarOf(o)) <= b
  PROVE  VarsSettle(b, {})
<1>1. \A o \in Owners' : o \in Owners /\ NewVar(o) = VarOf(o)
  BY DEF SameVars, Owners, NewVar, VarOf
<1>. QED  BY <1>1 DEF VarsSettle

\* One variable is declared, in the innermost scope.
LEMMA OneVarSettles ==
  ASSUME IInv, Innermost', NEW b \in Nat, \A o \in Owners : EndOf(VarOf(o)) <= b,
         NEW n \in Names, NEW v \in Variables, NEW next \in Nat,
         scopes' = Declared(Depth, n, v, next), b <= v.addr, EndOf(v) <= next
  PROVE  \E fresh : VarsSettle(b, fresh)
<1>1. /\ Depth' = Depth /\ NextFree' = next
      /\ scopes'[Depth].vars[n] = v
      /\ \A k \in 1..Depth, p \in Names :
           k # Depth \/ p # n => scopes'[k].vars[p] = scopes[k].vars[p]
  BY VarDeclared
<1>. DEFINE new == <<Depth, n>>
            fresh == {o \in Owners' : o = new}
<1>2. NewVar(new) = v
  BY <1>1 DEF NewVar
<1>3. \A o \in Owners' : o # new => o \in Owners /\ NewVar(o) = VarOf(o)
  <2>1. ASSUME NEW k \in 1..Depth, NEW p \in Names, <<k, p>> # new
        PROVE  scopes'[k].vars[p] = scopes[k].vars[p]
    BY <1>1, <2>1
  <2>. QED  BY <1>1, <2>1 DEF Owners, NewVar, VarOf
<1>4. \A i \in 1..Len(acts') : ~Older(new, acts'[i])
  BY <1>1 DEF Innermost
<1>. HIDE DEF new
<1>5. VarsSettle(b, fresh)
  BY <1>1, <1>2, <1>3, <1>4 DEF VarsSettle
<1>. QED  BY <1>5

-----------------------------------------------------------------------------
(* The invariant through each kind of step.                                *)

\* The calls that returns return from stay.
LEMMA CallsStay ==
  ASSUME OInv, calls' = calls, NEW m \in 0..Len(acts), NEW b,
         mode \notin {"stmt", "error"} \/ ~HasReturned
  PROVE  /\ \A i \in 1..m : acts[i].kind = "return" =>
              /\ acts[i].nth \in 1..Len(calls')
              /\ calls'[acts[i].nth].scope_barrier = acts[i].scope
         /\ CallsSettle(m, b)
         /\ \A k \in 1..Len(calls') : ~calls'[k].has_returned
<1>1. IInv /\ Returns /\ Len(acts) \in Nat
  BY StatesTyped DEF OInv, Owned, Typed
<1>2. \A i \in 1..m : i \in 1..Len(acts)
  BY <1>1
<1>3. \A k \in 1..Len(calls) : ~calls[k].has_returned
  BY <1>1, NoneReturned
<1>. QED  BY <1>1, <1>2, <1>3 DEF Returns, CallsSettle

\* A generator calls eval or generate_call.
LEMMA PushOwned ==
  ASSUME OInv, IInv', UNCHANGED <<scopes, calls>>,
         mode \in {"stmt", "expr"}, ~HasReturned, mode' \in {"expr", "args"},
         res' = NoResult,
         NEW a \in Activation, acts' = Append(acts, a),
         a.mark = NextFree, a.held = NoResult, a.kind # "body",
         a.kind = "call" => a.base = NextFree /\ a.binds = NoVars,
         a.kind = "return" =>
           a.nth \in 1..Len(calls) /\ calls[a.nth].scope_barrier = a.scope,
         a.kind = "array" => NextFree < MaxCells
  PROVE  OInv'
<1>. DEFINE m == Len(acts)
            b == NextFree
<1>1. IInv /\ Exact /\ Typed
  BY StatesTyped DEF OInv, Owned
<1>2. acts \in Seq(Activation) /\ m \in Nat
  BY <1>1 DEF IInv, Types, StackTypes
<1>3. Kept(m) /\ Len(acts') = m + 1 /\ acts'[m + 1] = a
  BY <1>2, Pushed DEF Kept
<1>4. /\ b \in Nat /\ b >= 1
      /\ \A i \in 1..m : Ceiling(acts[i]) <= b
      /\ \A o \in Owners : EndOf(VarOf(o)) <= b
  BY FloorOfNext
<1>5. SameVars /\ NextFree' = NextFree
  BY ScopesStay
<1>6. a.held.type # "TEMP"
  BY DEF NoResult
<1>7. Floor(a) = NextFree /\ Ceiling(a) = NextFree
  BY <1>6 DEF Floor, Ceiling
<1>8. m >= 1 /\ acts[m].kind \notin Blocks => Floor(a) = Ceiling(acts[m])
  <2>. SUFFICES ASSUME m >= 1, acts[m].kind \notin Blocks
                PROVE  NextFree = Ceiling(acts[m])
    BY <1>7
  <2>1. acts # <<>> /\ Top.kind \notin Blocks
    BY <1>2 DEF Top
  <2>2. mode = "expr"
    BY <1>1, <2>1 DEF IInv, ModeShape
  <2>. QED  BY <1>1, <2>2 DEF Exact, Top
<1>9. a.kind = "call" => /\ \A n \in Names : a.binds[n].len = 0
                         /\ \A n \in Names : CellsOf(a.binds[n]) = {}
  <2>1. \A n \in Names : NoVars[n] \in Variables /\ NoVars[n].len = 0
    BY VariableTypes, NoVarsCells
  <2>2. \A n \in Names : CellsOf(NoVars[n]) = {}
    BY <2>1, Cells
  <2>. QED  BY <2>1, <2>2
<1>10. Founded(a, b, m)
  <2>1. a.kind = "call" => \A n \in Names : ~(a.binds[n].len > 0)
    BY <1>9
  <2>2. \A n, p \in Names : a.kind = "call" =>
          CellsOf(a.binds[n]) \cap CellsOf(a.binds[p]) = {}
    BY <1>9
  <2>3. /\ b <= Floor(a) /\ Floor(a) <= a.mark /\ Ceiling(a) <= NextFree'
        /\ a.kind = "array" => a.mark < MaxCells
        /\ a.kind = "return" =>
             a.nth \in 1..Len(calls') /\ calls'[a.nth].scope_barrier = a.scope
    BY <1>4, <1>5, <1>7
  <2>. QED  BY <1>6, <1>8, <2>1, <2>2, <2>3 DEF Founded, Based
<1>11. mode' = "expr" => NextFree' = Ceiling(acts'[Len(acts')])
  BY <1>3, <1>5, <1>7
<1>. HIDE DEF m, b
<1>12. VarsSettle(b, {})
  BY <1>4, <1>5, VarsStay
<1>13. m \in 0..Len(acts) /\ m = Len(acts)
  BY <1>2 DEF m
<1>14. /\ CallsSettle(m, b)
       /\ \A i \in 1..m : acts[i].kind = "return" =>
            /\ acts[i].nth \in 1..Len(calls')
            /\ calls'[acts[i].nth].scope_barrier = acts[i].scope
  BY <1>13, CallsStay
<1>15. ActsSettle(m, b)
  <2>1. b <= NextFree'
    BY <1>4, <1>5 DEF b
  <2>. QED  BY <1>3, <1>4, <1>10, <1>14, <2>1 DEF ActsSettle
<1>16. ValueSettles(m, b)
  BY <1>11 DEF ValueSettles, NoResult
<1>17. Settles(m, b, {})
  BY <1>12, <1>14, <1>15, <1>16 DEF Settles, FreshAlone
<1>. QED  BY <1>4, <1>17, Settled

\* eval returns a leaf: a number, a variable or the one cell it took.
LEMMA LeafOwned ==
  ASSUME OInv, IInv', UNCHANGED <<calls, acts>>, mode = "expr", mode' = "value",
         SameVars, NextFree' \in Nat,
         \/ res'.type # "TEMP" /\ NextFree' = NextFree
         \/ res'.type = "TEMP" /\ res'.val = NextFree /\ NextFree' = NextFree + 1
  PROVE  OInv'
<1>. DEFINE m == Len(acts)
            b == NextFree
<1>1. IInv /\ Exact /\ Typed
  BY StatesTyped DEF OInv, Owned
<1>2. acts \in Seq(Activation) /\ m \in Nat /\ acts # <<>>
  BY <1>1 DEF IInv, Types, StackTypes, ModeShape
<1>3. Kept(m) /\ Len(acts') = m /\ m >= 1
  BY <1>2 DEF Kept
<1>4. /\ b \in Nat /\ b >= 1
      /\ \A i \in 1..m : Ceiling(acts[i]) <= b
      /\ \A o \in Owners : EndOf(VarOf(o)) <= b
  BY FloorOfNext
<1>5. NextFree = Ceiling(acts[m])
  BY <1>1 DEF Exact, Top
<1>6. ValueSettles(m, b)
  BY <1>3, <1>4, <1>5 DEF ValueSettles
<1>7. b <= NextFree'
  BY <1>4
<1>. HIDE DEF b
<1>8. VarsSettle(b, {})
  BY <1>4, VarsStay
<1>9. m \in 0..Len(acts)
  BY <1>2
<1>10. /\ CallsSettle(m, b)
       /\ \A i \in 1..m : acts[i].kind = "return" =>
            /\ acts[i].nth \in 1..Len(calls')
            /\ calls'[acts[i].nth].scope_barrier = acts[i].scope
  BY <1>9, CallsStay
<1>11. ActsSettle(m, b)
  BY <1>2, <1>3, <1>4, <1>7, <1>10 DEF ActsSettle
<1>12. Settles(m, b, {})
  BY <1>6, <1>8, <1>10, <1>11 DEF Settles, FreshAlone
<1>. QED  BY <1>4, <1>12, Settled

\* A statement that evaluates nothing, and may declare a variable.
LEMMA PlainOwned ==
  ASSUME OInv, IInv', UNCHANGED <<calls, acts, mode, res>>, mode = "stmt", ~HasReturned,
         NEW fresh, VarsSettle(NextFree, fresh), NextFree <= NextFree'
  PROVE  OInv'
<1>. DEFINE m == Len(acts)
            b == NextFree
<1>1. IInv /\ Results /\ Typed
  BY StatesTyped DEF OInv, Owned
<1>2. acts \in Seq(Activation) /\ m \in Nat
  BY <1>1 DEF IInv, Types, StackTypes
<1>3. Kept(m) /\ Len(acts') = m
  BY <1>2 DEF Kept
<1>4. /\ b \in Nat /\ b >= 1
      /\ \A i \in 1..m : Ceiling(acts[i]) <= b
  BY FloorOfNext
<1>5. res'.type # "TEMP"
  BY <1>1 DEF Results
<1>6. ValueSettles(m, b)
  BY <1>5 DEF ValueSettles
<1>7. m \in 0..Len(acts)
  BY <1>2
<1>. HIDE DEF b
<1>8. /\ CallsSettle(m, b)
      /\ \A i \in 1..m : acts[i].kind = "return" =>
           /\ acts[i].nth \in 1..Len(calls')
           /\ calls'[acts[i].nth].scope_barrier = acts[i].scope
      /\ \A k \in 1..Len(calls') : ~calls'[k].has_returned
  BY <1>7, CallsStay
<1>9. ActsSettle(m, b)
  BY <1>2, <1>3, <1>4, <1>8 DEF ActsSettle, b
<1>10. Settles(m, b, fresh)
  <2>1. Len(acts') # m + 1
    BY <1>2, <1>3
  <2>. QED  BY <1>3, <1>5, <1>6, <1>8, <1>9, <2>1 DEF Settles, FreshAlone, b
<1>. QED  BY <1>4, <1>10, Settled

\* The compilation ends, one way or the other, or nothing changes.
LEMMA StopOwned ==
  ASSUME OInv, IInv', UNCHANGED <<scopes, calls, acts, res>>,
         \/ mode' = "error" \/ mode' = mode
         \/ mode' = "done" /\ mode = "stmt" /\ acts = <<>>
         \/ mode' = "bound" /\ mode = "value" /\ res.type # "TEMP"
  PROVE  OInv'
<1>1. Owned'
  BY DEF OInv, Owned, Stacked, Keeps, Bindings, Returns, Results, Exact, Small, Evaluating,
         Owners, VarOf, Depth, NextFree, Top
<1>2. Owners' = Owners /\ NextFree' = NextFree
  BY DEF Owners, NextFree, Depth
<1>3. VariablesDisjoint'
  BY <1>2 DEF OInv, VariablesDisjoint, VarOf
<1>4. TempsOwned'
  <2>. DEFINE A == UNION {HeldCells(acts[i]) : i \in 1..Len(acts)}
  <2>1. Current' = Current
    BY DEF Current, HasReturned, CurrentCall
  <2>2. /\ \A c \in A \cup Current : 0 < c /\ c < NextFree
        /\ \A i, j \in 1..Len(acts) : i # j => HeldCells(acts[i]) \cap HeldCells(acts[j]) = {}
        /\ A \cap Current = {}
        /\ \A o \in Owners : CellsOf(VarOf(o)) \cap (A \cup Current) = {}
    BY DEF OInv, TempsOwned, Current
  <2>3. A' = A /\ \A o : NewVar(o) = VarOf(o)
    BY DEF NewVar, VarOf
  <2>. HIDE DEF A
  <2>4. /\ \A c \in A' \cup Current' : 0 < c /\ c < NextFree'
        /\ \A i, j \in 1..Len(acts') :
             i # j => HeldCells(acts'[i]) \cap HeldCells(acts'[j]) = {}
        /\ A' \cap Current' = {}
        /\ \A o \in Owners' : CellsOf(NewVar(o)) \cap (A' \cup Current') = {}
    BY <1>2, <2>1, <2>2, <2>3
  <2>. QED  BY <2>4 DEF TempsOwned, A, Current, NewVar, VarOf
<1>. QED  BY <1>1, <1>3, <1>4 DEF OInv

\* A step changes what is above the floor of the top activation only.
LEMMA AboveTop ==
  ASSUME OInv, acts # <<>>
  PROVE  LET m == Len(acts) - 1
         IN  /\ m \in 0..Len(acts) /\ m # Len(acts) /\ m + 1 = Len(acts)
             /\ acts' = Under => Kept(m) /\ Len(acts') = m
             /\ \A a \in Activation : acts' = TopBecomes(a) =>
                  Kept(m) /\ Len(acts') = m + 1 /\ acts'[m + 1] = a
<1>1. acts \in Seq(Activation) /\ Len(acts) \in Nat /\ Len(acts) >= 1
  BY DEF OInv, IInv, Types, StackTypes
<1>. DEFINE m == Len(acts) - 1
<1>2. m \in 0..Len(acts) /\ m # Len(acts) /\ m + 1 = Len(acts)
  BY <1>1
<1>3. acts' = Under => Kept(m) /\ Len(acts') = m
  BY <1>1, Popped DEF Under, Kept
<1>4. \A a \in Activation : acts' = TopBecomes(a) =>
        Kept(m) /\ Len(acts') = m + 1 /\ acts'[m + 1] = a
  BY <1>1, Replaced DEF Under, TopBecomes, Kept
<1>. QED  BY <1>2, <1>3, <1>4

\* What the top activation waits for is right above what it is an operand of.
LEMMA ExactTop ==
  ASSUME OInv, acts # <<>>, Len(acts) > 1, acts[Len(acts) - 1].kind \notin Blocks,
         Top.held.type # "TEMP"
  PROVE  Floor(Top) = Ceiling(acts[Len(acts) - 1])
<1>1. Len(acts) \in Nat /\ Exact
  BY StatesTyped DEF OInv, Owned, Typed
<1>. DEFINE n == Len(acts)
<1>. HIDE DEF n
<1>2. n \in 2..n
  BY <1>1 DEF n
<1>3. acts[n - 1].kind \notin Blocks /\ acts[n].held.type # "TEMP"
        => Floor(acts[n]) = Ceiling(acts[n - 1])
  BY <1>1, <1>2 DEF Exact, n
<1>. QED  BY <1>3 DEF n, Top

\* A generator returns to the one that waits for it.
LEMMA PopOwned ==
  ASSUME OInv, IInv', UNCHANGED calls, mode = "value", acts' = Under,
         NEW fresh, VarsSettle(Floor(Top), fresh), Floor(Top) <= NextFree',
         \/ mode' = "stmt" /\ res' = NoResult
         \/ /\ mode' = "value" /\ Top.kind \in ExprKinds /\ fresh = {}
            /\ \/ /\ res'.type = "TEMP"
                  /\ Floor(Top) <= res'.val /\ res'.val < NextFree'
               \/ /\ res'.type # "TEMP" /\ res.type # "TEMP" /\ Top.held.type # "TEMP"
                  /\ NextFree' = NextFree
  PROVE  OInv'
<1>. DEFINE m == Len(acts) - 1
            b == Floor(Top)
<1>1. IInv /\ Exact /\ acts # <<>> /\ Types /\ StackTypes /\ Nested
  BY DEF OInv, Owned, IInv, ModeShape, Types
<1>2. m \in 0..Len(acts) /\ m # Len(acts) /\ Kept(m) /\ Len(acts') = m /\ Len(acts') # m + 1
  BY <1>1, AboveTop
<1>3. /\ b \in Nat /\ b >= 1
      /\ \A i \in 1..m : Ceiling(acts[i]) <= b
  BY <1>1, FloorOfTop
<1>4. mode' = "value" => m >= 1 /\ acts[m].kind \notin Blocks /\ Len(acts) > 1
  BY <1>1, TopFacts
<1>5. mode' = "value" /\ res'.type # "TEMP" => NextFree' = Ceiling(acts'[Len(acts')])
  <2>. SUFFICES ASSUME mode' = "value", res'.type # "TEMP"
                PROVE  NextFree' = Ceiling(acts[m])
    BY <1>2, <1>4 DEF Kept
  <2>1. /\ Top.kind \in ExprKinds /\ res.type # "TEMP" /\ Top.held.type # "TEMP"
        /\ NextFree' = NextFree
    OBVIOUS
  <2>2. NextFree = Ceiling(Top)
    BY <1>1, <2>1 DEF Exact
  <2>3. Ceiling(Top) = Floor(Top)
    BY <2>1 DEF Ceiling, Floor, ExprKinds
  <2>4. Floor(Top) = Ceiling(acts[m])
    BY <1>1, <1>4, <2>1, ExactTop
  <2>. QED  BY <2>1, <2>2, <2>3, <2>4
<1>6. ValueSettles(m, b)
  BY <1>2, <1>4, <1>5 DEF ValueSettles, NoResult
<1>. HIDE DEF m
<1>7. /\ CallsSettle(m, b)
      /\ \A i \in 1..m : acts[i].kind = "return" =>
           /\ acts[i].nth \in 1..Len(calls')
           /\ calls'[acts[i].nth].scope_barrier = acts[i].scope
      /\ \A k \in 1..Len(calls') : ~calls'[k].has_returned
  BY <1>2, CallsStay
<1>8. ActsSettle(m, b)
  BY <1>2, <1>3, <1>7 DEF ActsSettle
<1>9. FreshAlone(m, fresh)
  BY <1>2, <1>7 DEF FreshAlone, NoResult
<1>10. Settles(m, b, fresh)
  BY <1>6, <1>7, <1>8, <1>9 DEF Settles
<1>. QED  BY <1>3, <1>10, Settled

\* A generator goes on to its next operand.
LEMMA SwapOwned ==
  ASSUME OInv, IInv', UNCHANGED calls, mode \in {"value", "args"}, acts # <<>>,
         Top.kind \notin Blocks, Top.held.type # "TEMP", SameVars,
         NEW a \in Activation, acts' = TopBecomes(a), Based(a, Floor(Top)),
         a.held.type = "TEMP" \/ Floor(a) = Floor(Top),
         Floor(Top) <= NextFree', res' = NoResult,
         mode' = "args" \/ (mode' = "expr" /\ NextFree' = Ceiling(a))
  PROVE  OInv'
<1>. DEFINE m == Len(acts) - 1
            b == Floor(Top)
<1>1. IInv
  BY DEF OInv
<1>2. /\ m \in 0..Len(acts) /\ m # Len(acts) /\ m + 1 = Len(acts) /\ Kept(m)
      /\ Len(acts') = m + 1 /\ acts'[m + 1] = a
  BY AboveTop
<1>3. /\ b \in Nat /\ b >= 1
      /\ \A i \in 1..m : Ceiling(acts[i]) <= b
      /\ \A o \in Owners : EndOf(VarOf(o)) <= b
  BY FloorOfTop
<1>4. m >= 1 /\ acts[m].kind \notin Blocks /\ a.held.type # "TEMP" => Floor(a) = Ceiling(acts[m])
  <2>. DEFINE n == Len(acts)
  <2>1. n \in Nat /\ m = n - 1
    BY <1>1, StatesTyped DEF Typed
  <2>. HIDE DEF n, m
  <2>2. m >= 1 => n > 1
    BY <2>1
  <2>. QED  BY <2>2, ExactTop DEF n, m
<1>5. ValueSettles(m, b)
  BY <1>2 DEF ValueSettles, NoResult
<1>6. VarsSettle(b, {})
  BY <1>3, VarsStay
<1>. HIDE DEF m
<1>7. /\ CallsSettle(m, b)
      /\ \A i \in 1..m : acts[i].kind = "return" =>
           /\ acts[i].nth \in 1..Len(calls')
           /\ calls'[acts[i].nth].scope_barrier = acts[i].scope
  BY <1>2, CallsStay
<1>8. ActsSettle(m, b)
  BY <1>2, <1>3, <1>4, <1>7 DEF ActsSettle, Founded
<1>9. Settles(m, b, {})
  BY <1>5, <1>6, <1>7, <1>8 DEF Settles, FreshAlone
<1>. QED  BY <1>3, <1>9, Settled

-----------------------------------------------------------------------------
(* Every step keeps the invariant.                                         *)

\* The value eval returns, and what it is returned to.
LEMMA ValueOwned ==
  ASSUME OInv, mode = "value"
  PROVE  /\ acts # <<>> /\ Top \in Activation /\ Top.scope = Depth /\ Depth \in 1..Depth
         /\ Top.mark \in Nat /\ Top.base \in Nat /\ Floor(Top) \in Nat /\ Ceiling(Top) \in Nat
         /\ NextFree \in Nat /\ scopes[Top.scope].next = NextFree
         /\ Floor(Top) >= 1 /\ Floor(Top) <= Top.mark
         /\ Top.mark <= Ceiling(Top) /\ Ceiling(Top) <= NextFree
         /\ res \in EvalResults /\ res.val \in Nat /\ res.type \in {"CONST", "ADDRESS", "TEMP"}
         /\ res.type = "TEMP" => Ceiling(Top) <= res.val /\ res.val < NextFree
         /\ res.type # "TEMP" => NextFree = Ceiling(Top)
         /\ Top.held.val \in Nat
         /\ Top.held.type = "TEMP" =>
              /\ Top.kind \in Holding /\ Floor(Top) = Top.held.val
              /\ Top.held.val < Ceiling(Top)
         /\ Top.kind \notin Holding \cup {"call", "body"} =>
              Floor(Top) = Top.mark /\ Ceiling(Top) = Top.mark
<1>1. IInv /\ Keeps /\ Results /\ Exact /\ TempsOwned /\ Typed
  BY StatesTyped DEF OInv, Owned
<1>2. /\ acts # <<>> /\ Top \in Activation /\ Top.scope = Depth /\ Depth \in 1..Depth
      /\ Top.mark \in Nat /\ Top.base \in Nat /\ Top.held.val \in Nat
      /\ NextFree \in Nat
      /\ res \in EvalResults /\ res.val \in Nat /\ res.type \in {"CONST", "ADDRESS", "TEMP"}
  <2>1. acts # <<>> /\ Top \in Activation /\ Top.scope = Depth /\ Top.scope \in 1..Depth
    BY <1>1, Resumed
  <2>. QED  BY <1>1, <2>1, Resumed
<1>3. /\ Floor(Top) \in Nat /\ Ceiling(Top) \in Nat
      /\ Floor(Top) >= 1 /\ Floor(Top) <= Top.mark
      /\ Top.mark <= Ceiling(Top) /\ Ceiling(Top) <= NextFree
  BY <1>2, FloorOfTop
<1>4. scopes[Top.scope].next = NextFree
  BY <1>2 DEF NextFree
<1>5. res.type = "TEMP" => Ceiling(Top) <= res.val /\ res.val < NextFree
  BY <1>1 DEF Results, TempsOwned
<1>6. res.type # "TEMP" => NextFree = Ceiling(Top)
  BY <1>1 DEF Exact
<1>7. Top.held.type = "TEMP" => Top.kind \in Holding /\ Top.held.val < Ceiling(Top)
  <2>1. Len(acts) \in 1..Len(acts)
    <3>1. acts \in Seq(Activation)
      BY <1>1 DEF IInv, Types, StackTypes
    <3>. QED  BY <1>2, <3>1
  <2>. QED  BY <1>1, <2>1 DEF Keeps, Top
<1>8. Top.held.type = "TEMP" => Floor(Top) = Top.held.val
  BY <1>7 DEF Floor, Holding
<1>9. Top.kind \notin Holding \cup {"call", "body"} =>
        Floor(Top) = Top.mark /\ Ceiling(Top) = Top.mark
  BY <1>7 DEF Floor, Ceiling, Holding
<1>. QED  BY <1>2, <1>3, <1>4, <1>5, <1>6, <1>7, <1>8, <1>9

LEMMA LeavesOwned ==
  ASSUME OInv, IInv', EvalNumber \/ EvalVar \/ EvalReadChar
  PROVE  OInv'
<1>1. IInv /\ NextFree \in Nat /\ NextFree + 1 \in Nat
  BY StatesTyped DEF OInv, Typed
<1>2. CASE EvalNumber
  BY <1>1, <1>2, ScopesStay, LeafOwned DEF EvalNumber, Return, Const
<1>3. CASE EvalVar
  BY <1>1, <1>3, ScopesStay, LeafOwned DEF EvalVar, Return, Address
<1>4. CASE EvalReadChar
  <2>1. SameVars /\ NextFree' = NextFree + 1
    BY <1>1, <1>4, NextChanged DEF EvalReadChar
  <2>. QED  BY <1>1, <1>4, <2>1, LeafOwned DEF EvalReadChar, Expr, Return, Temp
<1>. QED  BY <1>2, <1>3, <1>4

LEMMA PushesOwned ==
  ASSUME OInv, IInv',
         \/ EvalElement \/ EvalUnary \/ EvalBinary \/ EvalCall \/ CallStmt
         \/ ReturnStmt \/ Let \/ Set \/ CreateArray \/ AssignArray \/ PrintVal
         \/ Loop \/ If
  PROVE  OInv'
<1>1. IInv /\ Types /\ Nested /\ Returns
  BY DEF OInv, Owned, IInv
<1>2. mode = "expr" => ~HasReturned
  <2>1. calls # <<>> => Len(calls) \in 1..Len(calls)
    BY <1>1, Context
  <2>. QED  BY <1>1, <2>1 DEF Returns, HasReturned, CurrentCall
<1>3. /\ EvalElement \/ EvalUnary \/ EvalBinary \/ EvalCall => mode = "expr"
      /\ CallStmt \/ ReturnStmt \/ Let \/ Set \/ CreateArray \/ AssignArray \/ PrintVal
           \/ Loop \/ If => mode = "stmt" /\ ~HasReturned
  BY DEF EvalElement, EvalUnary, EvalBinary, EvalCall, CallStmt, ReturnStmt, Let, Set,
         CreateArray, AssignArray, PrintVal, Loop, If, Expr, Stmt
<1>4. mode \in {"stmt", "expr"} /\ ~HasReturned
  BY <1>2, <1>3
<1>5. \A k \in StmtKinds \cup ExprKinds \cup {"call"} :
        /\ Pending(k) \in Activation
        /\ Pending(k).kind = k /\ Pending(k).scope = Depth
  BY <1>1, PendingTypes
<1>6. \A k : /\ Pending(k).mark = NextFree /\ Pending(k).held = NoResult
             /\ Pending(k).binds = NoVars
  BY DEF Pending
<1>7. ASSUME NEW k \in (StmtKinds \ {"return", "array"}) \cup ExprKinds,
             NEW a \in Activation, a.kind = k, a.mark = NextFree, a.held = NoResult,
             UNCHANGED <<scopes, calls>>, EvalWith(Append(acts, a))
      PROVE  OInv'
  <2>1. a.kind \notin {"body", "call", "return", "array"}
    BY <1>7, KindsDiffer DEF StmtKinds, ExprKinds
  <2>. QED  BY <1>4, <1>7, <2>1, PushOwned DEF EvalWith
<1>8. ASSUME NEW k \in (StmtKinds \ {"return", "array"}) \cup ExprKinds,
             UNCHANGED <<scopes, calls>>, EvalWith(Append(acts, Pending(k)))
      PROVE  OInv'
  BY <1>5, <1>6, <1>7, <1>8
<1>9. CASE EvalElement
  <2>1. PICK p \in ArrayPlaces :
          EvalWith(Append(acts, [Pending("element") EXCEPT !.base = p.addr]))
    BY <1>9 DEF EvalElement
  <2>2. p.addr \in Nat /\ "element" \in ExprKinds
    BY <1>1, PlaceTypes DEF ArrayPlaces, ExprKinds
  <2>. DEFINE c == Pending("element")
              a == [c EXCEPT !.base = p.addr]
  <2>3. c \in Activation /\ c.kind = "element" /\ c.mark = NextFree /\ c.held = NoResult
    BY <1>5, <1>6, <2>2
  <2>4. a \in Activation /\ a.kind = "element" /\ a.mark = NextFree /\ a.held = NoResult
    <3>. HIDE DEF c
    <3>. QED  BY <2>2, <2>3 DEF Activation
  <2>. HIDE DEF a
  <2>. QED  BY <1>7, <1>9, <2>1, <2>2, <2>4 DEF EvalElement, a
<1>10. CASE AssignArray
  <2>1. PICK p \in ArrayPlaces :
          EvalWith(Append(acts, [Pending("index") EXCEPT !.base = p.addr,
                                                         !.len = p.type.size - 4]))
    BY <1>10 DEF AssignArray
  <2>2. p.addr \in Nat /\ p.type.size - 4 \in Int /\ "index" \in StmtKinds \ {"return", "array"}
    <3>1. p.addr \in Nat /\ p.type \in KnownTypes
      BY <1>1, PlaceTypes DEF ArrayPlaces
    <3>2. p.type.size \in Nat
      BY <3>1, TypesOfTypes
    <3>. QED  BY <3>1, <3>2 DEF StmtKinds
  <2>. DEFINE c == Pending("index")
              len == p.type.size - 4
              a == [c EXCEPT !.base = p.addr, !.len = len]
  <2>3. c \in Activation /\ c.kind = "index" /\ c.mark = NextFree /\ c.held = NoResult
    BY <1>5, <1>6, <2>2
  <2>4. a \in Activation /\ a.kind = "index" /\ a.mark = NextFree /\ a.held = NoResult
    <3>. HIDE DEF c, len
    <3>1. len \in Int
      BY <2>2 DEF len
    <3>. QED  BY <2>2, <2>3, <3>1 DEF Activation
  <2>. HIDE DEF a
  <2>. QED  BY <1>7, <1>10, <2>1, <2>2, <2>4 DEF AssignArray, a
<1>11. CASE ReturnStmt
  <2>. DEFINE c == Pending("return")
              a == [c EXCEPT !.nth = Len(calls)]
  <2>1. "return" \in StmtKinds /\ Len(calls) \in 1..Len(calls) /\ Len(calls) \in Nat
    BY <1>1, <1>11, Context DEF StmtKinds, ReturnStmt
  <2>2. /\ c \in Activation /\ c.kind = "return" /\ c.mark = NextFree /\ c.held = NoResult
        /\ c.scope = Depth
    BY <1>5, <1>6, <2>1
  <2>3. /\ a \in Activation /\ a.kind = "return" /\ a.mark = NextFree /\ a.held = NoResult
        /\ a.scope = Depth /\ a.nth = Len(calls)
    <3>. HIDE DEF c
    <3>. QED  BY <2>1, <2>2 DEF Activation
  <2>4. Depth = calls[Len(calls)].scope_barrier /\ EvalWith(Append(acts, a))
        /\ UNCHANGED <<scopes, calls>>
    BY <1>11 DEF ReturnStmt, CurrentCall
  <2>. HIDE DEF a
  <2>. QED  BY <1>4, <2>1, <2>3, <2>4, PushOwned DEF EvalWith
<1>12. CASE CreateArray
  <2>1. "array" \in StmtKinds /\ NextFree < MaxCells
    BY <1>12 DEF StmtKinds, CreateArray, Stmt, Room
  <2>. DEFINE a == Pending("array")
  <2>2. /\ a \in Activation /\ a.kind = "array" /\ a.mark = NextFree /\ a.held = NoResult
    BY <1>5, <1>6, <2>1
  <2>3. EvalWith(Append(acts, a)) /\ UNCHANGED <<scopes, calls>>
    BY <1>12 DEF CreateArray
  <2>. HIDE DEF a
  <2>. QED  BY <1>4, <2>1, <2>2, <2>3, PushOwned DEF EvalWith
<1>13. CASE EvalCall \/ CallStmt
  <2>1. PICK f \in Funs :
          /\ BindWith(Append(acts, [Pending("call") EXCEPT !.base = NextFree, !.name = f]))
          /\ UNCHANGED <<scopes, calls>>
    BY <1>13 DEF EvalCall, CallStmt, CallBegins
  <2>. DEFINE c == Pending("call")
              a == [c EXCEPT !.base = NextFree, !.name = f]
  <2>2. /\ c \in Activation /\ c.kind = "call" /\ c.mark = NextFree /\ c.held = NoResult
        /\ c.binds = NoVars /\ NextFree \in Nat
    BY <1>1, <1>5, <1>6, Context
  <2>3. /\ a \in Activation /\ a.kind = "call" /\ a.mark = NextFree /\ a.held = NoResult
        /\ a.binds = NoVars /\ a.base = NextFree
    <3>. HIDE DEF c
    <3>. QED  BY <2>2 DEF Activation
  <2>4. BindWith(Append(acts, a))
    BY <2>1
  <2>. HIDE DEF a
  <2>. QED  BY <1>4, <2>1, <2>3, <2>4, PushOwned DEF BindWith
<1>14. CASE EvalUnary
  BY <1>8, <1>14 DEF EvalUnary, ExprKinds
<1>15. CASE EvalBinary
  BY <1>8, <1>15 DEF EvalBinary, ExprKinds
<1>16. CASE Let
  BY <1>8, <1>16 DEF Let, StmtKinds
<1>17. CASE Set
  BY <1>8, <1>17 DEF Set, StmtKinds
<1>18. CASE PrintVal
  BY <1>8, <1>18 DEF PrintVal, StmtKinds
<1>19. CASE Loop
  BY <1>8, <1>19 DEF Loop, StmtKinds
<1>20. CASE If
  BY <1>8, <1>20 DEF If, StmtKinds
<1>. QED  BY <1>9, <1>10, <1>11, <1>12, <1>13, <1>14, <1>15, <1>16, <1>17, <1>18, <1>19,
             <1>20

LEMMA ReturnsOwned ==
  ASSUME OInv, IInv',
         ElementRead \/ UnaryConst \/ UnaryFlip \/ FoldConstants \/ FoldOnTape
  PROVE  OInv'
<1>1. IInv
  BY DEF OInv
<1>2. mode = "value" /\ Top.kind \in {"element", "unary", "right"}
  BY DEF ElementRead, UnaryConst, UnaryFlip, FoldConstants, FoldConstantsBy, FoldOnTape,
         FoldOnTapeBy, Resume
<1>. DEFINE b == Floor(Top)
            next == scopes[Top.scope].next
<1>3. /\ acts # <<>> /\ Top.scope = Depth
      /\ Top.mark \in Nat /\ b \in Nat /\ NextFree \in Nat /\ next = NextFree
      /\ b >= 1 /\ b <= Top.mark /\ Top.mark <= NextFree /\ Top.held.val \in Nat
      /\ res.val \in Nat /\ res.type \in {"CONST", "ADDRESS", "TEMP"}
      /\ Top.held.type = "TEMP" =>
           Top.kind = "right" /\ b = Top.held.val /\ Top.held.val < Top.mark
      /\ Top.held.type # "TEMP" => b = Top.mark
      /\ res.type = "TEMP" => Top.mark <= res.val /\ res.val < NextFree
      /\ Top.kind \in ExprKinds /\ Top.kind \notin Blocks
  <2>1. Ceiling(Top) = Top.mark
    BY <1>2 DEF Ceiling
  <2>2. Top.held.type # "TEMP" => b = Top.mark
    BY <1>2 DEF Floor
  <2>3. Top.kind \in ExprKinds /\ Top.kind \notin Blocks
    BY <1>2 DEF ExprKinds, Blocks
  <2>4. Top.held.type = "TEMP" => Top.kind = "right"
    BY <1>2, ValueOwned DEF Holding
  <2>. QED  BY <1>2, <2>1, <2>2, <2>3, <2>4, ValueOwned
<1>4. \A o \in Owners : EndOf(VarOf(o)) <= b
  BY <1>3, FloorOfTop
<1>. HIDE DEF b, next
<1>5. ASSUME SameVars, UNCHANGED calls, b <= NextFree', NEW r, Return(Under, r),
             \/ r.type = "TEMP" /\ b <= r.val /\ r.val < NextFree'
             \/ /\ r.type # "TEMP" /\ res.type # "TEMP" /\ Top.held.type # "TEMP"
                /\ NextFree' = NextFree
      PROVE  OInv'
  <2>1. VarsSettle(b, {})
    BY <1>4, <1>5, VarsStay
  <2>. QED  BY <1>2, <1>3, <1>5, <2>1, PopOwned DEF Return, b
<1>6. \A x \in Nat : scopes' = WithNext(Top.scope, x) => SameVars /\ NextFree' = x
  BY <1>1, <1>3, NextChanged
<1>7. CASE ElementRead
  <2>1. CASE res.type = "TEMP" /\ res.val # Top.mark
    <3>1. scopes' = WithNext(Top.scope, Top.mark + 1) /\ Top.mark + 1 \in Nat
      BY <1>3, <1>7, <2>1 DEF ElementRead
    <3>2. SameVars /\ NextFree' = Top.mark + 1
      BY <1>6, <3>1
    <3>. QED  BY <1>3, <1>5, <1>7, <3>2 DEF ElementRead, Temp
  <2>2. CASE res.type = "TEMP" /\ res.val = Top.mark
    <3>1. scopes' = scopes
      BY <1>7, <2>2 DEF ElementRead
    <3>2. SameVars /\ NextFree' = NextFree
      BY <3>1, ScopesStay
    <3>. QED  BY <1>3, <1>5, <1>7, <2>2, <3>2 DEF ElementRead, Temp
  <2>3. CASE res.type # "TEMP"
    <3>1. scopes' = WithNext(Top.scope, next + 1) /\ next + 1 \in Nat
      BY <1>3, <1>7, <2>3 DEF ElementRead, next
    <3>2. SameVars /\ NextFree' = next + 1
      BY <1>6, <3>1
    <3>. QED  BY <1>3, <1>5, <1>7, <3>2 DEF ElementRead, Temp
  <2>. QED  BY <2>1, <2>2, <2>3
<1>8. CASE UnaryConst
  <2>1. SameVars /\ NextFree' = NextFree
    BY <1>8, ScopesStay DEF UnaryConst
  <2>2. Top.held.type # "TEMP"
    BY <1>3, <1>8 DEF UnaryConst, Resume
  <2>. QED  BY <1>3, <1>5, <1>8, <2>1, <2>2 DEF UnaryConst, Const
<1>9. CASE UnaryFlip
  <2>0. b = Top.mark
    BY <1>3, <1>9 DEF UnaryFlip, Resume
  <2>1. CASE res.type = "ADDRESS"
    <3>1. scopes' = WithNext(Top.scope, next + 1) /\ next + 1 \in Nat
      BY <1>3, <1>9, <2>1 DEF UnaryFlip, next
    <3>2. SameVars /\ NextFree' = next + 1
      BY <1>6, <3>1
    <3>. QED  BY <1>3, <1>5, <1>9, <3>2 DEF UnaryFlip, Temp
  <2>2. CASE res.type = "TEMP" /\ res.val # Top.mark
    <3>1. scopes' = WithNext(Top.scope, res.val)
      BY <1>9, <2>2 DEF UnaryFlip
    <3>2. SameVars /\ NextFree' = res.val
      BY <1>3, <1>6, <3>1
    <3>. QED  BY <1>3, <1>5, <1>9, <2>2, <3>2 DEF UnaryFlip, Temp
  <2>3. CASE res.type = "TEMP" /\ res.val = Top.mark
    <3>1. scopes' = scopes
      BY <1>9, <2>3 DEF UnaryFlip
    <3>2. SameVars /\ NextFree' = NextFree
      BY <3>1, ScopesStay
    <3>. QED  BY <1>3, <1>5, <1>9, <2>3, <3>2 DEF UnaryFlip, Temp
  <2>. QED  BY <1>3, <1>9, <2>1, <2>2, <2>3 DEF UnaryFlip
<1>10. CASE FoldConstants
  <2>1. PICK op \in Ops : FoldConstantsBy(op)
    BY <1>10 DEF FoldConstants
  <2>2. CASE op \in {"DIV", "MOD"} /\ res.val = 0
    <3>1. Reject
      BY <2>1, <2>2 DEF FoldConstantsBy
    <3>. QED  BY <3>1, StopOwned DEF Reject
  <2>3. CASE ~(op \in {"DIV", "MOD"} /\ res.val = 0)
    <3>. DEFINE c == Const(Fold(op, Top.held.val, res.val))
    <3>1. Return(Under, c) /\ UNCHANGED <<scopes, calls, funs, out>>
          /\ Top.held.type = "CONST" /\ res.type = "CONST"
      BY <2>1, <2>3 DEF FoldConstantsBy
    <3>2. c.type = "CONST"
      BY DEF Const
    <3>3. SameVars /\ NextFree' = NextFree
      BY <3>1, ScopesStay
    <3>. HIDE DEF c
    <3>. QED  BY <1>3, <1>5, <3>1, <3>2, <3>3
  <2>. QED  BY <2>2, <2>3
<1>11. CASE FoldOnTape
  <2>. DEFINE left == Top.held
              acc  == Accumulator(left, next)
              dump == IF left.type = "TEMP" THEN next ELSE next + 1
              after == Released(res, dump)
  <2>1. PICK op \in Ops : FoldOnTapeBy(op)
    BY <1>11 DEF FoldOnTape
  <2>2. scopes' = WithNext(Top.scope, after) /\ Return(Under, Temp(acc)) /\ calls' = calls
    BY <2>1 DEF FoldOnTapeBy, next
  <2>3. dump \in Nat /\ dump >= NextFree
    BY <1>3
  <2>4. after \in Nat /\ acc < after /\ b <= acc /\ acc \in Nat
    <3>1. CASE left.type = "TEMP"
      <4>1. acc = b /\ dump = NextFree /\ b < Top.mark
        BY <1>3, <3>1 DEF Accumulator
      <4>. QED  BY <1>3, <4>1 DEF Released
    <3>2. CASE left.type # "TEMP"
      <4>1. acc = NextFree /\ dump = NextFree + 1
        BY <1>3, <3>2 DEF Accumulator
      <4>2. after = dump
        BY <1>3, <4>1 DEF Released
      <4>. QED  BY <1>3, <4>1, <4>2
    <3>. QED  BY <3>1, <3>2
  <2>5. SameVars /\ NextFree' = after
    BY <1>6, <2>2, <2>4
  <2>6. Temp(acc).type = "TEMP" /\ Temp(acc).val = acc
    BY DEF Temp
  <2>. HIDE DEF acc, after
  <2>. QED  BY <1>3, <1>5, <2>2, <2>4, <2>5, <2>6
<1>. QED  BY <1>7, <1>8, <1>9, <1>10, <1>11

\* An array is declared in the cells from the mark up; next_free does not wrap.
LEMMA ArrayDeclared ==
  ASSUME OInv, ArraySize, res.type = "CONST", ~(res.val > MaxArray)
  PROVE  /\ StmtWith(Under) /\ UNCHANGED calls
         /\ \E n \in Names, v \in Variables, next \in Nat :
              /\ scopes' = Declared(Depth, n, v, next)
              /\ v.addr = Top.mark /\ Top.mark <= v.addr /\ EndOf(v) = next /\ EndOf(v) <= next
<1>. DEFINE v    == Variable(Top.mark, ArrayType(res.val), res.val + 4)
            next == (Top.mark + res.val + 4) % Word
<1>1. IInv /\ Types /\ mode = "value" /\ Top.kind = "array" /\ Small
  BY DEF OInv, Owned, IInv, ArraySize, Resume
<1>2. acts # <<>> /\ Top.scope = Depth /\ Top.mark \in Nat /\ res.val \in Nat
  BY <1>1, ValueOwned
<1>3. StmtWith(Under) /\ UNCHANGED calls
  BY DEF ArraySize
<1>4. PICK n \in Names : scopes' = Declared(Depth, n, v, next)
  BY <1>2 DEF ArraySize
<1>5. Top.mark < MaxCells
  <2>1. Len(acts) \in 1..Len(acts) /\ Top = acts[Len(acts)]
    BY <1>1, <1>2, TopFacts DEF IInv, Types
  <2>. QED  BY <1>1, <2>1 DEF Small
<1>6. res.val \in 0..Word /\ res.val + 4 \in Nat
      /\ Top.mark + res.val + 4 \in 0..(Word - 1) /\ Word \in Nat
  <2>1. /\ Word \in Nat /\ MaxCells \in Nat /\ MaxArray \in Nat
        /\ MaxCells + MaxArray + 4 < Word
    BY BoundsAssumption
  <2>2. res.val <= MaxArray
    BY <1>2, <2>1
  <2>. QED  BY <1>2, <1>5, <2>1, <2>2
<1>7. next = Top.mark + res.val + 4
  <2>1. \A x \in 0..(Word - 1) : x % Word = x
    BY <1>6
  <2>. QED  BY <1>6, <2>1
<1>8. v \in Variables
  BY <1>2, <1>6, TypesOfTypes, VariableTypes
<1>9. v.addr = Top.mark /\ v.len = res.val + 4
  BY DEF Variable
<1>. HIDE DEF v, next
<1>10. EndOf(v) = next /\ next \in Nat
  <2>1. EndOf(v) = Top.mark + (res.val + 4)
    BY <1>9 DEF EndOf
  <2>. QED  BY <1>2, <1>7, <2>1
<1>11. Top.mark <= v.addr /\ EndOf(v) <= next
  BY <1>2, <1>9, <1>10
<1>. QED  BY <1>3, <1>4, <1>8, <1>9, <1>10, <1>11

LEMMA ValuesOwned ==
  ASSUME OInv, IInv',
         LetValue \/ SetValue \/ ArraySize \/ StoreValue \/ ValuePrinted
  PROVE  OInv'
<1>1. IInv
  BY DEF OInv
<1>2. /\ mode = "value" /\ Top.kind \in {"let", "set", "array", "store", "print_val"}
      /\ LetValue => Top.kind = "let"
      /\ ArraySize => Top.kind = "array"
  BY DEF LetValue, LetValueOf, SetValue, SetValueAt, ArraySize, StoreValue, ValuePrinted,
         Resume
<1>. DEFINE b == Floor(Top)
<1>3. /\ acts # <<>> /\ Top.scope = Depth
      /\ Top.mark \in Nat /\ b \in Nat /\ NextFree \in Nat
      /\ b >= 1 /\ b <= Top.mark /\ Top.mark <= NextFree
      /\ res.val \in Nat /\ res.type \in {"CONST", "ADDRESS", "TEMP"}
      /\ Top.kind \in {"let", "array"} => b = Top.mark
      /\ Top.kind \notin Blocks
  <2>1. Top.kind \notin Blocks
    BY <1>2 DEF Blocks
  <2>2. Top.kind \in {"let", "array"} => b = Top.mark
    BY <1>2, ValueOwned DEF Holding
  <2>3. /\ Top.mark \in Nat /\ Ceiling(Top) \in Nat /\ NextFree \in Nat
        /\ Top.mark <= Ceiling(Top) /\ Ceiling(Top) <= NextFree
    BY <1>2, ValueOwned
  <2>. QED  BY <1>2, <2>1, <2>2, <2>3, ValueOwned
<1>4. \A o \in Owners : EndOf(VarOf(o)) <= b
  BY <1>3, FloorOfTop
<1>. HIDE DEF b
<1>5. ASSUME UNCHANGED calls, StmtWith(Under), SameVars, b <= NextFree'
      PROVE  OInv'
  <2>1. VarsSettle(b, {})
    BY <1>4, <1>5, VarsStay
  <2>. QED  BY <1>2, <1>5, <2>1, PopOwned DEF StmtWith, b
<1>6. ASSUME UNCHANGED calls, StmtWith(Under), NEW n \in Names, NEW v \in Variables,
             NEW next \in Nat, scopes' = Declared(Depth, n, v, next),
             b <= v.addr, EndOf(v) <= next
      PROVE  OInv'
  <2>1. Innermost'
    BY <1>6, BlocksInnermostAfter DEF StmtWith
  <2>2. PICK fresh : VarsSettle(b, fresh)
    BY <1>1, <1>3, <1>4, <1>6, <2>1, OneVarSettles
  <2>3. NextFree' = next
    BY <1>1, <1>6, VarDeclared
  <2>4. b <= NextFree'
    <3>1. v.addr \in Nat /\ v.len \in Nat
      BY DEF Variables
    <3>. QED  BY <1>3, <1>6, <2>3, <3>1 DEF EndOf
  <2>. QED  BY <1>2, <1>6, <2>2, <2>4, PopOwned DEF StmtWith, b
<1>7. \A x \in Nat : scopes' = WithNext(Top.scope, x) => SameVars /\ NextFree' = x
  BY <1>1, <1>3, NextChanged
<1>8. CASE LetValue
  <2>1. PICK n \in Names :
          /\ n \in Declares(scopes[Top.scope].vars) => scopes' = WithNext(Top.scope, Top.mark)
          /\ n \notin Declares(scopes[Top.scope].vars) =>
               scopes' = Declared(Top.scope, n, Variable(Top.mark, IntegerType, 1), Top.mark + 1)
          /\ StmtWith(Under) /\ UNCHANGED calls
    BY <1>8 DEF LetValue, LetValueOf
  <2>2. CASE n \in Declares(scopes[Top.scope].vars)
    BY <1>3, <1>5, <1>7, <2>1, <2>2
  <2>3. CASE n \notin Declares(scopes[Top.scope].vars)
    <3>. DEFINE v == Variable(Top.mark, IntegerType, 1)
    <3>1. v \in Variables /\ Top.mark + 1 \in Nat
      <4>1. 1 \in Nat
        OBVIOUS
      <4>. QED  BY <1>3, <4>1, VariableTypes, TypesOfTypes
    <3>2. v.addr = Top.mark /\ EndOf(v) = Top.mark + 1
      BY DEF Variable, EndOf
    <3>3. scopes' = Declared(Depth, n, v, Top.mark + 1)
      BY <1>3, <2>1, <2>3
    <3>. HIDE DEF v
    <3>. QED  BY <1>2, <1>3, <1>6, <1>8, <2>1, <3>1, <3>2, <3>3
  <2>. QED  BY <2>2, <2>3
<1>9. CASE SetValue
  <2>1. /\ scopes' = IF res.type = "TEMP" THEN WithNext(Top.scope, Top.mark) ELSE scopes
        /\ StmtWith(Under) /\ UNCHANGED calls
    BY <1>9 DEF SetValue, SetValueAt
  <2>. QED  BY <1>3, <1>5, <1>7, <2>1, ScopesStay
<1>10. CASE ArraySize
  <2>1. CASE res.type # "CONST"
    BY <1>10, <2>1, StopOwned DEF ArraySize, Reject
  <2>2. CASE res.type = "CONST" /\ res.val > MaxArray
    BY <1>2, <1>10, <2>2, StopOwned DEF ArraySize
  <2>3. CASE res.type = "CONST" /\ ~(res.val > MaxArray)
    BY <1>2, <1>3, <1>6, <1>10, <2>3, ArrayDeclared
  <2>. QED  BY <2>1, <2>2, <2>3
<1>11. CASE StoreValue
  <2>1. /\ scopes' = IF Top.held.type = "CONST" /\ res.type = "CONST"
                       THEN scopes ELSE WithNext(Top.scope, Top.mark)
        /\ StmtWith(Under) /\ UNCHANGED calls
    BY <1>11 DEF StoreValue
  <2>. QED  BY <1>3, <1>5, <1>7, <2>1, ScopesStay
<1>12. CASE ValuePrinted
  BY <1>3, <1>5, <1>12, ScopesStay DEF ValuePrinted
<1>. QED  BY <1>8, <1>9, <1>10, <1>11, <1>12

\* A return is compiled at the top level of the body it ends, which is the one of
\* the current call.
LEMMA ReturnInBody ==
  ASSUME OInv, mode = "value", Top.kind = "return"
  PROVE  /\ Len(acts) > 1 /\ acts[Len(acts) - 1].kind = "body"
         /\ Top.nth = Len(calls) /\ Len(calls) \in 1..Len(calls)
<1>1. IInv /\ Types /\ Nested /\ StackTypes /\ Returns /\ Typed
  BY StatesTyped DEF OInv, Owned, IInv, Types
<1>. DEFINE N == Len(acts)
            L == Len(calls)
            t == Top.nth
<1>2. /\ N \in Nat /\ N \in 1..N /\ acts[N].kind = "return" /\ Top = acts[N]
      /\ Depth \in Nat /\ acts[N].scope = Depth /\ L \in Nat
  <2>1. acts # <<>> /\ Top.scope = Depth /\ Depth \in Nat
    BY ValueOwned
  <2>2. acts \in Seq(Activation) /\ calls \in Seq(Call)
    BY <1>1 DEF StackTypes
  <2>. QED  BY <2>1, <2>2 DEF Top
<1>3. t \in 1..L /\ calls[t].scope_barrier = Depth
  BY <1>1, <1>2 DEF Returns
<1>4. PICK i \in 1..N : acts[i].kind = "body" /\ acts[i].scope = Depth
  BY <1>1, <1>3 DEF Nested, CallsNest
<1>5. i < N
  BY <1>2, <1>4
<1>6. N > 1 /\ acts[N - 1].kind \in Blocks
  <2>1. N > 1
    BY <1>2, <1>5
  <2>2. acts[N].kind \in StmtKinds
    BY <1>2 DEF StmtKinds
  <2>3. N = 1 \/ acts[N - 1].kind \in Blocks
    BY <1>1, <1>2, <2>2 DEF Nested, StackShape
  <2>. HIDE DEF N
  <2>. QED  BY <1>2, <2>1, <2>3
<1>7. i = N - 1
  <2>1. ASSUME i < N - 1
        PROVE  FALSE
    <3>1. N - 1 \in 1..N
      BY <1>2, <1>6
    <3>2. acts[i].scope < acts[N - 1].scope
      BY <1>1, <1>6, <2>1, <3>1 DEF Nested, ScopesNest
    <3>3. acts[N - 1].scope \in Nat /\ acts[N - 1].scope <= Depth
      BY <1>1, <3>1 DEF Typed
    <3>. QED  BY <1>2, <1>4, <3>2, <3>3
  <2>. HIDE DEF N
  <2>. QED  BY <1>2, <1>5, <2>1
<1>8. t = L
  <2>1. ASSUME t < L
        PROVE  FALSE
    <3>1. L \in 1..L
      BY <1>2, <1>3
    <3>2. calls[t].scope_barrier < calls[L].scope_barrier
      BY <1>1, <1>3, <2>1, <3>1 DEF Nested, CallsNest
    <3>3. calls[L].scope_barrier \in Nat /\ calls[L].scope_barrier <= Depth
      BY <1>1, <3>1, ScopesBelow
    <3>. QED  BY <1>2, <1>3, <3>2, <3>3
  <2>. QED  BY <1>2, <1>3, <2>1
<1>. QED  BY <1>2, <1>3, <1>4, <1>6, <1>7, <1>8

\* The returned value is in the first cell taken for it.
LEMMA ReturnOwned ==
  ASSUME OInv, IInv', ReturnValue
  PROVE  OInv'
<1>1. IInv /\ mode = "value" /\ Top.kind = "return" /\ Returns
  BY DEF OInv, Owned, ReturnValue, Resume
<1>. DEFINE m == Len(acts) - 1
            b == Floor(Top)
            L == Len(calls)
<1>2. /\ acts # <<>> /\ Top.scope = Depth /\ Top.mark \in Nat /\ b \in Nat
      /\ b = Top.mark /\ b >= 1
      /\ Top.kind \notin Blocks
  BY <1>1, ValueOwned DEF Holding, Blocks
<1>3. /\ \A i \in 1..m : Ceiling(acts[i]) <= b
      /\ \A o \in Owners : EndOf(VarOf(o)) <= b
  BY <1>2, FloorOfTop
<1>4. Len(acts) > 1 /\ acts[m].kind = "body" /\ Top.nth = L /\ L \in 1..L
  BY <1>1, ReturnInBody
<1>5. acts' = Under /\ mode' = "stmt" /\ res' = NoResult
  BY DEF ReturnValue, StmtWith
<1>6. m \in 0..Len(acts) /\ m # Len(acts) /\ Kept(m) /\ Len(acts') = m /\ m >= 1
      /\ Len(acts') # m + 1
  <2>1. /\ m \in 0..Len(acts) /\ m # Len(acts) /\ Kept(m) /\ Len(acts') = m
        /\ Len(acts) \in Nat
    BY <1>2, <1>5, AboveTop, StatesTyped, <1>1 DEF Typed
  <2>2. m \in Nat
    BY <2>1
  <2>3. m >= 1 /\ m # m + 1
    <3>. DEFINE n == Len(acts)
    <3>1. n > 1 /\ n \in Nat /\ m = n - 1
      BY <1>4, <2>1
    <3>. HIDE DEF n, m
    <3>. QED  BY <3>1
  <2>. QED  BY <2>1, <2>3
<1>7. SameVars /\ NextFree' = b + 1
  <2>1. Top.mark + 1 \in Nat /\ scopes' = WithNext(Depth, Top.mark + 1)
    BY <1>2 DEF ReturnValue
  <2>. QED  BY <1>1, <1>2, <2>1, NextChanged
<1>8. VarsSettle(b, {})
  BY <1>3, <1>7, VarsStay
<1>9. /\ calls' = [calls EXCEPT ![L].has_returned = TRUE, ![L].ret_addr = Top.mark]
      /\ calls \in Seq(Call)
  BY <1>1, <1>4 DEF ReturnValue, IInv, Types, StackTypes
<1>10. /\ Len(calls') = L /\ calls'[L].ret_addr = b
       /\ \A k \in 1..L : /\ calls'[k].scope_barrier = calls[k].scope_barrier
                          /\ k # L => calls'[k] = calls[k]
  <2>. DEFINE x == Top.mark
  <2>. HIDE DEF x, L
  <2>1. \A c \in Call : LET d == [c EXCEPT !.has_returned = TRUE, !.ret_addr = x]
                        IN  d.scope_barrier = c.scope_barrier /\ d.ret_addr = x
    BY DEF Call
  <2>2. calls[L] \in Call /\ DOMAIN calls = 1..Len(calls)
    BY <1>4, <1>9 DEF L
  <2>3. calls' = [calls EXCEPT ![L] = [calls[L] EXCEPT !.has_returned = TRUE, !.ret_addr = x]]
    BY <1>4, <1>9, <2>2 DEF x, L
  <2>4. /\ \A k \in 1..L : k # L => calls'[k] = calls[k]
        /\ calls'[L] = [calls[L] EXCEPT !.has_returned = TRUE, !.ret_addr = x]
        /\ DOMAIN calls' = 1..Len(calls)
    BY <1>4, <2>2, <2>3 DEF L
  <2>5. Len(calls') = L
    <3>1. calls' \in Seq(Call)
      BY DEF IInv, Types, StackTypes
    <3>2. DOMAIN calls' = 1..Len(calls') /\ Len(calls') \in Nat /\ Len(calls) \in Nat
      BY <1>9, <3>1
    <3>3. Len(calls') = Len(calls)
      BY <2>4, <3>2
    <3>. QED  BY <3>3 DEF L
  <2>6. calls'[L].scope_barrier = calls[L].scope_barrier /\ calls'[L].ret_addr = x
    BY <2>1, <2>2, <2>4
  <2>7. \A k \in 1..L : calls'[k].scope_barrier = calls[k].scope_barrier
    BY <2>4, <2>6
  <2>8. x = b
    BY <1>2 DEF x
  <2>. QED  BY <2>4, <2>5, <2>6, <2>7, <2>8
<1>11. \A k \in 1..L : k # L => ~calls[k].has_returned
  BY <1>1 DEF Returns
<1>. HIDE DEF m
<1>12. CallsSettle(m, b)
  BY <1>2, <1>4, <1>5, <1>6, <1>7, <1>10, <1>11 DEF CallsSettle
<1>13. \A i \in 1..m : acts[i].kind = "return" =>
         acts[i].nth \in 1..Len(calls') /\ calls'[acts[i].nth].scope_barrier = acts[i].scope
  <2>1. \A i \in 1..m : i \in 1..Len(acts)
    BY <1>6
  <2>. QED  BY <1>1, <1>10, <2>1 DEF Returns
<1>14. b <= NextFree'
  BY <1>2, <1>7
<1>15. ActsSettle(m, b)
  BY <1>2, <1>3, <1>6, <1>13, <1>14 DEF ActsSettle
<1>16. ValueSettles(m, b)
  BY <1>5 DEF ValueSettles, NoResult
<1>17. Settles(m, b, {})
  BY <1>8, <1>12, <1>15, <1>16 DEF Settles, FreshAlone
<1>. QED  BY <1>2, <1>17, Settled

\* The call on top of the stack: the arguments bound so far are in its frame.
LEMMA TopCall ==
  ASSUME OInv, acts # <<>>, Top.kind = "call"
  PROVE  /\ Top.held.type # "TEMP" /\ Floor(Top) = Top.base /\ Ceiling(Top) = Top.mark
         /\ Top.binds \in [Names -> Variables]
         /\ \A n \in Names : Top.binds[n].len > 0 =>
              /\ Top.base <= Top.binds[n].addr /\ EndOf(Top.binds[n]) <= NextFree
              /\ mode = "value" => EndOf(Top.binds[n]) <= Top.mark
         /\ \A n, p \in Names :
              n # p => CellsOf(Top.binds[n]) \cap CellsOf(Top.binds[p]) = {}
<1>1. IInv /\ Keeps /\ Bindings /\ TempsOwned /\ Typed
  BY StatesTyped DEF OInv, Owned
<1>2. Len(acts) \in Nat /\ Len(acts) \in 1..Len(acts) /\ Top = acts[Len(acts)]
      /\ Top \in Activation
  <2>1. acts \in Seq(Activation)
    BY <1>1 DEF IInv, Types, StackTypes
  <2>. QED  BY <2>1 DEF Top
<1>3. Top.held.type # "TEMP"
  BY <1>1, <1>2 DEF Keeps, Holding
<1>4. Floor(Top) = Top.base /\ Ceiling(Top) = Top.mark
  BY DEF Floor, Ceiling
<1>5. Top.binds \in [Names -> Variables]
  BY <1>2, ActivationTypes
<1>6. ASSUME NEW n \in Names, Top.binds[n].len > 0
      PROVE  /\ Top.base <= Top.binds[n].addr /\ EndOf(Top.binds[n]) <= NextFree
             /\ mode = "value" => EndOf(Top.binds[n]) <= Top.mark
  <2>1. Top.base <= Top.binds[n].addr /\ (mode = "value" => EndOf(Top.binds[n]) <= Top.mark)
    BY <1>1, <1>2, <1>6 DEF Bindings, Evaluating
  <2>2. EndOf(Top.binds[n]) <= NextFree
    <3>. DEFINE v == Top.binds[n]
                c == EndOf(v) - 1
    <3>1. v \in Variables /\ EndOf(v) \in Nat /\ c \in CellsOf(v)
      BY <1>5, <1>6, Cells, VariableCells
    <3>. HIDE DEF v, c
    <3>2. c \in HeldCells(acts[Len(acts)])
      BY <1>2, <3>1 DEF HeldCells, v
    <3>3. c < NextFree
      BY <1>1, <1>2, <3>2 DEF TempsOwned
    <3>4. NextFree \in Nat
      BY <1>1 DEF Typed
    <3>. QED  BY <3>1, <3>3, <3>4 DEF c, v
  <2>. QED  BY <2>1, <2>2
<1>7. \A n, p \in Names :
        n # p => CellsOf(Top.binds[n]) \cap CellsOf(Top.binds[p]) = {}
  BY <1>1, <1>2 DEF Bindings
<1>. QED  BY <1>3, <1>4, <1>5, <1>6, <1>7

LEMMA CallBased ==
  ASSUME NEW a, NEW b, a.kind = "call", a.held.type # "TEMP",
         b <= Floor(a), Floor(a) <= a.mark, Ceiling(a) <= NextFree',
         \A n \in Names : a.binds[n].len > 0 =>
           /\ a.base <= a.binds[n].addr /\ EndOf(a.binds[n]) <= NextFree'
           /\ Evaluating' => EndOf(a.binds[n]) <= a.mark,
         \A n, p \in Names : n # p => CellsOf(a.binds[n]) \cap CellsOf(a.binds[p]) = {}
  PROVE  Based(a, b)
BY DEF Based

\* One more parameter is bound: to cells of the caller, or to the first cell
\* taken for the argument.
LEMMA BindOwned ==
  ASSUME OInv, IInv', UNCHANGED calls, mode \in {"value", "args"}, acts # <<>>,
         Top.kind = "call", SameVars, NEW v \in Variables,
         BindWith(TopBecomes(Bound(Top, v))),
         \/ v.len = 0 /\ mode = "args" /\ NextFree' = NextFree
         \/ v.len = 1 /\ v.addr = Top.mark /\ mode = "value" /\ NextFree' = Top.mark + 1
  PROVE  OInv'
<1>1. IInv
  BY DEF OInv
<1>2. /\ Top \in Activation /\ Top.base \in Nat /\ Top.mark \in Nat /\ NextFree \in Nat
      /\ Top.base <= Top.mark /\ Top.mark <= NextFree
  <2>1. Top \in Activation
    BY <1>1, Context DEF IInv
  <2>. QED  BY <2>1, TopCall, FloorOfTop, ActivationTypes
<1>. DEFINE old == Top.binds
            new == Bind(old, Parameter.name, v)
            a == Bound(Top, v)
<1>3. a \in Activation /\ a.kind = "call"
  BY <1>2, BoundTypes
<1>4. a.held = Top.held /\ a.base = Top.base /\ a.mark = Top.mark /\ a.binds = new
  <2>. HIDE DEF new
  <2>1. a = [Top EXCEPT !.binds = new, !.nth = Top.nth + 1]
    BY DEF Bound, new
  <2>. QED  BY <1>2, <2>1 DEF Activation
<1>5. /\ old \in [Names -> Variables] /\ Top.held.type # "TEMP"
      /\ \A n \in Names : old[n].len > 0 =>
           /\ Top.base <= old[n].addr /\ EndOf(old[n]) <= NextFree
           /\ mode = "value" => EndOf(old[n]) <= Top.mark
      /\ \A n, p \in Names : n # p => CellsOf(old[n]) \cap CellsOf(old[p]) = {}
      /\ Floor(Top) = Top.base
  BY TopCall
<1>6. \A n \in Names : new[n] = v \/ new[n] = old[n]
  BY <1>5 DEF Bind
<1>7. \A n, p \in Names : n # p => new[n] = old[n] \/ new[p] = old[p]
  BY <1>5 DEF Bind
<1>8. v.addr \in Nat /\ v.len \in Nat /\ (v.len > 0 => EndOf(v) = NextFree' /\ Top.base <= v.addr)
  BY <1>2, VariableCells DEF EndOf
<1>9. \A n \in Names : /\ old[n] \in Variables /\ EndOf(old[n]) \in Nat /\ old[n].len \in Nat
                       /\ old[n].addr \in Nat
  BY <1>5, VariableCells
<1>10. \A n \in Names : CellsOf(old[n]) \cap CellsOf(v) = {}
  <2>1. \A n \in Names : \A c \in CellsOf(old[n]) :
          c \in Nat /\ old[n].len > 0 /\ c < EndOf(old[n])
    BY <1>9, Cells
  <2>2. \A c \in CellsOf(v) : c \in Nat /\ v.len > 0 /\ v.addr <= c
    BY Cells
  <2>. HIDE DEF old
  <2>3. ASSUME NEW n \in Names, NEW c \in CellsOf(old[n]), c \in CellsOf(v)
        PROVE  FALSE
    <3>1. c \in Nat /\ old[n].len > 0 /\ c < EndOf(old[n]) /\ v.len > 0 /\ v.addr <= c
      BY <2>1, <2>2, <2>3
    <3>2. v.addr = Top.mark /\ mode = "value"
      BY <3>1
    <3>3. EndOf(old[n]) <= Top.mark
      BY <1>5, <3>1, <3>2
    <3>. QED  BY <1>2, <1>9, <3>1, <3>2, <3>3
  <2>. QED  BY <2>3
<1>11. \A n \in Names : new[n].len > 0 =>
         Top.base <= new[n].addr /\ EndOf(new[n]) <= NextFree'
  <2>. HIDE DEF old, new
  <2>1. NextFree' \in Nat /\ Top.mark <= NextFree'
        /\ (mode = "args" => NextFree' = NextFree)
    BY <1>2
  <2>2. ASSUME NEW n \in Names, old[n].len > 0
        PROVE  Top.base <= old[n].addr /\ EndOf(old[n]) <= NextFree'
    BY <1>2, <1>5, <1>9, <2>1, <2>2
  <2>3. v.len > 0 => Top.base <= v.addr /\ EndOf(v) <= NextFree'
    BY <1>8, <2>1
  <2>. QED  BY <1>6, <2>2, <2>3
<1>12. \A n, p \in Names : n # p => CellsOf(new[n]) \cap CellsOf(new[p]) = {}
  <2>. HIDE DEF old, new
  <2>. QED  BY <1>5, <1>6, <1>7, <1>10
<1>13. acts' = TopBecomes(a) /\ mode' = "args" /\ res' = NoResult
  BY DEF BindWith
<1>. HIDE DEF a, old, new
<1>14. Floor(a) = Floor(Top) /\ Ceiling(a) = Top.mark
  BY <1>3, <1>4, <1>5 DEF Floor, Ceiling
<1>15. Top.mark <= NextFree' /\ Floor(Top) <= NextFree'
  BY <1>2, <1>5
<1>16. Based(a, Floor(Top))
  <2>1. Floor(Top) <= Floor(a) /\ Floor(a) <= a.mark /\ Ceiling(a) <= NextFree'
    BY <1>2, <1>4, <1>5, <1>14, <1>15
  <2>2. ~Evaluating' /\ a.held.type # "TEMP"
    BY <1>4, <1>5, <1>13 DEF Evaluating
  <2>3. /\ \A n \in Names : a.binds[n].len > 0 =>
             a.base <= a.binds[n].addr /\ EndOf(a.binds[n]) <= NextFree'
        /\ \A n, p \in Names : n # p => CellsOf(a.binds[n]) \cap CellsOf(a.binds[p]) = {}
    BY <1>4, <1>11, <1>12
  <2>. QED  BY <1>3, <2>1, <2>2, <2>3, CallBased
<1>17. Top.kind \notin Blocks
  BY DEF Blocks
<1>. QED  BY <1>3, <1>5, <1>13, <1>14, <1>15, <1>16, <1>17, SwapOwned

LEMMA ArgumentsOwned ==
  ASSUME OInv, IInv', BindAlias \/ EvalArgument \/ BindValue
  PROVE  OInv'
<1>1. IInv /\ Types /\ Nested
  BY DEF OInv, IInv
<1>2. acts # <<>> /\ Top.kind = "call" /\ UNCHANGED calls
  BY <1>1 DEF IInv, ModeShape, BindAlias, EvalArgument, BindValue, Resume
<1>3. Top \in Activation /\ Top.scope = Depth /\ Top.mark \in Nat /\ NextFree \in Nat
      /\ Top.base \in Nat /\ Depth \in Nat \ {0}
  <2>1. Top \in Activation /\ Top.scope = Depth /\ NextFree \in Nat /\ Depth \in Nat \ {0}
    BY <1>1, <1>2, Context
  <2>. QED  BY <2>1, ActivationTypes
<1>4. CASE BindAlias
  <2>1. PICK p \in ArgPlaces : BindWith(TopBecomes(Bound(Top, Variable(p.addr, p.type, 0))))
    BY <1>4 DEF BindAlias
  <2>. DEFINE v == Variable(p.addr, p.type, 0)
  <2>2. v \in Variables
    <3>1. p.addr \in Nat /\ p.type \in KnownTypes /\ 0 \in Nat
      BY <1>1, PlaceTypes
    <3>. QED  BY <3>1, VariableTypes
  <2>3. v.len = 0
    BY DEF Variable
  <2>4. SameVars /\ NextFree' = NextFree /\ mode = "args"
    BY <1>4, ScopesStay DEF BindAlias
  <2>. HIDE DEF v
  <2>5. BindWith(TopBecomes(Bound(Top, v)))
    BY <2>1 DEF v
  <2>. QED  BY <1>2, <2>2, <2>3, <2>4, <2>5, BindOwned
<1>5. CASE BindValue
  <2>. DEFINE v == Variable(Top.mark, IntegerType, 1)
  <2>1. v \in Variables /\ Top.mark + 1 \in Nat
    <3>1. 1 \in Nat
      OBVIOUS
    <3>. QED  BY <1>3, <3>1, VariableTypes, TypesOfTypes
  <2>2. v.len = 1 /\ v.addr = Top.mark
    BY DEF Variable
  <2>3. SameVars /\ NextFree' = Top.mark + 1 /\ mode = "value"
    <3>1. scopes' = WithNext(Depth, Top.mark + 1) /\ mode = "value"
      BY <1>3, <1>5 DEF BindValue, Resume
    <3>. QED  BY <1>1, <2>1, <3>1, NextChanged
  <2>4. BindWith(TopBecomes(Bound(Top, v)))
    BY <1>5 DEF BindValue
  <2>. HIDE DEF v
  <2>. QED  BY <1>2, <2>1, <2>2, <2>3, <2>4, BindOwned
<1>6. CASE EvalArgument
  <2>. DEFINE b == Top
              d == Depth
              next == NextFree
              a == [b EXCEPT !.mark = next, !.scope = d]
  <2>1. /\ a \in Activation /\ a.kind = b.kind /\ a.scope = d /\ a.mark = next
        /\ a.held = b.held /\ a.base = b.base /\ a.binds = b.binds
    <3>1. b \in Activation /\ d \in Nat \ {0} /\ next \in Nat
      BY <1>3
    <3>. HIDE DEF b, d, next
    <3>. QED  BY <3>1 DEF Activation
  <2>2. SameVars /\ NextFree' = NextFree
    BY <1>6, ScopesStay DEF EvalArgument
  <2>3. acts' = TopBecomes(a) /\ mode' = "expr" /\ res' = NoResult /\ mode = "args"
    BY <1>6 DEF EvalArgument, EvalWith
  <2>. HIDE DEF a
  <2>4. Floor(a) = Floor(Top) /\ Ceiling(a) = NextFree
    BY <1>2, <2>1 DEF Floor, Ceiling
  <2>5. Floor(Top) \in Nat /\ Floor(Top) <= NextFree
    <3>1. Ceiling(Top) \in Nat /\ Top.mark \in Nat /\ NextFree \in Nat /\ Floor(Top) \in Nat
          /\ Floor(Top) <= Top.mark /\ Top.mark <= Ceiling(Top) /\ Ceiling(Top) <= NextFree
      BY <1>2, FloorOfTop
    <3>. QED  BY <3>1
  <2>6. Based(a, Floor(Top))
    <3>1. Floor(Top) <= Floor(a) /\ Floor(a) <= a.mark /\ Ceiling(a) <= NextFree'
      BY <1>3, <2>1, <2>2, <2>4, <2>5
    <3>2. /\ a.held.type # "TEMP"
          /\ \A n \in Names : a.binds[n].len > 0 =>
               a.base <= a.binds[n].addr /\ EndOf(a.binds[n]) <= NextFree
          /\ \A n, p \in Names : n # p => CellsOf(a.binds[n]) \cap CellsOf(a.binds[p]) = {}
      <4>1. a.held = Top.held /\ a.base = Top.base /\ a.binds = Top.binds
        BY <2>1
      <4>. QED  BY <1>2, <4>1, TopCall
    <3>. QED  BY <1>2, <2>1, <2>2, <3>1, <3>2, CallBased
  <2>7. Top.kind \notin Blocks
    BY <1>2 DEF Blocks
  <2>. QED  BY <1>2, <2>1, <2>2, <2>3, <2>4, <2>5, <2>6, <2>7, TopCall, SwapOwned
<1>. QED  BY <1>4, <1>5, <1>6

LEMMA OperandBased ==
  ASSUME NEW a, NEW b, a.kind \notin {"call", "return", "array"},
         b <= Floor(a), Floor(a) <= a.mark, Ceiling(a) <= NextFree',
         a.held.type = "TEMP" => a.kind \in Holding /\ a.held.val < Ceiling(a)
  PROVE  Based(a, b)
BY DEF Based

\* The left operand and the index are held in their cells, if they have any,
\* while the next operand is evaluated.
LEMMA SwapsOwned ==
  ASSUME OInv, IInv', LeftEvaluated \/ IndexEvaluated
  PROVE  OInv'
<1>1. IInv /\ Types /\ Nested
  BY DEF OInv, IInv
<1>2. mode = "value" /\ Top.kind \in {"left", "index"} /\ UNCHANGED calls
  BY DEF LeftEvaluated, IndexEvaluated, Resume
<1>3. /\ acts # <<>> /\ Top \in Activation /\ Top.scope = Depth
      /\ Top.mark \in Nat /\ NextFree \in Nat /\ Top.mark <= NextFree
      /\ res \in EvalResults /\ res.val \in Nat
      /\ res.type = "TEMP" => Top.mark <= res.val /\ res.val < NextFree
      /\ res.type # "TEMP" => NextFree = Top.mark
      /\ Floor(Top) = Top.mark /\ Top.held.type # "TEMP" /\ Top.kind \notin Blocks
  <2>1. Top.kind \notin Holding \cup {"call", "body"} /\ Top.kind \notin Blocks
    BY <1>2 DEF Holding, Blocks
  <2>2. Floor(Top) = Top.mark /\ Ceiling(Top) = Top.mark /\ Top.held.type # "TEMP"
    BY <1>2, <2>1, ValueOwned
  <2>. QED  BY <1>2, <2>1, <2>2, ValueOwned
<1>4. CASE LeftEvaluated
  <2>. DEFINE c == Pending("right")
              a == [c EXCEPT !.held = res]
  <2>1. c \in Activation /\ c.kind = "right" /\ c.mark = NextFree
    <3>1. "right" \in ExprKinds
      BY DEF ExprKinds
    <3>2. c.mark = NextFree
      BY DEF Pending
    <3>. QED  BY <1>1, <3>1, <3>2, PendingTypes
  <2>2. a \in Activation /\ a.kind = "right" /\ a.mark = NextFree /\ a.held = res
    <3>. HIDE DEF c
    <3>. QED  BY <1>3, <2>1 DEF Activation
  <2>3. acts' = TopBecomes(a) /\ mode' = "expr" /\ res' = NoResult /\ scopes' = scopes
    BY <1>4 DEF LeftEvaluated, EvalWith
  <2>4. SameVars /\ NextFree' = NextFree
    BY <2>3, ScopesStay
  <2>. HIDE DEF a
  <2>5. /\ Floor(a) = IF res.type = "TEMP" THEN res.val ELSE NextFree
        /\ Ceiling(a) = NextFree
    BY <2>2 DEF Floor, Ceiling
  <2>6. Based(a, Floor(Top))
    <3>1. Floor(Top) <= Floor(a) /\ Floor(a) <= a.mark /\ Ceiling(a) <= NextFree'
      BY <1>3, <2>2, <2>4, <2>5
    <3>2. a.held.type = "TEMP" => a.kind \in Holding /\ a.held.val < Ceiling(a)
      BY <1>3, <2>2, <2>5 DEF Holding
    <3>. QED  BY <2>2, <3>1, <3>2, OperandBased
  <2>7. a.held.type = "TEMP" \/ Floor(a) = Floor(Top)
    BY <1>3, <2>2, <2>5
  <2>. QED  BY <1>2, <1>3, <2>2, <2>3, <2>4, <2>5, <2>6, <2>7, SwapOwned
<1>5. CASE IndexEvaluated
  <2>. DEFINE index == IF res.type = "TEMP" THEN Temp(Top.mark) ELSE res
              b == Top
              a == [b EXCEPT !.kind = "store", !.held = index]
  <2>1. index \in EvalResults
    BY <1>3, ResultTypes
  <2>2. a \in Activation /\ a.kind = "store" /\ a.mark = Top.mark /\ a.held = index
    <3>1. b \in Activation /\ "store" \in StmtKinds
      BY <1>3 DEF StmtKinds
    <3>. HIDE DEF b, index
    <3>2. a \in Activation /\ a.kind = "store" /\ a.mark = b.mark /\ a.held = index
      BY <2>1, <3>1 DEF Activation
    <3>. QED  BY <3>2 DEF b
  <2>3. acts' = TopBecomes(a) /\ mode' = "expr" /\ res' = NoResult
    BY <1>5 DEF IndexEvaluated, EvalWith
  <2>4. /\ index.type = "TEMP" <=> res.type = "TEMP"
        /\ index.type = "TEMP" => index.val = Top.mark
    BY DEF Temp
  <2>. HIDE DEF a, index
  <2>5. /\ SameVars
        /\ NextFree' = IF res.type = "TEMP" THEN Top.mark + 1 ELSE Top.mark
    <3>1. CASE res.type = "TEMP"
      <4>1. scopes' = WithNext(Depth, Top.mark + 1) /\ Top.mark + 1 \in Nat
        BY <1>3, <1>5, <3>1 DEF IndexEvaluated
      <4>. QED  BY <1>1, <3>1, <4>1, NextChanged
    <3>2. CASE res.type # "TEMP"
      <4>1. scopes' = scopes
        BY <1>5, <3>2 DEF IndexEvaluated
      <4>. QED  BY <1>3, <3>2, <4>1, ScopesStay
    <3>. QED  BY <3>1, <3>2
  <2>6. /\ Floor(a) = Top.mark
        /\ Ceiling(a) = IF res.type = "TEMP" THEN Top.mark + 1 ELSE Top.mark
    BY <2>2, <2>4 DEF Floor, Ceiling
  <2>7. Based(a, Floor(Top))
    <3>1. Floor(Top) <= Floor(a) /\ Floor(a) <= a.mark /\ Ceiling(a) <= NextFree'
      BY <1>3, <2>2, <2>5, <2>6
    <3>2. a.held.type = "TEMP" => a.kind \in Holding /\ a.held.val < Ceiling(a)
      BY <1>3, <2>2, <2>4, <2>6 DEF Holding
    <3>. QED  BY <2>2, <3>1, <3>2, OperandBased
  <2>8. Floor(a) = Floor(Top) /\ NextFree' = Ceiling(a) /\ Floor(Top) <= NextFree'
    BY <1>3, <2>5, <2>6
  <2>. QED  BY <1>2, <1>3, <2>2, <2>3, <2>5, <2>7, <2>8, SwapOwned
<1>. QED  BY <1>4, <1>5

\* A statement that evaluates nothing.
LEMMA PlainsOwned ==
  ASSUME OInv, IInv', LetString \/ LetStruct \/ PrintStr \/ DefineFunction
  PROVE  OInv'
<1>1. IInv /\ mode = "stmt" /\ ~HasReturned /\ UNCHANGED <<calls, acts, mode, res>>
  BY DEF OInv, LetString, LetStruct, PrintStr, DefineFunction, Stmt
<1>2. NextFree \in Nat /\ \A o \in Owners : EndOf(VarOf(o)) <= NextFree
  BY FloorOfNext
<1>3. ASSUME scopes' = scopes
      PROVE  OInv'
  <2>1. SameVars /\ NextFree' = NextFree
    BY <1>3, ScopesStay
  <2>2. VarsSettle(NextFree, {})
    BY <1>2, <2>1, VarsStay
  <2>3. NextFree <= NextFree'
    BY <1>2, <2>1
  <2>. QED  BY <1>1, <2>2, <2>3, PlainOwned
<1>4. ASSUME NEW n \in Names, NEW v \in Variables, NEW next \in Nat,
             scopes' = Declared(Depth, n, v, next), v.addr = NextFree, EndOf(v) = next
      PROVE  OInv'
  <2>1. Innermost'
    BY <1>1, BlocksInnermostAfter
  <2>2. NextFree <= v.addr /\ EndOf(v) <= next
    BY <1>2, <1>4
  <2>3. PICK fresh : VarsSettle(NextFree, fresh)
    BY <1>1, <1>2, <1>4, <2>1, <2>2, OneVarSettles
  <2>4. NextFree' = next
    BY <1>1, <1>4, VarDeclared
  <2>5. NextFree <= NextFree'
    <3>1. v.len \in Nat
      BY DEF Variables
    <3>. QED  BY <1>2, <1>4, <2>4, <3>1 DEF EndOf
  <2>. QED  BY <1>1, <2>3, <2>5, PlainOwned
<1>5. CASE LetString
  <2>1. PICK n \in Names, s \in Strings :
          scopes' = Declared(Depth, n, Variable(NextFree, ArrayType(s.size), s.size + 3),
                             NextFree + s.size + 3)
    BY <1>5 DEF LetString
  <2>. DEFINE v == Variable(NextFree, ArrayType(s.size), s.size + 3)
              next == NextFree + s.size + 3
  <2>2. s.size \in 0..Word /\ s.size \in Nat /\ s.size + 3 \in Nat
    <3>1. s.size \in 0..Word /\ Word \in Nat
      BY LiteralsAssumption, BoundsAssumption
    <3>. QED  BY <3>1
  <2>3. v \in Variables
    BY <1>2, <2>2, TypesOfTypes, VariableTypes
  <2>4. v.addr = NextFree /\ v.len = s.size + 3
    BY DEF Variable
  <2>. HIDE DEF v
  <2>5. EndOf(v) = next /\ next \in Nat
    BY <1>2, <2>2, <2>4 DEF EndOf
  <2>6. scopes' = Declared(Depth, n, v, next)
    BY <2>1 DEF v
  <2>. HIDE DEF next
  <2>. QED  BY <1>4, <2>3, <2>4, <2>5, <2>6
<1>6. CASE LetStruct
  <2>1. PICK n \in Names, t \in StructTypes :
          scopes' = Declared(Depth, n, Variable(NextFree, t, t.size), NextFree + t.size)
    BY <1>6 DEF LetStruct
  <2>. DEFINE v == Variable(NextFree, t, t.size)
              next == NextFree + t.size
  <2>2. t.size \in Nat /\ t \in KnownTypes
    BY StructsAssumption DEF KnownTypes
  <2>3. v \in Variables
    BY <1>2, <2>2, VariableTypes
  <2>4. v.addr = NextFree /\ v.len = t.size
    BY DEF Variable
  <2>. HIDE DEF v
  <2>5. EndOf(v) = next /\ next \in Nat
    BY <1>2, <2>2, <2>4 DEF EndOf
  <2>6. scopes' = Declared(Depth, n, v, next)
    BY <2>1 DEF v
  <2>. HIDE DEF next
  <2>. QED  BY <1>4, <2>3, <2>4, <2>5, <2>6
<1>7. CASE PrintStr
  BY <1>3, <1>7 DEF PrintStr
<1>8. CASE DefineFunction
  BY <1>3, <1>8 DEF DefineFunction
<1>. QED  BY <1>5, <1>6, <1>7, <1>8

-----------------------------------------------------------------------------
(* Scopes open and close.                                                  *)

SameVarsBelow(d) == \A k \in 1..d : scopes'[k].vars = scopes[k].vars

LEMMA ScopeOpened ==
  ASSUME IInv, NEW next \in Nat, NEW vs,
         \/ scopes' = Append(WithNext(Depth, next), NewScope(vs, next))
         \/ scopes' = Append(scopes, NewScope(vs, next))
  PROVE  /\ Depth' = Depth + 1 /\ NextFree' = next
         /\ SameVarsBelow(Depth) /\ scopes'[Depth + 1].vars = vs
<1>1. /\ scopes \in Seq(Scope) /\ Depth = Len(scopes) /\ Depth \in 1..Depth /\ Depth \in Nat
      /\ scopes[Depth] \in Scope
  BY Context DEF IInv, Types, StackTypes, Depth
<1>2. PICK s : /\ s \in Seq(Scope) /\ Len(s) = Depth /\ scopes' = Append(s, NewScope(vs, next))
               /\ \A k \in 1..Depth : s[k].vars = scopes[k].vars
  <2>1. CASE scopes' = Append(scopes, NewScope(vs, next))
    BY <1>1, <2>1
  <2>2. CASE scopes' = Append(WithNext(Depth, next), NewScope(vs, next))
    <3>. DEFINE s == WithNext(Depth, next)
    <3>1. s \in Seq(Scope) /\ Len(s) = Depth
      BY <1>1, ScopeUpdates DEF IInv
    <3>2. s[Depth] = [scopes[Depth] EXCEPT !.next = next]
      BY <1>1 DEF WithNext
    <3>3. s[Depth].vars = scopes[Depth].vars
      BY <1>1, <3>2 DEF Scope
    <3>4. \A k \in 1..Depth : k # Depth => s[k] = scopes[k]
      BY <1>1 DEF WithNext
    <3>5. \A k \in 1..Depth : s[k].vars = scopes[k].vars
      BY <3>3, <3>4
    <3>. HIDE DEF s
    <3>6. scopes' = Append(s, NewScope(vs, next))
      BY <2>2 DEF s
    <3>. QED  BY <3>1, <3>5, <3>6
  <2>. QED  BY <2>1, <2>2
<1>3. /\ Len(scopes') = Len(s) + 1 /\ scopes'[Len(s) + 1] = NewScope(vs, next)
      /\ \A k \in 1..Len(s) : scopes'[k] = s[k]
  BY <1>1, <1>2
<1>4. Depth' = Depth + 1 /\ scopes'[Depth + 1] = NewScope(vs, next)
  BY <1>2, <1>3 DEF Depth
<1>5. SameVarsBelow(Depth)
  BY <1>2, <1>3 DEF SameVarsBelow
<1>6. NextFree' = next
  BY <1>4 DEF NextFree, NewScope
<1>7. scopes'[Depth + 1].vars = vs
  BY <1>4 DEF NewScope
<1>. QED  BY <1>4, <1>5, <1>6, <1>7

LEMMA ScopeClosed ==
  ASSUME IInv, Depth > 1, NEW next \in Nat,
         \/ scopes' = ScopeRemoved /\ next = NextFree
         \/ scopes' = [ScopeRemoved EXCEPT ![Depth - 1].next = next]
  PROVE  Depth' = Depth - 1 /\ NextFree' = next /\ SameVarsBelow(Depth - 1)
<1>. DEFINE d == Depth
            n == d - 1
<1>1. /\ d \in Nat /\ n \in 1..n /\ \A k \in 1..n : k \in 1..d
      /\ \A k \in 1..d : scopes[k] \in Scope
      /\ ScopeRemoved \in Seq(Scope) /\ Len(ScopeRemoved) = n
      /\ \A x \in Nat : /\ [ScopeRemoved EXCEPT ![n].next = x] \in Seq(Scope)
                        /\ Len([ScopeRemoved EXCEPT ![n].next = x]) = n
  <2>1. Types /\ Nested /\ d \in Nat /\ d > 1
    BY Context DEF IInv
  <2>2. \A k \in 1..d : scopes[k] \in Scope
    BY <2>1, Context
  <2>3. n \in 1..(d - 1)
    BY <2>1
  <2>. QED  BY <2>1, <2>2, <2>3, ScopeRemovedTypes
<1>2. \A k \in 1..n : ScopeRemoved[k] =
        IF k = n THEN [scopes[k] EXCEPT !.next = NextFree] ELSE scopes[k]
  BY DEF ScopeRemoved
<1>. HIDE DEF d, n
<1>3. \A k \in 1..n : ScopeRemoved[k].vars = scopes[k].vars
  BY <1>1, <1>2 DEF Scope
<1>4. ScopeRemoved[n].next = NextFree
  BY <1>1, <1>2 DEF Scope
<1>5. /\ Len(scopes') = n /\ scopes'[n].next = next
      /\ \A k \in 1..n : scopes'[k].vars = scopes[k].vars
  <2>1. CASE scopes' = ScopeRemoved /\ next = NextFree
    BY <1>1, <1>3, <1>4, <2>1
  <2>2. CASE scopes' = [ScopeRemoved EXCEPT ![n].next = next]
    <3>. DEFINE s == ScopeRemoved
    <3>1. s \in Seq(Scope) /\ Len(s) = n /\ \A k \in 1..n : s[k] \in Scope
      BY <1>1
    <3>. HIDE DEF s
    <3>2. scopes'[n] = [s[n] EXCEPT !.next = next] /\ \A k \in 1..n : k # n => scopes'[k] = s[k]
      BY <1>1, <2>2, <3>1 DEF s
    <3>3. scopes'[n].next = next /\ scopes'[n].vars = s[n].vars
      BY <1>1, <3>1, <3>2 DEF Scope
    <3>4. \A k \in 1..n : scopes'[k].vars = s[k].vars
      BY <3>2, <3>3
    <3>5. Len(scopes') = n
      BY <1>1, <2>2
    <3>. QED  BY <1>3, <3>3, <3>4, <3>5 DEF s
  <2>. QED  BY <2>1, <2>2 DEF n, d
<1>6. Depth' = n
  BY <1>5 DEF Depth
<1>. QED  BY <1>5, <1>6 DEF NextFree, SameVarsBelow, n, d

\* A scope has no variables, or goes with them.
LEMMA VarsBelowStay ==
  ASSUME NEW d \in Nat, NEW e \in Nat, d <= Depth, Depth \in Nat, Depth' = e,
         SameVarsBelow(d), e = d \/ (e = d + 1 /\ scopes'[e].vars = NoVars),
         NEW b, \A o \in Owners : o[1] <= d => EndOf(VarOf(o)) <= b
  PROVE  VarsSettle(b, {})
<1>1. ASSUME NEW o \in Owners'
      PROVE  o \in Owners /\ NewVar(o) = VarOf(o) /\ EndOf(VarOf(o)) <= b
  <2>1. o[1] \in 1..e /\ o[2] \in Names /\ scopes'[o[1]].vars[o[2]].len > 0
        /\ o = <<o[1], o[2]>>
    BY DEF Owners
  <2>2. o[1] \in 1..d
    <3>1. NoVars[o[2]].len = 0
      BY <2>1, NoVarsCells
    <3>2. ~(e = d + 1 /\ o[1] = e)
      BY <2>1, <3>1
    <3>. QED  BY <2>1, <3>2
  <2>3. scopes'[o[1]].vars = scopes[o[1]].vars /\ o[1] \in 1..Depth
    BY <2>2 DEF SameVarsBelow
  <2>4. o \in Owners
    BY <2>1, <2>3 DEF Owners
  <2>. QED  BY <2>2, <2>3, <2>4 DEF NewVar, VarOf
<1>. QED  BY <1>1 DEF VarsSettle

\* A loop or an if opens its block above its counter or flag.
LEMMA EnterOwned ==
  ASSUME OInv, IInv', mode = "value", Top.kind \in {"loop", "if"},
         NEW kind \in {"loopbody", "ifbody"}, NEW cell \in EvalResults, NEW next \in Nat,
         NEW o, Enter(kind, cell, next, o), o.dirty \subseteq Nat,
         \/ cell = Temp(Top.mark) /\ next = Top.mark + 1
         \/ cell.type # "TEMP" /\ next = Top.mark
  PROVE  OInv'
<1>. DEFINE m == Len(acts) - 1
            b == Floor(Top)
            t == Top
            d == Depth
            before == o.dirty
            a == [t EXCEPT !.kind = kind, !.scope = d + 1, !.mark = next,
                           !.held = cell, !.before = before]
<1>1. IInv /\ Top.kind \notin Blocks /\ Top.kind \notin Holding \cup {"call", "body"}
  BY DEF OInv, Blocks, Holding
<1>2. /\ acts # <<>> /\ Top \in Activation /\ Top.scope = Depth /\ Depth \in 1..Depth
      /\ Top.mark \in Nat /\ b = Top.mark /\ b >= 1
      /\ Top.held.type # "TEMP" /\ d \in Nat
  BY <1>1, ValueOwned
<1>3. a \in Activation /\ a.kind = kind /\ a.mark = next /\ a.held = cell
  <2>1. before \in SUBSET Nat /\ kind \in Blocks /\ d + 1 \in Nat \ {0} /\ t \in Activation
    BY <1>2 DEF Blocks
  <2>. HIDE DEF t, d, before
  <2>. QED  BY <2>1 DEF Activation
<1>4. acts' = TopBecomes(a) /\ mode' = "stmt" /\ res' = NoResult /\ calls' = calls
      /\ scopes' = Append(WithNext(Depth, next), NewScope(NoVars, next))
  BY <1>2 DEF Enter, StmtWith
<1>. HIDE DEF a, d, t
<1>5. /\ m \in 0..Len(acts) /\ m # Len(acts) /\ m + 1 = Len(acts) /\ Kept(m)
      /\ Len(acts') = m + 1 /\ acts'[m + 1] = a
  BY <1>2, <1>3, <1>4, AboveTop
<1>6. /\ \A i \in 1..m : Ceiling(acts[i]) <= b
      /\ \A q \in Owners : EndOf(VarOf(q)) <= b
  BY <1>1, <1>2, FloorOfTop
<1>7. /\ Depth' = Depth + 1 /\ NextFree' = next
      /\ SameVarsBelow(Depth) /\ scopes'[Depth + 1].vars = NoVars
  BY <1>1, <1>4, ScopeOpened
<1>8. Floor(a) = b /\ Ceiling(a) = next /\ b <= next
  BY <1>2, <1>3 DEF Floor, Ceiling, Temp
<1>9. Based(a, b)
  <2>1. a.held.type = "TEMP" => a.kind \in Holding /\ a.held.val < Ceiling(a)
    BY <1>2, <1>3, <1>8 DEF Holding, Temp
  <2>2. a.kind \notin {"call", "return", "array"}
    BY <1>3
  <2>3. b <= Floor(a) /\ Floor(a) <= a.mark /\ Ceiling(a) <= NextFree'
    BY <1>2, <1>3, <1>7, <1>8
  <2>. QED  BY <2>1, <2>2, <2>3, OperandBased
<1>10. m >= 1 /\ acts[m].kind \notin Blocks => Floor(a) = Ceiling(acts[m])
  <2>. DEFINE n == Len(acts)
  <2>1. n \in Nat /\ m = n - 1
    BY <1>1, StatesTyped DEF Typed
  <2>. HIDE DEF n, m
  <2>2. m >= 1 => n > 1
    BY <2>1
  <2>. QED  BY <1>2, <1>8, <2>2, ExactTop DEF n, m
<1>11. VarsSettle(b, {})
  <2>1. d + 1 \in Nat /\ d <= Depth /\ Depth' = d + 1
    BY <1>2, <1>7 DEF d
  <2>2. SameVarsBelow(d) /\ scopes'[d + 1].vars = NoVars
    BY <1>7 DEF d
  <2>. QED  BY <1>2, <1>6, <2>1, <2>2, VarsBelowStay DEF d
<1>. HIDE DEF m, b
<1>12. /\ CallsSettle(m, b)
       /\ \A i \in 1..m : acts[i].kind = "return" =>
            /\ acts[i].nth \in 1..Len(calls')
            /\ calls'[acts[i].nth].scope_barrier = acts[i].scope
  BY <1>4, <1>5, CallsStay
<1>13. ActsSettle(m, b)
  BY <1>2, <1>5, <1>6, <1>7, <1>8, <1>9, <1>10, <1>12 DEF ActsSettle, Founded
<1>14. ValueSettles(m, b)
  BY <1>4 DEF ValueSettles, NoResult
<1>15. Settles(m, b, {})
  BY <1>11, <1>12, <1>13, <1>14 DEF Settles, FreshAlone
<1>. QED  BY <1>2, <1>15, Settled

LEMMA EntersOwned ==
  ASSUME OInv, IInv', LoopEnter \/ IfEnter
  PROVE  OInv'
<1>1. mode = "value" /\ Top.kind \in {"loop", "if"} /\ IInv
  BY DEF LoopEnter, IfEnter, Resume, OInv
<1>2. /\ Top.mark \in Nat /\ Top.mark + 1 \in Nat
      /\ res \in EvalResults /\ res.type # "NONE" /\ res.val \in Nat
      /\ scopes[Top.scope].next = NextFree /\ OutTypes(out)
      /\ res.type # "TEMP" => NextFree = Top.mark
  <2>1. Top.kind \notin Holding \cup {"call", "body"}
    BY <1>1 DEF Holding
  <2>2. OutTypes(out)
    BY <1>1 DEF IInv, Types
  <2>3. Ceiling(Top) = Top.mark
    BY <1>1, <2>1, ValueOwned
  <2>. QED  BY <1>1, <2>2, <2>3, ValueOwned
<1>3. {} \in SUBSET Nat
  OBVIOUS
<1>4. CASE LoopEnter
  <2>. DEFINE counter == IF res.type = "ADDRESS" THEN res.val ELSE Top.mark
              next    == IF res.type = "ADDRESS" THEN scopes[Top.scope].next
                                                 ELSE Top.mark + 1
              held    == IF res.type = "ADDRESS" THEN res ELSE Temp(counter)
              o       == Open(Assign(out, counter, res), "LOOP", counter)
  <2>1. counter \in Nat /\ held \in EvalResults
    BY <1>2, ResultTypes
  <2>2. \/ held = Temp(Top.mark) /\ next = Top.mark + 1
        \/ held.type # "TEMP" /\ next = Top.mark
    BY <1>2
  <2>3. o.dirty \subseteq Nat
    <3>1. OutTypes(Assign(out, counter, res))
      BY <1>2, <2>1, AssignTypes
    <3>2. OutTypes(o)
      BY <1>3, <2>1, <3>1, BlockTapeTypes
    <3>. QED  BY <3>2 DEF OutTypes
  <2>4. Enter("loopbody", held, next, o)
    BY <1>4 DEF LoopEnter
  <2>. HIDE DEF held, next, o
  <2>5. next \in Nat
    BY <1>2, <2>2
  <2>. QED  BY <1>1, <2>1, <2>2, <2>3, <2>4, <2>5, EnterOwned
<1>5. CASE IfEnter
  <2>. DEFINE o == Open(CopyTo(out, Top.mark, res), "DOIF", Top.mark)
  <2>1. o.dirty \subseteq Nat
    <3>1. OutTypes(CopyTo(out, Top.mark, res))
      BY <1>2, CopyToTypes
    <3>2. OutTypes(o)
      BY <1>2, <1>3, <3>1, BlockTapeTypes
    <3>. QED  BY <3>2 DEF OutTypes
  <2>2. Temp(Top.mark) \in EvalResults
    BY <1>2, ResultTypes
  <2>3. Enter("ifbody", Temp(Top.mark), Top.mark + 1, o)
    BY <1>5 DEF IfEnter
  <2>. HIDE DEF o
  <2>. QED  BY <1>1, <1>2, <2>1, <2>2, <2>3, EnterOwned
<1>. QED  BY <1>4, <1>5

\* The depth of a block's scope.
LEMMA BlockDepth ==
  ASSUME IInv, acts # <<>>, Top.kind \in Blocks
  PROVE  Depth > 1 /\ Depth \in Nat
<1>. DEFINE m == Len(acts) - 1
            d == Depth
<1>1. Types /\ Nested /\ StackTypes
  BY DEF IInv, Types
<1>2. /\ m \in Nat /\ m <= Len(acts) /\ (m > 0 => m \in 1..Len(acts))
      /\ d \in Nat /\ ScopeAbove(m) \in Nat /\ d = ScopeAbove(m) + 1
  BY <1>1, TopFacts
<1>. HIDE DEF m, d
<1>3. m > 0 => acts[m].scope >= 1
  BY <1>1, <1>2, ScopesBelow
<1>4. m = 0 \/ m > 0
  BY <1>2
<1>5. ScopeAbove(m) >= 1
  BY <1>2, <1>3, <1>4 DEF ScopeAbove
<1>6. d > 1 /\ d \in Nat
  BY <1>2, <1>5
<1>. QED  BY <1>6 DEF d

\* A block ends, and the variables of its scope with it.
LEMMA BlocksOwned ==
  ASSUME OInv, IInv', LoopLeave \/ IfLeave
  PROVE  OInv'
<1>. DEFINE m == Len(acts) - 1
            b == Floor(Top)
            d == Depth
<1>1. IInv /\ Returns
  BY DEF OInv, Owned
<1>2. /\ mode = "stmt" /\ acts # <<>> /\ Top.kind \in {"loopbody", "ifbody"}
      /\ acts' = Under /\ mode' = "stmt" /\ res' = NoResult /\ calls' = calls
      /\ scopes' = ScopeRemoved
  BY DEF LoopLeave, IfLeave, Leave, StmtWith
<1>3. /\ b \in Nat /\ b >= 1 /\ NextFree \in Nat /\ b <= NextFree
      /\ \A i \in 1..m : Ceiling(acts[i]) <= b
      /\ \A o \in Owners : o[1] < Depth => EndOf(VarOf(o)) <= b
  <2>1. /\ Ceiling(Top) \in Nat /\ Top.mark \in Nat
        /\ b <= Top.mark /\ Top.mark <= Ceiling(Top) /\ Ceiling(Top) <= NextFree
    BY <1>2, FloorOfTop
  <2>. QED  BY <1>2, <2>1, FloorOfTop
<1>4. Depth > 1 /\ d \in Nat /\ d > 1
  BY <1>1, <1>2, BlockDepth DEF Blocks
<1>5. Depth' = Depth - 1 /\ NextFree' = NextFree /\ SameVarsBelow(Depth - 1)
  BY <1>1, <1>2, <1>3, <1>4, ScopeClosed
<1>6. VarsSettle(b, {})
  <2>1. d - 1 \in Nat /\ d - 1 <= Depth /\ Depth' = d - 1 /\ SameVarsBelow(d - 1)
    BY <1>4, <1>5
  <2>2. \A o \in Owners : o[1] <= d - 1 => EndOf(VarOf(o)) <= b
    <3>1. \A o \in Owners : o[1] \in 1..Depth
      BY DEF Owners
    <3>. QED  BY <1>3, <1>4, <3>1
  <2>. HIDE DEF b
  <2>. QED  BY <1>4, <2>1, <2>2, VarsBelowStay
<1>7. m \in 0..Len(acts) /\ m # Len(acts) /\ Kept(m) /\ Len(acts') = m /\ Len(acts') # m + 1
  BY <1>2, AboveTop
<1>8. ~HasReturned
  <2>1. ASSUME HasReturned
        PROVE  FALSE
    <3>1. Len(calls) \in 1..Len(calls) /\ calls[Len(calls)].has_returned
      BY <1>1, <2>1, Context DEF HasReturned, CurrentCall, IInv
    <3>2. Top.kind = "body"
      BY <1>1, <3>1 DEF Returns
    <3>. QED  BY <1>2, <3>2
  <2>. QED  BY <2>1
<1>. HIDE DEF m, b
<1>9. /\ CallsSettle(m, b)
      /\ \A i \in 1..m : acts[i].kind = "return" =>
           /\ acts[i].nth \in 1..Len(calls')
           /\ calls'[acts[i].nth].scope_barrier = acts[i].scope
  BY <1>2, <1>7, <1>8, CallsStay
<1>10. ActsSettle(m, b)
  BY <1>2, <1>3, <1>5, <1>7, <1>9 DEF ActsSettle
<1>11. ValueSettles(m, b)
  BY <1>2 DEF ValueSettles, NoResult
<1>12. Settles(m, b, {})
  BY <1>6, <1>9, <1>10, <1>11 DEF Settles, FreshAlone
<1>. QED  BY <1>3, <1>12, Settled

-----------------------------------------------------------------------------
(* Calls.                                                                  *)

\* The arguments bound so far become the variables of the frame scope.
LEMMA BeginOwned ==
  ASSUME OInv, IInv', BeginCall
  PROVE  OInv'
<1>. DEFINE m == Len(acts) - 1
            b == Floor(Top)
            t == Top
            d == Depth
            next == NextFree
            a == [t EXCEPT !.kind = "body", !.scope = d + 1, !.mark = next]
            c == [name          |-> Top.name,
                  scope_barrier |-> Depth + 1,
                  returns_value |-> funs[Top.name].returns,
                  has_returned  |-> FALSE,
                  ret_addr      |-> 0]
            fresh == {o \in Owners' : o[1] = d + 1}
<1>1. IInv /\ Types /\ Nested /\ Returns
  BY DEF OInv, Owned, IInv
<1>2. mode = "args" /\ acts # <<>> /\ Top.kind = "call" /\ Top.kind \notin Blocks
  BY <1>1 DEF IInv, ModeShape, BeginCall, Blocks
<1>3. /\ Top \in Activation /\ d \in Nat /\ next \in Nat /\ b \in Nat /\ b >= 1 /\ b <= next
      /\ \A i \in 1..m : Ceiling(acts[i]) <= b
      /\ \A o \in Owners : EndOf(VarOf(o)) <= b
  <2>1. Top \in Activation /\ d \in Nat /\ next \in Nat
    BY <1>1, <1>2, Context
  <2>2. /\ Ceiling(Top) \in Nat /\ Top.mark \in Nat /\ b \in Nat
        /\ b <= Top.mark /\ Top.mark <= Ceiling(Top) /\ Ceiling(Top) <= next
    BY <1>2, FloorOfTop
  <2>. QED  BY <1>2, <2>1, <2>2, FloorOfTop
<1>4. /\ a \in Activation /\ a.kind = "body" /\ a.mark = next /\ a.held = Top.held
      /\ a.base = Top.base
  <2>1. d + 1 \in Nat \ {0} /\ "body" \in Blocks
    BY <1>3 DEF Blocks
  <2>2. t \in Activation
    BY <1>3
  <2>. HIDE DEF t, d, next
  <2>3. /\ a \in Activation /\ a.kind = "body" /\ a.mark = next /\ a.held = t.held
        /\ a.base = t.base
    BY <1>3, <2>1, <2>2 DEF Activation
  <2>. QED  BY <2>3 DEF t
<1>5. acts' = TopBecomes(a) /\ mode' = "stmt" /\ res' = NoResult
      /\ calls' = Append(calls, c) /\ scopes' = Append(scopes, NewScope(Top.binds, next))
  BY DEF BeginCall, StmtWith, FrameScope
<1>6. /\ m \in 0..Len(acts) /\ m # Len(acts) /\ m + 1 = Len(acts) /\ Kept(m)
      /\ Len(acts') = m + 1 /\ acts'[m + 1] = a
  <2>. HIDE DEF a
  <2>. QED  BY <1>2, <1>4, <1>5, AboveTop
<1>7. /\ Depth' = d + 1 /\ NextFree' = next
      /\ SameVarsBelow(d) /\ scopes'[d + 1].vars = Top.binds
  BY <1>1, <1>3, <1>5, ScopeOpened
<1>8. /\ Len(calls) \in Nat /\ Len(calls') = Len(calls) + 1
      /\ calls'[Len(calls) + 1].has_returned = FALSE
      /\ \A k \in 1..Len(calls) : calls'[k] = calls[k]
  <2>1. /\ Len(calls) \in Nat /\ Len(calls') = Len(calls) + 1 /\ calls'[Len(calls) + 1] = c
        /\ \A k \in 1..Len(calls) : calls'[k] = calls[k]
    <3>. HIDE DEF c
    <3>1. calls \in Seq(Call)
      BY <1>1 DEF Types, StackTypes
    <3>. QED  BY <1>5, <3>1
  <2>. QED  BY <2>1
<1>9. \A k \in 1..Len(calls') : ~calls'[k].has_returned
  <2>1. \A k \in 1..Len(calls) : ~calls[k].has_returned
    BY <1>1, <1>2, NoneReturned
  <2>. QED  BY <1>8, <2>1
<1>10. /\ Top.held.type # "TEMP" /\ Floor(Top) = Top.base
       /\ Top.binds \in [Names -> Variables]
       /\ \A n \in Names : Top.binds[n].len > 0 =>
            Top.base <= Top.binds[n].addr /\ EndOf(Top.binds[n]) <= NextFree
       /\ \A n, p \in Names :
            n # p => CellsOf(Top.binds[n]) \cap CellsOf(Top.binds[p]) = {}
  BY <1>2, TopCall
<1>. HIDE DEF a, c
<1>11. Floor(a) = b /\ Ceiling(a) = next /\ HeldCells(a) = {}
  BY <1>4, <1>10 DEF Floor, Ceiling, HeldCells
<1>12. Based(a, b)
  <2>1. a.held.type # "TEMP" /\ a.kind \notin {"call", "return", "array"}
    BY <1>4, <1>10
  <2>2. b <= Floor(a) /\ Floor(a) <= a.mark /\ Ceiling(a) <= NextFree'
    BY <1>3, <1>4, <1>7, <1>11
  <2>. QED  BY <2>1, <2>2, OperandBased
<1>13. m >= 1 /\ acts[m].kind \notin Blocks => Floor(a) = Ceiling(acts[m])
  <2>. DEFINE n == Len(acts)
  <2>1. n \in Nat /\ m = n - 1
    BY <1>1, StatesTyped DEF Typed
  <2>. HIDE DEF n, m
  <2>2. m >= 1 => n > 1
    BY <2>1
  <2>. QED  BY <1>2, <1>10, <1>11, <2>2, ExactTop DEF n, m
<1>14. VarsSettle(b, fresh)
  <2>1. ASSUME NEW o \in Owners'
        PROVE  /\ o = <<o[1], o[2]>> /\ o[2] \in Names /\ NewVar(o).len > 0
               /\ o[1] = d + 1 \/ (o[1] \in 1..d /\ o \in Owners /\ NewVar(o) = VarOf(o))
    <3>1. o[1] \in 1..(d + 1) /\ o[2] \in Names /\ o = <<o[1], o[2]>> /\ NewVar(o).len > 0
      BY <1>7 DEF Owners, NewVar
    <3>2. ASSUME o[1] # d + 1
          PROVE  o[1] \in 1..d /\ o \in Owners /\ NewVar(o) = VarOf(o)
      <4>1. o[1] \in 1..d
        BY <1>3, <3>1, <3>2
      <4>2. scopes'[o[1]].vars = scopes[o[1]].vars
        BY <1>7, <4>1 DEF SameVarsBelow
      <4>. QED  BY <3>1, <4>1, <4>2 DEF Owners, NewVar, VarOf
    <3>. QED  BY <3>1, <3>2
  <2>2. ASSUME NEW o \in fresh
        PROVE  NewVar(o) = Top.binds[o[2]] /\ o[1] = Depth'
    BY <1>7 DEF NewVar
  <2>3. Innermost'
    BY <1>1, <1>5, BlocksInnermostAfter
  <2>4. ASSUME NEW o \in fresh
        PROVE  /\ b <= NewVar(o).addr /\ EndOf(NewVar(o)) <= NextFree'
               /\ \A i \in 1..Len(acts') : ~Older(o, acts'[i])
    <3>1. o \in Owners' /\ o[2] \in Names /\ o = <<Depth', o[2]>> /\ NewVar(o).len > 0
      BY <2>1, <2>2
    <3>2. b <= NewVar(o).addr /\ EndOf(NewVar(o)) <= NextFree'
      BY <1>7, <1>10, <2>2, <3>1
    <3>. HIDE DEF fresh
    <3>3. \A i \in 1..Len(acts') : ~Older(<<Depth', o[2]>>, acts'[i])
      BY <2>3, <3>1 DEF Innermost
    <3>. QED  BY <3>1, <3>2, <3>3
  <2>5. ASSUME NEW o \in fresh, NEW p \in fresh, o # p
        PROVE  CellsOf(NewVar(o)) \cap CellsOf(NewVar(p)) = {}
    <3>1. o[2] # p[2] /\ o[2] \in Names /\ p[2] \in Names
      BY <2>1, <2>5
    <3>. QED  BY <1>10, <2>2, <3>1
  <2>6. \A o \in Owners' :
          o \in fresh \/ (o \in Owners /\ NewVar(o) = VarOf(o) /\ EndOf(VarOf(o)) <= b)
    BY <1>3, <2>1
  <2>7. fresh \subseteq Owners'
    OBVIOUS
  <2>. HIDE DEF fresh, b
  <2>. QED  BY <2>4, <2>5, <2>6, <2>7 DEF VarsSettle
<1>. HIDE DEF m, b, fresh
<1>15. CallsSettle(m, b)
  BY <1>9 DEF CallsSettle
<1>16. \A i \in 1..m : acts[i].kind = "return" =>
         acts[i].nth \in 1..Len(calls') /\ calls'[acts[i].nth].scope_barrier = acts[i].scope
  <2>1. \A i \in 1..m : i \in 1..Len(acts)
    BY <1>6
  <2>2. \A k \in 1..Len(calls) : k \in 1..Len(calls')
    BY <1>8
  <2>. QED  BY <1>1, <1>8, <2>1, <2>2 DEF Returns
<1>17. ActsSettle(m, b)
  BY <1>3, <1>6, <1>7, <1>12, <1>13, <1>16 DEF ActsSettle, Founded
<1>18. ValueSettles(m, b)
  BY <1>5 DEF ValueSettles, NoResult
<1>19. FreshAlone(m, fresh)
  BY <1>5, <1>6, <1>9, <1>11 DEF FreshAlone, NoResult
<1>20. Settles(m, b, fresh)
  BY <1>14, <1>15, <1>17, <1>18, <1>19 DEF Settles
<1>. QED  BY <1>3, <1>20, Settled

\* The frame goes, but for the cell of the value that is returned to an operand.
LEMMA FrameOwned ==
  ASSUME OInv, IInv', mode = "stmt", acts # <<>>, Top.kind = "body", acts' = Under,
         NEW next \in Nat, CallEnded(next), Floor(Top) <= next,
         \/ mode' = "stmt" /\ res' = NoResult
         \/ /\ mode' = "value" /\ res'.type = "TEMP" /\ Len(acts) > 1
            /\ Floor(Top) <= res'.val /\ res'.val < next
  PROVE  OInv'
<1>. DEFINE m == Len(acts) - 1
            b == Floor(Top)
            d == Depth
            L == Len(calls)
<1>1. IInv /\ Types /\ Nested /\ StackTypes /\ Returns
  BY DEF OInv, Owned, IInv, Types
<1>2. Depth > 1 /\ d \in Nat /\ d > 1
  BY <1>1, BlockDepth DEF Blocks
<1>3. Depth' = Depth - 1 /\ NextFree' = next /\ SameVarsBelow(Depth - 1)
  BY <1>1, <1>2, ScopeClosed DEF CallEnded
<1>4. calls # <<>> /\ CurrentCall.scope_barrier = Depth /\ calls' = Pop(calls, 1)
  BY <1>1, <1>3, EndNested DEF CallEnded
<1>5. /\ L \in Nat /\ L \in 1..L /\ Len(calls') = L - 1
      /\ \A k \in 1..(L - 1) : calls'[k] = calls[k] /\ k \in 1..L /\ k # L
  <2>1. calls \in Seq(Call) /\ L \in 1..L /\ L \in Nat
    BY <1>1, <1>4, Context DEF StackTypes
  <2>2. 1 \in Nat /\ 1 <= Len(calls)
    BY <2>1
  <2>3. Len(calls') = L - 1 /\ \A k \in 1..(L - 1) : calls'[k] = calls[k]
    BY <1>4, <2>1, <2>2, Popped
  <2>. HIDE DEF L
  <2>. QED  BY <2>1, <2>3
<1>6. b \in Nat /\ b >= 1 /\ (\A i \in 1..m : Ceiling(acts[i]) <= b)
      /\ \A o \in Owners : o[1] < Depth => EndOf(VarOf(o)) <= b
  BY FloorOfTop
<1>7. VarsSettle(b, {})
  <2>1. d - 1 \in Nat /\ d - 1 <= Depth /\ Depth' = d - 1 /\ SameVarsBelow(d - 1)
    BY <1>2, <1>3
  <2>2. \A o \in Owners : o[1] <= d - 1 => EndOf(VarOf(o)) <= b
    <3>1. \A o \in Owners : o[1] \in 1..Depth
      BY DEF Owners
    <3>. QED  BY <1>2, <1>6, <3>1
  <2>. HIDE DEF b
  <2>. QED  BY <1>2, <2>1, <2>2, VarsBelowStay
<1>8. m \in 0..Len(acts) /\ m # Len(acts) /\ Kept(m) /\ Len(acts') = m /\ Len(acts') # m + 1
  BY AboveTop
<1>9. mode' = "value" => m >= 1
  <2>. DEFINE n == Len(acts)
  <2>1. n \in Nat /\ m = n - 1 /\ (mode' = "value" => n > 1)
    BY <1>1, StatesTyped DEF Typed
  <2>. HIDE DEF n, m
  <2>. QED  BY <2>1
<1>10. \A k \in 1..Len(calls') : ~calls'[k].has_returned
  <2>1. \A k \in 1..L : calls[k].has_returned => k = L
    BY <1>1 DEF Returns
  <2>. HIDE DEF L
  <2>. QED  BY <1>5, <2>1
<1>11. ASSUME NEW i \in 1..m, acts[i].kind = "return"
       PROVE  acts[i].nth \in 1..Len(calls')
              /\ calls'[acts[i].nth].scope_barrier = acts[i].scope
  <2>1. i \in 1..Len(acts) /\ i < Len(acts) /\ Len(acts) \in 1..Len(acts)
    <3>1. Len(acts) \in Nat
      BY <1>1, StatesTyped DEF Typed
    <3>. QED  BY <1>8, <3>1
  <2>2. acts[i].nth \in 1..L /\ calls[acts[i].nth].scope_barrier = acts[i].scope
    BY <1>1, <1>11, <2>1 DEF Returns
  <2>3. acts[i].scope < Depth /\ acts[i].scope \in Nat
    <3>1. acts[Len(acts)].kind \in Blocks /\ acts[Len(acts)].scope = Depth
      BY <1>1, Context DEF Blocks, Top
    <3>2. acts[i].scope < acts[Len(acts)].scope
      BY <1>1, <2>1, <3>1 DEF Nested, ScopesNest
    <3>. QED  BY <1>1, <2>1, <3>1, <3>2, StatesTyped DEF Typed
  <2>4. acts[i].nth # L
    BY <1>2, <1>4, <2>2, <2>3 DEF CurrentCall
  <2>. HIDE DEF L
  <2>5. acts[i].nth \in 1..(L - 1)
    BY <1>5, <2>2, <2>4
  <2>. QED  BY <1>5, <2>2, <2>5
<1>. HIDE DEF m, b
<1>12. CallsSettle(m, b)
  BY <1>10 DEF CallsSettle
<1>13. ActsSettle(m, b)
  BY <1>3, <1>6, <1>8, <1>11 DEF ActsSettle, b
<1>14. ValueSettles(m, b)
  BY <1>3, <1>8, <1>9 DEF ValueSettles, NoResult, b
<1>15. Settles(m, b, {})
  BY <1>7, <1>12, <1>13, <1>14 DEF Settles, FreshAlone
<1>. QED  BY <1>6, <1>15, Settled

LEMMA EndsOwned ==
  ASSUME OInv, IInv', EndCallInExpr \/ EndCallStmt
  PROVE  OInv'
<1>1. IInv /\ Types /\ Nested /\ Returns
  BY DEF OInv, Owned, IInv
<1>2. mode = "stmt" /\ acts # <<>> /\ Top.kind = "body"
  BY DEF EndCallInExpr, EndCallStmt, BodyEnds
<1>3. Floor(Top) = Top.base /\ Floor(Top) \in Nat
  BY <1>2, FloorOfTop DEF Floor
<1>4. HasReturned =>
        /\ CurrentCall.ret_addr \in Nat /\ Floor(Top) <= CurrentCall.ret_addr
        /\ CurrentCall.has_returned
  <2>1. ASSUME HasReturned
        PROVE  /\ CurrentCall.ret_addr \in Nat /\ Floor(Top) <= CurrentCall.ret_addr
               /\ CurrentCall.has_returned
    <3>1. /\ Len(calls) \in 1..Len(calls) /\ calls[Len(calls)].has_returned
          /\ CurrentCall.ret_addr \in Nat
      BY <1>1, <2>1, Context DEF HasReturned, CurrentCall
    <3>2. Floor(Top) <= calls[Len(calls)].ret_addr
      BY <1>1, <3>1 DEF Returns
    <3>. QED  BY <3>1, <3>2 DEF CurrentCall
  <2>. QED  BY <2>1
<1>5. calls # <<>> /\ (HasReturned <=> CurrentCall.has_returned)
  <2>1. calls # <<>>
    <3>1. Len(acts) \in 1..Len(acts) /\ Top = acts[Len(acts)]
      BY <1>1, <1>2, TopFacts DEF Types
    <3>2. PICK k \in 1..Len(calls) : calls[k].scope_barrier = acts[Len(acts)].scope
      BY <1>1, <1>2, <3>1 DEF Nested, CallsNest
    <3>3. Len(calls) \in Nat /\ Len(calls) # 0
      BY <1>1, <3>2, StatesTyped DEF Typed
    <3>. QED  BY <3>3
  <2>. QED  BY <2>1 DEF HasReturned
<1>6. /\ FrameEnd \in Nat /\ Floor(Top) <= FrameEnd
      /\ HasReturned => FrameEnd = CurrentCall.ret_addr + 1
  BY <1>3, <1>4, <1>5 DEF FrameEnd
<1>7. CASE EndCallInExpr
  <2>1. CASE HasReturned
    <3>1. /\ CallEnded(FrameEnd) /\ acts' = Under /\ mode' = "value"
          /\ res' = Temp(CurrentCall.ret_addr) /\ Len(acts) > 1
      BY <1>7, <2>1 DEF EndCallInExpr, Return, CallIsStmt
    <3>2. res'.type = "TEMP" /\ res'.val = CurrentCall.ret_addr
      BY <3>1 DEF Temp
    <3>3. Floor(Top) <= res'.val /\ res'.val < FrameEnd
      BY <1>4, <1>6, <2>1, <3>2
    <3>. QED  BY <1>2, <1>6, <3>1, <3>2, <3>3, FrameOwned
  <2>2. CASE ~HasReturned
    BY <1>7, <2>2, StopOwned DEF EndCallInExpr, Reject
  <2>. QED  BY <2>1, <2>2
<1>8. CASE EndCallStmt
  <2>1. CASE CurrentCall.returns_value /\ ~CurrentCall.has_returned
    BY <1>8, <2>1, StopOwned DEF EndCallStmt, Reject
  <2>2. CASE ~(CurrentCall.returns_value /\ ~CurrentCall.has_returned)
    <3>. DEFINE next == IF HasReturned THEN Top.base ELSE FrameEnd
    <3>1. CallEnded(next) /\ acts' = Under /\ mode' = "stmt" /\ res' = NoResult
      BY <1>8, <2>2 DEF EndCallStmt, StmtWith
    <3>2. next \in Nat /\ Floor(Top) <= next
      BY <1>3, <1>6
    <3>. HIDE DEF next
    <3>. QED  BY <1>2, <3>1, <3>2, FrameOwned
  <2>. QED  BY <2>1, <2>2
<1>. QED  BY <1>7, <1>8

-----------------------------------------------------------------------------
(* The theorems.                                                           *)

LEMMA InitOwned == Init => OInv
<1>. SUFFICES ASSUME Init
              PROVE  OInv
  OBVIOUS
<1>1. IInv
  BY InitInvariant
<1>. USE DEF Init
<1>2. Len(acts) = 0 /\ Len(calls) = 0 /\ Depth = 1 /\ NextFree = 1 /\ acts = <<>>
      /\ calls = <<>> /\ mode = "stmt" /\ res.type # "TEMP" /\ scopes[1].vars = NoVars
  BY DEF Depth, NextFree, NewScope, NoResult
<1>3. Owners = {}
  <2>1. \A o \in (1..1) \X Names : ~(scopes[o[1]].vars[o[2]].len > 0)
    BY <1>2, NoVarsCells
  <2>. QED  BY <1>2, <2>1 DEF Owners
<1>4. Owned
  BY <1>2, <1>3 DEF Owned, Stacked, Keeps, Bindings, Returns, Results, Exact, Small
<1>5. VariablesDisjoint
  BY <1>3 DEF VariablesDisjoint
<1>6. TempsOwned
  <2>1. \A i \in 1..Len(acts) : FALSE
    BY <1>2
  <2>. QED  BY <1>2, <1>3, <2>1 DEF TempsOwned, HasReturned
<1>. QED  BY <1>1, <1>4, <1>5, <1>6 DEF OInv

LEMMA StepOwned == OInv /\ [Next]_vars => OInv'
<1>. SUFFICES ASSUME OInv, [Next]_vars
              PROVE  OInv'
  OBVIOUS
<1>1. IInv'
  BY StepInvariant DEF OInv
<1>2. CASE UNCHANGED vars
  BY <1>1, <1>2, StopOwned DEF vars
<1>3. CASE Eval
  BY <1>1, <1>3, LeavesOwned, PushesOwned, ArgumentsOwned DEF Eval
<1>4. CASE Resumption
  BY <1>1, <1>4, SwapsOwned, ReturnsOwned, ValuesOwned, ReturnOwned, ArgumentsOwned, EntersOwned
     DEF Resumption
<1>5. CASE Statement
  BY <1>1, <1>5, PushesOwned, PlainsOwned DEF Statement
<1>6. CASE Calling
  BY <1>1, <1>6, ArgumentsOwned, BeginOwned, EndsOwned DEF Calling
<1>7. CASE LoopLeave \/ IfLeave
  BY <1>1, <1>7, BlocksOwned
<1>8. CASE Finish
  BY <1>1, <1>8, StopOwned DEF Finish
<1>9. CASE Illegal
  BY <1>1, <1>9, StopOwned DEF Illegal, Reject
<1>10. CASE Terminated
  BY <1>2, <1>10 DEF Terminated
<1>. QED  BY <1>2, <1>3, <1>4, <1>5, <1>6, <1>7, <1>8, <1>9, <1>10 DEF Next

\* The tape is allocated as a stack, whatever is compiled: OInv holds throughout
\* every compilation.
THEOREM OwnershipKept == Spec => []OInv
BY InitOwned, StepOwned, PTL DEF Spec

\* No two variables own a common cell and all of them end below next_free:
\* shadowing, blocks and frames that end and temps given back (remove_scope,
\* end_call, generate_let) never make the compiler hand out a live variable's cell.
THEOREM VariablesApart == Spec => []VariablesDisjoint
<1>1. OInv => VariablesDisjoint
  BY DEF OInv
<1>. QED  BY <1>1, OwnershipKept, PTL

\* Every intermediate value (a held operand or index, a flag or counter, a bound
\* argument, the value eval returned, the return value of a body) is in a cell
\* below next_free that is no variable's and nobody else's.
THEOREM TempsApart == Spec => []TempsOwned
<1>1. OInv => TempsOwned
  BY DEF OInv
<1>. QED  BY <1>1, OwnershipKept, PTL

\* The references a generator holds across eval are good when it resumes: its
\* Scope& is the innermost scope, its ActiveCall* the current call, and next_free
\* has not gone below the snapshot it took.
THEOREM ReferencesStay == Spec => []ReferencesCurrent
<1>1. OInv => ReferencesCurrent
  <2>. SUFFICES ASSUME OInv, mode = "value"
                PROVE  /\ Top.scope = Depth /\ Top.mark <= NextFree
                       /\ Top.kind = "return" => Top.nth = Len(calls)
    BY DEF ReferencesCurrent
  <2>1. Top.scope = Depth /\ Top.mark <= Ceiling(Top) /\ Ceiling(Top) <= NextFree
        /\ Top.mark \in Nat /\ Ceiling(Top) \in Nat /\ NextFree \in Nat
    BY ValueOwned
  <2>2. Top.mark <= NextFree
    BY <2>1
  <2>. QED  BY <2>1, <2>2, ReturnInBody
<1>. QED  BY <1>1, OwnershipKept, PTL

\* The steps that end a statement which evaluated an expression.
LEMMA StatementDone ==
  ASSUME Next, mode = "value", mode' = "stmt", Top.kind \in {"let", "set", "array", "store"}
  PROVE  \/ Top.kind = "let" /\ LetValue
         \/ Top.kind = "set" /\ SetValue
         \/ Top.kind = "array" /\ ArraySize
         \/ Top.kind = "store" /\ StoreValue
<1>1. ~Eval
  BY DEF Eval, EvalNumber, EvalVar, EvalReadChar, EvalElement, EvalUnary, EvalBinary,
         EvalCall, EvalArgument, Expr
<1>2. ~Statement
  BY DEF Statement, CallStmt, ReturnStmt, DefineFunction, LetString, LetStruct, Let, Set,
         CreateArray, AssignArray, PrintStr, PrintVal, Loop, If, Stmt
<1>3. ~Calling /\ ~LoopLeave /\ ~IfLeave /\ ~Finish /\ ~Illegal /\ ~Terminated
  BY DEF Calling, BindAlias, BeginCall, EndCallInExpr, EndCallStmt, BodyEnds, LoopLeave,
         IfLeave, Finish, Illegal, Terminated
<1>4. Resumption
  BY <1>1, <1>2, <1>3 DEF Next
<1>5. /\ ~ElementRead /\ ~UnaryConst /\ ~UnaryFlip /\ ~LeftEvaluated /\ ~FoldConstants
      /\ ~FoldOnTape /\ ~BindValue /\ ~ReturnValue /\ ~IndexEvaluated /\ ~ValuePrinted
      /\ ~LoopEnter /\ ~IfEnter
  BY DEF ElementRead, UnaryConst, UnaryFlip, LeftEvaluated, FoldConstants, FoldConstantsBy,
         FoldOnTape, FoldOnTapeBy, BindValue, ReturnValue, IndexEvaluated, ValuePrinted,
         LoopEnter, IfEnter, Resume
<1>6. LetValue \/ SetValue \/ ArraySize \/ StoreValue
  BY <1>4, <1>5 DEF Resumption
<1>. QED  BY <1>6 DEF LetValue, LetValueOf, SetValue, SetValueAt, ArraySize, StoreValue,
                      Resume

\* What a let that is done has taken is its variable's, ...
Reclaimed ==
  \A c \in Top.mark..(NextFree' - 1) : \E n \in Names : c \in CellsOf(scopes'[Depth].vars[n])

LEMMA DeclaredReclaims ==
  ASSUME IInv, NEW n \in Names, NEW v \in Variables, NEW next \in Nat,
         scopes' = Declared(Depth, n, v, next), v.addr = Top.mark, EndOf(v) = next
  PROVE  Reclaimed
<1>1. NextFree' = next /\ scopes'[Depth].vars[n] = v
  BY VarDeclared
<1>2. v.addr \in Nat /\ v.len \in Nat
  BY DEF Variables
<1>3. \A c \in Top.mark..(next - 1) : c \in CellsOf(v)
  BY <1>2 DEF CellsOf, EndOf
<1>. QED  BY <1>1, <1>3 DEF Reclaimed

\* ... and where nothing is declared, nothing is left.
LEMMA NothingReclaims ==
  ASSUME NextFree' = Top.mark, Top.mark \in Nat
  PROVE  Reclaimed
BY DEF Reclaimed

LEMMA StepReclaims ==
  ASSUME OInv, Next, mode = "value", mode' = "stmt",
         Top.kind \in {"let", "set", "array", "store"}
  PROVE  Reclaimed
<1>1. IInv /\ Small /\ Types
  BY DEF OInv, Owned, IInv
<1>2. /\ acts # <<>> /\ Top.scope = Depth /\ Top.mark \in Nat /\ NextFree \in Nat
      /\ res.val \in Nat /\ res.type \in {"CONST", "ADDRESS", "TEMP"}
      /\ res.type # "TEMP" => NextFree = Ceiling(Top)
  BY ValueOwned
<1>3. \A x \in Nat : scopes' = WithNext(Top.scope, x) => NextFree' = x
  BY <1>1, <1>2, NextChanged
<1>4. Top.kind # "store" \/ Top.held.type # "TEMP" => Ceiling(Top) = Top.mark
  BY DEF Ceiling
<1>5. scopes' = scopes => NextFree' = NextFree
  BY ScopesStay
<1>6. CASE Top.kind = "let" /\ LetValue
  <2>1. PICK n \in Names :
          /\ n \in Declares(scopes[Top.scope].vars) => scopes' = WithNext(Top.scope, Top.mark)
          /\ n \notin Declares(scopes[Top.scope].vars) =>
               scopes' = Declared(Top.scope, n, Variable(Top.mark, IntegerType, 1), Top.mark + 1)
    BY <1>6 DEF LetValue, LetValueOf
  <2>2. CASE n \in Declares(scopes[Top.scope].vars)
    BY <1>2, <1>3, <2>1, <2>2, NothingReclaims
  <2>3. CASE n \notin Declares(scopes[Top.scope].vars)
    <3>. DEFINE v == Variable(Top.mark, IntegerType, 1)
    <3>1. v \in Variables /\ Top.mark + 1 \in Nat
      <4>1. 1 \in Nat
        OBVIOUS
      <4>. QED  BY <1>2, <4>1, VariableTypes, TypesOfTypes
    <3>2. v.addr = Top.mark /\ EndOf(v) = Top.mark + 1
      BY DEF Variable, EndOf
    <3>3. scopes' = Declared(Depth, n, v, Top.mark + 1)
      BY <1>2, <2>1, <2>3
    <3>. HIDE DEF v
    <3>. QED  BY <1>1, <3>1, <3>2, <3>3, DeclaredReclaims
  <2>. QED  BY <2>2, <2>3
<1>7. CASE Top.kind = "set" /\ SetValue
  <2>1. scopes' = IF res.type = "TEMP" THEN WithNext(Top.scope, Top.mark) ELSE scopes
    BY <1>7 DEF SetValue, SetValueAt
  <2>2. NextFree' = Top.mark
    BY <1>2, <1>3, <1>4, <1>5, <1>7, <2>1
  <2>. QED  BY <1>2, <2>2, NothingReclaims
<1>8. CASE Top.kind = "array" /\ ArraySize
  <2>1. res.type = "CONST" /\ ~(res.val > MaxArray)
    BY <1>8 DEF ArraySize, Reject
  <2>2. Top.mark < MaxCells
    <3>1. Len(acts) \in 1..Len(acts) /\ Top = acts[Len(acts)]
      BY <1>1, <1>2, TopFacts DEF IInv, Types
    <3>. QED  BY <1>1, <1>8, <3>1 DEF Small
  <2>. QED  BY <1>1, <1>2, <1>8, <2>1, <2>2, ArrayDeclared, DeclaredReclaims
<1>9. CASE Top.kind = "store" /\ StoreValue
  <2>1. scopes' = IF Top.held.type = "CONST" /\ res.type = "CONST"
                    THEN scopes ELSE WithNext(Top.scope, Top.mark)
    BY <1>9 DEF StoreValue
  <2>2. CASE Top.held.type = "CONST" /\ res.type = "CONST"
    <3>1. NextFree' = Top.mark
      BY <1>2, <1>4, <1>5, <2>1, <2>2
    <3>. QED  BY <1>2, <3>1, NothingReclaims
  <2>3. CASE ~(Top.held.type = "CONST" /\ res.type = "CONST")
    BY <1>2, <1>3, <2>1, <2>3, NothingReclaims
  <2>. QED  BY <2>2, <2>3
<1>. QED  BY <1>6, <1>7, <1>8, <1>9, StatementDone

\* When a let, an assignment, an array or an array store is done, every cell its
\* evaluation took belongs to a variable of its scope: generate_* gives back what
\* eval reserved, whatever the expression was.
THEOREM StatementsReclaimed == Spec => StatementsReclaim
<1>. DEFINE A == Reclaims("let") /\ Reclaims("set") /\ Reclaims("array") /\ Reclaims("store")
<1>1. OInv /\ [Next]_vars => [A]_vars
  <2>1. ASSUME OInv, Next
        PROVE  A
    BY <2>1, StepReclaims DEF Reclaims, Reclaimed
  <2>. QED  BY <2>1
<1>2. Spec => [][A]_vars
  BY <1>1, OwnershipKept, PTL DEF Spec
<1>. QED  BY <1>2 DEF StatementsReclaim
=============================================================================
