---------------------------- MODULE CodegenProofs ----------------------------
(***************************************************************************)
(* Proofs about the code generator: the types of its variables, the        *)
(* nesting of activations, scopes and calls, and that inlining never       *)
(* recurs.                                                                 *)
(***************************************************************************)
EXTENDS CodegenProperties, SequenceTheorems, TLAPS

-----------------------------------------------------------------------------
(* Stacks.                                                                 *)

\* What is left of a stack without its last n elements.
LEMMA Popped ==
  ASSUME NEW X, NEW s \in Seq(X), NEW n \in Nat, n <= Len(s)
  PROVE  /\ Pop(s, n) \in Seq(X)
         /\ Len(Pop(s, n)) = Len(s) - n
         /\ \A i \in 1..(Len(s) - n) : Pop(s, n)[i] = s[i]
BY SubSeqProperties DEF Pop

\* A stack with one more element.
LEMMA Pushed ==
  ASSUME NEW X, NEW s \in Seq(X), NEW e \in X
  PROVE  /\ Append(s, e) \in Seq(X)
         /\ Len(Append(s, e)) = Len(s) + 1
         /\ Append(s, e)[Len(s) + 1] = e
         /\ \A i \in 1..Len(s) : Append(s, e)[i] = s[i]
OBVIOUS

\* A stack whose last element is another one.
LEMMA Replaced ==
  ASSUME NEW X, NEW s \in Seq(X), NEW e \in X, s # <<>>
  PROVE  LET t == Append(Pop(s, 1), e)
         IN  /\ t \in Seq(X)
             /\ Len(t) = Len(s)
             /\ t[Len(s)] = e
             /\ \A i \in 1..(Len(s) - 1) : t[i] = s[i]
<1>1. Len(s) \in Nat /\ 1 <= Len(s) /\ s[Len(s)] \in X
  OBVIOUS
<1>2. /\ Pop(s, 1) \in Seq(X) /\ Len(Pop(s, 1)) = Len(s) - 1
      /\ \A i \in 1..(Len(s) - 1) : Pop(s, 1)[i] = s[i]
  BY <1>1, Popped
<1>. QED  BY <1>1, <1>2

-----------------------------------------------------------------------------
(* What is kept of the stack of activations.                               *)

\* What the nesting depends on besides the mode.
Nested == ScopesNest /\ StackShape /\ CallsNest /\ CalleesNew

StackTypes == acts \in Seq(Activation) /\ scopes \in Seq(Scope) /\ calls \in Seq(Call)

\* Lengths, and the fields the nesting speaks of.
LEMMA StackFacts ==
  ASSUME StackTypes
  PROVE  /\ Len(acts) \in Nat /\ Len(scopes) \in Nat /\ Len(calls) \in Nat
         /\ \A i \in 1..Len(acts) :
              acts[i].scope \in Nat /\ acts[i].kind \in StmtKinds \cup ExprKinds \cup Blocks \cup {"call"}
         /\ \A k \in 1..Len(calls) : calls[k].scope_barrier \in Nat
<1>1. \A i \in 1..Len(acts) : acts[i] \in Activation
  BY DEF StackTypes
<1>2. \A k \in 1..Len(calls) : calls[k] \in Call
  BY DEF StackTypes
<1>3. \A a \in Activation : a.scope \in Nat /\ a.kind \in StmtKinds \cup ExprKinds \cup Blocks \cup {"call"}
  BY DEF Activation
<1>4. \A c \in Call : c.scope_barrier \in Nat
  BY DEF Call
<1>. QED  BY <1>1, <1>2, <1>3, <1>4 DEF StackTypes

\* A kind of activation is of one class only.
LEMMA KindsDiffer ==
  /\ StmtKinds \cap (ExprKinds \cup Blocks \cup {"call"}) = {}
  /\ ExprKinds \cap (Blocks \cup {"call"}) = {}
  /\ "call" \notin Blocks
BY DEF StmtKinds, ExprKinds, Blocks

\* The first m activations stay; there may be one more above them.
Kept(m) ==
  /\ m \in 0..Len(acts)
  /\ acts' \in Seq(Activation)
  /\ Len(acts') \in {m, m + 1}
  /\ \A i \in 1..m : acts'[i] = acts[i]

\* The scope that what is above the first m activations works in.
ScopeAbove(m) == IF m = 0 THEN 1 ELSE acts[m].scope

LEMMA ScopesNestStep ==
  ASSUME StackTypes, ScopesNest, NEW m, Kept(m),
         Len(acts') = m => Depth' = ScopeAbove(m),
         Len(acts') = m + 1 =>
           /\ acts'[m + 1].scope = ScopeAbove(m)
                                     + (IF acts'[m + 1].kind \in Blocks THEN 1 ELSE 0)
           /\ Depth' = acts'[m + 1].scope
  PROVE  ScopesNest'
<1>. DEFINE k == Len(acts')
            a == acts'[m + 1]
<1>1. /\ m \in Nat /\ k \in Nat /\ k \in {m, m + 1}
      /\ Len(acts) \in Nat /\ m <= Len(acts)
      /\ \A i \in 1..m : acts'[i] = acts[i]
  BY StackFacts DEF Kept
<1>2. \A i \in 1..m : i \in 1..Len(acts) /\ acts[i].scope \in Nat
  BY <1>1, StackFacts
<1>3. ASSUME NEW i \in 1..m
      PROVE  acts[i].scope <= ScopeAbove(m)
  <2>1. m \in 1..Len(acts) /\ m \in 1..m /\ (i < m \/ i = m)
    BY <1>1
  <2>2. i < m => acts[i].scope <= acts[m].scope
    BY <1>2, <2>1 DEF ScopesNest
  <2>. QED  BY <1>1, <1>2, <2>1, <2>2 DEF ScopeAbove
<1>4. Depth' = IF acts' = <<>> THEN 1 ELSE Top'.scope
  <2>1. CASE k = m /\ m = 0
    BY <2>1 DEF ScopeAbove, Kept
  <2>2. CASE k = m /\ m # 0
    BY <1>1, <1>2, <2>2 DEF ScopeAbove, Top
  <2>3. CASE k = m + 1
    BY <1>1, <2>3 DEF Top
  <2>. QED  BY <1>1, <2>1, <2>2, <2>3
<1>5. ASSUME NEW i \in 1..k
      PROVE  acts'[i].scope = (IF i = 1 THEN 1 ELSE acts'[i - 1].scope)
                               + (IF acts'[i].kind \in Blocks THEN 1 ELSE 0)
  <2>1. CASE i \in 1..m
    <3>1. acts[i].scope = (IF i = 1 THEN 1 ELSE acts[i - 1].scope)
                            + (IF acts[i].kind \in Blocks THEN 1 ELSE 0)
      BY <1>1, <2>1 DEF ScopesNest
    <3>2. acts'[i] = acts[i] /\ (i # 1 => acts'[i - 1] = acts[i - 1])
      BY <1>1, <2>1
    <3>. QED  BY <3>1, <3>2
  <2>2. CASE i = m + 1 /\ k = m + 1
    BY <1>1, <2>2 DEF ScopeAbove
  <2>. QED  BY <1>1, <2>1, <2>2
<1>6. ASSUME NEW i \in 1..k, NEW j \in 1..k, i < j
      PROVE  /\ acts'[i].scope <= acts'[j].scope
             /\ acts'[j].kind \in Blocks => acts'[i].scope < acts'[j].scope
  <2>1. i \in 1..m /\ acts'[i] = acts[i]
    BY <1>1, <1>6
  <2>2. CASE j \in 1..m
    <3>1. acts'[j] = acts[j]
      BY <1>1, <2>2
    <3>. QED  BY <1>2, <1>6, <2>1, <2>2, <3>1 DEF ScopesNest
  <2>3. CASE j = m + 1 /\ k = m + 1
    <3>1. acts[i].scope <= ScopeAbove(m) /\ ScopeAbove(m) \in Nat /\ acts[i].scope \in Nat
      BY <1>1, <1>2, <1>3, <2>1 DEF ScopeAbove
    <3>. QED  BY <2>1, <2>3, <3>1
  <2>. QED  BY <1>1, <2>2, <2>3
<1>. QED  BY <1>4, <1>5, <1>6 DEF ScopesNest

LEMMA StackShapeStep ==
  ASSUME StackTypes, StackShape, NEW m, Kept(m),
         Len(acts') = m + 1 =>
           /\ acts'[m + 1].kind \in StmtKinds \cup {"loopbody", "ifbody"}
                => m = 0 \/ acts[m].kind \in Blocks
           /\ acts'[m + 1].kind \in ExprKinds
                => m > 0 /\ acts[m].kind \notin Blocks
  PROVE  StackShape'
<1>. DEFINE k == Len(acts')
<1>1. /\ m \in Nat /\ k \in Nat /\ k \in {m, m + 1}
      /\ Len(acts) \in Nat /\ m <= Len(acts)
      /\ \A i \in 1..m : acts'[i] = acts[i]
  BY StackFacts DEF Kept
<1>2. ASSUME NEW i \in 1..k
      PROVE  /\ acts'[i].kind \in StmtKinds \cup {"loopbody", "ifbody"}
                  => i = 1 \/ acts'[i - 1].kind \in Blocks
             /\ acts'[i].kind \in ExprKinds
                  => i > 1 /\ acts'[i - 1].kind \notin Blocks
  <2>1. CASE i \in 1..m
    <3>1. /\ acts[i].kind \in StmtKinds \cup {"loopbody", "ifbody"}
               => i = 1 \/ acts[i - 1].kind \in Blocks
          /\ acts[i].kind \in ExprKinds
               => i > 1 /\ acts[i - 1].kind \notin Blocks
      BY <1>1, <2>1 DEF StackShape
    <3>2. acts'[i] = acts[i] /\ (i # 1 => acts'[i - 1] = acts[i - 1])
      BY <1>1, <2>1
    <3>. QED  BY <1>1, <3>1, <3>2
  <2>2. CASE i = m + 1 /\ k = m + 1
    BY <1>1, <2>2
  <2>. QED  BY <1>1, <2>1, <2>2
<1>. QED  BY <1>2 DEF StackShape

\* The calls but for what the body of the last one has returned.
SameCalls ==
  /\ Len(calls') = Len(calls)
  /\ \A k \in 1..Len(calls) : /\ calls'[k].scope_barrier = calls[k].scope_barrier
                              /\ calls'[k].name = calls[k].name

\* No body begins or ends.
LEMMA CallsNestStep ==
  ASSUME StackTypes, CallsNest, CalleesNew, SameCalls, NEW m, Kept(m),
         \A i \in (m + 1)..Len(acts) : acts[i].kind # "body",
         Len(acts') = m + 1 =>
           /\ acts'[m + 1].kind # "body"
           /\ acts'[m + 1].kind = "call" =>
                /\ acts'[m + 1].name \in Funs
                /\ \A k \in 1..Len(calls) :
                     calls[k].scope_barrier <= acts'[m + 1].scope
                       => calls[k].name # acts'[m + 1].name
  PROVE  CallsNest' /\ CalleesNew'
<1>1. /\ m \in Nat /\ Len(acts') \in {m, m + 1}
      /\ Len(acts) \in Nat /\ m <= Len(acts)
      /\ \A i \in 1..m : acts'[i] = acts[i]
  BY StackFacts DEF Kept
<1>2. CallsNest'
  <2>1. \A j, k \in 1..Len(calls') : j < k => calls'[j].scope_barrier < calls'[k].scope_barrier
    BY DEF SameCalls, CallsNest
  <2>2. ASSUME NEW k \in 1..Len(calls')
        PROVE  \E i \in 1..Len(acts') :
                 acts'[i].kind = "body" /\ acts'[i].scope = calls'[k].scope_barrier
    <3>1. PICK i \in 1..Len(acts) :
            acts[i].kind = "body" /\ acts[i].scope = calls[k].scope_barrier
      BY DEF SameCalls, CallsNest
    <3>2. i \in 1..m
      BY <1>1, <3>1
    <3>. QED  BY <1>1, <3>1, <3>2 DEF SameCalls
  <2>3. ASSUME NEW i \in 1..Len(acts'), acts'[i].kind = "body"
        PROVE  \E k \in 1..Len(calls') : calls'[k].scope_barrier = acts'[i].scope
    <3>1. i \in 1..m /\ acts'[i] = acts[i] /\ i \in 1..Len(acts)
      BY <1>1, <2>3
    <3>2. PICK k \in 1..Len(calls) : calls[k].scope_barrier = acts[i].scope
      BY <2>3, <3>1 DEF CallsNest
    <3>. QED  BY <3>1, <3>2 DEF SameCalls
  <2>. QED  BY <2>1, <2>2, <2>3 DEF CallsNest
<1>3. CalleesNew'
  <2>. SUFFICES ASSUME NEW i \in 1..Len(acts'), acts'[i].kind = "call"
                PROVE  /\ acts'[i].name \in Funs
                       /\ \A k \in 1..Len(calls) :
                            calls[k].scope_barrier <= acts'[i].scope
                              => calls[k].name # acts'[i].name
    BY DEF CalleesNew, SameCalls
  <2>1. CASE i \in 1..m
    BY <1>1, <2>1 DEF CalleesNew
  <2>2. CASE i = m + 1 /\ Len(acts') = m + 1
    BY <2>2
  <2>. QED  BY <1>1, <2>1, <2>2
<1>. QED  BY <1>2, <1>3

-----------------------------------------------------------------------------
(* The ways in which a step moves the stacks. In each of them, whatever    *)
(* else changes, the nesting stays.                                        *)

\* What the top activation and the scopes are to each other.
LEMMA TopFacts ==
  ASSUME StackTypes, Nested, acts # <<>>
  PROVE  /\ Len(acts) \in Nat /\ Len(acts) >= 1
         /\ Top = acts[Len(acts)] /\ Top \in Activation
         /\ Top.scope = Depth /\ Depth \in Nat
         /\ ScopeAbove(Len(acts) - 1) \in Nat
         /\ Depth = ScopeAbove(Len(acts) - 1) + (IF Top.kind \in Blocks THEN 1 ELSE 0)
         /\ Top.kind \in StmtKinds \cup {"loopbody", "ifbody"} =>
              Len(acts) = 1 \/ acts[Len(acts) - 1].kind \in Blocks
         /\ Top.kind \in ExprKinds =>
              Len(acts) > 1 /\ acts[Len(acts) - 1].kind \notin Blocks
<1>1. /\ Len(acts) \in Nat /\ Len(acts) >= 1 /\ Top \in Activation
      /\ Len(acts) \in 1..Len(acts)
  BY DEF StackTypes, Top
<1>2. acts[Len(acts)].scope = (IF Len(acts) = 1 THEN 1 ELSE acts[Len(acts) - 1].scope)
                                + (IF acts[Len(acts)].kind \in Blocks THEN 1 ELSE 0)
  BY <1>1 DEF Nested, ScopesNest
<1>3. Top.scope = Depth /\ Depth \in Nat
  BY StackFacts DEF Nested, ScopesNest, Depth
<1>. DEFINE n == Len(acts)
<1>n. n \in Nat /\ n >= 1
  BY <1>1
<1>4. ScopeAbove(Len(acts) - 1) \in Nat
  <2>. HIDE DEF n
  <2>0. n = 1 \/ n > 1
    BY <1>n
  <2>1. CASE Len(acts) = 1
    BY <2>1 DEF ScopeAbove
  <2>2. CASE Len(acts) > 1
    <3>1. Len(acts) - 1 \in 1..Len(acts) /\ Len(acts) - 1 # 0
      BY <1>1, <2>2
    <3>2. \A i \in 1..Len(acts) : acts[i].scope \in Nat
      BY StackFacts
    <3>3. acts[Len(acts) - 1].scope \in Nat
      BY <3>1, <3>2
    <3>. QED  BY <3>1, <3>3 DEF ScopeAbove
  <2>. QED  BY <2>0, <2>1, <2>2 DEF n
<1>5. /\ Top.kind \in StmtKinds \cup {"loopbody", "ifbody"} =>
           Len(acts) = 1 \/ acts[Len(acts) - 1].kind \in Blocks
      /\ Top.kind \in ExprKinds =>
           Len(acts) > 1 /\ acts[Len(acts) - 1].kind \notin Blocks
  BY <1>1 DEF Nested, StackShape, Top
<1>. QED  BY <1>1, <1>2, <1>3, <1>4, <1>5 DEF Top, ScopeAbove

\* Nothing refers to a scope that is not open.
LEMMA ScopesBelow ==
  ASSUME StackTypes, Nested
  PROVE  /\ \A i \in 1..Len(acts) :
              acts[i].scope \in Nat /\ acts[i].scope >= 1 /\ acts[i].scope <= Depth
         /\ \A k \in 1..Len(calls) :
              /\ calls[k].scope_barrier \in Nat /\ calls[k].scope_barrier >= 1
              /\ calls[k].scope_barrier <= Depth
<1>1. ASSUME NEW i \in 1..Len(acts)
      PROVE  acts[i].scope \in Nat /\ acts[i].scope >= 1 /\ acts[i].scope <= Depth
  <2>0. Len(acts) \in Nat /\ acts # <<>>
    <3>1. Len(acts) \in Nat /\ Len(acts) # 0
      BY StackFacts
    <3>. QED  BY <3>1
  <2>1. Top.scope = Depth /\ Depth \in Nat /\ Top = acts[Len(acts)]
    BY <2>0, TopFacts
  <2>2. i = Len(acts) \/ i < Len(acts)
    BY <2>0
  <2>3. acts[i].scope \in Nat \ {0} /\ Len(acts) \in 1..Len(acts)
    <3>1. acts[i] \in Activation
      BY DEF StackTypes
    <3>2. Len(acts) \in 1..Len(acts)
      BY <2>0
    <3>. QED  BY <3>1, <3>2 DEF Activation
  <2>4. i < Len(acts) => acts[i].scope <= acts[Len(acts)].scope
    BY <2>3 DEF Nested, ScopesNest
  <2>. QED  BY <2>1, <2>2, <2>3, <2>4
<1>2. ASSUME NEW k \in 1..Len(calls)
      PROVE  /\ calls[k].scope_barrier \in Nat /\ calls[k].scope_barrier >= 1
             /\ calls[k].scope_barrier <= Depth
  <2>1. PICK i \in 1..Len(acts) : acts[i].scope = calls[k].scope_barrier
    BY DEF Nested, CallsNest
  <2>. QED  BY <1>1, <2>1
<1>. QED  BY <1>1, <1>2

\* A generator calls eval or generate_call: its activation is pushed.
LEMMA PushNested ==
  ASSUME StackTypes, Nested, calls' = calls, Depth' = Depth,
         NEW a \in Activation, acts' = Append(acts, a),
         a.scope = Depth,
         \/ a.kind \in StmtKinds /\ (acts = <<>> \/ Top.kind \in Blocks)
         \/ a.kind \in ExprKinds /\ acts # <<>> /\ Top.kind \notin Blocks
         \/ a.kind = "call" /\ a.name \in Funs /\ ~CallInProgress(a.name)
  PROVE  Nested'
<1>. DEFINE m == Len(acts)
<1>1. Kept(m) /\ Len(acts') = m + 1 /\ acts'[m + 1] = a
  BY Pushed DEF StackTypes, Kept
<1>2. a.kind \notin Blocks /\ a.kind # "body" /\ Depth = ScopeAbove(m) /\ Depth \in Nat
  BY KindsDiffer, StackFacts DEF Nested, ScopesNest, ScopeAbove, Top, Blocks, Depth
<1>3. m \in Nat /\ (acts = <<>> <=> m = 0)
  BY DEF StackTypes
<1>4. ScopesNest'
  BY <1>1, <1>2, ScopesNestStep DEF Nested
<1>5. StackShape'
  BY <1>1, <1>2, <1>3, KindsDiffer, StackShapeStep DEF Nested, Top, Blocks
<1>6. CallsNest' /\ CalleesNew'
  <2>1. a.kind = "call" =>
          a.name \in Funs /\ \A k \in 1..Len(calls) : calls[k].name # a.name
    BY KindsDiffer DEF CallInProgress
  <2>. QED  BY <1>1, <1>2, <1>3, <2>1, CallsNestStep DEF Nested, SameCalls
<1>. QED  BY <1>4, <1>5, <1>6 DEF Nested

\* It goes on to its next operand: its activation becomes another one.
LEMMA SwapNested ==
  ASSUME StackTypes, Nested, calls' = calls, Depth' = Depth, acts # <<>>,
         NEW a \in Activation, acts' = TopBecomes(a),
         a.scope = Top.scope,
         \/ a.kind \in StmtKinds /\ Top.kind \in StmtKinds
         \/ a.kind \in ExprKinds /\ Top.kind \in ExprKinds
         \/ a.kind = "call" /\ Top.kind = "call" /\ a.name = Top.name
  PROVE  Nested'
<1>. DEFINE m == Len(acts) - 1
<1>1. Len(acts) \in Nat /\ Len(acts) >= 1 /\ m \in Nat
  BY TopFacts
<1>2. Kept(m) /\ Len(acts') = m + 1 /\ acts'[m + 1] = a
  BY <1>1, Replaced DEF StackTypes, Kept, TopBecomes, Under
<1>3. /\ a.kind \notin Blocks /\ a.kind # "body"
      /\ Top.kind \notin Blocks /\ Top.kind # "body"
  BY KindsDiffer DEF Blocks
<1>4. Depth = ScopeAbove(m) /\ Depth \in Nat /\ a.scope = Depth
  BY <1>3, TopFacts
<1>5. ScopesNest'
  BY <1>2, <1>3, <1>4, ScopesNestStep DEF Nested
<1>6. StackShape'
  <2>1. /\ Top.kind \in StmtKinds => Len(acts) = 1 \/ acts[m].kind \in Blocks
        /\ Top.kind \in ExprKinds => Len(acts) > 1 /\ acts[m].kind \notin Blocks
    BY TopFacts
  <2>. QED  BY <1>1, <1>2, <1>3, <2>1, KindsDiffer, StackShapeStep DEF Nested, Blocks
<1>7. CallsNest' /\ CalleesNew'
  <2>1. \A i \in (m + 1)..Len(acts) : acts[i].kind # "body"
    BY <1>1, <1>3 DEF Top
  <2>2. a.kind = "call" =>
          /\ a.name \in Funs
          /\ \A k \in 1..Len(calls) : calls[k].scope_barrier <= a.scope => calls[k].name # a.name
    <3>1. a.kind = "call" => /\ acts[Len(acts)].kind = "call"
                             /\ a.name = acts[Len(acts)].name
                             /\ a.scope = acts[Len(acts)].scope
      BY KindsDiffer DEF Top
    <3>2. Len(acts) \in 1..Len(acts)
      BY <1>1
    <3>. QED  BY <3>1, <3>2 DEF Nested, CalleesNew
  <2>. QED  BY <1>2, <1>3, <2>1, <2>2, CallsNestStep DEF Nested, SameCalls
<1>. QED  BY <1>5, <1>6, <1>7 DEF Nested

\* It is done, and with it the block if it was one: its activation is popped.
LEMMA PopNested ==
  ASSUME StackTypes, Nested, SameCalls, acts # <<>>, acts' = Under,
         Top.kind # "body",
         Depth' = IF Top.kind \in Blocks THEN Depth - 1 ELSE Depth
  PROVE  Nested'
<1>. DEFINE m == Len(acts) - 1
<1>1. Len(acts) \in Nat /\ Len(acts) >= 1 /\ m \in Nat
  BY TopFacts
<1>2. Kept(m) /\ Len(acts') = m
  BY <1>1, Popped DEF StackTypes, Kept, Under
<1>4. Depth' = ScopeAbove(m)
  BY TopFacts
<1>5. ScopesNest'
  BY <1>1, <1>2, <1>4, ScopesNestStep DEF Nested
<1>6. StackShape'
  BY <1>1, <1>2, StackShapeStep DEF Nested
<1>7. CallsNest' /\ CalleesNew'
  <2>1. \A i \in (m + 1)..Len(acts) : acts[i].kind # "body"
    BY <1>1 DEF Top
  <2>. QED  BY <1>1, <1>2, <2>1, CallsNestStep DEF Nested
<1>. QED  BY <1>5, <1>6, <1>7 DEF Nested

\* A loop or an if opens its block.
LEMMA EnterNested ==
  ASSUME StackTypes, Nested, calls' = calls, Depth' = Depth + 1, acts # <<>>,
         NEW a \in Activation, acts' = TopBecomes(a),
         a.scope = Depth + 1, a.kind \in {"loopbody", "ifbody"},
         Top.kind \in StmtKinds
  PROVE  Nested'
<1>. DEFINE m == Len(acts) - 1
<1>1. Len(acts) \in Nat /\ Len(acts) >= 1 /\ m \in Nat
  BY TopFacts
<1>2. Kept(m) /\ Len(acts') = m + 1 /\ acts'[m + 1] = a
  BY <1>1, Replaced DEF StackTypes, Kept, TopBecomes, Under
<1>3. /\ a.kind \in Blocks /\ a.kind \notin StmtKinds \cup ExprKinds \cup {"body", "call"}
      /\ Top.kind \notin Blocks /\ Top.kind # "body"
  BY KindsDiffer DEF Blocks, ExprKinds
<1>4. Depth = ScopeAbove(m) /\ Depth \in Nat
  BY <1>3, TopFacts
<1>5. ScopesNest'
  BY <1>2, <1>3, <1>4, ScopesNestStep DEF Nested
<1>6. StackShape'
  <2>1. Len(acts) = 1 \/ acts[m].kind \in Blocks
    BY TopFacts
  <2>. QED  BY <1>1, <1>2, <1>3, <2>1, StackShapeStep DEF Nested
<1>7. CallsNest' /\ CalleesNew'
  <2>1. \A i \in (m + 1)..Len(acts) : acts[i].kind # "body"
    BY <1>1, <1>3 DEF Top
  <2>. QED  BY <1>2, <1>3, <2>1, CallsNestStep DEF Nested, SameCalls
<1>. QED  BY <1>5, <1>6, <1>7 DEF Nested

\* The arguments of a call are bound: its body begins in a frame scope.
LEMMA BeginNested ==
  ASSUME StackTypes, Nested, Depth' = Depth + 1, acts # <<>>, Top.kind = "call",
         NEW a \in Activation, acts' = TopBecomes(a),
         a.scope = Depth + 1, a.kind = "body",
         NEW c \in Call, calls' = Append(calls, c), c.scope_barrier = Depth + 1
  PROVE  Nested'
<1>. DEFINE m == Len(acts) - 1
            q == Len(calls)
<1>1. Len(acts) \in Nat /\ Len(acts) >= 1 /\ m \in Nat /\ q \in Nat
  BY TopFacts, StackFacts
<1>2. Kept(m) /\ Len(acts') = m + 1 /\ acts'[m + 1] = a
  BY <1>1, Replaced DEF StackTypes, Kept, TopBecomes, Under
<1>3. /\ Len(calls') = q + 1 /\ calls'[q + 1] = c
      /\ \A k \in 1..q : calls'[k] = calls[k]
  BY Pushed DEF StackTypes
<1>4. /\ a.kind \in Blocks /\ a.kind \notin StmtKinds \cup {"loopbody", "ifbody"}
      /\ a.kind \notin ExprKinds /\ Top.kind \notin Blocks /\ Top.kind # "body"
  BY KindsDiffer DEF Blocks
<1>5. Depth = ScopeAbove(m) /\ Depth \in Nat
  BY <1>4, TopFacts
<1>6. ScopesNest'
  BY <1>2, <1>4, <1>5, ScopesNestStep DEF Nested
<1>7. StackShape'
  BY <1>1, <1>2, <1>4, StackShapeStep DEF Nested
<1>8. \A i \in 1..Len(acts) : acts[i].scope \in Nat /\ acts[i].scope <= Depth
  BY ScopesBelow
<1>9. \A k \in 1..q : calls[k].scope_barrier \in Nat /\ calls[k].scope_barrier <= Depth
  BY ScopesBelow
<1>10. CallsNest'
  <2>1. ASSUME NEW j \in 1..(q + 1), NEW k \in 1..(q + 1), j < k
        PROVE  calls'[j].scope_barrier < calls'[k].scope_barrier
    <3>1. j \in 1..q /\ calls'[j] = calls[j]
      BY <1>1, <1>3, <2>1
    <3>2. CASE k \in 1..q
      BY <1>3, <2>1, <3>1, <3>2 DEF Nested, CallsNest
    <3>3. CASE k = q + 1
      BY <1>3, <1>5, <1>9, <3>1, <3>3
    <3>. QED  BY <1>1, <3>2, <3>3
  <2>2. ASSUME NEW k \in 1..(q + 1)
        PROVE  \E i \in 1..Len(acts') :
                 acts'[i].kind = "body" /\ acts'[i].scope = calls'[k].scope_barrier
    <3>1. CASE k \in 1..q
      <4>1. PICK i \in 1..Len(acts) :
              acts[i].kind = "body" /\ acts[i].scope = calls[k].scope_barrier
        BY <3>1 DEF Nested, CallsNest
      <4>2. i \in 1..m
        BY <1>1, <4>1 DEF Top
      <4>. QED  BY <1>1, <1>2, <1>3, <3>1, <4>1, <4>2 DEF Kept
    <3>2. CASE k = q + 1
      BY <1>1, <1>2, <1>3, <3>2
    <3>. QED  BY <1>1, <3>1, <3>2
  <2>3. ASSUME NEW i \in 1..Len(acts'), acts'[i].kind = "body"
        PROVE  \E k \in 1..(q + 1) : calls'[k].scope_barrier = acts'[i].scope
    <3>1. CASE i \in 1..m
      <4>1. acts'[i] = acts[i] /\ i \in 1..Len(acts)
        BY <1>1, <1>2, <3>1 DEF Kept
      <4>2. PICK k \in 1..q : calls[k].scope_barrier = acts[i].scope
        BY <2>3, <4>1 DEF Nested, CallsNest
      <4>. QED  BY <1>1, <1>3, <4>1, <4>2
    <3>2. CASE i = m + 1
      BY <1>1, <1>2, <1>3, <3>2
    <3>. QED  BY <1>1, <1>2, <3>1, <3>2
  <2>. QED  BY <1>3, <2>1, <2>2, <2>3 DEF CallsNest
<1>11. CalleesNew'
  <2>. SUFFICES ASSUME NEW i \in 1..Len(acts'), acts'[i].kind = "call"
                PROVE  /\ acts'[i].name \in Funs
                       /\ \A k \in 1..(q + 1) :
                            calls'[k].scope_barrier <= acts'[i].scope
                              => calls'[k].name # acts'[i].name
    BY <1>3 DEF CalleesNew
  <2>1. i \in 1..m /\ i \in 1..Len(acts) /\ acts'[i] = acts[i]
    BY <1>1, <1>2 DEF Kept
  <2>2. ASSUME NEW k \in 1..(q + 1), calls'[k].scope_barrier <= acts'[i].scope
        PROVE  calls'[k].name # acts'[i].name
    <3>1. k \in 1..q
      BY <1>1, <1>3, <1>5, <1>8, <2>1, <2>2
    <3>. QED  BY <1>3, <2>1, <2>2, <3>1 DEF Nested, CalleesNew
  <2>. QED  BY <2>1, <2>2 DEF Nested, CalleesNew
<1>. QED  BY <1>6, <1>7, <1>10, <1>11 DEF Nested

\* The body is done: the frame scope and the call go with it.
LEMMA EndNested ==
  ASSUME StackTypes, Nested, Depth' = Depth - 1, acts # <<>>, Top.kind = "body",
         acts' = Under, calls' = Pop(calls, 1)
  PROVE  Nested' /\ calls # <<>> /\ CurrentCall.scope_barrier = Depth
<1>. DEFINE N == Len(acts)
            m == N - 1
            q == Len(calls)
<1>1. /\ N \in Nat /\ N >= 1 /\ q \in Nat
      /\ Top.kind \in Blocks
      /\ Top = acts[N] /\ Top.scope = Depth /\ Depth \in Nat
      /\ Depth' = ScopeAbove(m)
  BY TopFacts, StackFacts DEF Blocks
<1>. HIDE DEF N, q
<1>2. /\ N \in 1..N /\ m \in Nat /\ m \in 0..N /\ 1 <= N
      /\ \A i \in 1..N : i = N \/ i \in 1..m
      /\ \A i \in 1..m : i \in 1..N /\ i < N
  BY <1>1
<1>3. /\ acts' \in Seq(Activation) /\ Len(acts') = m
      /\ \A i \in 1..m : acts'[i] = acts[i]
  <2>1. 1 \in Nat /\ 1 <= Len(acts) /\ acts \in Seq(Activation)
    BY <1>2 DEF StackTypes, N
  <2>. QED  BY <2>1, Popped DEF Under, N
<1>4. Kept(m)
  BY <1>2, <1>3 DEF Kept, N
<1>5. \A i \in 1..N : acts[i].scope \in Nat
  BY StackFacts DEF N
<1>6. \A i \in 1..m : acts[i].scope < Depth
  <2>. SUFFICES ASSUME NEW i \in 1..m
                PROVE  acts[i].scope < Depth
    OBVIOUS
  <2>1. i \in 1..N /\ i < N
    BY <1>2
  <2>. QED  BY <1>1, <1>2, <2>1 DEF Nested, ScopesNest, N
<1>7. \A i \in 1..N : acts[i].scope <= Depth
  BY <1>1, <1>2, <1>5, <1>6
<1>8. PICK top \in 1..q : calls[top].scope_barrier = Depth
  BY <1>1, <1>2 DEF Nested, CallsNest, N, q
<1>9. \A k \in 1..q : calls[k].scope_barrier \in Nat /\ calls[k].scope_barrier <= Depth
  BY <1>7, StackFacts DEF Nested, CallsNest, N, q
<1>10. q \in 1..q /\ q >= 1 /\ (\A k \in 1..(q - 1) : k \in 1..q /\ k < q)
  BY <1>1, <1>8
<1>11. \A j, k \in 1..q : j < k => calls[j].scope_barrier < calls[k].scope_barrier
  BY DEF Nested, CallsNest, q
<1>12. top = q
  <2>1. top = q \/ top < q
    BY <1>1, <1>8
  <2>2. top < q => Depth < calls[q].scope_barrier
    BY <1>8, <1>10, <1>11
  <2>. QED  BY <1>1, <1>9, <1>10, <2>1, <2>2
<1>13. \A k \in 1..(q - 1) : calls[k].scope_barrier < Depth
  BY <1>8, <1>10, <1>11, <1>12
<1>14. Len(calls') = q - 1 /\ \A k \in 1..(q - 1) : calls'[k] = calls[k]
  <2>1. 1 \in Nat /\ 1 <= Len(calls) /\ calls \in Seq(Call)
    BY <1>10 DEF StackTypes, q
  <2>2. /\ Len(Pop(calls, 1)) = Len(calls) - 1
        /\ \A i \in 1..(Len(calls) - 1) : Pop(calls, 1)[i] = calls[i]
    BY <2>1, Popped
  <2>. QED  BY <2>2 DEF q
<1>15. ScopesNest'
  BY <1>1, <1>2, <1>3, <1>4, ScopesNestStep DEF Nested
<1>16. StackShape'
  BY <1>2, <1>3, <1>4, StackShapeStep DEF Nested
<1>17. CallsNest'
  <2>1. \A j, k \in 1..Len(calls') : j < k => calls'[j].scope_barrier < calls'[k].scope_barrier
    BY <1>10, <1>11, <1>14
  <2>2. ASSUME NEW k \in 1..Len(calls')
        PROVE  \E i \in 1..Len(acts') :
                 acts'[i].kind = "body" /\ acts'[i].scope = calls'[k].scope_barrier
    <3>1. k \in 1..q /\ k \in 1..(q - 1) /\ calls'[k] = calls[k]
      BY <1>10, <1>14
    <3>2. PICK i \in 1..N : acts[i].kind = "body" /\ acts[i].scope = calls[k].scope_barrier
      BY <3>1 DEF Nested, CallsNest, N, q
    <3>3. i # N
      BY <1>1, <1>9, <1>13, <3>1, <3>2
    <3>. QED  BY <1>2, <1>3, <3>1, <3>2, <3>3
  <2>3. ASSUME NEW i \in 1..Len(acts'), acts'[i].kind = "body"
        PROVE  \E k \in 1..Len(calls') : calls'[k].scope_barrier = acts'[i].scope
    <3>1. i \in 1..m /\ i \in 1..N /\ acts'[i] = acts[i]
      BY <1>2, <1>3
    <3>2. PICK k \in 1..q : calls[k].scope_barrier = acts[i].scope
      BY <2>3, <3>1 DEF Nested, CallsNest, N, q
    <3>3. k # q
      BY <1>1, <1>5, <1>6, <1>8, <1>12, <3>1, <3>2
    <3>4. k \in 1..(q - 1)
      BY <1>1, <3>2, <3>3
    <3>. QED  BY <1>14, <3>1, <3>2, <3>4
  <2>. QED  BY <2>1, <2>2, <2>3 DEF CallsNest
<1>18. CalleesNew'
  <2>. SUFFICES ASSUME NEW i \in 1..Len(acts'), acts'[i].kind = "call"
                PROVE  /\ acts'[i].name \in Funs
                       /\ \A k \in 1..Len(calls') :
                            calls'[k].scope_barrier <= acts'[i].scope
                              => calls'[k].name # acts'[i].name
    BY DEF CalleesNew
  <2>1. i \in 1..N /\ acts'[i] = acts[i]
    BY <1>2, <1>3
  <2>2. \A k \in 1..Len(calls') : k \in 1..q /\ calls'[k] = calls[k]
    BY <1>10, <1>14
  <2>. QED  BY <2>1, <2>2 DEF Nested, CalleesNew, N, q
<1>. QED  BY <1>8, <1>10, <1>12, <1>15, <1>16, <1>17, <1>18 DEF Nested, CurrentCall, q

\* A step that leaves all of them alone.
LEMMA StayNested ==
  ASSUME Nested, calls' = calls, Depth' = Depth, acts' = acts
  PROVE  Nested'
BY DEF Nested, ScopesNest, StackShape, CallsNest, CalleesNew, Top

LEMMA UnderTypes ==
  ASSUME StackTypes, acts # <<>>
  PROVE  Under \in Seq(Activation)
<1>1. acts \in Seq(Activation) /\ 1 \in Nat /\ 1 <= Len(acts)
  BY DEF StackTypes
<1>. QED  BY <1>1, Popped DEF Under

\* What is on top afterwards.
LEMMA TopAfter ==
  ASSUME StackTypes, NEW a \in Activation
  PROVE  /\ acts' = Append(acts, a) => acts' # <<>> /\ Top' = a
         /\ acts # <<>> /\ acts' = TopBecomes(a) => acts' # <<>> /\ Top' = a
<1>. DEFINE N == Len(acts)
<1>1. N \in Nat /\ (acts # <<>> => N >= 1)
  BY DEF StackTypes
<1>2. ASSUME acts' = Append(acts, a)
      PROVE  acts' # <<>> /\ Top' = a
  BY <1>2, Pushed DEF StackTypes, Top
<1>3. ASSUME acts # <<>>, acts' = TopBecomes(a)
      PROVE  acts' # <<>> /\ Top' = a
  BY <1>1, <1>3, Replaced DEF StackTypes, Top, TopBecomes, Under
<1>. QED  BY <1>2, <1>3

LEMMA TopUnder ==
  ASSUME StackTypes, acts # <<>>, acts' = Under
  PROVE  /\ Len(acts) = 1 => acts' = <<>>
         /\ Len(acts) > 1 => acts' # <<>> /\ Top' = acts[Len(acts) - 1]
         /\ acts' = <<>> \/ Top' = acts[Len(acts) - 1]
<1>. DEFINE N == Len(acts)
<1>1. N \in Nat /\ N >= 1
  BY DEF StackTypes
<1>. HIDE DEF N
<1>2. 1 <= N /\ 1 \in Nat /\ (N = 1 \/ N > 1)
  BY <1>1
<1>3. /\ acts' \in Seq(Activation) /\ Len(acts') = N - 1
      /\ \A i \in 1..(N - 1) : acts'[i] = acts[i]
  BY <1>2, Popped DEF StackTypes, Under, N
<1>4. N = 1 => acts' = <<>>
  BY <1>3, EmptySeq
<1>5. N > 1 => N - 1 \in 1..(N - 1) /\ N - 1 # 0
  BY <1>1
<1>. QED  BY <1>2, <1>3, <1>4, <1>5 DEF Top, N

-----------------------------------------------------------------------------
(* Types.                                                                  *)

OutTypes(o) == o.dirty \in SUBSET Nat /\ o.unmet \in SUBSET Nat

\* Everything a type can be said of by itself.
Types ==
  /\ StackTypes
  /\ mode \in {"stmt", "expr", "value", "args", "done", "error", "bound"}
  /\ res \in EvalResults /\ (mode = "value" => res.type # "NONE")
  /\ funs \in [Funs -> Function]
  /\ OutTypes(out)

\* The inductive invariant.
IInv == Types /\ Nested /\ ModeShape /\ NoRecursion

LEMMA EmitTypes ==
  ASSUME NEW o, OutTypes(o), NEW op, NEW args, NEW writes, NEW needs,
         NEW dirty \in SUBSET Nat
  PROVE  OutTypes(Emit(o, op, args, writes, needs, dirty))
BY DEF OutTypes, Emit

LEMMA TapeTypes ==
  ASSUME NEW o, OutTypes(o), NEW a \in Nat, NEW b \in Nat
  PROVE  /\ OutTypes(Mov(o, a, b))
         /\ OutTypes(Add(o, a, b))
         /\ OutTypes(Copy(o, a, b))
         /\ OutTypes(Load(o, a, b))
         /\ OutTypes(Flip(o, a))
         /\ OutTypes(ReadChar(o, a))
         /\ OutTypes(Itoa(o, a, b))
         /\ OutTypes(InsertString(o, a, b))
         /\ OutTypes(Ouz(o, a))
<1>1. o.dirty \ {a} \in SUBSET Nat /\ o.dirty \cup {a} \in SUBSET Nat
  BY DEF OutTypes
<1>2. o.dirty \in SUBSET Nat
  BY DEF OutTypes
<1>3. o.dirty \cup (a + 4)..(a + 3 + b) \in SUBSET Nat
  BY <1>2
<1>. QED  BY <1>1, <1>2, <1>3, EmitTypes
          DEF Mov, Add, Copy, Load, Flip, ReadChar, Itoa, InsertString, Ouz

LEMMA ArrayTapeTypes ==
  ASSUME NEW o, OutTypes(o), NEW base \in Nat, NEW len \in Int, NEW index, NEW target,
         NEW dest \in Nat
  PROVE  OutTypes(Ra(o, base, index, dest)) /\ OutTypes(Sav(o, base, len, index, target))
<1>1. o.dirty \cup {dest} \in SUBSET Nat /\ o.dirty \cup (base + 4)..(base + 3 + len) \in SUBSET Nat
  BY DEF OutTypes
<1>. QED  BY <1>1, EmitTypes DEF Ra, Sav

LEMMA BinaryOpTypes ==
  ASSUME NEW o, OutTypes(o), NEW op, NEW acc \in Nat, NEW right, NEW dump \in Nat
  PROVE  OutTypes(BinaryOp(o, op, acc, right, dump))
<1>1. o.dirty \cup {dump} \in SUBSET Nat /\ o.dirty \cup {acc} \in SUBSET Nat
  BY DEF OutTypes
<1>2. \A args, writes, needs :
        /\ OutTypes(Emit(o, op, args, writes, needs, o.dirty \cup {dump}))
        /\ OutTypes(Emit(o, op, args, writes, needs, o.dirty \cup {acc}))
  BY <1>1, EmitTypes
<1>3. \A args, writes, needs :
        OutTypes(Mov(Add(Mov(Emit(o, op, args, writes, needs, o.dirty \cup {dump}),
                             acc, 0), acc, dump), dump, 0))
  BY <1>2, TapeTypes
<1>. QED  BY <1>2, <1>3 DEF BinaryOp

LEMMA BlockTapeTypes ==
  ASSUME NEW o, OutTypes(o), NEW op, NEW cell \in Nat, NEW before \in SUBSET Nat
  PROVE  OutTypes(Open(o, op, cell)) /\ OutTypes(Close(o, op, cell, before))
<1>1. o.dirty \in SUBSET Nat /\ (o.dirty \cup before) \ {cell} \in SUBSET Nat
  BY DEF OutTypes
<1>. QED  BY <1>1, EmitTypes DEF Open, Close

LEMMA WipeTypes ==
  ASSUME NEW o, OutTypes(o), NEW first, NEW last, NEW kept
  PROVE  OutTypes(Wipe(o, first, last, kept))
BY DEF OutTypes, Wipe

LEMMA AssignTypes ==
  ASSUME NEW o, OutTypes(o), NEW dest \in Nat, NEW r \in EvalResults
  PROVE  OutTypes(Assign(o, dest, r))
<1>1. r.val \in Nat
  BY DEF EvalResults
<1>2. /\ OutTypes(Mov(o, dest, r.val))
      /\ OutTypes(Add(Mov(o, dest, 0), dest, r.val))
      /\ OutTypes(Mov(Add(Mov(o, dest, 0), dest, r.val), r.val, 0))
  BY <1>1, TapeTypes
<1>. QED  BY <1>1, <1>2 DEF Assign

LEMMA CopyToTypes ==
  ASSUME NEW o, OutTypes(o), NEW dest \in Nat, NEW r \in EvalResults, r.type # "NONE"
  PROVE  OutTypes(CopyTo(o, dest, r))
<1>1. r.val \in Nat /\ r.type \in {"CONST", "ADDRESS", "TEMP"}
  BY DEF EvalResults
<1>2. /\ OutTypes(Mov(o, dest, r.val))
      /\ OutTypes(Copy(o, dest, r.val))
      /\ OutTypes(Mov(Copy(o, dest, r.val), r.val, 0))
  BY <1>1, TapeTypes
<1>. QED  BY <1>1, <1>2 DEF CopyTo

LEMMA TypesOfTypes ==
  /\ IntegerType \in KnownTypes
  /\ \A n \in 0..Word : ArrayType(n) \in KnownTypes
  /\ \A t \in KnownTypes : t.size \in Nat
  /\ \A t \in KnownTypes : \A p \in t.places : p.offset \in Nat /\ p.type \in KnownTypes
<1>1. \A n \in 0..Word : /\ ArrayType(n) \in KnownTypes
                        /\ ArrayType(n).size \in Nat
                        /\ ArrayType(n).places = {}
  <2>1. \A n \in 0..Word : ArrayType(n) \in KnownTypes
    BY DEF KnownTypes
  <2>2. \A n \in 0..Word : n \in Nat
    BY BoundsAssumption
  <2>3. \A n \in Nat : ArrayType(n).size = n + 4 /\ ArrayType(n).places = {}
    BY DEF ArrayType
  <2>. QED  BY <2>1, <2>2, <2>3
<1>2. IntegerType \in KnownTypes /\ IntegerType.size \in Nat /\ IntegerType.places = {}
  BY DEF KnownTypes, IntegerType
<1>3. \A t \in StructTypes :
        t.size \in Nat /\ \A p \in t.places : p.offset \in Nat /\ p.type \in KnownTypes
  BY StructsAssumption
<1>4. \A t \in KnownTypes :
        t = IntegerType \/ (\E n \in 0..Word : t = ArrayType(n)) \/ t \in StructTypes
  BY DEF KnownTypes
<1>. QED  BY <1>1, <1>2, <1>3, <1>4

LEMMA VariableTypes ==
  /\ NoVars \in [Names -> Variables]
  /\ \A a \in Nat, t \in KnownTypes, n \in Nat : Variable(a, t, n) \in Variables
  /\ \A vs \in [Names -> Variables], v \in Variables :
       \A n : Bind(vs, n, v) \in [Names -> Variables]
<1>1. \A a \in Nat, t \in KnownTypes, n \in Nat : Variable(a, t, n) \in Variables
  BY DEF Variable, Variables
<1>2. Undeclared \in Variables
  BY <1>1, TypesOfTypes DEF Undeclared
<1>. QED  BY <1>1, <1>2 DEF NoVars, Bind

LEMMA ResultTypes ==
  /\ \A n \in 0..(Word - 1) : Const(n) \in EvalResults /\ Const(n).type # "NONE"
  /\ \A n \in Nat : /\ Address(n) \in EvalResults /\ Address(n).type # "NONE"
                    /\ Temp(n) \in EvalResults /\ Temp(n).type # "NONE"
  /\ NoResult \in EvalResults
  /\ \A r \in EvalResults : r.val \in Nat
<1>1. \A n \in 0..(Word - 1) : n \in Nat /\ n < Word
  BY BoundsAssumption
<1>2. \A n \in 0..(Word - 1) : Const(n) \in EvalResults /\ Const(n).type # "NONE"
  BY <1>1 DEF EvalResults, Const
<1>3. \A n \in Nat : /\ Address(n) \in EvalResults /\ Address(n).type # "NONE"
                     /\ Temp(n) \in EvalResults /\ Temp(n).type # "NONE"
  BY DEF EvalResults, Address, Temp
<1>4. NoResult \in EvalResults /\ \A r \in EvalResults : r.val \in Nat
  BY DEF EvalResults, NoResult
<1>. QED  BY <1>2, <1>3, <1>4

\* What every step may count on.
LEMMA Context ==
  ASSUME Types, Nested
  PROVE  /\ Depth \in Nat /\ Depth >= 1 /\ Depth \in 1..Depth /\ scopes # <<>>
         /\ \A k \in 1..Depth : scopes[k] \in Scope /\ scopes[k].next \in Nat
                                /\ scopes[k].vars \in [Names -> Variables]
         /\ NextFree \in Nat
         /\ acts # <<>> => Top \in Activation /\ Top.scope = Depth
         /\ calls # <<>> => /\ Len(calls) \in 1..Len(calls) /\ CurrentCall \in Call
                            /\ CurrentCall.scope_barrier \in Nat /\ CurrentCall.scope_barrier >= 1
                            /\ CurrentCall.ret_addr \in Nat
<1>1. Depth \in Nat /\ (acts # <<>> => Top \in Activation /\ Top.scope = Depth)
  BY TopFacts, StackFacts DEF Types, Depth
<1>2. Depth >= 1
  <2>1. CASE acts = <<>>
    BY <1>1, <2>1 DEF Nested, ScopesNest
  <2>2. CASE acts # <<>>
    <3>1. Top.scope \in Nat \ {0}
      BY <1>1, <2>2 DEF Activation
    <3>. QED  BY <1>1, <2>2, <3>1
  <2>. QED  BY <2>1, <2>2
<1>3. Depth \in 1..Depth /\ scopes # <<>>
  BY <1>1, <1>2 DEF Depth
<1>4. \A k \in 1..Depth : scopes[k] \in Scope
  BY DEF Types, StackTypes, Depth
<1>5. \A s \in Scope : s.next \in Nat /\ s.vars \in [Names -> Variables]
  BY DEF Scope
<1>6. ASSUME calls # <<>>
      PROVE  /\ Len(calls) \in 1..Len(calls) /\ CurrentCall \in Call
             /\ CurrentCall.scope_barrier \in Nat /\ CurrentCall.scope_barrier >= 1
             /\ CurrentCall.ret_addr \in Nat
  <2>1. Len(calls) \in 1..Len(calls) /\ CurrentCall \in Call
    BY <1>6 DEF Types, StackTypes, CurrentCall
  <2>2. PICK i \in 1..Len(acts) : acts[i].scope = calls[Len(calls)].scope_barrier
    BY <2>1 DEF Nested, CallsNest
  <2>3. acts[i].scope \in Nat \ {0}
    <3>1. acts[i] \in Activation
      BY DEF Types, StackTypes
    <3>. QED  BY <3>1 DEF Activation
  <2>4. CurrentCall.scope_barrier \in Nat /\ CurrentCall.ret_addr \in Nat
    BY <2>1 DEF Call
  <2>. QED  BY <2>1, <2>2, <2>3, <2>4 DEF CurrentCall
<1>. QED  BY <1>1, <1>2, <1>3, <1>4, <1>5, <1>6 DEF NextFree

\* The two ways a scope changes.
LEMMA ScopeUpdates ==
  ASSUME Types, Nested, NEW k \in 1..Depth, NEW next \in Nat
  PROVE  /\ WithNext(k, next) \in Seq(Scope) /\ Len(WithNext(k, next)) = Depth
         /\ \A n \in Names, v \in Variables :
              Declared(k, n, v, next) \in Seq(Scope) /\ Len(Declared(k, n, v, next)) = Depth
<1>1. scopes \in Seq(Scope) /\ scopes[k] \in Scope /\ scopes[k].vars \in [Names -> Variables]
  BY Context DEF Types, StackTypes
<1>2. \A e \in Scope : /\ [scopes EXCEPT ![k] = e] \in Seq(Scope)
                       /\ Len([scopes EXCEPT ![k] = e]) = Len(scopes)
  BY <1>1 DEF Depth
<1>3. [scopes[k] EXCEPT !.next = next] \in Scope
  BY <1>1 DEF Scope
<1>4. \A n \in Names, v \in Variables : NewScope(Bind(scopes[k].vars, n, v), next) \in Scope
  BY <1>1, VariableTypes DEF Scope, NewScope
<1>. QED  BY <1>2, <1>3, <1>4 DEF WithNext, Declared, Depth

\* Where a variable expression may point.
LEMMA PlaceTypes ==
  ASSUME Types, Nested
  PROVE  /\ \A p \in Places : p.addr \in Nat /\ p.type \in KnownTypes
         /\ \A p \in ArgPlaces : p.addr \in Nat /\ p.type \in KnownTypes
<1>1. Barrier \in Nat /\ Barrier >= 1
  BY Context DEF Barrier
<1>2. \A n \in Names : \A v \in Resolve(n) : v \in Variables
  <2>. SUFFICES ASSUME NEW n \in Names, NEW k \in Holders(n)
                PROVE  scopes[k].vars[n] \in Variables
    BY DEF Resolve
  <2>1. k \in 1..Depth
    BY <1>1, Context DEF Holders
  <2>. QED  BY <2>1, Context
<1>3. \A v \in Visible : v.addr \in Nat /\ v.type \in KnownTypes
  BY <1>2 DEF Visible, Variables
<1>4. \A v \in Visible : \A p \in FieldPlaces(v) : p.addr \in Nat /\ p.type \in KnownTypes
  BY <1>3, TypesOfTypes DEF FieldPlaces
<1>5. \A p \in ArgPlaces : \E v \in Visible : p \in FieldPlaces(v) \/ p = PlaceOf(v)
  BY DEF ArgPlaces
<1>6. \A p \in Places : \E v \in Visible : p \in FieldPlaces(v) \/ p = PlaceOf(v)
  BY DEF Places
<1>7. \A v \in Visible : /\ PlaceOf(v).addr \in Nat
                        /\ PlaceOf(v).type \in KnownTypes
  BY <1>3 DEF PlaceOf
<1>8. \A p \in ArgPlaces : p.addr \in Nat /\ p.type \in KnownTypes
  BY <1>4, <1>5, <1>7
<1>9. \A p \in Places : p.addr \in Nat /\ p.type \in KnownTypes
  BY <1>4, <1>6, <1>7
<1>. QED  BY <1>8, <1>9

\* The activation a generator starts with.
LEMMA PendingTypes ==
  ASSUME Types, Nested
  PROVE  \A kind \in StmtKinds \cup ExprKinds \cup {"call"} :
           /\ Pending(kind) \in Activation
           /\ Pending(kind).kind = kind
           /\ Pending(kind).scope = Depth
<1>. SUFFICES ASSUME NEW kind \in StmtKinds \cup ExprKinds \cup {"call"}
              PROVE  /\ Pending(kind) \in Activation
                     /\ Pending(kind).kind = kind /\ Pending(kind).scope = Depth
  OBVIOUS
<1>. HIDE DEF Depth
<1>1. Depth \in Nat \ {0} /\ NextFree \in Nat /\ NoResult \in EvalResults
      /\ NoVars \in [Names -> Variables]
  BY Context, ResultTypes, VariableTypes
<1>2. Pending(kind) \in Activation
  BY <1>1 DEF Pending, Activation
<1>3. Pending(kind).kind = kind /\ Pending(kind).scope = Depth
  BY DEF Pending
<1>. QED  BY <1>2, <1>3

-----------------------------------------------------------------------------
(* The invariant through each kind of step.                                *)

LEMMA SameCallsNoRecursion ==
  ASSUME NoRecursion, SameCalls
  PROVE  NoRecursion'
BY DEF NoRecursion, SameCalls

LEMMA CallsSame ==
  ASSUME calls' = calls
  PROVE  SameCalls
BY DEF SameCalls

\* A generator calls eval.
LEMMA PushStep ==
  ASSUME IInv, UNCHANGED <<scopes, calls, funs, out>>,
         NEW a \in Activation, a.scope = Depth,
         \/ a.kind \in StmtKinds /\ mode = "stmt"
         \/ a.kind \in ExprKinds /\ mode = "expr",
         EvalWith(Append(acts, a))
  PROVE  IInv'
<1>1. Nested'
  BY KindsDiffer, PushNested DEF IInv, Types, ModeShape, EvalWith, Depth
<1>2. acts' # <<>> /\ Top' = a /\ acts' \in Seq(Activation)
  BY TopAfter, Pushed DEF IInv, Types, StackTypes, EvalWith
<1>3. ModeShape'
  BY <1>2, KindsDiffer DEF ModeShape, EvalWith
<1>4. Types'
  BY <1>2, ResultTypes DEF IInv, Types, StackTypes, OutTypes, EvalWith
<1>. QED  BY <1>1, <1>3, <1>4, CallsSame, SameCallsNoRecursion DEF IInv

\* It calls eval again for its next operand.
LEMMA SwapStep ==
  ASSUME IInv, mode = "value", UNCHANGED <<calls, funs>>,
         scopes' \in Seq(Scope), Len(scopes') = Depth, OutTypes(out)',
         NEW a \in Activation, a.scope = Depth,
         \/ a.kind \in StmtKinds /\ Top.kind \in StmtKinds
         \/ a.kind \in ExprKinds /\ Top.kind \in ExprKinds,
         EvalWith(TopBecomes(a))
  PROVE  IInv'
<1>0. acts # <<>> /\ Top.scope = Depth
  BY Context DEF IInv, ModeShape
<1>1. Nested'
  BY <1>0, SwapNested DEF IInv, Types, EvalWith, Depth
<1>2. acts' # <<>> /\ Top' = a /\ acts' \in Seq(Activation)
  BY <1>0, TopAfter, Replaced DEF IInv, Types, StackTypes, EvalWith, TopBecomes, Under
<1>3. ModeShape'
  BY <1>2, KindsDiffer DEF ModeShape, EvalWith
<1>4. Types'
  BY <1>2, ResultTypes DEF IInv, Types, StackTypes, EvalWith
<1>. QED  BY <1>1, <1>3, <1>4, CallsSame, SameCallsNoRecursion DEF IInv

\* eval returns a leaf.
LEMMA LeafStep ==
  ASSUME IInv, mode = "expr", UNCHANGED <<calls, funs>>,
         scopes' \in Seq(Scope), Len(scopes') = Depth, OutTypes(out)',
         NEW r \in EvalResults, r.type # "NONE", Return(acts, r)
  PROVE  IInv'
<1>1. Nested'
  BY StayNested DEF IInv, Return, Depth
<1>2. ModeShape'
  BY DEF IInv, ModeShape, Return, Top
<1>3. Types'
  BY DEF IInv, Types, StackTypes, Return
<1>. QED  BY <1>1, <1>2, <1>3, CallsSame, SameCallsNoRecursion DEF IInv

\* eval returns from an operator.
LEMMA ReturnStep ==
  ASSUME IInv, mode = "value", Top.kind \in ExprKinds, UNCHANGED <<calls, funs>>,
         scopes' \in Seq(Scope), Len(scopes') = Depth, OutTypes(out)',
         NEW r \in EvalResults, r.type # "NONE", Return(Under, r)
  PROVE  IInv'
<1>0. acts # <<>>
  BY DEF IInv, ModeShape
<1>1. Nested'
  BY <1>0, KindsDiffer, CallsSame, PopNested DEF IInv, Types, Return, Depth, Blocks
<1>2. acts' \in Seq(Activation) /\ acts' # <<>> /\ Top' = acts[Len(acts) - 1] /\ Top'.kind \notin Blocks
  <2>1. Len(acts) \in Nat /\ Len(acts) > 1 /\ acts[Len(acts) - 1].kind \notin Blocks /\ Top \in Activation
    BY <1>0, TopFacts DEF IInv, Types
  <2>2. acts' \in Seq(Activation)
    BY <1>0, UnderTypes DEF IInv, Types, Return
  <2>. QED  BY <1>0, <2>1, <2>2, TopUnder DEF IInv, Types, Return
<1>3. ModeShape'
  BY <1>2 DEF ModeShape, Return
<1>4. Types'
  BY <1>2 DEF IInv, Types, StackTypes, Return
<1>. QED  BY <1>1, <1>3, <1>4, CallsSame, SameCallsNoRecursion DEF IInv

\* A statement is done.
LEMMA StmtDoneStep ==
  ASSUME IInv, mode = "value", Top.kind \in StmtKinds, UNCHANGED funs,
         calls' \in Seq(Call), SameCalls,
         scopes' \in Seq(Scope), Len(scopes') = Depth, OutTypes(out)',
         StmtWith(Under)
  PROVE  IInv'
<1>0. acts # <<>>
  BY DEF IInv, ModeShape
<1>1. Nested'
  BY <1>0, KindsDiffer, PopNested DEF IInv, Types, StmtWith, Depth, Blocks
<1>2. acts' \in Seq(Activation) /\ (acts' = <<>> \/ Top'.kind \in Blocks)
  <2>1. /\ Len(acts) \in Nat /\ Len(acts) >= 1 /\ Top \in Activation
        /\ Len(acts) = 1 \/ acts[Len(acts) - 1].kind \in Blocks
    BY <1>0, TopFacts DEF IInv, Types
  <2>2. acts' \in Seq(Activation)
    BY <1>0, UnderTypes DEF IInv, Types, StmtWith
  <2>. QED  BY <1>0, <2>1, <2>2, TopUnder DEF IInv, Types, StmtWith
<1>3. ModeShape'
  BY <1>2 DEF ModeShape, StmtWith
<1>4. Types'
  BY <1>2, ResultTypes DEF IInv, Types, StackTypes, StmtWith
<1>. QED  BY <1>1, <1>3, <1>4, SameCallsNoRecursion DEF IInv

\* A statement that evaluates nothing.
LEMMA PlainStmtStep ==
  ASSUME IInv, UNCHANGED <<calls, acts, mode, res>>,
         scopes' \in Seq(Scope), Len(scopes') = Depth, OutTypes(out)',
         funs' \in [Funs -> Function]
  PROVE  IInv'
<1>1. Nested'
  BY StayNested DEF IInv, Depth
<1>2. ModeShape'
  BY DEF IInv, ModeShape, Top
<1>3. Types'
  BY DEF IInv, Types, StackTypes
<1>. QED  BY <1>1, <1>2, <1>3, CallsSame, SameCallsNoRecursion DEF IInv

\* The compilation ends, one way or the other.
LEMMA StopStep ==
  ASSUME IInv, mode' \in {"done", "error", "bound"},
         UNCHANGED <<scopes, calls, acts, res, funs, out>>
  PROVE  IInv'
<1>1. Nested'
  BY StayNested DEF IInv, Depth
<1>2. ModeShape' /\ Types'
  BY DEF IInv, ModeShape, Types, StackTypes, OutTypes
<1>. QED  BY <1>1, <1>2, CallsSame, SameCallsNoRecursion DEF IInv

-----------------------------------------------------------------------------
(* Every step keeps the invariant.                                         *)

\* What an activation finds when eval returns to it.
LEMMA Resumed ==
  ASSUME IInv, mode = "value"
  PROVE  /\ acts # <<>> /\ Top \in Activation
         /\ Top.scope = Depth /\ Top.scope \in 1..Depth
         /\ Top.mark \in Nat /\ Top.base \in Nat /\ Top.len \in Int /\ Top.nth \in Nat
         /\ Top.held \in EvalResults /\ Top.held.val \in Nat
         /\ Top.binds \in [Names -> Variables]
         /\ res \in EvalResults /\ res.type \in {"CONST", "ADDRESS", "TEMP"}
         /\ res.val \in Nat
         /\ scopes \in Seq(Scope) /\ Len(scopes) = Depth
         /\ scopes[Top.scope].next \in Nat
         /\ scopes[Top.scope].vars \in [Names -> Variables]
         /\ NextFree \in Nat /\ OutTypes(out)
<1>1. acts # <<>>
  BY DEF IInv, ModeShape
<1>2. Top \in Activation /\ Top.scope = Depth /\ Top.scope \in 1..Depth /\ NextFree \in Nat
  BY <1>1, Context DEF IInv
<1>3. /\ Top.mark \in Nat /\ Top.base \in Nat /\ Top.len \in Int /\ Top.nth \in Nat
      /\ Top.held \in EvalResults /\ Top.binds \in [Names -> Variables]
  BY <1>2 DEF Activation
<1>4. /\ res \in EvalResults /\ res.type \in {"CONST", "ADDRESS", "TEMP"}
      /\ res.val \in Nat /\ Top.held.val \in Nat
  BY <1>3 DEF IInv, Types, EvalResults
<1>5. scopes \in Seq(Scope) /\ Len(scopes) = Depth /\ OutTypes(out)
  BY DEF IInv, Types, StackTypes, Depth
<1>6. scopes[Top.scope].next \in Nat /\ scopes[Top.scope].vars \in [Names -> Variables]
  BY <1>2, Context DEF IInv
<1>. QED  BY <1>1, <1>2, <1>3, <1>4, <1>5, <1>6

LEMMA OutUnchanged ==
  ASSUME OutTypes(out), out' = out
  PROVE  OutTypes(out)'
BY DEF OutTypes

LEMMA OutChanged ==
  ASSUME NEW o, OutTypes(o), out' = o
  PROVE  OutTypes(out)'
BY DEF OutTypes

LEMMA ScopesUnchanged ==
  ASSUME IInv, scopes' = scopes
  PROVE  scopes' \in Seq(Scope) /\ Len(scopes') = Depth
BY DEF IInv, Types, StackTypes, Depth

LEMMA LeafSteps ==
  ASSUME IInv, EvalNumber \/ EvalVar \/ EvalReadChar
  PROVE  IInv'
<1>1. OutTypes(out) /\ scopes \in Seq(Scope) /\ NextFree \in Nat /\ Depth \in 1..Depth
  BY Context DEF IInv, Types, StackTypes
<1>2. CASE EvalNumber
  <2>1. PICK n \in Numbers : Return(acts, Const(n))
    BY <1>2 DEF EvalNumber
  <2>2. n \in 0..(Word - 1)
    BY LiteralsAssumption
  <2>. QED  BY <1>1, <1>2, <2>1, <2>2, ResultTypes, OutUnchanged, ScopesUnchanged, LeafStep
            DEF EvalNumber
<1>3. CASE EvalVar
  <2>1. PICK p \in Places : Return(acts, Address(p.addr))
    BY <1>3 DEF EvalVar
  <2>2. p.addr \in Nat
    BY PlaceTypes DEF IInv
  <2>. QED  BY <1>1, <1>3, <2>1, <2>2, ResultTypes, OutUnchanged, ScopesUnchanged, LeafStep
            DEF EvalVar
<1>4. CASE EvalReadChar
  <2>1. scopes' \in Seq(Scope) /\ Len(scopes') = Depth
    BY <1>1, <1>4, ScopeUpdates DEF EvalReadChar, IInv
  <2>2. OutTypes(out)'
    BY <1>1, <1>4, TapeTypes, OutChanged DEF EvalReadChar
  <2>. QED  BY <1>1, <1>4, <2>1, <2>2, ResultTypes, LeafStep DEF EvalReadChar, Expr
<1>. QED  BY <1>2, <1>3, <1>4

\* Operators and statements that begin with an evaluation.
LEMMA PushSteps ==
  ASSUME IInv,
         \/ EvalElement \/ EvalUnary \/ EvalBinary
         \/ ReturnStmt \/ Let \/ Set \/ CreateArray \/ AssignArray \/ PrintVal
         \/ Loop \/ If
  PROVE  IInv'
<1>1. Types /\ Nested
  BY DEF IInv
<1>2. \A k \in StmtKinds \cup ExprKinds :
        /\ Pending(k) \in Activation
        /\ Pending(k).kind = k /\ Pending(k).scope = Depth
  BY <1>1, PendingTypes
<1>3. CASE EvalElement
  <2>1. PICK p \in ArrayPlaces :
          EvalWith(Append(acts, [Pending("element") EXCEPT !.base = p.addr]))
    BY <1>3 DEF EvalElement
  <2>2. p.addr \in Nat /\ "element" \in ExprKinds
    BY <1>1, PlaceTypes DEF ArrayPlaces, ExprKinds
  <2>. DEFINE b == Pending("element")
              a == [b EXCEPT !.base = p.addr]
  <2>3. b \in Activation /\ b.kind = "element" /\ b.scope = Depth
    BY <1>2, <2>2
  <2>4. a \in Activation /\ a.kind = "element" /\ a.scope = Depth
    <3>. HIDE DEF b
    <3>. QED  BY <2>2, <2>3 DEF Activation
  <2>. QED  BY <1>3, <2>1, <2>2, <2>4, PushStep DEF EvalElement, Expr
<1>4. CASE AssignArray
  <2>1. PICK p \in ArrayPlaces :
          EvalWith(Append(acts, [Pending("index") EXCEPT !.base = p.addr,
                                                         !.len = p.type.size - 4]))
    BY <1>4 DEF AssignArray
  <2>2. p.addr \in Nat /\ p.type.size - 4 \in Int /\ "index" \in StmtKinds
    <3>1. p.addr \in Nat /\ p.type \in KnownTypes
      BY <1>1, PlaceTypes DEF ArrayPlaces
    <3>2. p.type.size \in Nat
      BY <3>1, TypesOfTypes
    <3>. QED  BY <3>1, <3>2 DEF StmtKinds
  <2>. DEFINE b == Pending("index")
              len == p.type.size - 4
              a == [b EXCEPT !.base = p.addr, !.len = len]
  <2>3. b \in Activation /\ b.kind = "index" /\ b.scope = Depth
    BY <1>2, <2>2
  <2>4. a \in Activation /\ a.kind = "index" /\ a.scope = Depth
    <3>. HIDE DEF b, len
    <3>1. len \in Int
      BY <2>2 DEF len
    <3>. QED  BY <2>2, <2>3, <3>1 DEF Activation
  <2>. QED  BY <1>4, <2>1, <2>2, <2>4, PushStep DEF AssignArray, Stmt
<1>5. CASE ReturnStmt
  <2>. DEFINE b == Pending("return")
              a == [b EXCEPT !.nth = Len(calls)]
  <2>1. "return" \in StmtKinds /\ Len(calls) \in Nat
    BY <1>1 DEF StmtKinds, Types, StackTypes
  <2>2. b \in Activation /\ b.kind = "return" /\ b.scope = Depth
    BY <1>2, <2>1
  <2>3. a \in Activation /\ a.kind = "return" /\ a.scope = Depth
    <3>. HIDE DEF b
    <3>. QED  BY <2>1, <2>2 DEF Activation
  <2>. QED  BY <1>5, <2>1, <2>3, PushStep DEF ReturnStmt, Stmt
<1>6. ASSUME NEW k \in ExprKinds, mode = "expr", UNCHANGED <<scopes, calls, funs, out>>,
             EvalWith(Append(acts, Pending(k)))
      PROVE  IInv'
  BY <1>2, <1>6, PushStep
<1>7. ASSUME NEW k \in StmtKinds, mode = "stmt", UNCHANGED <<scopes, calls, funs, out>>,
             EvalWith(Append(acts, Pending(k)))
      PROVE  IInv'
  BY <1>2, <1>7, PushStep
<1>8. CASE EvalUnary
  BY <1>6, <1>8 DEF EvalUnary, Expr, ExprKinds
<1>9. CASE EvalBinary
  BY <1>6, <1>9 DEF EvalBinary, Expr, ExprKinds
<1>10. CASE Let
  BY <1>7, <1>10 DEF Let, Stmt, StmtKinds
<1>11. CASE Set
  BY <1>7, <1>11 DEF Set, Stmt, StmtKinds
<1>12. CASE CreateArray
  BY <1>7, <1>12 DEF CreateArray, Stmt, StmtKinds
<1>13. CASE PrintVal
  BY <1>7, <1>13 DEF PrintVal, Stmt, StmtKinds
<1>14. CASE Loop
  BY <1>7, <1>14 DEF Loop, Stmt, StmtKinds
<1>15. CASE If
  BY <1>7, <1>15 DEF If, Stmt, StmtKinds
<1>. QED  BY <1>3, <1>4, <1>5, <1>8, <1>9, <1>10, <1>11, <1>12, <1>13, <1>14, <1>15

\* The second operand of an operator, and what is to be stored after its index.
LEMMA SwapSteps ==
  ASSUME IInv, LeftEvaluated \/ IndexEvaluated
  PROVE  IInv'
<1>1. Types /\ Nested
  BY DEF IInv
<1>2. mode = "value"
  BY DEF LeftEvaluated, IndexEvaluated, Resume
<1>3. /\ Top \in Activation /\ Top.scope = Depth /\ Top.scope \in 1..Depth
      /\ Top.mark \in Nat /\ res \in EvalResults /\ res.type # "NONE" /\ OutTypes(out)
  BY <1>2, Resumed
<1>4. CASE LeftEvaluated
  <2>. DEFINE b == Pending("right")
              a == [b EXCEPT !.held = res]
  <2>1. "right" \in ExprKinds /\ Top.kind \in ExprKinds
    BY <1>4 DEF LeftEvaluated, Resume, ExprKinds
  <2>2. b \in Activation /\ b.kind = "right" /\ b.scope = Depth
    BY <1>1, <2>1, PendingTypes
  <2>3. a \in Activation /\ a.kind = "right" /\ a.scope = Depth
    <3>. HIDE DEF b
    <3>. QED  BY <1>3, <2>2 DEF Activation
  <2>. QED  BY <1>2, <1>3, <1>4, <2>1, <2>3, OutUnchanged, ScopesUnchanged, SwapStep
            DEF LeftEvaluated
<1>5. CASE IndexEvaluated
  <2>. DEFINE index == IF res.type = "TEMP" THEN Temp(Top.mark) ELSE res
              b == Top
              a == [b EXCEPT !.kind = "store", !.held = index]
  <2>1. b.kind \in StmtKinds /\ "store" \in StmtKinds
    BY <1>5 DEF IndexEvaluated, Resume, StmtKinds
  <2>2. index \in EvalResults
    BY <1>3, ResultTypes
  <2>3. a \in Activation /\ a.kind = "store" /\ a.scope = Depth
    <3>1. b \in Activation /\ b.scope = Depth
      BY <1>3
    <3>. HIDE DEF b, index
    <3>. QED  BY <2>1, <2>2, <3>1 DEF Activation
  <2>4. OutTypes(out)'
    <3>1. CASE res.type = "TEMP"
      BY <1>3, <1>5, <3>1, AssignTypes, OutChanged DEF IndexEvaluated
    <3>2. CASE res.type # "TEMP"
      BY <1>3, <1>5, <3>2, OutUnchanged DEF IndexEvaluated
    <3>. QED  BY <3>1, <3>2
  <2>5. scopes' \in Seq(Scope) /\ Len(scopes') = Depth
    <3>1. CASE res.type = "TEMP"
      BY <1>1, <1>3, <1>5, <3>1, ScopeUpdates DEF IndexEvaluated
    <3>2. CASE res.type # "TEMP"
      BY <1>5, <3>2, ScopesUnchanged DEF IndexEvaluated
    <3>. QED  BY <3>1, <3>2
  <2>6. EvalWith(TopBecomes(a)) /\ UNCHANGED <<calls, funs>>
    BY <1>5 DEF IndexEvaluated
  <2>. QED  BY <1>2, <2>1, <2>3, <2>4, <2>5, <2>6, SwapStep
<1>. QED  BY <1>4, <1>5

\* What the compiler folds is a number again.
LEMMA FoldTypes ==
  ASSUME NEW op \in BinOps, NEW l \in 0..(Word - 1), NEW r \in 0..(Word - 1),
         op \in {"DIV", "MOD"} => r # 0
  PROVE  Fold(op, l, r) \in 0..(Word - 1)
<1>1. 0 \in 0..(Word - 1) /\ 1 \in 0..(Word - 1)
  BY BoundsAssumption
<1>2. Word \in Nat /\ Word > 0
  BY BoundsAssumption
<1>3. \A n \in Int : n % Word \in 0..(Word - 1)
  BY <1>2
<1>4. l + r \in Int /\ l - r \in Int /\ l * r \in Int
  BY <1>2
<1>5. ASSUME r # 0
      PROVE  l \div r \in 0..(Word - 1) /\ l % r \in 0..(Word - 1)
  <2>. DEFINE q == l \div r
              m == l % r
  <2>1. /\ l \in Nat /\ r \in Nat /\ r >= 1 /\ l < Word /\ r < Word
    BY <1>2, <1>5
  <2>2. q \in Nat /\ m \in 0..(r - 1) /\ l = r * q + m
    BY <2>1
  <2>3. q <= r * q
    <3>. HIDE DEF q
    <3>. QED  BY <2>1, <2>2
  <2>. HIDE DEF q, m
  <2>4. r * q \in Int
    BY <2>1, <2>2
  <2>5. q <= l
    BY <2>1, <2>2, <2>3, <2>4
  <2>. QED  BY <1>2, <2>1, <2>2, <2>5
<1>6. CASE op = "ADD"
  BY <1>3, <1>4, <1>6 DEF Fold
<1>7. CASE op = "SUB"
  BY <1>3, <1>4, <1>7 DEF Fold
<1>8. CASE op = "MUL"
  BY <1>3, <1>4, <1>8 DEF Fold
<1>9. CASE op = "DIV"
  BY <1>5, <1>9 DEF Fold
<1>10. CASE op = "MOD"
  BY <1>5, <1>10 DEF Fold
<1>11. CASE op \in {"EQ", "NEQ", "LESS", "GREATER", "LESS_OR_EQ", "GREATER_OR_EQ"}
  BY <1>1, <1>11 DEF Fold, Truth
<1>12. CASE op \in {"OR", "AND"}
  BY <1>1, <1>12 DEF Fold, Truth
<1>. QED  BY <1>6, <1>7, <1>8, <1>9, <1>10, <1>11, <1>12 DEF BinOps, Flags

LEMMA ReturnSteps ==
  ASSUME IInv,
         ElementRead \/ UnaryConst \/ UnaryFlip \/ FoldConstants \/ FoldOnTape
  PROVE  IInv'
<1>1. Types /\ Nested
  BY DEF IInv
<1>2. mode = "value" /\ Top.kind \in ExprKinds
  BY DEF ElementRead, UnaryConst, UnaryFlip, FoldConstants, FoldConstantsBy, FoldOnTape,
         FoldOnTapeBy, Resume, ExprKinds
<1>3. /\ Top.scope \in 1..Depth /\ Top.mark \in Nat /\ Top.base \in Nat
      /\ Top.held.val \in Nat /\ Top.held \in EvalResults
      /\ res \in EvalResults /\ res.type \in {"CONST", "ADDRESS", "TEMP"} /\ res.val \in Nat
      /\ scopes[Top.scope].next \in Nat /\ OutTypes(out)
  BY <1>2, Resumed
<1>4. \A next \in Nat : /\ WithNext(Top.scope, next) \in Seq(Scope)
                        /\ Len(WithNext(Top.scope, next)) = Depth
  BY <1>1, <1>3, ScopeUpdates
<1>5. /\ \A n \in 0..(Word - 1) : Const(n) \in EvalResults /\ Const(n).type # "NONE"
      /\ \A n \in Nat : Temp(n) \in EvalResults /\ Temp(n).type # "NONE"
  BY ResultTypes
<1>6. CASE ElementRead
  <2>1. OutTypes(Ra(out, Top.base, res, Top.mark))
    <3>1. 0 \in Int
      OBVIOUS
    <3>. QED  BY <1>3, <3>1, ArrayTapeTypes
  <2>2. OutTypes(Mov(Ra(out, Top.base, res, Top.mark), res.val, 0))
    BY <1>3, <2>1, TapeTypes
  <2>3. OutTypes(out)'
    BY <1>6, <2>1, <2>2, OutChanged DEF ElementRead
  <2>4. scopes' \in Seq(Scope) /\ Len(scopes') = Depth
    <3>1. Top.mark + 1 \in Nat /\ scopes[Top.scope].next + 1 \in Nat
      BY <1>3
    <3>2. CASE res.type = "TEMP" /\ res.val # Top.mark
      BY <1>4, <1>6, <3>1, <3>2 DEF ElementRead
    <3>3. CASE res.type = "TEMP" /\ res.val = Top.mark
      BY <1>6, <3>3, ScopesUnchanged DEF ElementRead
    <3>4. CASE res.type # "TEMP"
      BY <1>4, <1>6, <3>1, <3>4 DEF ElementRead
    <3>. QED  BY <3>2, <3>3, <3>4
  <2>. QED  BY <1>2, <1>3, <1>5, <1>6, <2>3, <2>4, ReturnStep DEF ElementRead
<1>7. CASE UnaryConst
  <2>. DEFINE n == IF res.val = 0 THEN 1 ELSE 0
  <2>1. n \in 0..(Word - 1) /\ Return(Under, Const(n))
    BY <1>7, BoundsAssumption DEF UnaryConst
  <2>. QED  BY <1>2, <1>3, <1>5, <1>7, <2>1, OutUnchanged, ScopesUnchanged, ReturnStep
            DEF UnaryConst
<1>8. CASE UnaryFlip
  <2>1. OutTypes(Assign(out, Top.mark, res))
    BY <1>3, AssignTypes
  <2>2. OutTypes(Flip(Assign(out, Top.mark, res), Top.mark))
    BY <1>3, <2>1, TapeTypes
  <2>3. OutTypes(out)'
    BY <1>8, <2>2, OutChanged DEF UnaryFlip
  <2>4. scopes' \in Seq(Scope) /\ Len(scopes') = Depth
    <3>1. scopes[Top.scope].next + 1 \in Nat
      BY <1>3
    <3>2. CASE res.type = "ADDRESS"
      BY <1>4, <1>8, <3>1, <3>2 DEF UnaryFlip
    <3>3. CASE res.type = "TEMP" /\ res.val # Top.mark
      BY <1>3, <1>4, <1>8, <3>3 DEF UnaryFlip
    <3>4. CASE res.type = "TEMP" /\ res.val = Top.mark
      BY <1>8, <3>4, ScopesUnchanged DEF UnaryFlip
    <3>. QED  BY <1>3, <1>8, <3>2, <3>3, <3>4 DEF UnaryFlip
  <2>. QED  BY <1>2, <1>3, <1>5, <1>8, <2>3, <2>4, ReturnStep DEF UnaryFlip
<1>9. CASE FoldConstants
  <2>1. PICK op \in Ops :
          IF op \in {"DIV", "MOD"} /\ res.val = 0
            THEN Reject
            ELSE /\ Return(Under, Const(Fold(op, Top.held.val, res.val)))
                 /\ UNCHANGED <<scopes, calls, funs, out>>
    BY <1>9 DEF FoldConstants, FoldConstantsBy
  <2>2. CASE op \in {"DIV", "MOD"} /\ res.val = 0
    BY <2>1, <2>2, StopStep DEF Reject
  <2>3. CASE ~(op \in {"DIV", "MOD"} /\ res.val = 0)
    <3>1. Top.held.val \in 0..(Word - 1) /\ res.val \in 0..(Word - 1)
      BY <1>3, <1>9, BoundsAssumption DEF FoldConstants, FoldConstantsBy, EvalResults
    <3>2. Fold(op, Top.held.val, res.val) \in 0..(Word - 1)
      BY <2>3, <3>1, LiteralsAssumption, FoldTypes
    <3>. QED  BY <1>2, <1>3, <1>5, <2>1, <2>3, <3>2, OutUnchanged, ScopesUnchanged, ReturnStep
  <2>. QED  BY <2>2, <2>3
<1>10. CASE FoldOnTape
  <2>. DEFINE left == Top.held
              next == scopes[Top.scope].next
              acc  == IF left.type = "TEMP" THEN left.val ELSE next
              dump == IF left.type = "TEMP" THEN next ELSE next + 1
              loaded == Assign(out, acc, left)
  <2>1. acc \in Nat /\ dump \in Nat
    BY <1>3
  <2>2. OutTypes(loaded)
    BY <1>3, <2>1, AssignTypes
  <2>3. OutTypes(out)'
    <3>. HIDE DEF acc, dump, loaded
    <3>1. \A op : OutTypes(BinaryOp(loaded, op, acc, res, dump))
      BY <2>1, <2>2, BinaryOpTypes
    <3>2. \A op : OutTypes(Mov(BinaryOp(loaded, op, acc, res, dump), res.val, 0))
      BY <1>3, <3>1, TapeTypes
    <3>3. PICK op \in Ops :
            out' = IF res.type = "TEMP" THEN Mov(BinaryOp(loaded, op, acc, res, dump), res.val, 0)
                                        ELSE BinaryOp(loaded, op, acc, res, dump)
      BY <1>10 DEF FoldOnTape, FoldOnTapeBy, Accumulator, loaded, acc, dump
    <3>. QED  BY <3>1, <3>2, <3>3, OutChanged
  <2>4. scopes' \in Seq(Scope) /\ Len(scopes') = Depth
    <3>1. Released(res, dump) \in Nat
      BY <1>3, <2>1 DEF Released
    <3>2. scopes' = WithNext(Top.scope, Released(res, dump))
      BY <1>10 DEF FoldOnTape, FoldOnTapeBy, Accumulator
    <3>. QED  BY <1>4, <3>1, <3>2
  <2>5. Return(Under, Temp(acc)) /\ UNCHANGED <<calls, funs>>
    BY <1>10 DEF FoldOnTape, FoldOnTapeBy, Accumulator
  <2>. HIDE DEF acc
  <2>. QED  BY <1>2, <1>5, <2>1, <2>3, <2>4, <2>5, ReturnStep
<1>. QED  BY <1>6, <1>7, <1>8, <1>9, <1>10

\* Statements that end with the value of an expression.
LEMMA ValueSteps ==
  ASSUME IInv,
         LetValue \/ SetValue \/ ArraySize \/ StoreValue \/ ValuePrinted
  PROVE  IInv'
<1>1. Types /\ Nested
  BY DEF IInv
<1>2. mode = "value" /\ Top.kind \in StmtKinds
  BY DEF LetValue, LetValueOf, SetValue, SetValueAt, ArraySize, StoreValue, ValuePrinted,
         Resume, StmtKinds
<1>3. /\ Top.scope \in 1..Depth /\ Top.mark \in Nat /\ Top.base \in Nat /\ Top.len \in Int
      /\ Top.held.val \in Nat /\ Top.held \in EvalResults
      /\ res \in EvalResults /\ res.type \in {"CONST", "ADDRESS", "TEMP"} /\ res.val \in Nat
      /\ scopes[Top.scope].next \in Nat /\ scopes[Top.scope].vars \in [Names -> Variables]
      /\ NextFree \in Nat /\ OutTypes(out)
  BY <1>2, Resumed
<1>4. \A next \in Nat :
        /\ WithNext(Top.scope, next) \in Seq(Scope)
        /\ Len(WithNext(Top.scope, next)) = Depth
        /\ \A n \in Names, v \in Variables :
             /\ Declared(Top.scope, n, v, next) \in Seq(Scope)
             /\ Len(Declared(Top.scope, n, v, next)) = Depth
  BY <1>1, <1>3, ScopeUpdates
<1>5. \A dest \in Nat : OutTypes(Assign(out, dest, res))
  BY <1>3, AssignTypes
<1>6. calls \in Seq(Call)
  BY <1>1 DEF Types, StackTypes
<1>7. ASSUME UNCHANGED <<calls, funs>>, StmtWith(Under), OutTypes(out)',
             scopes' \in Seq(Scope), Len(scopes') = Depth
      PROVE  IInv'
  BY <1>2, <1>6, <1>7, CallsSame, StmtDoneStep
<1>8. CASE LetValue
  <2>1. PICK n \in Names :
          IF n \in Declares(scopes[Top.scope].vars)
            THEN /\ out' = Assign(out, scopes[Top.scope].vars[n].addr, res)
                 /\ scopes' = WithNext(Top.scope, Top.mark)
            ELSE /\ out' = Assign(out, Top.mark, res)
                 /\ scopes' = Declared(Top.scope, n,
                                       Variable(Top.mark, IntegerType, 1),
                                       Top.mark + 1)
    BY <1>8 DEF LetValue, LetValueOf
  <2>2. StmtWith(Under) /\ UNCHANGED <<calls, funs>>
    BY <1>8 DEF LetValue, LetValueOf
  <2>3. CASE n \in Declares(scopes[Top.scope].vars)
    <3>1. scopes[Top.scope].vars[n] \in Variables
      BY <1>3
    <3>2. scopes[Top.scope].vars[n].addr \in Nat
      BY <3>1 DEF Variables
    <3>3. OutTypes(out)'
      BY <1>5, <2>1, <2>3, <3>2, OutChanged
    <3>. QED  BY <1>3, <1>4, <1>7, <2>1, <2>2, <2>3, <3>3
  <2>4. CASE n \notin Declares(scopes[Top.scope].vars)
    <3>1. OutTypes(out)'
      BY <1>3, <1>5, <2>1, <2>4, OutChanged
    <3>2. Variable(Top.mark, IntegerType, 1) \in Variables /\ Top.mark + 1 \in Nat
      <4>1. 1 \in Nat
        OBVIOUS
      <4>. QED  BY <1>3, <4>1, VariableTypes, TypesOfTypes
    <3>3. scopes' = Declared(Top.scope, n, Variable(Top.mark, IntegerType, 1), Top.mark + 1)
      BY <2>1, <2>4
    <3>4. scopes' \in Seq(Scope) /\ Len(scopes') = Depth
      BY <1>4, <3>2, <3>3
    <3>. QED  BY <1>7, <2>2, <3>1, <3>4
  <2>. QED  BY <2>3, <2>4
<1>9. CASE SetValue
  <2>1. PICK p \in Places : out' = Assign(out, p.addr, res)
    BY <1>9 DEF SetValue, SetValueAt
  <2>2. p.addr \in Nat
    BY <1>1, PlaceTypes
  <2>3. OutTypes(out)'
    BY <1>5, <2>1, <2>2, OutChanged
  <2>4. scopes' \in Seq(Scope) /\ Len(scopes') = Depth
    <3>1. scopes' = IF res.type = "TEMP" THEN WithNext(Top.scope, Top.mark) ELSE scopes
      BY <1>9 DEF SetValue, SetValueAt
    <3>. QED  BY <1>3, <1>4, <3>1, ScopesUnchanged
  <2>. QED  BY <1>7, <1>9, <2>3, <2>4 DEF SetValue, SetValueAt
<1>10. CASE ArraySize
  <2>1. CASE res.type # "CONST"
    BY <1>10, <2>1, StopStep DEF ArraySize, Reject
  <2>2. CASE res.type = "CONST" /\ res.val > MaxArray
    BY <1>10, <2>2, StopStep DEF ArraySize
  <2>3. CASE res.type = "CONST" /\ ~(res.val > MaxArray)
    <3>. DEFINE v    == Variable(Top.mark, ArrayType(res.val), res.val + 4)
                next == (Top.mark + res.val + 4) % Word
    <3>1. PICK n \in Names \ Declares(scopes[Top.scope].vars) :
            scopes' = Declared(Top.scope, n, v, next)
      BY <1>10, <2>3 DEF ArraySize
    <3>2. res.val \in 0..Word /\ res.val + 4 \in Nat /\ next \in Nat
      <4>1. Word \in Nat /\ Word > 0 /\ MaxArray \in Nat /\ MaxArray < Word
        BY BoundsAssumption
      <4>2. Top.mark + res.val + 4 \in Nat
        BY <1>3
      <4>. QED  BY <1>3, <2>3, <4>1, <4>2
    <3>3. v \in Variables
      BY <1>3, <3>2, TypesOfTypes, VariableTypes
    <3>4. scopes' \in Seq(Scope) /\ Len(scopes') = Depth
      <4>. HIDE DEF v, next
      <4>. QED  BY <1>4, <3>1, <3>2, <3>3
    <3>5. StmtWith(Under) /\ UNCHANGED <<calls, funs, out>>
      BY <1>10, <2>3 DEF ArraySize
    <3>. QED  BY <1>3, <1>7, <3>4, <3>5, OutUnchanged
  <2>. QED  BY <2>1, <2>2, <2>3
<1>11. CASE StoreValue
  <2>. DEFINE target == IF res.type = "TEMP" THEN Temp(Top.mark + 1) ELSE res
              ready  == IF res.type = "TEMP" THEN Assign(out, Top.mark + 1, res) ELSE out
              stored == Sav(ready, Top.base, Top.len, Top.held, target)
  <2>1. Top.mark + 1 \in Nat
    BY <1>3
  <2>2. target.val \in Nat
    BY <1>3, <2>1, ResultTypes
  <2>3. OutTypes(ready)
    BY <1>3, <1>5, <2>1
  <2>4. OutTypes(stored)
    <3>1. 0 \in Nat
      OBVIOUS
    <3>. HIDE DEF ready, target
    <3>. QED  BY <1>3, <2>3, <3>1, ArrayTapeTypes
  <2>5. \A o, r : OutTypes(o) /\ r.val \in Nat => OutTypes(ZeroIfTemp(o, r))
    <3>. SUFFICES ASSUME NEW o, NEW r, OutTypes(o), r.val \in Nat
                  PROVE  OutTypes(ZeroIfTemp(o, r))
      OBVIOUS
    <3>1. 0 \in Nat
      OBVIOUS
    <3>. QED  BY <3>1, TapeTypes DEF ZeroIfTemp
  <2>6. OutTypes(out)'
    <3>1. out' = ZeroIfTemp(ZeroIfTemp(stored, Top.held), target)
      BY <1>11 DEF StoreValue
    <3>. HIDE DEF stored, target
    <3>. QED  BY <1>3, <2>2, <2>4, <2>5, <3>1, OutChanged
  <2>7. scopes' \in Seq(Scope) /\ Len(scopes') = Depth
    <3>1. scopes' = IF Top.held.type = "CONST" /\ res.type = "CONST"
                      THEN scopes ELSE WithNext(Top.scope, Top.mark)
      BY <1>11 DEF StoreValue
    <3>. QED  BY <1>3, <1>4, <3>1, ScopesUnchanged
  <2>. QED  BY <1>7, <1>11, <2>6, <2>7 DEF StoreValue
<1>12. CASE ValuePrinted
  <2>. DEFINE Printed(o, cell) == Mov(Itoa(o, cell, cell + 1), cell, 0)
  <2>1. \A o : OutTypes(o) => OutTypes(Printed(o, NextFree))
    <3>. SUFFICES ASSUME NEW o, OutTypes(o)
                  PROVE  OutTypes(Printed(o, NextFree))
      OBVIOUS
    <3>1. NextFree + 1 \in Nat /\ 0 \in Nat
      BY <1>3
    <3>2. OutTypes(Itoa(o, NextFree, NextFree + 1))
      BY <1>3, <3>1, TapeTypes
    <3>. QED  BY <1>3, <3>1, <3>2, TapeTypes
  <2>2. /\ OutTypes(Load(out, NextFree, res.val))
        /\ OutTypes(Itoa(out, res.val, NextFree))
        /\ OutTypes(Mov(Copy(out, NextFree, res.val), res.val, 0))
    BY <1>3, TapeTypes
  <2>3. OutTypes(out)'
    <3>1. out' = CASE res.type = "CONST" ->
                        Printed(Load(out, NextFree, res.val), NextFree)
                   [] res.type = "ADDRESS" -> Itoa(out, res.val, NextFree)
                   [] res.type = "TEMP" /\ res.val = NextFree ->
                        Printed(out, NextFree)
                   [] res.type = "TEMP" /\ res.val # NextFree ->
                        Printed(Mov(Copy(out, NextFree, res.val), res.val, 0),
                                NextFree)
      BY <1>12 DEF ValuePrinted
    <3>. HIDE DEF Printed
    <3>. QED  BY <1>3, <2>1, <2>2, <3>1, OutChanged
  <2>. QED  BY <1>7, <1>12, <2>3, ScopesUnchanged DEF ValuePrinted
<1>. QED  BY <1>8, <1>9, <1>10, <1>11, <1>12

\* A return keeps the calls but for what the current one has returned.
LEMMA ReturnValueStep ==
  ASSUME IInv, ReturnValue
  PROVE  IInv'
<1>1. mode = "value" /\ Top.kind \in StmtKinds
  BY DEF ReturnValue, Resume, StmtKinds
<1>2. Types /\ Nested
  BY DEF IInv
<1>3. /\ Top.scope \in 1..Depth /\ Top.mark \in Nat
      /\ res \in EvalResults /\ res.type # "NONE" /\ OutTypes(out)
  BY <1>1, Resumed
<1>4. OutTypes(out)'
  BY <1>3, CopyToTypes, OutChanged DEF ReturnValue
<1>5. scopes' \in Seq(Scope) /\ Len(scopes') = Depth
  <2>1. Top.mark + 1 \in Nat /\ scopes' = WithNext(Top.scope, Top.mark + 1)
    BY <1>3 DEF ReturnValue
  <2>. QED  BY <1>2, <1>3, <2>1, ScopeUpdates
<1>6. calls' \in Seq(Call) /\ SameCalls
  <2>. DEFINE n == Top.nth
              k == Top.mark
  <2>1. calls \in Seq(Call) /\ k \in Nat
    BY <1>2, <1>3 DEF Types, StackTypes
  <2>2. calls' = [calls EXCEPT ![n].has_returned = TRUE, ![n].ret_addr = k]
    BY DEF ReturnValue
  <2>. HIDE DEF n, k
  <2>3. \A c \in Call : [c EXCEPT !.has_returned = TRUE, !.ret_addr = k] \in Call
    BY <2>1 DEF Call
  <2>4. calls' \in Seq(Call) /\ Len(calls') = Len(calls)
    <3>. DEFINE c == [calls[n] EXCEPT !.has_returned = TRUE, !.ret_addr = k]
    <3>1. DOMAIN calls = 1..Len(calls) /\ Len(calls) \in Nat
      BY <2>1
    <3>2. CASE n \in 1..Len(calls)
      <4>0. calls[n] \in Call
        BY <2>1, <3>2
      <4>1. c \in Call
        BY <2>3, <4>0
      <4>2. calls' = [calls EXCEPT ![n] = c]
        BY <2>2, <3>1, <3>2
      <4>. QED  BY <2>1, <3>2, <4>1, <4>2
    <3>3. CASE n \notin 1..Len(calls)
      <4>1. calls' = calls
        BY <2>1, <2>2, <3>1, <3>3
      <4>. QED  BY <2>1, <4>1
    <3>. QED  BY <3>2, <3>3
  <2>5. ASSUME NEW i \in 1..Len(calls)
        PROVE  /\ calls'[i].scope_barrier = calls[i].scope_barrier
               /\ calls'[i].name = calls[i].name
    <3>1. calls[i] \in Call
      BY <2>1
    <3>. QED  BY <2>1, <2>2, <3>1 DEF Call
  <2>. QED  BY <2>4, <2>5 DEF SameCalls
<1>. QED  BY <1>1, <1>3, <1>4, <1>5, <1>6, StmtDoneStep DEF ReturnValue

\* Statements that evaluate no expression.
LEMMA PlainSteps ==
  ASSUME IInv, LetString \/ LetStruct \/ PrintStr \/ DefineFunction
  PROVE  IInv'
<1>1. Types /\ Nested
  BY DEF IInv
<1>2. Depth \in 1..Depth /\ NextFree \in Nat /\ OutTypes(out) /\ funs \in [Funs -> Function]
  BY <1>1, Context DEF Types
<1>3. \A n \in Names, v \in Variables, next \in Nat :
        /\ Declared(Depth, n, v, next) \in Seq(Scope)
        /\ Len(Declared(Depth, n, v, next)) = Depth
  BY <1>1, <1>2, ScopeUpdates
<1>4. CASE LetString
  <2>1. PICK n \in Names, s \in Strings :
          /\ scopes' = Declared(Depth, n, Variable(NextFree, ArrayType(s.size), s.size + 3),
                                NextFree + s.size + 3)
          /\ out' = InsertString(out, NextFree, s.chars)
    BY <1>4 DEF LetString
  <2>2. s.size \in 0..Word /\ s.size \in Nat /\ s.chars \in Nat
    BY LiteralsAssumption, BoundsAssumption
  <2>. DEFINE v    == Variable(NextFree, ArrayType(s.size), s.size + 3)
              next == NextFree + s.size + 3
  <2>3. v \in Variables
    <3>1. s.size + 3 \in Nat
      BY <2>2
    <3>. QED  BY <1>2, <2>2, <3>1, VariableTypes, TypesOfTypes
  <2>4. next \in Nat
    BY <1>2, <2>2
  <2>5. scopes' \in Seq(Scope) /\ Len(scopes') = Depth
    <3>. HIDE DEF v, next
    <3>1. scopes' = Declared(Depth, n, v, next)
      BY <2>1 DEF v, next
    <3>. QED  BY <1>3, <2>3, <2>4, <3>1
  <2>6. OutTypes(out)'
    BY <1>2, <2>1, <2>2, TapeTypes, OutChanged
  <2>. QED  BY <1>2, <1>4, <2>5, <2>6, PlainStmtStep DEF LetString
<1>5. CASE LetStruct
  <2>1. PICK n \in Names, t \in StructTypes :
          scopes' = Declared(Depth, n, Variable(NextFree, t, t.size), NextFree + t.size)
    BY <1>5 DEF LetStruct
  <2>2. t \in KnownTypes /\ t.size \in Nat
    BY StructsAssumption DEF KnownTypes
  <2>3. Variable(NextFree, t, t.size) \in Variables /\ NextFree + t.size \in Nat
    BY <1>2, <2>2, VariableTypes
  <2>4. scopes' \in Seq(Scope) /\ Len(scopes') = Depth
    BY <1>3, <2>1, <2>3
  <2>. QED  BY <1>2, <1>5, <2>4, OutUnchanged, PlainStmtStep DEF LetStruct
<1>6. CASE PrintStr
  <2>1. PICK p \in Places : out' = Ouz(Mov(out, p.addr + 3, 0), p.addr)
    BY <1>6 DEF PrintStr
  <2>2. p.addr \in Nat /\ p.addr + 3 \in Nat /\ 0 \in Nat
    BY <1>1, PlaceTypes
  <2>3. OutTypes(Mov(out, p.addr + 3, 0))
    BY <1>2, <2>2, TapeTypes
  <2>4. OutTypes(out)'
    BY <2>1, <2>2, <2>3, TapeTypes, OutChanged
  <2>. QED  BY <1>2, <1>6, <2>4, ScopesUnchanged, PlainStmtStep DEF PrintStr
<1>7. CASE DefineFunction
  <2>1. PICK f \in Funs, s \in Signatures :
          funs' = [funs EXCEPT ![f] = [returns |-> s.returns, args |-> s.args, defined |-> TRUE]]
    BY <1>7 DEF DefineFunction
  <2>2. [returns |-> s.returns, args |-> s.args, defined |-> TRUE] \in Function
    BY SignaturesAssumption DEF Function
  <2>3. funs' \in [Funs -> Function]
    BY <1>2, <2>1, <2>2
  <2>. QED  BY <1>2, <1>7, <2>3, OutUnchanged, ScopesUnchanged, PlainStmtStep DEF DefineFunction
<1>. QED  BY <1>4, <1>5, <1>6, <1>7

\* A block begins in a scope of its own.
LEMMA EnterStep ==
  ASSUME IInv, mode = "value", Top.kind \in StmtKinds,
         NEW kind \in {"loopbody", "ifbody"}, NEW cell \in EvalResults, NEW next \in Nat,
         NEW o, OutTypes(o), Enter(kind, cell, next, o)
  PROVE  IInv'
<1>. DEFINE b == Top
            d == Depth
            before == o.dirty
            a == [b EXCEPT !.kind = kind, !.scope = d + 1, !.mark = next,
                           !.held = cell, !.before = before]
<1>1. Types /\ Nested
  BY DEF IInv
<1>2. /\ acts # <<>> /\ b \in Activation /\ b.scope \in 1..Depth
      /\ d \in Nat
  BY <1>1, Resumed, Context
<1>3. a \in Activation /\ a.kind = kind /\ a.scope = Depth + 1
  <2>1. before \in SUBSET Nat /\ kind \in Blocks
    BY DEF OutTypes, Blocks
  <2>2. d + 1 \in Nat \ {0}
    BY <1>2
  <2>3. a \in Activation /\ a.kind = kind /\ a.scope = d + 1
    <3>. HIDE DEF b, d, before
    <3>. QED  BY <1>2, <2>1, <2>2 DEF Activation
  <2>. QED  BY <2>3
<1>4. scopes' \in Seq(Scope) /\ Len(scopes') = Depth + 1
  <2>1. WithNext(b.scope, next) \in Seq(Scope) /\ Len(WithNext(b.scope, next)) = Depth
    BY <1>1, <1>2, ScopeUpdates
  <2>2. NewScope(NoVars, next) \in Scope
    BY VariableTypes DEF NewScope, Scope
  <2>3. scopes' = Append(WithNext(b.scope, next), NewScope(NoVars, next))
    BY DEF Enter
  <2>. QED  BY <2>1, <2>2, <2>3
<1>5. acts' = TopBecomes(a) /\ StmtWith(TopBecomes(a)) /\ UNCHANGED <<calls, funs>> /\ out' = o
  BY DEF Enter, StmtWith
<1>. HIDE DEF a
<1>6. Nested'
  BY <1>1, <1>2, <1>3, <1>4, <1>5, EnterNested DEF Types, Depth
<1>7. acts' # <<>> /\ Top' = a /\ acts' \in Seq(Activation)
  BY <1>1, <1>2, <1>3, <1>5, TopAfter, Replaced DEF Types, StackTypes, TopBecomes, Under
<1>8. ModeShape'
  BY <1>3, <1>5, <1>7 DEF ModeShape, StmtWith, Blocks
<1>9. Types'
  <2>1. OutTypes(out)'
    BY <1>5, OutChanged
  <2>. QED  BY <1>1, <1>4, <1>5, <1>7, <2>1, ResultTypes DEF Types, StackTypes, StmtWith
<1>. QED  BY <1>5, <1>6, <1>8, <1>9, CallsSame, SameCallsNoRecursion DEF IInv

LEMMA EnterSteps ==
  ASSUME IInv, LoopEnter \/ IfEnter
  PROVE  IInv'
<1>1. mode = "value" /\ Top.kind \in StmtKinds
  BY DEF LoopEnter, IfEnter, Resume, StmtKinds
<1>2. /\ Top.mark \in Nat /\ Top.mark + 1 \in Nat
      /\ res \in EvalResults /\ res.type # "NONE" /\ res.val \in Nat
      /\ scopes[Top.scope].next \in Nat /\ OutTypes(out)
  BY <1>1, Resumed
<1>3. {} \in SUBSET Nat
  OBVIOUS
<1>4. CASE LoopEnter
  <2>. DEFINE counter == IF res.type = "ADDRESS" THEN res.val ELSE Top.mark
              next    == IF res.type = "ADDRESS" THEN scopes[Top.scope].next
                                                 ELSE Top.mark + 1
              held    == IF res.type = "ADDRESS" THEN res ELSE Temp(counter)
  <2>1. counter \in Nat /\ next \in Nat /\ held \in EvalResults
    BY <1>2, ResultTypes
  <2>2. OutTypes(Open(Assign(out, counter, res), "LOOP", counter))
    <3>1. OutTypes(Assign(out, counter, res))
      BY <1>2, <2>1, AssignTypes
    <3>. QED  BY <1>3, <2>1, <3>1, BlockTapeTypes
  <2>3. Enter("loopbody", held, next, Open(Assign(out, counter, res), "LOOP", counter))
    BY <1>4 DEF LoopEnter
  <2>. QED  BY <1>1, <2>1, <2>2, <2>3, EnterStep
<1>5. CASE IfEnter
  <2>1. OutTypes(Open(CopyTo(out, Top.mark, res), "DOIF", Top.mark))
    <3>1. OutTypes(CopyTo(out, Top.mark, res))
      BY <1>2, CopyToTypes
    <3>. QED  BY <1>2, <1>3, <3>1, BlockTapeTypes
  <2>2. Temp(Top.mark) \in EvalResults
    BY <1>2, ResultTypes
  <2>3. Enter("ifbody", Temp(Top.mark), Top.mark + 1,
              Open(CopyTo(out, Top.mark, res), "DOIF", Top.mark))
    BY <1>5 DEF IfEnter
  <2>. QED  BY <1>1, <1>2, <2>1, <2>2, <2>3, EnterStep
<1>. QED  BY <1>4, <1>5

\* The scopes without the innermost one.
LEMMA ScopeRemovedTypes ==
  ASSUME Types, Nested
  PROVE  /\ ScopeRemoved \in Seq(Scope) /\ Len(ScopeRemoved) = Depth - 1
         /\ \A k \in 1..(Depth - 1), next \in Nat :
              /\ [ScopeRemoved EXCEPT ![k].next = next] \in Seq(Scope)
              /\ Len([ScopeRemoved EXCEPT ![k].next = next]) = Depth - 1
<1>. DEFINE d == Depth
            n == d - 1
            Left(k) == IF k = n THEN [scopes[k] EXCEPT !.next = NextFree] ELSE scopes[k]
<1>1. d \in Nat /\ d >= 1 /\ NextFree \in Nat /\ \A k \in 1..d : scopes[k] \in Scope
  BY Context
<1>2. n \in Nat /\ \A k \in 1..n : k \in 1..d
  BY <1>1
<1>3. \A s \in Scope : \A next \in Nat : [s EXCEPT !.next = next] \in Scope
  BY DEF Scope
<1>4. \A k \in 1..n : Left(k) \in Scope
  BY <1>1, <1>2, <1>3
<1>5. ScopeRemoved = [k \in 1..n |-> Left(k)]
  BY DEF ScopeRemoved
<1>. HIDE DEF n, d, Left
<1>6. ScopeRemoved \in Seq(Scope) /\ Len(ScopeRemoved) = n
  BY <1>2, <1>4, <1>5
<1>7. ASSUME NEW k \in 1..n, NEW next \in Nat
      PROVE  /\ [ScopeRemoved EXCEPT ![k].next = next] \in Seq(Scope)
             /\ Len([ScopeRemoved EXCEPT ![k].next = next]) = n
  <2>. DEFINE s == [ScopeRemoved[k] EXCEPT !.next = next]
  <2>1. ScopeRemoved[k] \in Scope
    BY <1>6
  <2>2. s \in Scope
    BY <1>3, <2>1
  <2>3. [ScopeRemoved EXCEPT ![k].next = next] = [ScopeRemoved EXCEPT ![k] = s]
    BY <1>6
  <2>. HIDE DEF s
  <2>. QED  BY <1>6, <2>2, <2>3
<1>. QED  BY <1>6, <1>7 DEF n, d

\* A block ends, and its scope with it.
LEMMA LeaveSteps ==
  ASSUME IInv, LoopLeave \/ IfLeave
  PROVE  IInv'
<1>1. Types /\ Nested
  BY DEF IInv
<1>2. /\ acts # <<>> /\ Top.kind \in {"loopbody", "ifbody"}
      /\ Leave("ENDLOOP") \/ Leave("ENDIF")
  BY DEF LoopLeave, IfLeave
<1>3. /\ acts' = Under /\ StmtWith(Under) /\ UNCHANGED <<calls, funs>>
      /\ scopes' = ScopeRemoved
  BY <1>2 DEF Leave, StmtWith
<1>4. Top \in Activation /\ Top.kind \in Blocks /\ Top.kind # "body"
  BY <1>1, <1>2, Context DEF Blocks
<1>5. OutTypes(out)'
  <2>1. OutTypes(out) /\ Top.held.val \in Nat /\ Top.before \in SUBSET Nat
    BY <1>1, <1>4 DEF Types, Activation, EvalResults
  <2>2. \A op : OutTypes(Close(out, op, Top.held.val, Top.before))
    BY <2>1, BlockTapeTypes
  <2>. QED  BY <1>2, <2>2, OutChanged DEF Leave
<1>6. scopes' \in Seq(Scope) /\ Len(scopes') = Depth - 1
  BY <1>1, <1>3, ScopeRemovedTypes
<1>7. Nested'
  BY <1>1, <1>2, <1>3, <1>4, <1>6, CallsSame, PopNested DEF Types, Depth
<1>8. acts' \in Seq(Activation) /\ (acts' = <<>> \/ Top'.kind \in Blocks)
  <2>1. /\ Len(acts) \in Nat /\ Len(acts) >= 1
        /\ Len(acts) = 1 \/ acts[Len(acts) - 1].kind \in Blocks
    BY <1>1, <1>2, TopFacts DEF Types
  <2>2. acts' \in Seq(Activation)
    BY <1>1, <1>2, <1>3, UnderTypes DEF Types
  <2>. QED  BY <1>1, <1>2, <1>3, <2>1, <2>2, TopUnder DEF Types
<1>9. ModeShape'
  BY <1>3, <1>8 DEF ModeShape, StmtWith
<1>10. Types'
  BY <1>1, <1>3, <1>5, <1>6, <1>8, ResultTypes DEF Types, StackTypes, StmtWith
<1>. QED  BY <1>3, <1>7, <1>9, <1>10, CallsSame, SameCallsNoRecursion DEF IInv

-----------------------------------------------------------------------------
(* Calls.                                                                  *)

\* A call of a function that is not in progress.
LEMMA CallSteps ==
  ASSUME IInv, EvalCall \/ CallStmt
  PROVE  IInv'
<1>1. Types /\ Nested /\ mode \in {"expr", "stmt"}
  BY DEF IInv, EvalCall, CallStmt, Expr, Stmt
<1>2. PICK f \in Funs :
        /\ ~CallInProgress(f)
        /\ BindWith(Append(acts, [Pending("call") EXCEPT !.base = NextFree, !.name = f]))
        /\ UNCHANGED <<scopes, calls, funs, out>>
  BY DEF EvalCall, CallStmt, CallBegins
<1>. DEFINE b == Pending("call")
            next == NextFree
            a == [b EXCEPT !.base = next, !.name = f]
<1>3. a \in Activation /\ a.kind = "call" /\ a.scope = Depth /\ a.name = f
  <2>1. b \in Activation /\ b.kind = "call" /\ b.scope = Depth /\ next \in Nat
    BY <1>1, PendingTypes, Context
  <2>. HIDE DEF b, next
  <2>. QED  BY <2>1 DEF Activation
<1>4. acts' = Append(acts, a) /\ mode' = "args" /\ res' = NoResult
  BY <1>2 DEF BindWith
<1>. HIDE DEF a
<1>5. Nested'
  BY <1>1, <1>2, <1>3, <1>4, PushNested DEF Types, Depth
<1>6. acts' # <<>> /\ Top' = a /\ acts' \in Seq(Activation)
  BY <1>1, <1>3, <1>4, TopAfter, Pushed DEF Types, StackTypes
<1>7. ModeShape'
  BY <1>3, <1>4, <1>6 DEF ModeShape
<1>8. Types'
  BY <1>1, <1>2, <1>4, <1>6, ResultTypes DEF Types, StackTypes, OutTypes
<1>. QED  BY <1>2, <1>5, <1>7, <1>8, CallsSame, SameCallsNoRecursion DEF IInv

\* The call on top of the stack goes on to its next argument.
LEMMA ArgumentStep ==
  ASSUME IInv, acts # <<>>, Top.kind = "call", UNCHANGED <<calls, funs>>,
         scopes' \in Seq(Scope), Len(scopes') = Depth, OutTypes(out)',
         NEW a \in Activation, a.kind = "call", a.name = Top.name, a.scope = Depth,
         BindWith(TopBecomes(a)) \/ EvalWith(TopBecomes(a))
  PROVE  IInv'
<1>1. Types /\ Nested /\ Top.scope = Depth
  BY Context DEF IInv
<1>2. acts' = TopBecomes(a) /\ mode' \in {"args", "expr"} /\ res' = NoResult
  BY DEF BindWith, EvalWith
<1>3. Nested'
  BY <1>1, <1>2, SwapNested DEF Types, Depth
<1>4. acts' # <<>> /\ Top' = a /\ acts' \in Seq(Activation)
  BY <1>1, <1>2, TopAfter, Replaced DEF Types, StackTypes, TopBecomes, Under
<1>5. ModeShape'
  BY <1>2, <1>4, KindsDiffer DEF ModeShape
<1>6. Types'
  BY <1>1, <1>2, <1>4, ResultTypes DEF Types, StackTypes
<1>. QED  BY <1>3, <1>5, <1>6, CallsSame, SameCallsNoRecursion DEF IInv

LEMMA BoundTypes ==
  ASSUME NEW a \in Activation, NEW v \in Variables
  PROVE  /\ Bound(a, v) \in Activation /\ Bound(a, v).kind = a.kind
         /\ Bound(a, v).name = a.name /\ Bound(a, v).scope = a.scope
<1>. DEFINE vs == Bind(a.binds, Parameter.name, v)
            n == a.nth + 1
<1>0. a.binds \in [Names -> Variables] /\ a.nth \in Nat
  BY DEF Activation
<1>1. vs \in [Names -> Variables] /\ n \in Nat
  BY <1>0, VariableTypes
<1>. HIDE DEF vs, n
<1>2. Bound(a, v) = [a EXCEPT !.binds = vs, !.nth = n]
  BY DEF Bound, vs, n
<1>. QED  BY <1>1, <1>2 DEF Activation

LEMMA ArgumentSteps ==
  ASSUME IInv, BindAlias \/ EvalArgument \/ BindValue
  PROVE  IInv'
<1>1. Types /\ Nested
  BY DEF IInv
<1>2. acts # <<>> /\ Top.kind = "call" /\ UNCHANGED <<calls, funs>>
  BY DEF IInv, ModeShape, BindAlias, EvalArgument, BindValue, Resume
<1>3. /\ Top \in Activation /\ Top.scope = Depth /\ Depth \in 1..Depth
      /\ Depth \in Nat \ {0} /\ NextFree \in Nat /\ OutTypes(out)
  BY <1>1, <1>2, Context DEF Types
<1>4. CASE BindAlias
  <2>1. PICK p \in ArgPlaces : BindWith(TopBecomes(Bound(Top, Variable(p.addr, p.type, 0))))
    BY <1>4 DEF BindAlias
  <2>2. Variable(p.addr, p.type, 0) \in Variables
    <3>1. p.addr \in Nat /\ p.type \in KnownTypes /\ 0 \in Nat
      BY <1>1, PlaceTypes
    <3>. QED  BY <3>1, VariableTypes
  <2>3. UNCHANGED <<scopes, out>>
    BY <1>4 DEF BindAlias
  <2>. QED  BY <1>2, <1>3, <2>1, <2>2, <2>3, BoundTypes, OutUnchanged, ScopesUnchanged, ArgumentStep
<1>5. CASE EvalArgument
  <2>. DEFINE b == Top
              d == Depth
              next == NextFree
              a == [b EXCEPT !.mark = next, !.scope = d]
  <2>1. a \in Activation /\ a.kind = b.kind /\ a.name = b.name /\ a.scope = d
    <3>1. b \in Activation /\ d \in Nat \ {0} /\ next \in Nat
      BY <1>3
    <3>. HIDE DEF b, d, next
    <3>. QED  BY <3>1 DEF Activation
  <2>2. EvalWith(TopBecomes(a)) /\ UNCHANGED <<scopes, out>>
    BY <1>5 DEF EvalArgument
  <2>. QED  BY <1>2, <1>3, <2>1, <2>2, OutUnchanged, ScopesUnchanged, ArgumentStep
<1>6. CASE BindValue
  <2>1. mode = "value"
    BY <1>6 DEF BindValue, Resume
  <2>2. Top.mark \in Nat /\ Top.mark + 1 \in Nat /\ res \in EvalResults /\ res.type # "NONE"
    BY <2>1, Resumed
  <2>3. Variable(Top.mark, IntegerType, 1) \in Variables
    <3>1. 1 \in Nat
      OBVIOUS
    <3>. QED  BY <2>2, <3>1, VariableTypes, TypesOfTypes
  <2>4. OutTypes(out)'
    BY <1>3, <1>6, <2>2, CopyToTypes, OutChanged DEF BindValue
  <2>5. scopes' \in Seq(Scope) /\ Len(scopes') = Depth
    BY <1>1, <1>3, <1>6, <2>2, ScopeUpdates DEF BindValue
  <2>6. BindWith(TopBecomes(Bound(Top, Variable(Top.mark, IntegerType, 1))))
    BY <1>6 DEF BindValue
  <2>. QED  BY <1>2, <1>3, <2>3, <2>4, <2>5, <2>6, BoundTypes, ArgumentStep
<1>. QED  BY <1>4, <1>5, <1>6

\* The body of a call begins: its function is not one of those in progress.
LEMMA BeginStep ==
  ASSUME IInv, BeginCall
  PROVE  IInv'
<1>1. Types /\ Nested
  BY DEF IInv
<1>2. acts # <<>> /\ Top.kind = "call" /\ UNCHANGED <<funs, out>>
  BY DEF IInv, ModeShape, BeginCall
<1>. DEFINE b == Top
            d == Depth
            next == NextFree
            a == [b EXCEPT !.kind = "body", !.scope = d + 1, !.mark = next]
            c == [name          |-> b.name,
                  scope_barrier |-> d + 1,
                  returns_value |-> funs[b.name].returns,
                  has_returned  |-> FALSE,
                  ret_addr      |-> 0]
<1>3. b \in Activation /\ b.scope = d /\ d \in Nat /\ next \in Nat
  BY <1>1, <1>2, Context
<1>4. a \in Activation /\ a.kind = "body" /\ a.scope = d + 1
  <2>1. d + 1 \in Nat \ {0} /\ "body" \in Blocks
    BY <1>3 DEF Blocks
  <2>. HIDE DEF b, d, next
  <2>. QED  BY <1>3, <2>1 DEF Activation
<1>5. b.name \in Funs /\ \A k \in 1..Len(calls) : calls[k].name # b.name
  <2>1. Len(acts) \in 1..Len(acts) /\ b = acts[Len(acts)]
    BY <1>1, <1>2, TopFacts DEF Types
  <2>2. \A k \in 1..Len(calls) : calls[k].scope_barrier <= b.scope
    BY <1>1, <1>3, ScopesBelow DEF Types
  <2>. QED  BY <1>1, <1>2, <2>1, <2>2 DEF Nested, CalleesNew
<1>6. c \in Call /\ c.scope_barrier = d + 1 /\ c.name = b.name
  <2>1. funs[b.name] \in Function
    BY <1>1, <1>5 DEF Types
  <2>2. funs[b.name].returns \in BOOLEAN /\ d + 1 \in Nat
    BY <1>3, <2>1 DEF Function
  <2>. HIDE DEF b, d
  <2>. QED  BY <1>5, <2>2 DEF Call
<1>7. scopes' \in Seq(Scope) /\ Len(scopes') = Depth + 1
  <2>1. b.binds \in [Names -> Variables]
    BY <1>3 DEF Activation
  <2>2. NewScope(b.binds, next) \in Scope
    BY <1>3, <2>1 DEF NewScope, Scope
  <2>3. scopes' = Append(scopes, NewScope(b.binds, next)) /\ scopes \in Seq(Scope)
    BY <1>1 DEF BeginCall, FrameScope, Types, StackTypes
  <2>. QED  BY <2>2, <2>3 DEF Depth
<1>8. /\ acts' = TopBecomes(a) /\ mode' = "stmt" /\ res' = NoResult
      /\ calls' = Append(calls, c)
  BY DEF BeginCall, StmtWith
<1>9. Nested'
  <2>. HIDE DEF a, c
  <2>. QED  BY <1>1, <1>2, <1>4, <1>6, <1>7, <1>8, BeginNested DEF Types, Depth
<1>. HIDE DEF a, c
<1>10. acts' # <<>> /\ Top' = a /\ acts' \in Seq(Activation)
  BY <1>1, <1>2, <1>4, <1>8, TopAfter, Replaced DEF Types, StackTypes, TopBecomes, Under
<1>11. ModeShape'
  BY <1>4, <1>8, <1>10 DEF ModeShape, Blocks
<1>12. /\ calls' \in Seq(Call) /\ Len(calls) \in Nat /\ Len(calls') = Len(calls) + 1
       /\ calls'[Len(calls) + 1] = c
       /\ \A k \in 1..Len(calls) : calls'[k] = calls[k]
  BY <1>1, <1>6, <1>8, Pushed DEF Types, StackTypes
<1>13. Types'
  BY <1>1, <1>2, <1>7, <1>8, <1>10, <1>12, ResultTypes DEF Types, StackTypes, OutTypes
<1>14. NoRecursion'
  <2>. SUFFICES ASSUME NEW i \in 1..Len(calls'), NEW j \in 1..Len(calls'),
                       calls'[i].name = calls'[j].name
                PROVE  i = j
    BY DEF NoRecursion
  <2>1. CASE i \in 1..Len(calls) /\ j \in 1..Len(calls)
    BY <1>12, <2>1 DEF IInv, NoRecursion
  <2>2. CASE i \in 1..Len(calls) /\ j = Len(calls) + 1
    BY <1>5, <1>6, <1>12, <2>2
  <2>3. CASE i = Len(calls) + 1 /\ j \in 1..Len(calls)
    BY <1>5, <1>6, <1>12, <2>3
  <2>. QED  BY <1>12, <2>1, <2>2, <2>3
<1>. QED  BY <1>9, <1>11, <1>13, <1>14 DEF IInv

\* The body of a call ends.
LEMMA EndSteps ==
  ASSUME IInv, EndCallInExpr \/ EndCallStmt
  PROVE  IInv'
<1>1. Types /\ Nested
  BY DEF IInv
<1>2. acts # <<>> /\ Top.kind = "body"
  BY DEF EndCallInExpr, EndCallStmt, BodyEnds
<1>3. /\ Top \in Activation /\ Top.scope = Depth /\ Top.kind \in Blocks
      /\ Depth \in Nat /\ OutTypes(out) /\ calls \in Seq(Call)
  BY <1>1, <1>2, Context DEF Blocks, Types, StackTypes
<1>4. calls # <<>>
  <2>1. Len(acts) \in 1..Len(acts) /\ Top = acts[Len(acts)]
    BY <1>1, <1>2, TopFacts DEF Types
  <2>2. PICK k \in 1..Len(calls) : calls[k].scope_barrier = acts[Len(acts)].scope
    BY <1>1, <1>2, <2>1 DEF Nested, CallsNest
  <2>3. Len(calls) \in Nat /\ Len(calls) # 0
    BY <1>3
  <2>. QED  BY <2>3
<1>5. CurrentCall \in Call /\ CurrentCall.ret_addr \in Nat
  BY <1>1, <1>4, Context
<1>6. Depth - 1 \in 1..(Depth - 1)
  <2>. DEFINE m == Len(acts) - 1
              d == Depth
  <2>1. /\ m \in Nat /\ m <= Len(acts) /\ (m > 0 => m \in 1..Len(acts))
        /\ d \in Nat /\ ScopeAbove(m) \in Nat /\ d = ScopeAbove(m) + 1
    BY <1>1, <1>2, <1>3, TopFacts DEF Types
  <2>. HIDE DEF m, d
  <2>2. m > 0 => acts[m].scope >= 1
    BY <1>1, <2>1, ScopesBelow DEF Types
  <2>3. m = 0 \/ m > 0
    BY <2>1
  <2>4. ScopeAbove(m) >= 1
    BY <2>1, <2>2, <2>3 DEF ScopeAbove
  <2>5. d - 1 \in 1..(d - 1)
    BY <2>1, <2>4
  <2>. QED  BY <2>5 DEF d
<1>7. Top.base \in Nat /\ FrameEnd \in Nat
  <2>1. Top.base \in Nat
    BY <1>3 DEF Activation
  <2>2. CurrentCall.ret_addr + 1 \in Nat
    BY <1>5
  <2>. QED  BY <2>1, <2>2 DEF FrameEnd
<1>8. OutTypes(FrameWiped)
  BY <1>3, WipeTypes DEF FrameWiped
<1>9. ASSUME NEW next \in Nat, CallEnded(next)
      PROVE  scopes' \in Seq(Scope) /\ Len(scopes') = Depth - 1
  BY <1>1, <1>6, <1>9, ScopeRemovedTypes DEF CallEnded
<1>10. ASSUME NEW next \in Nat, CallEnded(next), acts' = Under, OutTypes(out)',
              mode' \in {"stmt", "value"}, ModeShape', res' \in EvalResults,
              mode' = "value" => res'.type # "NONE"
       PROVE  IInv'
  <2>1. scopes' \in Seq(Scope) /\ Len(scopes') = Depth - 1
    BY <1>9, <1>10
  <2>2. calls' = Pop(calls, 1) /\ funs' = funs
    BY <1>10 DEF CallEnded
  <2>3. Nested'
    BY <1>1, <1>2, <1>10, <2>1, <2>2, EndNested DEF Types, Depth
  <2>4. /\ calls' \in Seq(Call)
        /\ Len(calls') = Len(calls) - 1 /\ Len(calls) \in Nat
        /\ \A k \in 1..(Len(calls) - 1) : calls'[k] = calls[k]
    <3>1. 1 \in Nat /\ 1 <= Len(calls) /\ Len(calls) \in Nat
      BY <1>3, <1>4
    <3>. QED  BY <1>3, <2>2, <3>1, Popped
  <2>5. acts' \in Seq(Activation)
    BY <1>1, <1>2, <1>10, UnderTypes DEF Types
  <2>6. Types'
    BY <1>1, <1>10, <2>1, <2>2, <2>4, <2>5 DEF Types, StackTypes
  <2>7. NoRecursion'
    <3>1. \A k \in 1..Len(calls') : k \in 1..Len(calls) /\ calls'[k] = calls[k]
      BY <2>4
    <3>. QED  BY <3>1 DEF IInv, NoRecursion
  <2>. QED  BY <1>10, <2>3, <2>6, <2>7 DEF IInv
<1>11. CASE EndCallInExpr
  <2>1. CASE HasReturned
    <3>1. /\ CallEnded(FrameEnd) /\ out' = FrameWiped
          /\ Return(Under, Temp(CurrentCall.ret_addr))
      BY <1>11, <2>1 DEF EndCallInExpr
    <3>2. acts' = Under /\ mode' = "value" /\ res' = Temp(CurrentCall.ret_addr)
      BY <3>1 DEF Return
    <3>3. Len(acts) \in Nat /\ Len(acts) > 1 /\ acts[Len(acts) - 1].kind \notin Blocks
      BY <1>11 DEF EndCallInExpr, CallIsStmt
    <3>4. acts' # <<>> /\ Top' = acts[Len(acts) - 1]
      BY <1>1, <1>2, <3>2, <3>3, TopUnder DEF Types
    <3>5. ModeShape'
      BY <3>2, <3>3, <3>4 DEF ModeShape
    <3>6. Temp(CurrentCall.ret_addr) \in EvalResults /\ Temp(CurrentCall.ret_addr).type # "NONE"
      BY <1>5, ResultTypes
    <3>. QED  BY <1>7, <1>8, <1>10, <3>1, <3>2, <3>5, <3>6, OutChanged
  <2>2. CASE ~HasReturned
    BY <1>11, <2>2, StopStep DEF EndCallInExpr, Reject
  <2>. QED  BY <2>1, <2>2
<1>12. CASE EndCallStmt
  <2>1. CASE CurrentCall.returns_value /\ ~CurrentCall.has_returned
    BY <1>12, <2>1, StopStep DEF EndCallStmt, Reject
  <2>2. CASE ~(CurrentCall.returns_value /\ ~CurrentCall.has_returned)
    <3>. DEFINE next == IF HasReturned THEN Top.base ELSE FrameEnd
    <3>1. /\ CallEnded(next) /\ StmtWith(Under)
          /\ out' = IF HasReturned THEN Mov(FrameWiped, CurrentCall.ret_addr, 0) ELSE FrameWiped
      BY <1>12, <2>2 DEF EndCallStmt
    <3>2. acts' = Under /\ mode' = "stmt" /\ res' = NoResult
      BY <3>1 DEF StmtWith
    <3>3. Len(acts) \in Nat /\ Len(acts) >= 1
          /\ (Len(acts) = 1 \/ acts[Len(acts) - 1].kind \in Blocks)
      <4>. DEFINE N == Len(acts)
      <4>1. N \in Nat /\ N >= 1 /\ (N > 1 => acts[N - 1].kind \in Blocks)
        BY <1>1, <1>2, <1>12, TopFacts DEF Types, EndCallStmt, CallIsStmt
      <4>. HIDE DEF N
      <4>2. N = 1 \/ N > 1
        BY <4>1
      <4>3. N \in Nat /\ N >= 1 /\ (N = 1 \/ acts[N - 1].kind \in Blocks)
        BY <4>1, <4>2
      <4>. QED  BY <4>3 DEF N
    <3>4. acts' = <<>> \/ Top' = acts[Len(acts) - 1]
      BY <1>1, <1>2, <3>2, TopUnder DEF Types
    <3>5. acts' = <<>> \/ Top'.kind \in Blocks
      BY <1>1, <1>2, <3>2, <3>3, TopUnder DEF Types
    <3>6. ModeShape'
      BY <3>2, <3>5 DEF ModeShape
    <3>7. OutTypes(out)'
      <4>1. 0 \in Nat /\ OutTypes(Mov(FrameWiped, CurrentCall.ret_addr, 0))
        BY <1>5, <1>8, TapeTypes
      <4>. QED  BY <1>8, <3>1, <4>1, OutChanged
    <3>8. next \in Nat
      BY <1>7
    <3>. HIDE DEF next
    <3>. QED  BY <1>10, <3>1, <3>2, <3>6, <3>7, <3>8, ResultTypes
  <2>. QED  BY <2>1, <2>2
<1>. QED  BY <1>11, <1>12

-----------------------------------------------------------------------------
(* The theorems.                                                           *)

LEMMA InitInvariant == Init => IInv
<1>. SUFFICES ASSUME Init
              PROVE  IInv
  OBVIOUS
<1>. USE DEF Init
<1>1. NewScope(NoVars, 1) \in Scope
  BY VariableTypes DEF NewScope, Scope
<1>2. OutTypes(out)
  BY DEF OutTypes, NoOutput
<1>3. funs \in [Funs -> Function]
  <2>1. NoFunction \in Function
    BY DEF NoFunction, Function
  <2>. QED  BY <2>1
<1>4. StackTypes
  BY <1>1 DEF StackTypes
<1>5. Types
  BY <1>2, <1>3, <1>4, ResultTypes DEF Types
<1>6. Len(acts) = 0 /\ Len(calls) = 0 /\ Depth = 1 /\ acts = <<>> /\ calls = <<>>
  BY DEF Depth
<1>7. Nested
  BY <1>6 DEF Nested, ScopesNest, StackShape, CallsNest, CalleesNew
<1>8. ModeShape /\ NoRecursion
  BY <1>6 DEF ModeShape, NoRecursion
<1>. QED  BY <1>5, <1>7, <1>8 DEF IInv

LEMMA StepInvariant == IInv /\ [Next]_vars => IInv'
<1>. SUFFICES ASSUME IInv, [Next]_vars
              PROVE  IInv'
  OBVIOUS
<1>1. CASE UNCHANGED vars
  BY <1>1 DEF vars, IInv, Types, StackTypes, OutTypes, Nested, ScopesNest, StackShape,
              CallsNest, CalleesNew, ModeShape, NoRecursion, Top, Depth
<1>2. CASE Eval
  BY <1>2, LeafSteps, PushSteps, CallSteps, ArgumentSteps DEF Eval
<1>3. CASE Resumption
  BY <1>3, SwapSteps, ReturnSteps, ValueSteps, ReturnValueStep, ArgumentSteps, EnterSteps
     DEF Resumption
<1>4. CASE Statement
  BY <1>4, PushSteps, CallSteps, PlainSteps DEF Statement
<1>5. CASE Calling
  BY <1>5, ArgumentSteps, BeginStep, EndSteps DEF Calling
<1>6. CASE LoopLeave \/ IfLeave
  BY <1>6, LeaveSteps
<1>7. CASE Finish
  BY <1>7, StopStep DEF Finish
<1>8. CASE Illegal
  BY <1>8, StopStep DEF Illegal, Reject
<1>9. CASE Terminated
  BY <1>1, <1>9 DEF Terminated
<1>. QED  BY <1>1, <1>2, <1>3, <1>4, <1>5, <1>6, <1>7, <1>8, <1>9 DEF Next

\* The invariant IInv holds throughout every compilation.
THEOREM Invariant == Spec => []IInv
BY InitInvariant, StepInvariant, PTL DEF Spec

\* Type correctness: a scope is always open, the scopes and calls that suspended
\* generators refer to exist, and a value always has somebody waiting for it.
THEOREM TypeCorrect == Spec => []TypeOK
<1>1. IInv => TypeOK
  <2>. SUFFICES ASSUME IInv
                PROVE  TypeOK
    OBVIOUS
  <2>1. Types /\ Nested /\ StackTypes
    BY DEF IInv, Types
  <2>2. Depth \in Nat /\ scopes # <<>>
    BY <2>1, Context
  <2>3. \A i \in 1..Len(acts) : acts[i].scope \in 1..Depth
    BY <2>1, <2>2, ScopesBelow
  <2>4. \A k \in 1..Len(calls) : calls[k].scope_barrier \in 1..Depth
    BY <2>1, <2>2, ScopesBelow
  <2>. QED  BY <2>1, <2>2, <2>3, <2>4 DEF TypeOK, Types, StackTypes, OutTypes, IInv, ModeShape
<1>. QED  BY <1>1, Invariant, PTL

\* The C++ recursion, the scope stack and the call stack stay in step: every
\* generator, block and inlined body finds the scopes it opened when it resumes.
THEOREM NestingKept == Spec => []Nesting
<1>1. IInv => Nesting
  BY DEF IInv, Nested, Nesting
<1>. QED  BY <1>1, Invariant, PTL

\* README.md, "No recursion": no program, whatever its functions, makes the
\* compiler inline a function inside itself.
THEOREM InliningNeverRecurs == Spec => []NoRecursion
<1>1. IInv => NoRecursion
  BY DEF IInv
<1>. QED  BY <1>1, Invariant, PTL
=============================================================================
