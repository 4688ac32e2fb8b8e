------------------------------ MODULE WriteProofs ------------------------------
(***************************************************************************)
(* Proofs about the cells that the generated code changes: values that     *)
(* wait are left alone, expressions change no variable, and a function     *)
(* that is inlined stays in its frame.                                     *)
(*                                                                         *)
(* A step writes above its floor, or to what a name of the program points  *)
(* to.  The first part says which cells the instructions of a step change, *)
(* the second where names can point.                                       *)
(***************************************************************************)
EXTENDS ZeroProofs

-----------------------------------------------------------------------------
(* What is written behind an output.                                       *)

\* An output whose code is a sequence of instructions.
Coded(o) == (\E S : o.code \in Seq(S)) /\ (~KeepCode => o.code = <<>>)

\* p is o and instructions that change only these cells.
Wrote(o, p, cells) ==
  /\ Coded(o) /\ Coded(p) /\ Len(o.code) <= Len(p.code)
  /\ \A i \in 1..Len(o.code) : p.code[i] = o.code[i]
  /\ \A i \in (Len(o.code) + 1)..Len(p.code) : p.code[i].writes \subseteq cells

LEMMA CodeLength == \A o : Coded(o) => Len(o.code) \in Nat
BY DEF Coded

LEMMA WroteNothing ==
  ASSUME NEW o, Coded(o)
  PROVE  Wrote(o, o, {})
<1>1. Len(o.code) \in Nat
  BY CodeLength
<1>. QED  BY <1>1 DEF Wrote

LEMMA WroteMore ==
  ASSUME NEW o, NEW p, NEW A, NEW B, Wrote(o, p, A), A \subseteq B
  PROVE  Wrote(o, p, B)
<1>1. \A i \in (Len(o.code) + 1)..Len(p.code) : p.code[i].writes \subseteq A
  BY DEF Wrote
<1>2. \A i \in (Len(o.code) + 1)..Len(p.code) : p.code[i].writes \subseteq B
  BY <1>1
<1>. QED  BY <1>2 DEF Wrote

LEMMA WroteThen ==
  ASSUME NEW o, NEW p, NEW q, NEW A, Wrote(o, p, A), Wrote(p, q, A)
  PROVE  Wrote(o, q, A)
<1>. DEFINE k == Len(o.code)
            l == Len(p.code)
            n == Len(q.code)
<1>1. /\ k \in Nat /\ l \in Nat /\ n \in Nat /\ k <= l /\ l <= n
      /\ \A i \in 1..k : p.code[i] = o.code[i]
      /\ \A i \in 1..l : q.code[i] = p.code[i]
      /\ \A i \in (k + 1)..l : p.code[i].writes \subseteq A
      /\ \A i \in (l + 1)..n : q.code[i].writes \subseteq A
  BY CodeLength DEF Wrote
<1>. HIDE DEF k, l, n
<1>2. \A i \in 1..k : q.code[i] = o.code[i]
  BY <1>1
<1>3. ASSUME NEW i \in (k + 1)..n
      PROVE  q.code[i].writes \subseteq A
  <2>1. CASE i \in 1..l
    <3>1. q.code[i] = p.code[i] /\ i \in (k + 1)..l
      BY <1>1, <1>3, <2>1
    <3>. QED  BY <1>1, <3>1
  <2>2. CASE i \in (l + 1)..n
    BY <1>1, <2>2
  <2>. QED  BY <1>1, <1>3, <2>1, <2>2
<1>. QED  BY <1>1, <1>2, <1>3 DEF Wrote, k, l, n

LEMMA EmitWrites ==
  ASSUME NEW o, Coded(o), NEW op, NEW args, NEW writes, NEW needs, NEW dirty
  PROVE  Wrote(o, Emit(o, op, args, writes, needs, dirty), writes)
<1>. DEFINE ins == [op |-> op, args |-> args, writes |-> writes, needs |-> needs]
            e == Emit(o, op, args, writes, needs, dirty)
<1>1. PICK S : o.code \in Seq(S)
  BY DEF Coded
<1>2. ins.writes = writes
  OBVIOUS
<1>3. e.code = IF KeepCode THEN Append(o.code, ins) ELSE <<>>
  BY DEF Emit
<1>. HIDE DEF ins, e
<1>4. CASE KeepCode
  <2>. DEFINE T == S \cup {ins}
              l == Len(o.code)
  <2>1. o.code \in Seq(T) /\ ins \in T
    BY <1>1
  <2>. HIDE DEF T
  <2>2. /\ e.code \in Seq(T) /\ Len(e.code) = l + 1 /\ l \in Nat
        /\ e.code[l + 1] = ins
        /\ \A i \in 1..l : e.code[i] = o.code[i]
    BY <1>3, <1>4, <2>1, Pushed
  <2>. HIDE DEF l
  <2>3. Coded(e)
    BY <1>4, <2>2 DEF Coded
  <2>4. \A i \in (l + 1)..(l + 1) : e.code[i].writes \subseteq writes
    BY <1>2, <2>2
  <2>. QED  BY <2>2, <2>3, <2>4 DEF Wrote, e, l
<1>5. CASE ~KeepCode
  <2>1. e.code = <<>> /\ o.code = <<>>
    BY <1>3, <1>5 DEF Coded
  <2>2. Coded(e)
    BY <2>1, <1>5 DEF Coded
  <2>. QED  BY <2>1, <2>2 DEF Wrote, e
<1>. QED  BY <1>4, <1>5

\* The cells each kind of instruction changes.
LEMMA TapeWrites ==
  ASSUME NEW o, Coded(o), NEW a, NEW b
  PROVE  /\ Wrote(o, Mov(o, a, b), {a}) /\ Wrote(o, Add(o, a, b), {a})
         /\ Wrote(o, Copy(o, a, b), {a}) /\ Wrote(o, Load(o, a, b), {a})
         /\ Wrote(o, Flip(o, a), {a}) /\ Wrote(o, ReadChar(o, a), {a})
         /\ Wrote(o, Itoa(o, a, b), b..(b + 9))
         /\ Wrote(o, InsertString(o, a, b), (a + 4)..(a + 3 + b))
         /\ Wrote(o, Ouz(o, a), {a + 3})
         /\ Wrote(o, Open(o, a, b), {})
<1>1. \A op, args, writes, needs, dirty :
        Wrote(o, Emit(o, op, args, writes, needs, dirty), writes)
  BY EmitWrites
<1>. QED  BY <1>1 DEF Mov, Add, Copy, Load, Flip, ReadChar, Itoa, InsertString, Ouz, Open

LEMMA ArrayWrites ==
  ASSUME NEW o, Coded(o), NEW base, NEW len, NEW index, NEW cell, NEW op, NEW before
  PROVE  /\ Wrote(o, Ra(o, base, index, cell), {cell} \cup base..(base + 3))
         /\ Wrote(o, Sav(o, base, len, index, cell), base..(base + 3 + len))
         /\ Wrote(o, Close(o, op, cell, before), {cell})
<1>1. \A name, args, writes, needs, dirty :
        Wrote(o, Emit(o, name, args, writes, needs, dirty), writes)
  BY EmitWrites
<1>. QED  BY <1>1 DEF Ra, Sav, Close

\* Code that follows code.
LEMMA ThenWrote ==
  ASSUME NEW o, NEW p, NEW q, NEW A, NEW B, NEW C, Wrote(o, p, A), Wrote(p, q, B),
         A \subseteq C, B \subseteq C
  PROVE  Wrote(o, q, C)
<1>1. Wrote(o, p, C) /\ Wrote(p, q, C)
  BY WroteMore
<1>. QED  BY <1>1, WroteThen

LEMMA WroteCoded == \A o, p, cells : Wrote(o, p, cells) => Coded(o) /\ Coded(p)
BY DEF Wrote

\* An operator changes its accumulator and the scratch of its gadget.
LEMMA BinaryOpWrites ==
  ASSUME NEW o, Coded(o), NEW op \in BinOps, NEW acc, NEW right, NEW dump \in Nat
  PROVE  Wrote(o, BinaryOp(o, op, acc, right, dump), {acc} \cup dump..(dump + 5))
<1>. DEFINE all     == {acc} \cup dump..(dump + 5)
            scratch == dump..(dump + Scratch[op] - 1)
            args    == <<acc, right, dump>>
<1>1. Scratch[op] \in Nat /\ Scratch[op] <= 6 /\ (op \in Flags => Scratch[op] >= 2)
  BY DEF Scratch, Flags, BinOps
<1>2. scratch \subseteq all /\ {acc} \subseteq all /\ {dump} \subseteq all
  BY <1>1
<1>3. CASE op \in Flags
  <2>. DEFINE p == Emit(o, op, args, scratch, {0} \cup scratch, o.dirty \cup {dump})
              q == Mov(p, acc, 0)
              r == Add(q, acc, dump)
              s == Mov(r, dump, 0)
  <2>1. BinaryOp(o, op, acc, right, dump) = s
    BY <1>3 DEF BinaryOp
  <2>2. Wrote(o, p, scratch)
    BY EmitWrites
  <2>. HIDE DEF scratch, args, p
  <2>3. Wrote(p, q, {acc})
    BY <2>2, TapeWrites, WroteCoded
  <2>. HIDE DEF q
  <2>4. Wrote(q, r, {acc})
    BY <2>3, TapeWrites, WroteCoded
  <2>. HIDE DEF r
  <2>5. Wrote(r, s, {dump})
    BY <2>4, TapeWrites, WroteCoded
  <2>. HIDE DEF s, all
  <2>6. Wrote(o, q, all)
    BY <1>2, <2>2, <2>3, ThenWrote
  <2>7. Wrote(o, r, all)
    BY <1>2, <2>4, <2>6, ThenWrote
  <2>8. Wrote(o, s, all)
    BY <1>2, <2>5, <2>7, ThenWrote
  <2>. QED  BY <2>1, <2>8 DEF all
<1>4. CASE op \notin Flags
  <2>. DEFINE p == Emit(o, op, args, {acc} \cup scratch, {0} \cup scratch, o.dirty \cup {acc})
  <2>1. BinaryOp(o, op, acc, right, dump) = p
    BY <1>4 DEF BinaryOp
  <2>2. Wrote(o, p, {acc} \cup scratch)
    BY EmitWrites
  <2>3. {acc} \cup scratch \subseteq all
    BY <1>2
  <2>. HIDE DEF p, scratch, all
  <2>. QED  BY <2>1, <2>2, <2>3, WroteMore DEF all
<1>. QED  BY <1>3, <1>4

\* What Assign and CopyTo change: the destination, and a temp that is moved.
Touched(dest, r) == {dest} \cup (IF r.type = "TEMP" THEN {r.val} ELSE {})

LEMMA AssignWrites ==
  ASSUME NEW o, Coded(o), NEW dest, NEW r, r.type \in {"CONST", "ADDRESS", "TEMP"}
  PROVE  Wrote(o, Assign(o, dest, r), Touched(dest, r))
<1>. DEFINE all == Touched(dest, r)
            p == Mov(o, dest, 0)
            q == Add(p, dest, r.val)
            s == Mov(q, r.val, 0)
            t == Mov(o, dest, r.val)
<1>1. {dest} \subseteq all /\ {} \subseteq all /\ (r.type = "TEMP" => {r.val} \subseteq all)
  BY DEF Touched
<1>2. Wrote(o, p, {dest}) /\ Wrote(o, t, {dest}) /\ Wrote(o, o, {})
  BY TapeWrites, WroteNothing
<1>. HIDE DEF all, p, t
<1>3. Wrote(p, q, {dest})
  BY <1>2, TapeWrites, WroteCoded
<1>. HIDE DEF q
<1>4. Wrote(q, s, {r.val})
  BY <1>3, TapeWrites, WroteCoded
<1>. HIDE DEF s
<1>5. Wrote(o, q, all)
  BY <1>1, <1>2, <1>3, ThenWrote
<1>6. Wrote(o, o, all) /\ Wrote(o, t, all) /\ (r.type = "TEMP" => Wrote(o, s, all))
  BY <1>1, <1>2, <1>4, <1>5, WroteMore, ThenWrote
<1>7. r.type = "CONST" => Assign(o, dest, r) = t
  BY DEF Assign, t
<1>8. r.type # "CONST" /\ r.val = dest => Assign(o, dest, r) = o
  BY DEF Assign
<1>9. r.type = "ADDRESS" /\ r.val # dest => Assign(o, dest, r) = q
  BY DEF Assign, q, p
<1>10. r.type = "TEMP" /\ r.val # dest => Assign(o, dest, r) = s
  BY DEF Assign, s, q, p
<1>. QED  BY <1>5, <1>6, <1>7, <1>8, <1>9, <1>10 DEF all

LEMMA CopyToWrites ==
  ASSUME NEW o, Coded(o), NEW dest, NEW r, r.type \in {"CONST", "ADDRESS", "TEMP"}
  PROVE  Wrote(o, CopyTo(o, dest, r), Touched(dest, r))
<1>. DEFINE all == Touched(dest, r)
            p == Copy(o, dest, r.val)
            q == Mov(p, r.val, 0)
            t == Mov(o, dest, r.val)
<1>1. {dest} \subseteq all /\ {} \subseteq all /\ (r.type = "TEMP" => {r.val} \subseteq all)
  BY DEF Touched
<1>2. Wrote(o, p, {dest}) /\ Wrote(o, t, {dest}) /\ Wrote(o, o, {})
  BY TapeWrites, WroteNothing
<1>. HIDE DEF all, p, t
<1>3. Wrote(p, q, {r.val})
  BY <1>2, TapeWrites, WroteCoded
<1>. HIDE DEF q
<1>4. /\ Wrote(o, o, all) /\ Wrote(o, t, all) /\ Wrote(o, p, all)
      /\ r.type = "TEMP" => Wrote(o, q, all)
  BY <1>1, <1>2, <1>3, WroteMore, ThenWrote
<1>5. r.type = "CONST" => CopyTo(o, dest, r) = t
  BY DEF CopyTo, t
<1>6. r.type = "ADDRESS" => CopyTo(o, dest, r) = p
  BY DEF CopyTo, p
<1>7. r.type = "TEMP" /\ r.val = dest => CopyTo(o, dest, r) = o
  BY DEF CopyTo
<1>8. r.type = "TEMP" /\ r.val # dest => CopyTo(o, dest, r) = q
  BY DEF CopyTo, q, p
<1>. QED  BY <1>4, <1>5, <1>6, <1>7, <1>8 DEF all

LEMMA Joined ==
  ASSUME NEW X, NEW s \in Seq(X), NEW t \in Seq(X)
  PROVE  /\ s \o t \in Seq(X) /\ Len(s \o t) = Len(s) + Len(t)
         /\ Len(s) \in Nat /\ Len(t) \in Nat
         /\ \A i \in 1..Len(s) : (s \o t)[i] = s[i]
         /\ \A i \in 1..Len(t) : (s \o t)[Len(s) + i] = t[i]
OBVIOUS

\* A frame is wiped and nothing else.
LEMMA WipeWrites ==
  ASSUME NEW o, Coded(o), NEW first \in Nat, NEW last \in Int, NEW kept
  PROVE  Wrote(o, Wipe(o, first, last, kept), first..last)
<1>. DEFINE spared   == kept \cap first..last
            Wiped(i) == first + i - 1 + Truth(\E c \in spared : c < first + i)
            n == last - first + 1 - Truth(spared # {})
            Ins(i) == [op |-> "MOV", args |-> <<Wiped(i), 0>>,
                       writes |-> {Wiped(i)}, needs |-> {}]
            movs == [i \in 1..n |-> Ins(i)]
            w == Wipe(o, first, last, kept)
<1>1. w.code = IF KeepCode THEN o.code \o movs ELSE <<>>
  BY DEF Wipe
<1>2. ASSUME NEW i \in 1..n
      PROVE  movs[i].writes \subseteq first..last
  <2>1. movs[i].writes = {Wiped(i)}
    BY <1>2
  <2>. DEFINE t == Truth(\E c \in spared : c < first + i)
              k == Truth(spared # {})
  <2>2. t \in {0, 1} /\ k \in {0, 1} /\ (spared # {} => k = 1) /\ (spared = {} => t = 0)
    BY DEF Truth
  <2>3. Wiped(i) = first + i - 1 + t /\ i \in 1..(last - first + 1 - k)
    BY <1>2
  <2>4. t <= k
    <3>. HIDE DEF t, k, spared
    <3>1. CASE spared = {}
      BY <2>2, <3>1
    <3>2. CASE spared # {}
      BY <2>2, <3>2
    <3>. QED  BY <3>1, <3>2
  <2>. HIDE DEF t, k, Wiped
  <2>5. Wiped(i) \in first..last
    BY <2>2, <2>3, <2>4
  <2>. QED  BY <2>1, <2>5 DEF Wiped
<1>3. CASE KeepCode
  <2>1. PICK S : o.code \in Seq(S)
    BY DEF Coded
  <2>. DEFINE T == S \cup {Ins(i) : i \in 1..n}
              k == Len(o.code)
  <2>2. n \in Int
    BY DEF Truth
  <2>. HIDE DEF n
  <2>3. movs \in Seq(T) /\ Len(movs) = IF n > 0 THEN n ELSE 0
    <3>. DEFINE N == IF n > 0 THEN n ELSE 0
    <3>1. N \in Nat /\ 1..n = 1..N
      BY <2>2
    <3>2. \A i \in 1..n : Ins(i) \in T
      OBVIOUS
    <3>3. DOMAIN movs = 1..N /\ \A i \in 1..N : movs[i] \in T
      BY <3>1, <3>2
    <3>4. movs = [i \in 1..N |-> movs[i]]
      BY <3>1
    <3>. HIDE DEF movs, T, N
    <3>5. movs \in [1..N -> T]
      BY <3>3, <3>4
    <3>6. movs \in Seq(T) /\ Len(movs) = N
      BY <3>1, <3>5
    <3>. QED  BY <3>6 DEF N
  <2>4. o.code \in Seq(T)
    <3>1. S \subseteq T
      OBVIOUS
    <3>. HIDE DEF T
    <3>. QED  BY <2>1, <3>1
  <2>. HIDE DEF movs, T
  <2>5. /\ w.code \in Seq(T) /\ Len(w.code) = k + Len(movs) /\ k \in Nat /\ Len(movs) \in Nat
        /\ \A i \in 1..k : w.code[i] = o.code[i]
        /\ \A i \in 1..Len(movs) : w.code[k + i] = movs[i]
    <3>. HIDE DEF w
    <3>1. w.code = o.code \o movs
      BY <1>1, <1>3
    <3>. HIDE DEF k
    <3>2. Len(o.code) = k
      BY DEF k
    <3>3. LET j == o.code \o movs
          IN  /\ j \in Seq(T) /\ Len(j) = Len(o.code) + Len(movs)
              /\ Len(o.code) \in Nat /\ Len(movs) \in Nat
              /\ \A i \in 1..Len(o.code) : j[i] = o.code[i]
              /\ \A i \in 1..Len(movs) : j[Len(o.code) + i] = movs[i]
      <4>1. o.code \in Seq(T) /\ movs \in Seq(T)
        BY <2>3, <2>4
      <4>. QED  BY <4>1, Joined
    <3>. QED  BY <3>1, <3>2, <3>3
  <2>. HIDE DEF w, k
  <2>6. Coded(w)
    BY <1>3, <2>5 DEF Coded
  <2>7. ASSUME NEW i \in (k + 1)..Len(w.code)
        PROVE  w.code[i].writes \subseteq first..last
    <3>1. i - k \in 1..Len(movs) /\ i = k + (i - k)
      BY <2>5
    <3>2. i - k \in 1..n
      BY <2>2, <2>3, <3>1
    <3>3. w.code[i] = movs[i - k]
      BY <2>5, <3>1
    <3>. QED  BY <1>2, <3>2, <3>3
  <2>8. Len(o.code) <= Len(w.code) /\ \A i \in 1..Len(o.code) : w.code[i] = o.code[i]
    BY <2>5 DEF k
  <2>. QED  BY <2>6, <2>7, <2>8 DEF Wrote, w, k
<1>4. CASE ~KeepCode
  <2>1. w.code = <<>> /\ o.code = <<>>
    BY <1>1, <1>4 DEF Coded
  <2>2. Coded(w)
    BY <1>4, <2>1 DEF Coded
  <2>. HIDE DEF w
  <2>. QED  BY <2>1, <2>2 DEF Wrote, w
<1>. QED  BY <1>3, <1>4

-----------------------------------------------------------------------------
(* The cells a step changes.                                               *)

Beyond(b) == {c \in Int : c >= b}

LEMMA CellsChanged ==
  ASSUME NEW cells, Wrote(out, out', cells)
  PROVE  Changed \subseteq cells
BY DEF Wrote, Changed

LEMMA NothingChanged ==
  ASSUME out' = out, Coded(out)
  PROVE  Changed = {} /\ Coded(out')
<1>1. Wrote(out, out', {})
  BY WroteNothing
<1>. QED  BY <1>1, CellsChanged

\* What an activation holds: a left operand, a counter, a flag.
Holds(a) ==
  /\ a.kind = "right" => a.held.type \in {"CONST", "ADDRESS", "TEMP"}
  /\ a.kind = "loopbody" => a.held.type \in {"ADDRESS", "TEMP"}
  /\ a.kind = "ifbody" => a.held.type = "TEMP"

Known == \A i \in 1..Len(acts) : Holds(acts[i])

LEMMA KnownTop ==
  ASSUME IInv, Known, acts # <<>>
  PROVE  /\ Top.kind = "right" => Top.held.type \in {"CONST", "ADDRESS", "TEMP"}
         /\ Top.kind = "loopbody" => Top.held.type \in {"ADDRESS", "TEMP"}
         /\ Top.kind = "ifbody" => Top.held.type = "TEMP"
<1>1. Len(acts) \in 1..Len(acts) /\ Top = acts[Len(acts)]
  BY DEF IInv, Types, StackTypes, Top
<1>. QED  BY <1>1 DEF Known, Holds

\* An expression writes above its floor, and the header of an array.
Header == IF Top.kind = "element" THEN Top.base..(Top.base + 3) ELSE {}

LEMMA ExpressionWrites ==
  ASSUME OInv, Known, Coded(out), ElementRead \/ UnaryFlip \/ FoldOnTape \/ BindValue
  PROVE  Wrote(out, out', Beyond(Floor(Top)) \cup Header)
<1>. DEFINE all == Beyond(Floor(Top)) \cup Header
<1>1. mode = "value" /\ Top.kind \in {"element", "unary", "right", "call"}
  BY DEF ElementRead, UnaryFlip, FoldOnTape, FoldOnTapeBy, BindValue, Resume
<1>2. /\ Top.mark \in Nat /\ Top.base \in Nat /\ Floor(Top) \in Nat /\ Ceiling(Top) \in Nat
      /\ NextFree \in Nat /\ scopes[Top.scope].next = NextFree
      /\ Floor(Top) <= Top.mark /\ Top.mark <= Ceiling(Top) /\ Ceiling(Top) <= NextFree
      /\ res.type \in {"CONST", "ADDRESS", "TEMP"} /\ res.val \in Nat /\ Top.held.val \in Nat
      /\ res.type = "TEMP" => Ceiling(Top) <= res.val
      /\ Top.held.type = "TEMP" => Floor(Top) = Top.held.val
  BY <1>1, ValueOwned
<1>3. /\ {Top.mark} \subseteq all /\ {NextFree} \subseteq all
      /\ res.type = "TEMP" => {res.val} \subseteq all
      /\ \A c \in Nat : c >= Floor(Top) => {c} \subseteq all /\ c..(c + 5) \subseteq all
  BY <1>2 DEF Beyond
<1>4. Touched(Top.mark, res) \subseteq all
  BY <1>3 DEF Touched
<1>5. CASE ElementRead
  <2>. DEFINE read == Ra(out, Top.base, res, Top.mark)
  <2>1. out' = IF res.type = "TEMP" /\ res.val # Top.mark THEN Mov(read, res.val, 0) ELSE read
    BY <1>5 DEF ElementRead
  <2>2. Wrote(out, read, {Top.mark} \cup Top.base..(Top.base + 3))
    BY ArrayWrites
  <2>3. {Top.mark} \cup Top.base..(Top.base + 3) \subseteq all
    <3>1. Header = Top.base..(Top.base + 3)
      BY <1>5 DEF ElementRead, Resume, Header
    <3>. QED  BY <1>3, <3>1
  <2>. HIDE DEF read, all
  <2>4. Wrote(read, Mov(read, res.val, 0), {res.val})
    BY <2>2, TapeWrites, WroteCoded
  <2>5. Wrote(out, read, all)
    BY <2>2, <2>3, WroteMore
  <2>6. res.type = "TEMP" => Wrote(out, Mov(read, res.val, 0), all)
    BY <1>3, <2>4, <2>5, ThenWrote
  <2>. QED  BY <2>1, <2>5, <2>6 DEF all
<1>6. CASE UnaryFlip
  <2>. DEFINE e == Assign(out, Top.mark, res)
  <2>1. out' = Flip(e, Top.mark)
    BY <1>6 DEF UnaryFlip
  <2>2. Wrote(out, e, Touched(Top.mark, res))
    BY <1>2, AssignWrites
  <2>. HIDE DEF e, all
  <2>3. Wrote(e, Flip(e, Top.mark), {Top.mark})
    BY <2>2, TapeWrites, WroteCoded
  <2>. QED  BY <1>3, <1>4, <2>1, <2>2, <2>3, ThenWrote DEF all
<1>7. CASE BindValue
  <2>1. Wrote(out, CopyTo(out, Top.mark, res), Touched(Top.mark, res))
    BY <1>2, CopyToWrites
  <2>2. out' = CopyTo(out, Top.mark, res)
    BY <1>7 DEF BindValue
  <2>. HIDE DEF all
  <2>. QED  BY <1>4, <2>1, <2>2, WroteMore DEF all
<1>8. CASE FoldOnTape
  <2>. DEFINE left == Top.held
              acc  == Accumulator(left, NextFree)
              dump == IF left.type = "TEMP" THEN NextFree ELSE NextFree + 1
  <2>1. PICK op \in Ops : FoldOnTapeBy(op)
    BY <1>8 DEF FoldOnTape
  <2>. DEFINE e == Assign(out, acc, left)
              folded == BinaryOp(e, op, acc, res, dump)
  <2>2. /\ out' = IF res.type = "TEMP" THEN Mov(folded, res.val, 0) ELSE folded
        /\ Top.kind = "right"
    BY <1>2, <2>1 DEF FoldOnTapeBy, Resume
  <2>3. /\ acc \in Nat /\ dump \in Nat /\ Floor(Top) <= acc /\ Floor(Top) <= dump
        /\ left.type = "TEMP" => acc = left.val
    BY <1>2 DEF Accumulator
  <2>4. op \in BinOps /\ left.type \in {"CONST", "ADDRESS", "TEMP"}
    <3>1. IInv /\ acts # <<>>
      BY <1>1, ValueOwned DEF OInv
    <3>. QED  BY <2>2, <3>1, KnownTop, LiteralsAssumption
  <2>. HIDE DEF acc, dump
  <2>5. Wrote(out, e, Touched(acc, left))
    BY <2>4, AssignWrites
  <2>6. Touched(acc, left) = {acc}
    BY <2>3 DEF Touched
  <2>. HIDE DEF e
  <2>7. Wrote(e, folded, {acc} \cup dump..(dump + 5))
    BY <2>3, <2>4, <2>5, BinaryOpWrites, WroteCoded
  <2>. HIDE DEF folded
  <2>8. Wrote(folded, Mov(folded, res.val, 0), {res.val})
    BY <2>7, TapeWrites, WroteCoded
  <2>9. {acc} \subseteq all /\ {acc} \cup dump..(dump + 5) \subseteq all
    BY <1>3, <2>3
  <2>. HIDE DEF all
  <2>10. Wrote(out, folded, all)
    BY <2>5, <2>6, <2>7, <2>9, ThenWrote
  <2>11. res.type = "TEMP" => Wrote(out, Mov(folded, res.val, 0), all)
    <3>1. Wrote(folded, Mov(folded, res.val, 0), all) \/ res.type # "TEMP"
      BY <1>3, <2>8, WroteMore
    <3>. QED  BY <2>10, <3>1, WroteThen
  <2>. QED  BY <2>2, <2>10, <2>11 DEF all
<1>. QED  BY <1>5, <1>6, <1>7, <1>8

\* What the program can name, as an assignment or print_str writes to it.
Placed ==
  {p.addr : p \in ArgPlaces} \cup UNION {p.addr..(p.addr + 3) : p \in ArrayPlaces}

\* What an activation refers to.
Refs(a) ==
  IF a.kind = "element" THEN a.base..(a.base + 3)
  ELSE IF a.kind \in {"index", "store"} THEN a.base..(a.base + 3 + a.len)
  ELSE IF a.kind = "loopbody" /\ a.held.type = "ADDRESS" THEN {a.held.val}
  ELSE {}

Sphere == Beyond(Floor(Top)) \cup Placed \cup Refs(Top)

\* A variable of the innermost scope is one that a name resolves to.
LEMMA InnermostVisible ==
  ASSUME IInv, NEW n \in Declares(scopes[Depth].vars)
  PROVE  PlaceOf(scopes[Depth].vars[n]) \in ArgPlaces
<1>. DEFINE v == scopes[Depth].vars[n]
<1>1. /\ Depth \in Nat /\ Barrier \in Nat /\ Barrier <= Depth /\ n \in Names
  <2>1. Types /\ Nested
    BY DEF IInv
  <2>2. Depth \in Nat /\ Depth >= 1
    BY <2>1, Context
  <2>3. CASE calls = <<>>
    BY <2>2, <2>3 DEF Barrier, Declares
  <2>4. CASE calls # <<>>
    <3>1. Len(calls) \in 1..Len(calls) /\ CurrentCall = calls[Len(calls)]
      BY <2>1, <2>4, Context DEF CurrentCall
    <3>2. CurrentCall.scope_barrier \in Nat /\ CurrentCall.scope_barrier <= Depth
      BY <2>1, <3>1, ScopesBelow DEF Types
    <3>. QED  BY <2>2, <2>4, <3>2 DEF Barrier, Declares
  <2>. QED  BY <2>3, <2>4
<1>2. Depth \in Holders(n) /\ \A i \in Holders(n) : i <= Depth
  BY <1>1 DEF Holders
<1>3. v \in Resolve(n)
  BY <1>2 DEF Resolve
<1>4. v \in Visible
  BY <1>1, <1>3 DEF Visible
<1>. QED  BY <1>4 DEF ArgPlaces

LEMMA StatementWrites ==
  ASSUME OInv, Coded(out),
         \/ ReturnValue \/ LetValue \/ SetValue \/ IndexEvaluated \/ StoreValue
         \/ ValuePrinted \/ LoopEnter \/ IfEnter
  PROVE  Wrote(out, out', Sphere)
<1>1. mode = "value" /\ IInv
  BY DEF ReturnValue, LetValue, LetValueOf, SetValue, SetValueAt, IndexEvaluated, StoreValue,
     ValuePrinted, LoopEnter, IfEnter, Resume, OInv
<1>2. /\ Top.mark \in Nat /\ Floor(Top) \in Nat /\ Ceiling(Top) \in Nat
      /\ NextFree \in Nat /\ Top.scope = Depth
      /\ Floor(Top) <= Top.mark /\ Top.mark <= Ceiling(Top) /\ Ceiling(Top) <= NextFree
      /\ res.type \in {"CONST", "ADDRESS", "TEMP"} /\ res.val \in Nat /\ Top.held.val \in Nat
      /\ res.type = "TEMP" => Ceiling(Top) <= res.val
      /\ Top.held.type = "TEMP" => Floor(Top) = Top.held.val
  BY <1>1, ValueOwned
<1>3. /\ {Top.mark} \subseteq Sphere /\ {NextFree} \subseteq Sphere
      /\ {Top.mark + 1} \subseteq Sphere /\ (NextFree + 1)..(NextFree + 10) \subseteq Sphere
      /\ NextFree..(NextFree + 9) \subseteq Sphere
      /\ res.type = "TEMP" => {res.val} \subseteq Sphere
      /\ Top.held.type = "TEMP" => {Top.held.val} \subseteq Sphere
      /\ \A p \in ArgPlaces : {p.addr} \subseteq Sphere
  BY <1>2 DEF Beyond, Sphere, Placed
<1>. HIDE DEF Sphere
<1>4. /\ Touched(Top.mark, res) \subseteq Sphere
      /\ Touched(Top.mark + 1, res) \subseteq Sphere
      /\ \A p \in ArgPlaces : Touched(p.addr, res) \subseteq Sphere
  BY <1>3 DEF Touched
<1>5. /\ \A dest : Touched(dest, res) \subseteq Sphere =>
           Wrote(out, Assign(out, dest, res), Sphere) /\ Wrote(out, CopyTo(out, dest, res), Sphere)
      /\ Wrote(out, out, Sphere)
  BY <1>2, AssignWrites, CopyToWrites, WroteNothing, WroteMore
<1>6. \A o, cells : Wrote(out, o, Sphere) /\ cells \subseteq Sphere =>
        /\ \A c \in cells : \A v : /\ Wrote(out, Mov(o, c, v), Sphere)
                                   /\ Wrote(out, Copy(o, c, v), Sphere)
                                   /\ Wrote(out, Load(o, c, v), Sphere)
  <2>. SUFFICES ASSUME NEW o, Wrote(out, o, Sphere), NEW c \in Sphere, NEW v
                PROVE  /\ Wrote(out, Mov(o, c, v), Sphere)
                       /\ Wrote(out, Copy(o, c, v), Sphere)
                       /\ Wrote(out, Load(o, c, v), Sphere)
    OBVIOUS
  <2>1. /\ Wrote(o, Mov(o, c, v), {c}) /\ Wrote(o, Copy(o, c, v), {c})
        /\ Wrote(o, Load(o, c, v), {c})
    BY TapeWrites, WroteCoded
  <2>2. {c} \subseteq Sphere /\ Sphere \subseteq Sphere
    OBVIOUS
  <2>. QED  BY <2>1, <2>2, ThenWrote
<1>7. CASE ReturnValue
  BY <1>4, <1>5, <1>7 DEF ReturnValue
<1>8. CASE LetValue
  <2>1. PICK n \in Names : LetValueOf(n)
    BY <1>8 DEF LetValue
  <2>2. CASE n \in Declares(scopes[Top.scope].vars)
    <3>. DEFINE v == scopes[Depth].vars[n]
    <3>1. PlaceOf(v) \in ArgPlaces /\ PlaceOf(v).addr = v.addr
      BY <1>1, <1>2, <2>2, InnermostVisible DEF PlaceOf
    <3>2. out' = Assign(out, v.addr, res)
      BY <1>2, <2>1, <2>2 DEF LetValueOf
    <3>. HIDE DEF v
    <3>. QED  BY <1>4, <1>5, <3>1, <3>2
  <2>3. CASE n \notin Declares(scopes[Top.scope].vars)
    BY <1>4, <1>5, <2>1, <2>3 DEF LetValueOf
  <2>. QED  BY <2>2, <2>3
<1>9. CASE SetValue
  <2>1. PICK p \in Places : out' = Assign(out, p.addr, res)
    BY <1>9 DEF SetValue, SetValueAt
  <2>2. p \in ArgPlaces
    BY DEF Places, ArgPlaces
  <2>. QED  BY <1>4, <1>5, <2>1, <2>2
<1>10. CASE IndexEvaluated
  BY <1>4, <1>5, <1>10 DEF IndexEvaluated
<1>11. CASE StoreValue
  <2>. DEFINE target == IF res.type = "TEMP" THEN Temp(Top.mark + 1) ELSE res
              ready  == IF res.type = "TEMP" THEN Assign(out, Top.mark + 1, res) ELSE out
              stored == Sav(ready, Top.base, Top.len, Top.held, target)
              z      == ZeroIfTemp(stored, Top.held)
  <2>1. out' = ZeroIfTemp(z, target) /\ Top.kind = "store"
    BY <1>11 DEF StoreValue, Resume
  <2>2. Wrote(out, ready, Sphere)
    BY <1>4, <1>5
  <2>3. target.type = "TEMP" => {target.val} \subseteq Sphere
    BY <1>3 DEF Temp
  <2>. HIDE DEF target, ready
  <2>4. Wrote(ready, stored, Top.base..(Top.base + 3 + Top.len))
    BY <2>2, ArrayWrites, WroteCoded
  <2>5. Top.base..(Top.base + 3 + Top.len) \subseteq Sphere
    BY <2>1 DEF Sphere, Refs
  <2>. HIDE DEF stored
  <2>6. Wrote(out, stored, Sphere)
    <3>1. Wrote(ready, stored, Sphere)
      BY <2>4, <2>5, WroteMore
    <3>. QED  BY <2>2, <3>1, WroteThen
  <2>7. Wrote(out, z, Sphere)
    BY <1>3, <1>6, <2>6 DEF ZeroIfTemp
  <2>. HIDE DEF z
  <2>. QED  BY <1>6, <2>1, <2>3, <2>7 DEF ZeroIfTemp
<1>12. CASE ValuePrinted
  <2>. DEFINE Printed(o, cell) == Mov(Itoa(o, cell, cell + 1), cell, 0)
              load == Load(out, NextFree, res.val)
              copy == Copy(out, NextFree, res.val)
              moved == Mov(copy, res.val, 0)
  <2>1. out' = CASE res.type = "CONST" -> Printed(load, NextFree)
                 [] res.type = "ADDRESS" -> Itoa(out, res.val, NextFree)
                 [] res.type = "TEMP" /\ res.val = NextFree -> Printed(out, NextFree)
                 [] res.type = "TEMP" /\ res.val # NextFree -> Printed(moved, NextFree)
    BY <1>12 DEF ValuePrinted
  <2>2. ASSUME NEW o, Wrote(out, o, Sphere)
        PROVE  Wrote(out, Printed(o, NextFree), Sphere)
    <3>. DEFINE j == Itoa(o, NextFree, NextFree + 1)
    <3>1. Wrote(o, j, (NextFree + 1)..((NextFree + 1) + 9))
      BY <2>2, TapeWrites, WroteCoded
    <3>2. (NextFree + 1) + 9 = NextFree + 10
      BY <1>2
    <3>. HIDE DEF j
    <3>3. Wrote(out, j, Sphere)
      <4>1. Wrote(o, j, Sphere)
        BY <1>3, <3>1, <3>2, WroteMore
      <4>. QED  BY <2>2, <4>1, WroteThen
    <3>. QED  BY <1>3, <1>6, <3>3 DEF j
  <2>3. Wrote(out, out, Sphere) /\ Wrote(out, load, Sphere) /\ Wrote(out, copy, Sphere)
    BY <1>3, <1>5, <1>6
  <2>4. Wrote(out, Itoa(out, res.val, NextFree), Sphere)
    <3>1. Wrote(out, Itoa(out, res.val, NextFree), NextFree..(NextFree + 9))
      BY TapeWrites
    <3>. QED  BY <1>3, <3>1, WroteMore
  <2>. HIDE DEF load, copy
  <2>5. res.type = "TEMP" => Wrote(out, moved, Sphere)
    BY <1>3, <1>6, <2>3
  <2>. HIDE DEF moved, Printed
  <2>6. /\ Wrote(out, Printed(out, NextFree), Sphere) /\ Wrote(out, Printed(load, NextFree), Sphere)
        /\ res.type = "TEMP" => Wrote(out, Printed(moved, NextFree), Sphere)
    BY <2>2, <2>3, <2>5
  <2>. QED  BY <1>2, <2>1, <2>4, <2>6
<1>13. ASSUME NEW o, Wrote(out, o, Sphere), NEW op, NEW cell
       PROVE  Wrote(out, Open(o, op, cell), Sphere)
  <2>1. Wrote(o, Open(o, op, cell), {})
    BY <1>13, TapeWrites, WroteCoded
  <2>. QED  BY <1>13, <2>1, ThenWrote
<1>14. CASE LoopEnter
  <2>1. CASE res.type = "ADDRESS"
    <3>1. out' = Open(Assign(out, res.val, res), "LOOP", res.val)
      BY <1>14, <2>1 DEF LoopEnter, Enter
    <3>2. Assign(out, res.val, res) = out
      BY <2>1 DEF Assign
    <3>. QED  BY <1>5, <1>13, <3>1, <3>2
  <2>2. CASE res.type # "ADDRESS"
    <3>1. out' = Open(Assign(out, Top.mark, res), "LOOP", Top.mark)
      BY <1>14, <2>2 DEF LoopEnter, Enter
    <3>. QED  BY <1>4, <1>5, <1>13, <3>1
  <2>. QED  BY <2>1, <2>2
<1>15. CASE IfEnter
  <2>1. out' = Open(CopyTo(out, Top.mark, res), "DOIF", Top.mark)
    BY <1>15 DEF IfEnter, Enter
  <2>. QED  BY <1>4, <1>5, <1>13, <2>1
<1>. QED  BY <1>7, <1>8, <1>9, <1>10, <1>11, <1>12, <1>14, <1>15

\* A block or a body that ends writes above its floor, but for the counter of a
\* loop that is a variable.
LEMMA EndWrites ==
  ASSUME OInv, Known, Coded(out), LoopLeave \/ IfLeave \/ EndCallInExpr \/ EndCallStmt
  PROVE  Wrote(out, out', Sphere)
<1>1. acts # <<>> /\ IInv /\ mode = "stmt"
  BY DEF LoopLeave, IfLeave, EndCallInExpr, EndCallStmt, BodyEnds, OInv
<1>2. Floor(Top) \in Nat /\ NextFree \in Nat
  BY <1>1, FloorOfTop
<1>3. CASE LoopLeave \/ IfLeave
  <2>1. PICK op : out' = Close(out, op, Top.held.val, Top.before)
    BY <1>3 DEF LoopLeave, IfLeave, Leave
  <2>2. Top.kind = "loopbody" \/ Top.kind = "ifbody"
    BY <1>3 DEF LoopLeave, IfLeave
  <2>3. /\ Top.held.type \in {"ADDRESS", "TEMP"}
        /\ Top.held.type = "ADDRESS" => Top.kind = "loopbody"
    BY <1>1, <2>2, KnownTop
  <2>4. {Top.held.val} \subseteq Sphere
    <3>1. CASE Top.held.type = "TEMP"
      <4>1. Floor(Top) = Top.held.val
        BY <2>2, <3>1 DEF Floor
      <4>. QED  BY <1>2, <4>1 DEF Sphere, Beyond
    <3>2. CASE Top.held.type = "ADDRESS"
      BY <2>3, <3>2 DEF Sphere, Refs
    <3>. QED  BY <2>3, <3>1, <3>2
  <2>5. Wrote(out, out', {Top.held.val})
    BY <2>1, ArrayWrites
  <2>. QED  BY <2>4, <2>5, WroteMore
<1>4. CASE EndCallInExpr \/ EndCallStmt
  <2>1. Top.kind = "body" /\ Floor(Top) = Top.base
    BY <1>4 DEF EndCallInExpr, EndCallStmt, BodyEnds, Floor
  <2>2. Top.base..(NextFree - 1) \subseteq Sphere
    BY <1>2, <2>1 DEF Sphere, Beyond
  <2>3. HasReturned => {CurrentCall.ret_addr} \subseteq Sphere
    <3>1. ASSUME HasReturned
          PROVE  CurrentCall.ret_addr \in Nat /\ Floor(Top) <= CurrentCall.ret_addr
      <4>1. Len(calls) \in 1..Len(calls) /\ CurrentCall = calls[Len(calls)]
        BY <1>1, <3>1, Context DEF IInv, HasReturned, CurrentCall
      <4>. QED  BY <1>1, <3>1, <4>1, StatesTyped DEF OInv, Owned, Returns, HasReturned, Typed
    <3>. QED  BY <3>1 DEF Sphere, Beyond
  <2>. HIDE DEF Sphere
  <2>4. Wrote(out, FrameWiped, Sphere)
    <3>1. Top.base \in Nat /\ NextFree - 1 \in Int
      BY <1>2, <2>1
    <3>2. Wrote(out, FrameWiped, Top.base..(NextFree - 1))
      BY <3>1, WipeWrites DEF FrameWiped
    <3>. QED  BY <2>2, <3>2, WroteMore
  <2>5. HasReturned => Wrote(out, Mov(FrameWiped, CurrentCall.ret_addr, 0), Sphere)
    <3>. DEFINE w == FrameWiped
                c == CurrentCall.ret_addr
    <3>. HIDE DEF w, c
    <3>1. Wrote(w, Mov(w, c, 0), {c})
      BY <2>4, TapeWrites, WroteCoded DEF w
    <3>2. HasReturned => Wrote(w, Mov(w, c, 0), Sphere)
      BY <2>3, <3>1, WroteMore DEF c
    <3>. QED  BY <2>4, <3>2, WroteThen DEF w, c
  <2>6. Wrote(out, out, Sphere)
    BY WroteNothing, WroteMore
  <2>7. out' = out \/ out' = FrameWiped
        \/ (HasReturned /\ out' = Mov(FrameWiped, CurrentCall.ret_addr, 0))
    BY <1>4 DEF EndCallInExpr, EndCallStmt, Reject
  <2>. QED  BY <2>4, <2>5, <2>6, <2>7
<1>. QED  BY <1>3, <1>4

\* A step that leaves the activations as they are writes to free cells, and
\* print_str to the header of the array it is given.
LEMMA SitWrites ==
  ASSUME OInv, Coded(out), ~Misprints, EvalReadChar \/ LetString \/ PrintStr
  PROVE  Coded(out') /\ Changed \subseteq Beyond(NextFree) \cup Placed
<1>. DEFINE all == Beyond(NextFree) \cup Placed
<1>1. NextFree \in Nat /\ IInv
  BY FloorOfNext DEF OInv
<1>2. CASE EvalReadChar
  <2>1. Wrote(out, out', {NextFree})
    BY <1>2, TapeWrites DEF EvalReadChar
  <2>2. NextFree \in Beyond(NextFree)
    BY <1>1 DEF Beyond
  <2>. QED  BY <2>1, <2>2, CellsChanged, WroteCoded
<1>3. CASE LetString
  <2>1. PICK s \in Strings : out' = InsertString(out, NextFree, s.chars)
    BY <1>3 DEF LetString
  <2>2. Wrote(out, out', (NextFree + 4)..(NextFree + 3 + s.chars))
    BY <2>1, TapeWrites
  <2>3. (NextFree + 4)..(NextFree + 3 + s.chars) \subseteq Beyond(NextFree)
    BY <1>1, LiteralsAssumption DEF Beyond
  <2>. QED  BY <2>2, <2>3, CellsChanged, WroteCoded
<1>4. CASE PrintStr
  <2>1. PICK p \in Places : out' = Ouz(Mov(out, p.addr + 3, 0), p.addr)
    BY <1>4 DEF PrintStr
  <2>. DEFINE e == Mov(out, p.addr + 3, 0)
              l == Len(e.code)
              ins == [op |-> "OUZ", args |-> <<p.addr>>, writes |-> {p.addr + 3},
                      needs |-> {}]
  <2>2. Wrote(out, e, {p.addr + 3})
    BY TapeWrites
  <2>. HIDE DEF e
  <2>3. Wrote(e, out', {p.addr + 3})
    BY <2>1, <2>2, TapeWrites, WroteCoded DEF e
  <2>4. Wrote(out, out', {p.addr + 3})
    BY <2>2, <2>3, WroteThen
  <2>5. CASE KeepCode
    <3>1. out'.code = Append(e.code, ins)
      BY <2>1, <2>5 DEF Ouz, Emit, e
    <3>2. PICK S : e.code \in Seq(S)
      BY <2>2 DEF Wrote, Coded
    <3>. HIDE DEF ins
    <3>3. Len(out'.code) = l + 1 /\ out'.code[l + 1] = ins /\ l \in Nat
      <4>1. e.code \in Seq(S \cup {ins}) /\ ins \in S \cup {ins}
        BY <3>2
      <4>. QED  BY <3>1, <4>1, Pushed
    <3>4. Len(out.code) \in Nat /\ Len(out.code) <= l
      BY <2>2, CodeLength DEF Wrote
    <3>. HIDE DEF l
    <3>5. l + 1 \in (Len(out.code) + 1)..Len(out'.code)
      BY <3>3, <3>4
    <3>6. PICK q \in ArrayPlaces : q.addr = p.addr
      <4>1. ins.op = "OUZ" /\ ins.args[1] = p.addr
        BY DEF ins
      <4>. QED  BY <3>3, <3>5, <4>1 DEF Misprints
    <3>7. q.addr \in Nat
      BY <1>1, PlaceTypes DEF IInv, ArrayPlaces
    <3>8. p.addr + 3 \in q.addr..(q.addr + 3)
      BY <3>6, <3>7
    <3>. QED  BY <2>4, <3>8, CellsChanged, WroteCoded DEF Placed
  <2>6. CASE ~KeepCode
    <3>1. out.code = <<>> /\ out'.code = <<>>
      BY <2>4, <2>6 DEF Wrote, Coded
    <3>2. Changed = {}
      BY <3>1 DEF Changed
    <3>. QED  BY <2>4, <3>2, WroteCoded
  <2>. QED  BY <2>5, <2>6
<1>. QED  BY <1>2, <1>3, <1>4

-----------------------------------------------------------------------------
(* What a step writes, and what it makes of the activations.               *)

Sits ==
  /\ acts' = acts
  /\ Changed \subseteq Beyond(NextFree) \cup Placed
  /\ ExpressionStep => Changed \subseteq Beyond(NextFree)

Waits == Changed = {} /\ \E a : acts' = Append(acts, a) /\ Holds(a)

Unwinds ==
  /\ acts # <<>>
  /\ \/ acts' = Under
     \/ \E a : acts' = TopBecomes(a) /\ Holds(a) /\ (a # Top \/ Changed = {})
  /\ Changed \subseteq Sphere
  /\ ExpressionStep => Changed \subseteq Beyond(Floor(Top)) \cup Header

Works == Coded(out') /\ (Sits \/ Waits \/ Unwinds)

LEMMA SilentWorks ==
  ASSUME Coded(out), out' = out,
         \/ acts' = acts
         \/ \E a : acts' = Append(acts, a) /\ Holds(a)
         \/ acts # <<>> /\ \/ acts' = Under
                           \/ \E a : acts' = TopBecomes(a) /\ Holds(a)
  PROVE  Works
<1>1. Changed = {} /\ Coded(out')
  BY NothingChanged
<1>. QED  BY <1>1 DEF Works, Sits, Waits, Unwinds

LEMMA SilentSteps ==
  ASSUME OInv, Known, Coded(out),
         \/ EvalNumber \/ EvalVar \/ UnaryConst \/ FoldConstants \/ LetStruct
         \/ DefineFunction \/ ArraySize \/ BindAlias \/ EvalArgument \/ BeginCall
         \/ LeftEvaluated \/ Finish \/ Illegal \/ Terminated \/ UNCHANGED vars
  PROVE  Works
<1>1. IInv
  BY DEF OInv
<1>2. CASE EvalNumber \/ EvalVar \/ LetStruct \/ DefineFunction \/ Finish \/ Illegal
           \/ Terminated \/ UNCHANGED vars
  <2>1. acts' = acts /\ out' = out
    BY <1>2 DEF EvalNumber, EvalVar, LetStruct, DefineFunction, Finish, Illegal, Reject,
       Terminated, vars, Return
  <2>. QED  BY <2>1, SilentWorks
<1>3. CASE UnaryConst \/ FoldConstants \/ ArraySize
  <2>1. acts # <<>>
    BY <1>3, ValueOwned DEF UnaryConst, FoldConstants, FoldConstantsBy, ArraySize, Resume
  <2>2. out' = out /\ (acts' = acts \/ acts' = Under)
    BY <1>3 DEF UnaryConst, FoldConstants, FoldConstantsBy, ArraySize, Return, Reject, StmtWith
  <2>. QED  BY <2>1, <2>2, SilentWorks
<1>4. CASE BindAlias \/ EvalArgument \/ BeginCall
  <2>1. mode = "args" /\ out' = out
    BY <1>4 DEF BindAlias, EvalArgument, BeginCall
  <2>2. acts # <<>> /\ Top.kind = "call"
    BY <1>1, <2>1 DEF IInv, ModeShape
  <2>3. Top \in Activation
    BY <1>1, <2>2, TopFacts DEF IInv, Types
  <2>4. PICK a : acts' = TopBecomes(a) /\ a.kind \in {"call", "body"}
    <3>1. CASE BindAlias
      <4>1. PICK p \in ArgPlaces : acts' = TopBecomes(Bound(Top, Variable(p.addr, p.type, 0)))
        BY <3>1 DEF BindAlias, BindWith
      <4>2. Bound(Top, Variable(p.addr, p.type, 0)).kind = "call"
        BY <2>2, <2>3 DEF Bound, Activation
      <4>. QED  BY <4>1, <4>2
    <3>2. CASE EvalArgument
      <4>1. acts' = TopBecomes([Top EXCEPT !.mark = NextFree, !.scope = Depth])
        BY <3>2 DEF EvalArgument, EvalWith
      <4>2. [Top EXCEPT !.mark = NextFree, !.scope = Depth].kind = "call"
        BY <2>2, <2>3 DEF Activation
      <4>. QED  BY <4>1, <4>2
    <3>3. CASE BeginCall
      <4>1. acts' = TopBecomes([Top EXCEPT !.kind = "body", !.scope = Depth + 1,
                                           !.mark = NextFree])
        BY <3>3 DEF BeginCall, StmtWith
      <4>2. [Top EXCEPT !.kind = "body", !.scope = Depth + 1, !.mark = NextFree].kind = "body"
        BY <2>3 DEF Activation
      <4>. QED  BY <4>1, <4>2
    <3>. QED  BY <1>4, <3>1, <3>2, <3>3
  <2>5. Holds(a)
    BY <2>4 DEF Holds
  <2>. QED  BY <2>1, <2>2, <2>4, <2>5, SilentWorks
<1>5. CASE LeftEvaluated
  <2>. DEFINE c == Pending("right")
              a == [c EXCEPT !.held = res]
  <2>1. mode = "value" /\ out' = out /\ acts' = TopBecomes(a)
    BY <1>5 DEF LeftEvaluated, Resume, EvalWith
  <2>2. acts # <<>> /\ res.type \in {"CONST", "ADDRESS", "TEMP"}
    BY <2>1, ValueOwned
  <2>3. a.kind = "right" /\ a.held = res
    BY DEF Pending
  <2>. HIDE DEF a
  <2>4. Holds(a)
    BY <2>2, <2>3 DEF Holds
  <2>. QED  BY <2>1, <2>2, <2>4, SilentWorks
<1>. QED  BY <1>2, <1>3, <1>4, <1>5

LEMMA WaitingSteps ==
  ASSUME Coded(out),
         \/ EvalElement \/ EvalUnary \/ EvalBinary \/ EvalCall \/ CallStmt
         \/ ReturnStmt \/ Let \/ Set \/ CreateArray \/ AssignArray \/ PrintVal
         \/ Loop \/ If
  PROVE  Works
<1>1. out' = out
  BY DEF EvalElement, EvalUnary, EvalBinary, EvalCall, CallStmt, CallBegins, ReturnStmt, Let,
     Set, CreateArray, AssignArray, PrintVal, Loop, If
<1>2. PICK a : /\ acts' = Append(acts, a)
               /\ a.kind \in {"element", "unary", "left", "call", "return", "let", "set",
                              "array", "index", "print_val", "loop", "if"}
  <2>1. CASE EvalElement
    <3>1. PICK p \in ArrayPlaces : acts' = Append(acts, [Pending("element") EXCEPT !.base = p.addr])
      BY <2>1 DEF EvalElement, EvalWith
    <3>2. [Pending("element") EXCEPT !.base = p.addr].kind = "element"
      BY DEF Pending
    <3>. QED  BY <3>1, <3>2
  <2>2. CASE EvalCall \/ CallStmt
    <3>1. PICK f \in Funs : acts' = Append(acts, [Pending("call") EXCEPT !.base = NextFree,
                                                                        !.name = f])
      BY <2>2 DEF EvalCall, CallStmt, CallBegins, BindWith
    <3>2. [Pending("call") EXCEPT !.base = NextFree, !.name = f].kind = "call"
      BY DEF Pending
    <3>. QED  BY <3>1, <3>2
  <2>3. CASE ReturnStmt
    <3>1. acts' = Append(acts, [Pending("return") EXCEPT !.nth = Len(calls)])
      BY <2>3 DEF ReturnStmt, EvalWith
    <3>2. [Pending("return") EXCEPT !.nth = Len(calls)].kind = "return"
      BY DEF Pending
    <3>. QED  BY <3>1, <3>2
  <2>4. CASE AssignArray
    <3>1. PICK p \in ArrayPlaces :
            acts' = Append(acts, [Pending("index") EXCEPT !.base = p.addr,
                                                          !.len = p.type.size - 4])
      BY <2>4 DEF AssignArray, EvalWith
    <3>2. [Pending("index") EXCEPT !.base = p.addr, !.len = p.type.size - 4].kind = "index"
      BY DEF Pending
    <3>. QED  BY <3>1, <3>2
  <2>5. CASE EvalUnary \/ EvalBinary \/ Let \/ Set \/ CreateArray \/ PrintVal \/ Loop \/ If
    <3>1. PICK kind \in {"unary", "left", "let", "set", "array", "print_val", "loop", "if"} :
            acts' = Append(acts, Pending(kind))
      BY <2>5 DEF EvalUnary, EvalBinary, Let, Set, CreateArray, PrintVal, Loop, If, EvalWith
    <3>2. Pending(kind).kind = kind
      BY DEF Pending
    <3>. QED  BY <3>1, <3>2
  <2>. QED  BY <2>1, <2>2, <2>3, <2>4, <2>5
<1>3. Holds(a)
  BY <1>2 DEF Holds
<1>. QED  BY <1>1, <1>2, <1>3, SilentWorks

LEMMA ExpressionWorks ==
  ASSUME OInv, Known, Coded(out), ElementRead \/ UnaryFlip \/ FoldOnTape \/ BindValue
  PROVE  Works
<1>1. mode = "value" /\ acts # <<>> /\ Top \in Activation /\ Top.nth \in Nat
  <2>1. mode = "value"
    BY DEF ElementRead, UnaryFlip, FoldOnTape, FoldOnTapeBy, BindValue, Resume
  <2>2. acts # <<>> /\ Top \in Activation
    BY <2>1, ValueOwned
  <2>. QED  BY <2>1, <2>2, ActivationTypes
<1>2. Wrote(out, out', Beyond(Floor(Top)) \cup Header)
  BY ExpressionWrites
<1>3. Coded(out') /\ Changed \subseteq Beyond(Floor(Top)) \cup Header
  BY <1>2, CellsChanged, WroteCoded
<1>4. Changed \subseteq Sphere
  BY <1>3 DEF Header, Sphere, Refs
<1>5. \/ acts' = Under
      \/ \E a : acts' = TopBecomes(a) /\ Holds(a) /\ a # Top
  <2>1. CASE ElementRead \/ UnaryFlip \/ FoldOnTape
    BY <2>1 DEF ElementRead, UnaryFlip, FoldOnTape, FoldOnTapeBy, Return
  <2>2. CASE BindValue
    <3>. DEFINE a == Bound(Top, Variable(Top.mark, IntegerType, 1))
    <3>1. acts' = TopBecomes(a) /\ Top.kind = "call"
      BY <2>2 DEF BindValue, BindWith, Resume
    <3>2. a.kind = "call" /\ a.nth = Top.nth + 1
      BY <1>1, <3>1 DEF Bound, Activation
    <3>. HIDE DEF a
    <3>3. Holds(a) /\ a # Top
      BY <1>1, <3>2 DEF Holds
    <3>. QED  BY <3>1, <3>3
  <2>. QED  BY <2>1, <2>2
<1>. QED  BY <1>1, <1>3, <1>4, <1>5 DEF Works, Unwinds

LEMMA StatementWorks ==
  ASSUME OInv, Known, Coded(out),
         \/ ReturnValue \/ LetValue \/ SetValue \/ IndexEvaluated \/ StoreValue
         \/ ValuePrinted \/ LoopEnter \/ IfEnter
         \/ LoopLeave \/ IfLeave \/ EndCallInExpr \/ EndCallStmt
  PROVE  Works
<1>1. Wrote(out, out', Sphere)
  BY StatementWrites, EndWrites
<1>2. Coded(out') /\ Changed \subseteq Sphere
  BY <1>1, CellsChanged, WroteCoded
<1>3. CASE LoopLeave \/ IfLeave \/ EndCallInExpr \/ EndCallStmt
  <2>1. mode = "stmt" /\ acts # <<>>
    BY <1>3 DEF LoopLeave, IfLeave, EndCallInExpr, EndCallStmt, BodyEnds
  <2>2. CASE acts' = Under
    BY <1>2, <2>1, <2>2 DEF Works, Unwinds, ExpressionStep
  <2>3. CASE acts' # Under
    <3>1. acts' = acts /\ out' = out
      BY <1>3, <2>3 DEF LoopLeave, IfLeave, Leave, EndCallInExpr, EndCallStmt, Reject, Return,
         StmtWith
    <3>. QED  BY <3>1, SilentWorks
  <2>. QED  BY <2>2, <2>3
<1>4. CASE ReturnValue \/ LetValue \/ SetValue \/ IndexEvaluated \/ StoreValue
           \/ ValuePrinted \/ LoopEnter \/ IfEnter
  <2>1. mode = "value" /\ Top.kind \in StmtKinds
    BY <1>4 DEF ReturnValue, LetValue, LetValueOf, SetValue, SetValueAt, IndexEvaluated,
       StoreValue, ValuePrinted, LoopEnter, IfEnter, Resume, StmtKinds
  <2>2. acts # <<>> /\ Top \in Activation
    BY <2>1, ValueOwned
  <2>3. ~ExpressionStep
    BY <2>1 DEF ExpressionStep, StmtKinds
  <2>4. CASE IndexEvaluated
    <3>. DEFINE x == IF res.type = "TEMP" THEN Temp(Top.mark) ELSE res
                a == [Top EXCEPT !.kind = "store", !.held = x]
    <3>1. acts' = TopBecomes(a) /\ Top.kind = "index"
      BY <2>4 DEF IndexEvaluated, EvalWith, Resume
    <3>2. a.kind = "store"
      BY <2>2 DEF Activation
    <3>. HIDE DEF a
    <3>3. Holds(a) /\ a # Top
      BY <3>1, <3>2 DEF Holds
    <3>. QED  BY <1>2, <2>2, <2>3, <3>1, <3>3 DEF Works, Unwinds
  <2>5. CASE LoopEnter \/ IfEnter
    <3>1. PICK kind, cell, next, o :
            /\ kind \in {"loopbody", "ifbody"}
            /\ Enter(kind, cell, next, o) /\ Top.kind \in {"loop", "if"}
            /\ cell.type \in {"ADDRESS", "TEMP"} /\ (kind = "ifbody" => cell.type = "TEMP")
      <4>1. CASE LoopEnter
        <5>. DEFINE c == IF res.type = "ADDRESS" THEN res.val ELSE Top.mark
                    h == IF res.type = "ADDRESS" THEN res ELSE Temp(c)
        <5>1. \E next, o : Enter("loopbody", h, next, o)
          BY <4>1 DEF LoopEnter
        <5>2. h.type \in {"ADDRESS", "TEMP"}
          BY DEF Temp
        <5>3. Top.kind = "loop"
          BY <4>1 DEF LoopEnter, Resume
        <5>. HIDE DEF h
        <5>. QED  BY <5>1, <5>2, <5>3
      <4>2. CASE IfEnter
        <5>1. \E next, o : Enter("ifbody", Temp(Top.mark), next, o)
          BY <4>2 DEF IfEnter
        <5>2. Temp(Top.mark).type = "TEMP"
          BY DEF Temp
        <5>3. Top.kind = "if"
          BY <4>2 DEF IfEnter, Resume
        <5>. QED  BY <5>1, <5>2, <5>3
      <4>. QED  BY <2>5, <4>1, <4>2
    <3>. DEFINE a == [Top EXCEPT !.kind = kind, !.scope = Depth + 1, !.mark = next,
                                 !.held = cell, !.before = o.dirty]
    <3>2. acts' = TopBecomes(a)
      BY <3>1 DEF Enter, StmtWith
    <3>3. a.kind = kind /\ a.held = cell
      BY <2>2 DEF Activation
    <3>. HIDE DEF a
    <3>4. Holds(a) /\ a # Top
      BY <3>1, <3>3 DEF Holds
    <3>. QED  BY <1>2, <2>2, <2>3, <3>2, <3>4 DEF Works, Unwinds
  <2>6. CASE ReturnValue \/ LetValue \/ SetValue \/ StoreValue \/ ValuePrinted
    <3>1. acts' = Under
      BY <2>6 DEF ReturnValue, LetValue, LetValueOf, SetValue, SetValueAt, StoreValue,
         ValuePrinted, StmtWith
    <3>. QED  BY <1>2, <2>2, <2>3, <3>1 DEF Works, Unwinds
  <2>. QED  BY <1>4, <2>4, <2>5, <2>6
<1>. QED  BY <1>3, <1>4

LEMMA SittingWorks ==
  ASSUME OInv, Coded(out), ~Misprints, EvalReadChar \/ LetString \/ PrintStr
  PROVE  Works
<1>1. acts' = acts
  BY DEF EvalReadChar, LetString, PrintStr, Return
<1>2. ExpressionStep => Changed \subseteq Beyond(NextFree)
  <2>1. CASE EvalReadChar
    <3>1. Wrote(out, out', {NextFree}) /\ NextFree \in Nat
      BY <2>1, TapeWrites, FloorOfNext DEF EvalReadChar
    <3>. QED  BY <3>1, CellsChanged DEF Beyond
  <2>2. CASE LetString \/ PrintStr
    BY <2>2 DEF LetString, PrintStr, Stmt, ExpressionStep
  <2>. QED  BY <2>1, <2>2
<1>. QED  BY <1>1, <1>2, SitWrites DEF Works, Sits

LEMMA StepWorks ==
  ASSUME OInv, Known, Coded(out), [Next]_vars, ~Misprints
  PROVE  Works
<1>1. CASE UNCHANGED vars \/ Finish \/ Illegal \/ Terminated
  BY <1>1, SilentSteps
<1>2. CASE Eval
  BY <1>2, SilentSteps, WaitingSteps, SittingWorks DEF Eval
<1>3. CASE Resumption
  BY <1>3, SilentSteps, ExpressionWorks, StatementWorks DEF Resumption
<1>4. CASE Statement
  BY <1>4, SilentSteps, WaitingSteps, SittingWorks DEF Statement
<1>5. CASE Calling
  BY <1>5, SilentSteps, StatementWorks DEF Calling
<1>6. CASE LoopLeave \/ IfLeave
  BY <1>6, StatementWorks
<1>. QED  BY <1>1, <1>2, <1>3, <1>4, <1>5, <1>6 DEF Next

-----------------------------------------------------------------------------
(* The code is a sequence, and what is held is known.                      *)

\* The activations, but for the top one, are what they were.
LEMMA Rearranged ==
  ASSUME IInv, NEW n, n = Len(acts)
  PROVE  /\ n \in Nat
         /\ \A a : acts' = Append(acts, a) =>
              Len(acts') = n + 1 /\ acts'[n + 1] = a /\ \A i \in 1..n : acts'[i] = acts[i]
         /\ acts # <<>> /\ acts' = Under =>
              n >= 1 /\ Len(acts') = n - 1 /\ \A i \in 1..(n - 1) : acts'[i] = acts[i]
         /\ \A a : acts # <<>> /\ acts' = TopBecomes(a) =>
              /\ n >= 1 /\ Len(acts') = n /\ acts'[n] = a
              /\ \A i \in 1..(n - 1) : acts'[i] = acts[i]
<1>1. acts \in Seq(Activation) /\ n \in Nat
  BY DEF IInv, Types, StackTypes
<1>2. \A a : acts \in Seq(Activation \cup {a}) /\ a \in Activation \cup {a}
  BY <1>1
<1>3. ASSUME NEW a, acts' = Append(acts, a)
      PROVE  Len(acts') = n + 1 /\ acts'[n + 1] = a /\ \A i \in 1..n : acts'[i] = acts[i]
  BY <1>2, <1>3, Pushed
<1>4. acts # <<>> => n >= 1
  BY <1>1
<1>5. ASSUME acts # <<>>, acts' = Under
      PROVE  n >= 1 /\ Len(acts') = n - 1 /\ \A i \in 1..(n - 1) : acts'[i] = acts[i]
  <2>1. 1 \in Nat /\ 1 <= Len(acts)
    BY <1>1, <1>4, <1>5
  <2>2. /\ Len(Pop(acts, 1)) = Len(acts) - 1
        /\ \A i \in 1..(Len(acts) - 1) : Pop(acts, 1)[i] = acts[i]
    BY <1>1, <2>1, Popped
  <2>. QED  BY <1>4, <1>5, <2>2 DEF Under
<1>6. ASSUME NEW a, acts # <<>>, acts' = TopBecomes(a)
      PROVE  /\ n >= 1 /\ Len(acts') = n /\ acts'[n] = a
             /\ \A i \in 1..(n - 1) : acts'[i] = acts[i]
  <2>. DEFINE X == Activation \cup {a}
  <2>1. LET s == Append(Pop(acts, 1), a)
        IN  Len(s) = Len(acts) /\ s[Len(acts)] = a /\ \A i \in 1..(Len(acts) - 1) : s[i] = acts[i]
    <3>1. acts \in Seq(X) /\ a \in X
      BY <1>2
    <3>. HIDE DEF X
    <3>. QED  BY <1>6, <3>1, Replaced
  <2>. QED  BY <1>4, <1>6, <2>1 DEF TopBecomes, Under
<1>. QED  BY <1>1, <1>3, <1>5, <1>6

LEMMA PrintsKnown ==
  ASSUME Known, Coded(out), PrintStr
  PROVE  Known' /\ Coded(out')
<1>1. acts' = acts
  BY DEF PrintStr
<1>2. PICK p \in Places : out' = Ouz(Mov(out, p.addr + 3, 0), p.addr)
  BY DEF PrintStr
<1>. DEFINE e == Mov(out, p.addr + 3, 0)
<1>3. Wrote(out, e, {p.addr + 3})
  BY TapeWrites
<1>. HIDE DEF e
<1>4. Wrote(e, Ouz(e, p.addr), {p.addr + 3})
  BY <1>3, TapeWrites, WroteCoded
<1>. QED  BY <1>1, <1>2, <1>4, WroteCoded DEF Known, e

LEMMA WorksKnown ==
  ASSUME IInv, Known, Works
  PROVE  Known' /\ Coded(out')
<1>. DEFINE n == Len(acts)
<1>1. n \in Nat /\ \A i \in 1..n : Holds(acts[i])
  BY Rearranged DEF Known
<1>. HIDE DEF n
<1>. SUFFICES ASSUME NEW i \in 1..Len(acts')
              PROVE  Holds(acts'[i])
  BY DEF Works, Known
<1>2. CASE Sits
  BY <1>1, <1>2 DEF Sits, n
<1>3. CASE Waits
  <2>1. PICK a : acts' = Append(acts, a) /\ Holds(a)
    BY <1>3 DEF Waits
  <2>2. Len(acts') = n + 1 /\ acts'[n + 1] = a /\ \A j \in 1..n : acts'[j] = acts[j]
    BY <2>1, Rearranged DEF n
  <2>3. i = n + 1 \/ i \in 1..n
    BY <1>1, <2>2
  <2>. QED  BY <1>1, <2>1, <2>2, <2>3
<1>4. CASE Unwinds
  <2>1. CASE acts' = Under
    <3>1. n >= 1 /\ Len(acts') = n - 1 /\ \A j \in 1..(n - 1) : acts'[j] = acts[j]
      BY <1>4, <2>1, Rearranged DEF n, Unwinds
    <3>2. i \in 1..(n - 1) /\ i \in 1..n
      BY <1>1, <3>1
    <3>. QED  BY <1>1, <3>1, <3>2
  <2>2. CASE acts' # Under
    <3>1. PICK a : acts' = TopBecomes(a) /\ Holds(a)
      BY <1>4, <2>2 DEF Unwinds
    <3>2. n >= 1 /\ Len(acts') = n /\ acts'[n] = a /\ \A j \in 1..(n - 1) : acts'[j] = acts[j]
      BY <1>4, <3>1, Rearranged DEF n, Unwinds
    <3>3. i = n \/ (i \in 1..(n - 1) /\ i \in 1..n)
      BY <1>1, <3>2
    <3>. QED  BY <1>1, <3>1, <3>2, <3>3
  <2>. QED  BY <2>1, <2>2
<1>. QED  BY <1>2, <1>3, <1>4 DEF Works

LEMMA SittingKnown ==
  ASSUME OInv, Known, Coded(out), EvalReadChar \/ LetString
  PROVE  Known' /\ Coded(out')
<1>1. acts' = acts
  BY DEF EvalReadChar, LetString, Return
<1>2. Wrote(out, ReadChar(out, NextFree), {NextFree})
  BY TapeWrites
<1>3. \A n : Wrote(out, InsertString(out, NextFree, n), (NextFree + 4)..(NextFree + 3 + n))
  BY TapeWrites
<1>4. \E cells : Wrote(out, out', cells)
  BY <1>2, <1>3 DEF EvalReadChar, LetString
<1>. QED  BY <1>1, <1>4, WroteCoded DEF Known

LEMMA StepKnown ==
  ASSUME OInv, Known, Coded(out), [Next]_vars
  PROVE  Known' /\ Coded(out')
<1>1. CASE UNCHANGED vars \/ Finish \/ Illegal \/ Terminated
  BY <1>1, SilentSteps, WorksKnown DEF OInv
<1>2. CASE Eval
  BY <1>2, SilentSteps, WaitingSteps, SittingKnown, WorksKnown DEF Eval, OInv
<1>3. CASE Resumption
  BY <1>3, SilentSteps, ExpressionWorks, StatementWorks, WorksKnown DEF Resumption, OInv
<1>4. CASE Statement
  BY <1>4, SilentSteps, WaitingSteps, SittingKnown, PrintsKnown, WorksKnown DEF Statement, OInv
<1>5. CASE Calling
  BY <1>5, SilentSteps, StatementWorks, WorksKnown DEF Calling, OInv
<1>6. CASE LoopLeave \/ IfLeave
  BY <1>6, StatementWorks, WorksKnown DEF OInv
<1>. QED  BY <1>1, <1>2, <1>3, <1>4, <1>5, <1>6 DEF Next

LEMMA InitKnown == Init => Known /\ Coded(out)
<1>. SUFFICES ASSUME Init
              PROVE  Known /\ Coded(out)
  OBVIOUS
<1>1. acts = <<>> /\ out.code = <<>>
  BY DEF Init, NoOutput
<1>2. Len(acts) = 0 /\ out.code \in Seq({})
  BY <1>1
<1>. QED  BY <1>1, <1>2 DEF Known, Coded

LEMMA KnownKept == Spec => [](OInv /\ Known /\ Coded(out))
<1>1. OInv /\ Known /\ Coded(out) /\ [Next]_vars => (OInv /\ Known /\ Coded(out))'
  BY StepOwned, StepKnown
<1>. QED  BY <1>1, InitOwned, InitKnown, PTL DEF Spec

-----------------------------------------------------------------------------
(* Values that wait.                                                       *)

\* What waits is in no variable, and below what is taken above it.
LEMMA HeldBelow ==
  ASSUME OInv, NEW i \in 1..Len(acts), NEW c \in HeldCells(acts[i])
  PROVE  /\ c \in Nat /\ c < NextFree
         /\ \A o \in Owners : c \notin CellsOf(VarOf(o))
         /\ i < Len(acts) => c < Floor(Top)
<1>1. Typed /\ acts[i] \in Activation
  BY StatesTyped DEF OInv, Typed
<1>2. c \in UNION {HeldCells(acts[j]) : j \in 1..Len(acts)}
  OBVIOUS
<1>3. c < NextFree /\ \A o \in Owners : c \notin CellsOf(VarOf(o))
  BY <1>2 DEF OInv, TempsOwned
<1>4. \/ acts[i].held.type = "TEMP" /\ c = acts[i].held.val
      \/ acts[i].kind = "call" /\ \E n \in Names : c \in CellsOf(acts[i].binds[n])
  BY <1>1, Held
<1>5. c \in Nat /\ (i < Len(acts) => c < Ceiling(acts[i]))
  <2>1. CASE acts[i].held.type = "TEMP" /\ c = acts[i].held.val
    BY <1>1, <2>1 DEF OInv, Owned, Keeps, Typed
  <2>2. CASE acts[i].kind = "call" /\ \E n \in Names : c \in CellsOf(acts[i].binds[n])
    <3>1. PICK n \in Names : c \in CellsOf(acts[i].binds[n])
      BY <2>2
    <3>2. acts[i].binds[n] \in Variables
      BY <1>1, ActivationTypes
    <3>3. c \in Nat /\ acts[i].binds[n].len > 0 /\ c < EndOf(acts[i].binds[n])
      BY <3>1, <3>2, Cells
    <3>4. i < Len(acts) => EndOf(acts[i].binds[n]) <= acts[i].mark
      BY <2>2, <3>3 DEF OInv, Owned, Bindings
    <3>. QED  BY <1>1, <3>2, <3>3, <3>4, VariableCells, ActivationTypes
  <2>. QED  BY <1>4, <2>1, <2>2
<1>6. i < Len(acts) => c < Floor(Top)
  <2>1. ASSUME i < Len(acts)
        PROVE  acts # <<>> /\ i \in 1..(Len(acts) - 1) /\ Len(acts) \in Nat
    BY <1>1, <2>1 DEF Typed
  <2>. QED  BY <1>1, <1>5, <2>1, FloorOfTop, ActivationTypes
<1>. QED  BY <1>1, <1>3, <1>5, <1>6 DEF Typed

\* What the program names is in a variable, as is what the top activation refers
\* to.
LEMMA NamedOwned ==
  ASSUME Fitting, OInv, ZInv
  PROVE  /\ \A c \in Placed : \E o \in Owners : c \in CellsOf(VarOf(o))
         /\ acts # <<>> =>
              \A c \in Refs(Top) \cup Header : \E o \in Owners : c \in CellsOf(VarOf(o))
<1>1. IInv /\ Backings
  BY DEF OInv, ZInv
<1>2. ASSUME NEW cells, NEW k, Anchored(cells, k), NEW c \in cells
      PROVE  \E o \in Owners : c \in CellsOf(VarOf(o))
  BY <1>2 DEF Anchored
<1>3. ASSUME NEW c \in Placed
      PROVE  \E o \in Owners : c \in CellsOf(VarOf(o))
  <2>1. CASE c \in {p.addr : p \in ArgPlaces}
    BY <1>1, <1>2, <2>1, PlacesAnchored
  <2>2. CASE c \in UNION {p.addr..(p.addr + 3) : p \in ArrayPlaces}
    <3>1. PICK p \in ArrayPlaces : c \in p.addr..(p.addr + 3)
      BY <2>2
    <3>2. p \in ArgPlaces /\ p.addr \in Nat /\ p.type \in KnownTypes /\ p.type.class = "ARRAY"
          /\ Anchored(Reached(p), Depth)
      BY <1>1, <3>1, PlacesAnchored DEF ArrayPlaces
    <3>3. p.type.size \in Nat /\ p.type.size >= 4
      BY <3>2, SizesKnown
    <3>4. c \in Reached(p)
      BY <3>1, <3>2, <3>3 DEF Reached, TypedCellsOf
    <3>. QED  BY <1>2, <3>2, <3>4
  <2>. QED  BY <1>3, <2>1, <2>2 DEF Placed
<1>4. ASSUME acts # <<>>, NEW c \in Refs(Top) \cup Header
      PROVE  \E o \in Owners : c \in CellsOf(VarOf(o))
  <2>1. Len(acts) \in 1..Len(acts) /\ Top = acts[Len(acts)]
    BY <1>1, <1>4 DEF IInv, Types, StackTypes, Top
  <2>2. c \in Refs(Top)
    BY <1>4 DEF Refs, Header
  <2>3. CASE Top.kind = "element"
    BY <1>1, <1>2, <2>1, <2>2, <2>3 DEF Backings, Refs
  <2>4. CASE Top.kind \in {"index", "store"}
    BY <1>1, <1>2, <2>1, <2>2, <2>4 DEF Backings, Refs
  <2>5. CASE Top.kind = "loopbody" /\ Top.held.type = "ADDRESS"
    BY <1>1, <1>2, <2>1, <2>2, <2>5 DEF Backings, Refs
  <2>. QED  BY <2>2, <2>3, <2>4, <2>5 DEF Refs
<1>. QED  BY <1>3, <1>4

\* What HeldUntouched says of a step.
HeldStays ==
  ~Misprints => \A i \in 1..Len(acts) :
    i <= Len(acts') /\ acts'[i] = acts[i] => Changed \cap HeldCells(acts[i]) = {}

LEMMA StepHeldStays ==
  ASSUME Fitting, OInv, ZInv, Known, Coded(out), [Next]_vars
  PROVE  HeldStays
<1>. SUFFICES ASSUME ~Misprints, NEW i \in 1..Len(acts), i <= Len(acts'), acts'[i] = acts[i],
                     NEW c \in HeldCells(acts[i]), c \in Changed
              PROVE  FALSE
  BY DEF HeldStays
<1>1. /\ c \in Nat /\ c < NextFree /\ NextFree \in Nat
      /\ \A o \in Owners : c \notin CellsOf(VarOf(o))
      /\ i < Len(acts) => c < Floor(Top)
  BY HeldBelow, FloorOfNext
<1>2. Works
  BY StepWorks
<1>3. c \notin Placed /\ (acts # <<>> => c \notin Refs(Top))
  BY <1>1, NamedOwned
<1>4. CASE Sits
  BY <1>1, <1>3, <1>4 DEF Sits, Beyond
<1>5. CASE Waits
  BY <1>5 DEF Waits
<1>6. CASE Unwinds
  <2>1. acts # <<>> /\ c \in Sphere
    BY <1>6 DEF Unwinds
  <2>2. Floor(Top) \in Nat /\ c >= Floor(Top)
    BY <1>3, <2>1, FloorOfTop DEF Sphere, Beyond
  <2>3. i = Len(acts) /\ Len(acts) \in Nat
    <3>1. Len(acts) \in Nat /\ IInv
      BY StatesTyped DEF OInv, Typed
    <3>. QED  BY <1>1, <2>2, <3>1
  <2>4. IInv
    BY DEF OInv
  <2>5. CASE acts' = Under
    <3>1. Len(acts') = Len(acts) - 1
      BY <2>1, <2>4, <2>5, Rearranged
    <3>. QED  BY <2>3, <3>1
  <2>6. CASE acts' # Under
    <3>1. PICK a : acts' = TopBecomes(a) /\ a # Top
      BY <1>6, <2>6 DEF Unwinds
    <3>2. acts'[Len(acts)] = a
      BY <2>1, <2>4, <3>1, Rearranged
    <3>. QED  BY <2>3, <3>1, <3>2 DEF Top
  <2>. QED  BY <2>5, <2>6
<1>. QED  BY <1>2, <1>4, <1>5, <1>6 DEF Works

\* codegen.h:19, "A scratch cell owned by the evaluator": whatever a program that
\* fits its types compiles to, and however deep the evaluations, blocks and calls
\* nest, no instruction changes the cell of an operand, an index, an argument, a
\* counter or a flag while it waits, but for a misuse of print_str.
THEOREM HeldKept == Fitting => (Spec => HeldUntouched)
<1>. SUFFICES ASSUME Fitting
              PROVE  Spec => HeldUntouched
  OBVIOUS
<1>1. OInv /\ ZInv /\ Known /\ Coded(out) /\ [Next]_vars => [HeldStays]_vars
  BY StepHeldStays
<1>. QED  BY <1>1, CleanKept, KnownKept, PTL DEF Spec, HeldUntouched, HeldStays

-----------------------------------------------------------------------------
(* Expressions are read-only.                                              *)

\* What ExpressionsReadOnly says of a step.
ReadsOnly ==
  ExpressionStep =>
    LET header == IF Top.kind = "element" THEN Top.base..(Top.base + 3) ELSE {}
    IN  \A o \in Owners : Changed \cap CellsOf(VarOf(o)) \subseteq header

\* The one leaf that writes takes a cell of its own.
LEMMA LeavesRead ==
  ASSUME OInv, Coded(out), EvalReadChar, NEW o \in Owners
  PROVE  Changed \cap CellsOf(VarOf(o)) = {}
<1>1. Wrote(out, out', {NextFree})
  BY TapeWrites DEF EvalReadChar
<1>2. Changed \subseteq {NextFree}
  BY <1>1, CellsChanged
<1>3. NextFree \in Nat /\ EndOf(VarOf(o)) <= NextFree /\ EndOf(VarOf(o)) \in Nat
      /\ VarOf(o) \in Variables
  BY FloorOfNext, StatesTyped DEF OInv, Typed
<1>4. NextFree \notin CellsOf(VarOf(o))
  BY <1>3, Cells
<1>. QED  BY <1>2, <1>4

LEMMA StepReadsOnly ==
  ASSUME OInv, Known, Coded(out), [Next]_vars
  PROVE  ReadsOnly
<1>. SUFFICES ASSUME ExpressionStep, NEW o \in Owners
              PROVE  Changed \cap CellsOf(VarOf(o)) \subseteq Header
  BY DEF ReadsOnly, Header
<1>1. IInv /\ ModeShape
  BY DEF OInv, IInv
<1>2. acts # <<>> /\ Top.kind \notin Blocks
  BY <1>1 DEF ExpressionStep, ModeShape
<1>3. Floor(Top) \in Nat /\ EndOf(VarOf(o)) <= Floor(Top) /\ VarOf(o) \in Variables
      /\ EndOf(VarOf(o)) \in Nat
  BY <1>1, <1>2, FloorOfTop, StatesTyped DEF Typed
<1>4. Beyond(Floor(Top)) \cap CellsOf(VarOf(o)) = {}
  BY <1>3, Cells DEF Beyond
<1>5. CASE EvalReadChar
  BY <1>5, LeavesRead
<1>6. CASE ~EvalReadChar
  <2>1. Works
    <3>1. /\ mode \in {"expr", "value"}
          /\ mode = "value" => Top.kind \in {"element", "unary", "right", "call"}
      BY DEF ExpressionStep
    <3>2. CASE Eval
      BY <1>6, <3>2, SilentSteps, WaitingSteps DEF Eval
    <3>3. CASE Resumption
      BY <3>3, SilentSteps, ExpressionWorks, StatementWorks DEF Resumption
    <3>4. CASE UNCHANGED vars \/ Finish \/ Illegal \/ Terminated \/ BindAlias \/ BeginCall
      BY <3>4, SilentSteps
    <3>5. ~Statement /\ ~LoopLeave /\ ~IfLeave /\ ~EndCallInExpr /\ ~EndCallStmt
      BY <3>1 DEF Statement, Stmt, CallStmt, ReturnStmt, DefineFunction, LetString, LetStruct,
         Let, Set, CreateArray, AssignArray, PrintStr, PrintVal, Loop, If, LoopLeave, IfLeave,
         EndCallInExpr, EndCallStmt, BodyEnds
    <3>. QED  BY <3>2, <3>3, <3>4, <3>5 DEF Next, Calling
  <2>2. CASE Sits
    <3>1. Changed \subseteq Beyond(NextFree) /\ NextFree \in Nat
          /\ EndOf(VarOf(o)) <= NextFree
      BY <2>2, FloorOfNext DEF Sits
    <3>. QED  BY <1>3, <3>1, Cells DEF Beyond
  <2>3. CASE Waits
    BY <2>3 DEF Waits
  <2>4. CASE Unwinds
    BY <1>4, <2>4 DEF Unwinds
  <2>. QED  BY <2>1, <2>2, <2>3, <2>4 DEF Works
<1>. QED  BY <1>5, <1>6

\* codegen.h:15, "Read-only: it must never be operated on in place": whatever the
\* program, the code of an expression, short of the bodies it inlines, changes no
\* cell of a variable but the header of the array it indexes.
THEOREM ReadOnlyKept == Spec => ExpressionsReadOnly
<1>1. OInv /\ Known /\ Coded(out) /\ [Next]_vars => [ReadsOnly]_vars
  BY StepReadsOnly
<1>. QED  BY <1>1, KnownKept, PTL DEF Spec, ExpressionsReadOnly, ReadsOnly

-----------------------------------------------------------------------------
(* Bodies and what they are given.                                         *)

\* No struct is empty: a field of an empty type would lie behind its struct.
Filled == \A t \in StructTypes : t.size > 0

\* The frame of a body, and what its parameters are aliases of.
Span(a) ==
  Beyond(a.base) \cup
  UNION {TypedCellsOf(a.binds[n]) : n \in {m \in Declares(a.binds) : a.binds[m].len = 0}}

\* What an activation points to.
Given(a) ==
  IF a.kind = "call" THEN UNION {TypedCellsOf(a.binds[n]) : n \in Declares(a.binds)}
                     ELSE Refs(a)

\* These cells are in the spans of all bodies among the first m activations.
Inward(cells, m) == \A i \in 1..m : acts[i].kind = "body" => cells \subseteq Span(acts[i])

\* The variables declared since a body began, what the activations above it point
\* to and the place that is returned to them are in its span.
Confined ==
  \A i \in 1..Len(acts) : acts[i].kind = "body" =>
    /\ \A k \in acts[i].scope..Depth : \A n \in Declares(scopes[k].vars) :
         TypedCellsOf(scopes[k].vars[n]) \subseteq Span(acts[i])
    /\ \A j \in (i + 1)..Len(acts) : Given(acts[j]) \subseteq Span(acts[i])
    /\ mode = "value" /\ res.type = "ADDRESS" => res.val \in Span(acts[i])

LEMMA AboveBase ==
  ASSUME NEW v, v.addr \in Nat, NEW a, a.base \in Nat, a.base <= v.addr
  PROVE  TypedCellsOf(v) \subseteq Span(a)
BY DEF TypedCellsOf, Span, Beyond

\* Frames start below everything taken since.
LEMMA BasesBelow ==
  ASSUME OInv, NEW i \in 1..Len(acts), acts[i].kind = "body"
  PROVE  /\ acts[i].base \in Nat /\ acts[i].base <= NextFree /\ NextFree \in Nat
         /\ acts # <<>> /\ Floor(Top) \in Nat /\ acts[i].base <= Floor(Top)
         /\ Beyond(NextFree) \cup Beyond(Floor(Top)) \subseteq Span(acts[i])
<1>1. Typed
  BY StatesTyped DEF OInv
<1>2. /\ acts[i].base \in Nat /\ Floor(acts[i]) = acts[i].base
      /\ Ceiling(acts[i]) \in Nat /\ acts[i].base <= Ceiling(acts[i])
      /\ Ceiling(acts[i]) <= NextFree /\ NextFree \in Nat
  <2>1. Floor(acts[i]) = acts[i].base
    BY DEF Floor
  <2>2. /\ acts[i].base \in Nat /\ acts[i].mark \in Nat /\ Ceiling(acts[i]) \in Nat
        /\ acts[i].mark <= Ceiling(acts[i]) /\ NextFree \in Nat
    BY <1>1 DEF Typed
  <2>3. Floor(acts[i]) <= acts[i].mark /\ Ceiling(acts[i]) <= NextFree
    BY DEF OInv, Owned, Stacked
  <2>. QED  BY <2>1, <2>2, <2>3
<1>3. acts # <<>> /\ Floor(Top) \in Nat /\ acts[i].base <= Floor(Top)
  <2>1. acts # <<>> /\ Len(acts) \in Nat
    BY <1>1 DEF Typed
  <2>2. CASE i = Len(acts)
    BY <1>2, <2>1, <2>2 DEF Top
  <2>3. CASE i # Len(acts)
    <3>1. i \in 1..(Len(acts) - 1)
      BY <2>1, <2>3
    <3>2. Ceiling(acts[i]) <= Floor(Top) /\ Floor(Top) \in Nat
      BY <2>1, <3>1, FloorOfTop
    <3>. QED  BY <1>2, <2>1, <3>2
  <2>. QED  BY <2>2, <2>3
<1>. QED  BY <1>2, <1>3 DEF Span, Beyond

LEMMA TypesFilled ==
  ASSUME Filled, NEW p, p.addr \in Nat, p.type \in KnownTypes
  PROVE  /\ p.type.size \in Nat /\ p.addr \in TypedCellsOf(p)
         /\ p.type.class = "ARRAY" => p.addr..(p.addr + 3) \subseteq TypedCellsOf(p)
         /\ p.type.class = "ARRAY" => p.addr..(p.addr + 3 + (p.type.size - 4)) = TypedCellsOf(p)
<1>1. p.type.size \in Nat /\ p.type.size >= 1 /\ (p.type.class = "ARRAY" => p.type.size >= 4)
  <2>1. CASE p.type \in StructTypes
    BY <2>1, StructsAssumption DEF Filled
  <2>2. CASE p.type = IntegerType
    BY <2>2 DEF IntegerType
  <2>3. CASE \E n \in 0..Word : p.type = ArrayType(n)
    BY <2>3, BoundsAssumption DEF ArrayType
  <2>. QED  BY <2>1, <2>2, <2>3 DEF KnownTypes
<1>. DEFINE a == p.addr
            s == p.type.size
<1>2. TypedCellsOf(p) = a..(a + s - 1)
  BY DEF TypedCellsOf
<1>3. a \in Nat /\ s \in Nat /\ s >= 1 /\ (p.type.class = "ARRAY" => s >= 4)
  BY <1>1
<1>. HIDE DEF a, s
<1>4. a \in a..(a + s - 1) /\ (s >= 4 => a..(a + 3) \subseteq a..(a + s - 1))
  BY <1>3
<1>5. a + 3 + (s - 4) = a + s - 1
  BY <1>3
<1>6. p.addr = a /\ p.type.size = s
  BY DEF a, s
<1>. QED  BY <1>2, <1>3, <1>4, <1>5, <1>6

\* The places of a variable are in it.
LEMMA PlacesIn ==
  ASSUME NEW v \in Variables, NEW p \in FieldPlaces(v) \cup {PlaceOf(v)}
  PROVE  TypedCellsOf(p) \subseteq TypedCellsOf(v)
<1>1. v.addr \in Nat /\ v.type \in KnownTypes /\ v.type.size \in Nat
  BY TypesOfTypes DEF Variables
<1>2. CASE p = PlaceOf(v)
  BY <1>2 DEF PlaceOf, TypedCellsOf
<1>3. CASE p \in FieldPlaces(v)
  <2>1. PICK q \in v.type.places : p = [addr |-> v.addr + q.offset, type |-> q.type]
    BY <1>3 DEF FieldPlaces
  <2>2. v.type \in StructTypes
    BY <1>1, <2>1 DEF KnownTypes, IntegerType, ArrayType
  <2>3. q.offset \in Nat /\ q.type \in KnownTypes /\ q.offset + q.type.size <= v.type.size
    BY <2>1, <2>2, StructsAssumption
  <2>4. q.type.size \in Nat
    BY <2>3, TypesOfTypes
  <2>5. p.addr = v.addr + q.offset /\ p.type = q.type
    BY <2>1
  <2>. QED  BY <1>1, <2>3, <2>4, <2>5 DEF TypedCellsOf
<1>. QED  BY <1>2, <1>3

\* A body sees only what was declared since it began.
LEMMA BarrierAbove ==
  ASSUME IInv, NEW i \in 1..Len(acts), acts[i].kind = "body"
  PROVE  Barrier \in Nat /\ acts[i].scope \in Nat /\ acts[i].scope >= 1 /\ acts[i].scope <= Barrier
<1>1. StackTypes /\ Nested /\ CallsNest
  BY DEF IInv, Types, Nested
<1>2. /\ acts[i].scope \in Nat /\ acts[i].scope >= 1
      /\ \A k \in 1..Len(calls) : calls[k].scope_barrier \in Nat
  BY <1>1, ScopesBelow
<1>3. PICK k \in 1..Len(calls) : calls[k].scope_barrier = acts[i].scope
  BY <1>1 DEF CallsNest
<1>4. Len(calls) \in Nat /\ Len(calls) \in 1..Len(calls) /\ calls # <<>>
  BY <1>1, <1>3, StackFacts
<1>5. k < Len(calls) => calls[k].scope_barrier < calls[Len(calls)].scope_barrier
  BY <1>1, <1>4 DEF CallsNest
<1>6. calls[k].scope_barrier <= calls[Len(calls)].scope_barrier
  BY <1>2, <1>3, <1>4, <1>5
<1>. QED  BY <1>2, <1>3, <1>4, <1>6 DEF Barrier, CurrentCall

LEMMA PlacesInside ==
  ASSUME Filled, IInv, Confined, NEW p \in ArgPlaces
  PROVE  /\ p.addr \in Nat /\ p.type \in KnownTypes
         /\ Inward(TypedCellsOf(p), Len(acts)) /\ Inward({p.addr}, Len(acts))
<1>1. Types /\ Nested
  BY DEF IInv
<1>2. p.addr \in Nat /\ p.type \in KnownTypes
  BY <1>1, PlaceTypes
<1>3. p.addr \in TypedCellsOf(p)
  BY <1>2, TypesFilled
<1>4. PICK v \in Visible : p \in FieldPlaces(v) \cup {PlaceOf(v)}
  BY DEF ArgPlaces
<1>5. PICK n \in Names : v \in Resolve(n)
  BY <1>4 DEF Visible
<1>6. PICK k \in Holders(n) : v = scopes[k].vars[n]
  BY <1>5 DEF Resolve
<1>7. ASSUME NEW i \in 1..Len(acts), acts[i].kind = "body"
      PROVE  TypedCellsOf(p) \subseteq Span(acts[i])
  <2>1. Barrier \in Nat /\ acts[i].scope \in Nat /\ acts[i].scope <= Barrier /\ Depth \in Nat
        /\ acts[i].scope >= 1
    BY <1>1, <1>7, BarrierAbove, Context
  <2>2. k \in Barrier..Depth /\ n \in Declares(scopes[k].vars)
    BY <1>6 DEF Holders
  <2>3. k \in acts[i].scope..Depth /\ k \in 1..Depth
    BY <2>1, <2>2
  <2>4. TypedCellsOf(v) \subseteq Span(acts[i])
    BY <1>6, <1>7, <2>2, <2>3 DEF Confined
  <2>5. v \in Variables
    BY <1>1, <1>6, <2>3, Context
  <2>. QED  BY <1>4, <2>4, <2>5, PlacesIn
<1>. QED  BY <1>2, <1>3, <1>7 DEF Inward

LEMMA PlacedInside ==
  ASSUME Filled, IInv, Confined
  PROVE  Inward(Placed, Len(acts))
<1>1. \A p \in ArrayPlaces : p \in ArgPlaces /\ p.type.class = "ARRAY"
  BY DEF ArrayPlaces, Places, ArgPlaces
<1>2. \A p \in ArrayPlaces : p.addr..(p.addr + 3) \subseteq TypedCellsOf(p)
  BY <1>1, PlacesInside, TypesFilled
<1>. QED  BY <1>1, <1>2, PlacesInside DEF Inward, Placed

\* A variable after the step is one before it, none, or in the spans of the
\* bodies that go on.
Grown(m) ==
  \A k \in 1..Depth' : \A n \in Declares(scopes'[k].vars) :
    \/ k <= Depth /\ scopes'[k].vars[n] = scopes[k].vars[n]
    \/ Inward(TypedCellsOf(scopes'[k].vars[n]), m)

\* What is declared in the scopes of this body is in its span.
Framed(a) ==
  \A k \in a.scope..Depth' : \A n \in Declares(scopes'[k].vars) :
    TypedCellsOf(scopes'[k].vars[n]) \subseteq Span(a)

LEMMA ConfinedStep ==
  ASSUME IInv, IInv', Confined, NEW m, Kept(m), Grown(m),
         Len(acts') = m + 1 =>
           /\ Inward(Given(acts'[m + 1]), m)
           /\ acts'[m + 1].kind = "body" => mode' # "value" /\ Framed(acts'[m + 1]),
         mode' = "value" /\ res'.type = "ADDRESS" => Inward({res'.val}, m)
  PROVE  Confined'
<1>1. /\ m \in Nat /\ m <= Len(acts) /\ Len(acts) \in Nat /\ m <= Len(acts')
      /\ Len(acts') \in Nat /\ Len(acts') <= m + 1
      /\ \A i \in 1..Len(acts') :
           \/ i \in 1..m /\ i \in 1..Len(acts) /\ acts'[i] = acts[i]
           \/ i = m + 1 /\ Len(acts') = m + 1
  BY ActsAfter
<1>. SUFFICES ASSUME NEW i \in 1..Len(acts'), acts'[i].kind = "body"
              PROVE  /\ \A k \in acts'[i].scope..Depth' : \A n \in Declares(scopes'[k].vars) :
                          TypedCellsOf(scopes'[k].vars[n]) \subseteq Span(acts'[i])
                     /\ \A j \in (i + 1)..Len(acts') : Given(acts'[j]) \subseteq Span(acts'[i])
                     /\ mode' = "value" /\ res'.type = "ADDRESS" => res'.val \in Span(acts'[i])
  BY DEF Confined
<1>2. CASE i = m + 1 /\ Len(acts') = m + 1
  <2>1. \A j \in (i + 1)..Len(acts') : FALSE
    BY <1>1, <1>2
  <2>. QED  BY <1>2, <2>1 DEF Framed
<1>3. CASE i \in 1..m /\ i \in 1..Len(acts) /\ acts'[i] = acts[i]
  <2>2. i \in 1..m /\ i \in 1..Len(acts) /\ acts'[i] = acts[i] /\ acts[i].kind = "body"
    BY <1>3
  <2>. DEFINE span == Span(acts[i])
  <2>3. acts[i].scope \in Nat /\ acts[i].scope >= 1 /\ Depth \in Nat /\ Depth' \in Nat
    <3>1. StackTypes /\ Nested /\ Typed /\ Typed'
      BY StatesTyped, StatesTypedAfter DEF IInv, Types
    <3>. QED  BY <2>2, <3>1, ScopesBelow DEF Typed
  <2>4. ASSUME NEW k \in acts[i].scope..Depth', NEW n \in Declares(scopes'[k].vars)
        PROVE  TypedCellsOf(scopes'[k].vars[n]) \subseteq span
    <3>1. k \in 1..Depth' /\ n \in Names /\ scopes'[k].vars[n] # Undeclared
      BY <2>3 DEF Declares
    <3>2. CASE k <= Depth /\ scopes'[k].vars[n] = scopes[k].vars[n]
      <4>1. k \in acts[i].scope..Depth /\ n \in Declares(scopes[k].vars)
        BY <2>3, <3>1, <3>2 DEF Declares
      <4>. QED  BY <2>2, <3>2, <4>1 DEF Confined
    <3>3. CASE Inward(TypedCellsOf(scopes'[k].vars[n]), m)
      BY <2>2, <3>3 DEF Inward
    <3>. QED  BY <3>1, <3>2, <3>3 DEF Grown
  <2>5. ASSUME NEW j \in (i + 1)..Len(acts')
        PROVE  Given(acts'[j]) \subseteq span
    <3>1. CASE j \in 1..m /\ j \in 1..Len(acts) /\ acts'[j] = acts[j]
      <4>1. j \in (i + 1)..Len(acts)
        BY <1>1, <2>2, <3>1
      <4>. QED  BY <2>2, <3>1, <4>1 DEF Confined
    <3>2. CASE j = m + 1 /\ Len(acts') = m + 1
      BY <2>2, <3>2 DEF Inward
    <3>3. j \in 1..Len(acts')
      BY <1>1, <2>2
    <3>. QED  BY <1>1, <3>1, <3>2, <3>3
  <2>6. mode' = "value" /\ res'.type = "ADDRESS" => res'.val \in span
    BY <2>2 DEF Inward
  <2>. QED  BY <2>2, <2>4, <2>5, <2>6
<1>. QED  BY <1>1, <1>2, <1>3

LEMMA SameGrown ==
  ASSUME NEW m, SameVars, Depth \in Nat
  PROVE  Grown(m)
BY DEF SameVars, Grown

LEMMA ClosedGrown ==
  ASSUME NEW m, Depth \in Nat, Depth' = Depth - 1, SameVarsBelow(Depth - 1)
  PROVE  Grown(m)
BY DEF SameVarsBelow, Grown

LEMMA OpenedGrown ==
  ASSUME NEW m, Depth \in Nat, Depth' = Depth + 1, SameVarsBelow(Depth),
         \A n \in Declares(scopes'[Depth + 1].vars) :
           Inward(TypedCellsOf(scopes'[Depth + 1].vars[n]), m)
  PROVE  Grown(m)
<1>. SUFFICES ASSUME NEW k \in 1..Depth', NEW n \in Declares(scopes'[k].vars)
              PROVE  \/ k <= Depth /\ scopes'[k].vars[n] = scopes[k].vars[n]
                     \/ Inward(TypedCellsOf(scopes'[k].vars[n]), m)
  BY DEF Grown
<1>1. CASE k = Depth + 1
  BY <1>1
<1>2. CASE k # Depth + 1
  <2>1. k \in 1..Depth
    BY <1>2
  <2>. QED  BY <2>1 DEF SameVarsBelow
<1>. QED  BY <1>1, <1>2

LEMMA DeclaredGrown ==
  ASSUME OInv, NEW m \in 0..Len(acts), NEW n \in Names, NEW v, v.addr \in Nat, NEW next,
         scopes' = Declared(Depth, n, v, next),
         \A i \in 1..m : acts[i].kind = "body" => acts[i].base <= v.addr
  PROVE  Grown(m)
<1>1. IInv /\ Typed
  BY StatesTyped DEF OInv
<1>2. /\ Depth' = Depth /\ scopes'[Depth].vars[n] = v /\ Depth \in Nat
      /\ \A k \in 1..Depth, p \in Names :
           k # Depth \/ p # n => scopes'[k].vars[p] = scopes[k].vars[p]
  BY <1>1, VarDeclared DEF Typed
<1>3. Inward(TypedCellsOf(v), m)
  <2>1. \A i \in 1..m : i \in 1..Len(acts) /\ acts[i].base \in Nat
    BY <1>1 DEF Typed
  <2>. QED  BY <2>1, AboveBase DEF Inward
<1>. QED  BY <1>2, <1>3 DEF Grown, Declares

LEMMA InwardLess ==
  ASSUME NEW cells, NEW m \in Int, NEW n \in Int, m <= n, Inward(cells, n), NEW d,
         d \subseteq cells
  PROVE  Inward(d, m)
BY DEF Inward

\* What is given to the top activation, and the place returned to it.
LEMMA TopGiven ==
  ASSUME IInv, Confined, acts # <<>>
  PROVE  /\ Inward(Given(Top), Len(acts) - 1)
         /\ mode = "value" /\ res.type = "ADDRESS" => Inward({res.val}, Len(acts))
<1>1. Len(acts) \in Nat /\ Len(acts) >= 1 /\ Top = acts[Len(acts)]
  <2>1. StackTypes /\ Nested
    BY DEF IInv, Types
  <2>. QED  BY <2>1, TopFacts
<1>2. ASSUME NEW i \in 1..(Len(acts) - 1), acts[i].kind = "body"
      PROVE  Given(Top) \subseteq Span(acts[i])
  <2>1. i \in 1..Len(acts) /\ Len(acts) \in (i + 1)..Len(acts)
    BY <1>1
  <2>. QED  BY <1>1, <1>2, <2>1 DEF Confined
<1>. QED  BY <1>2 DEF Inward, Confined

LEMMA StayConfined ==
  ASSUME IInv, IInv', Confined, acts' = acts, Grown(Len(acts)),
         mode' = "value" /\ res'.type = "ADDRESS" => Inward({res'.val}, Len(acts))
  PROVE  Confined'
<1>1. Len(acts) \in Nat /\ acts' \in Seq(Activation)
  BY DEF IInv, Types, StackTypes
<1>2. Kept(Len(acts)) /\ Len(acts') # Len(acts) + 1
  BY <1>1 DEF Kept
<1>. QED  BY <1>2, ConfinedStep

LEMMA PushConfined ==
  ASSUME IInv, IInv', Confined, scopes' = scopes, mode' # "value",
         NEW a, acts' = Append(acts, a), a.kind # "body", Inward(Given(a), Len(acts))
  PROVE  Confined'
<1>. DEFINE n == Len(acts)
<1>1. n \in Nat /\ acts' \in Seq(Activation) /\ Depth \in Nat
  <2>1. Typed
    BY StatesTyped
  <2>. QED  BY <2>1 DEF Typed, IInv, Types, StackTypes
<1>2. Len(acts') = n + 1 /\ acts'[n + 1] = a /\ \A i \in 1..n : acts'[i] = acts[i]
  BY Rearranged
<1>3. Kept(n)
  BY <1>1, <1>2 DEF Kept
<1>4. Grown(n)
  BY <1>1, ScopesStay, SameGrown
<1>. QED  BY <1>2, <1>3, <1>4, ConfinedStep

LEMMA PopConfined ==
  ASSUME IInv, IInv', Confined, acts # <<>>, acts' = Under, Grown(Len(acts) - 1),
         mode' = "value" => res'.type # "ADDRESS"
  PROVE  Confined'
<1>. DEFINE n == Len(acts)
<1>1. n \in Nat /\ acts' \in Seq(Activation)
  BY DEF IInv, Types, StackTypes
<1>2. n >= 1 /\ Len(acts') = n - 1 /\ \A i \in 1..(n - 1) : acts'[i] = acts[i]
  BY Rearranged
<1>3. Kept(n - 1) /\ Len(acts') # (n - 1) + 1
  BY <1>1, <1>2 DEF Kept
<1>. QED  BY <1>3, ConfinedStep

LEMMA SwapConfined ==
  ASSUME IInv, IInv', Confined, acts # <<>>, Grown(Len(acts) - 1), mode' # "value",
         NEW a, acts' = TopBecomes(a), a.kind # "body", Inward(Given(a), Len(acts) - 1)
  PROVE  Confined'
<1>. DEFINE n == Len(acts)
<1>1. n \in Nat /\ acts' \in Seq(Activation)
  BY DEF IInv, Types, StackTypes
<1>2. n >= 1 /\ Len(acts') = n /\ acts'[n] = a /\ \A i \in 1..(n - 1) : acts'[i] = acts[i]
  BY Rearranged
<1>3. Kept(n - 1) /\ (n - 1) + 1 = n
  BY <1>1, <1>2 DEF Kept
<1>. QED  BY <1>2, <1>3, ConfinedStep

-----------------------------------------------------------------------------
(* Every step keeps bodies to what they are given.                         *)

LEMMA SitsConfined ==
  ASSUME Filled, OInv, IInv', Confined,
         \/ EvalNumber \/ EvalVar \/ EvalReadChar \/ LetString \/ LetStruct \/ PrintStr
         \/ DefineFunction \/ Finish \/ Illegal \/ Terminated \/ UNCHANGED vars
  PROVE  Confined'
<1>1. IInv /\ Depth \in Nat /\ Len(acts) \in Nat /\ NextFree \in Nat
  BY StatesTyped DEF OInv, Typed
<1>2. acts' = acts
  BY DEF EvalNumber, EvalVar, EvalReadChar, LetString, LetStruct, PrintStr, DefineFunction,
     Finish, Illegal, Reject, Terminated, vars, Return
<1>3. CASE LetString \/ LetStruct
  <2>1. PICK n, v, next :
            n \in Names /\ v.addr = NextFree /\ scopes' = Declared(Depth, n, v, next)
    <3>1. CASE LetString
      <4>1. PICK n \in Names, s \in Strings :
              scopes' = Declared(Depth, n, Variable(NextFree, ArrayType(s.size), s.size + 3),
                                 NextFree + s.size + 3)
        BY <3>1 DEF LetString
      <4>2. Variable(NextFree, ArrayType(s.size), s.size + 3).addr = NextFree
        BY DEF Variable
      <4>. QED  BY <4>1, <4>2
    <3>2. CASE LetStruct
      <4>1. PICK n \in Names, t \in StructTypes :
              scopes' = Declared(Depth, n, Variable(NextFree, t, t.size), NextFree + t.size)
        BY <3>2 DEF LetStruct
      <4>2. Variable(NextFree, t, t.size).addr = NextFree
        BY DEF Variable
      <4>. QED  BY <4>1, <4>2
    <3>. QED  BY <1>3, <3>1, <3>2
  <2>2. mode' # "value"
    BY <1>3 DEF LetString, LetStruct, Stmt
  <2>3. Grown(Len(acts))
    BY <1>1, <2>1, BasesBelow, DeclaredGrown
  <2>. QED  BY <1>1, <1>2, <2>2, <2>3, StayConfined
<1>4. CASE ~(LetString \/ LetStruct)
  <2>1. SameVars
    <3>1. CASE EvalReadChar
      BY <1>1, <3>1, NextChanged DEF EvalReadChar
    <3>2. CASE ~EvalReadChar
      <4>1. scopes' = scopes
        BY <1>4, <3>2 DEF EvalNumber, EvalVar, PrintStr, DefineFunction, Finish, Illegal,
           Reject, Terminated, vars
      <4>. QED  BY <4>1, ScopesStay
    <3>. QED  BY <3>1, <3>2
  <2>2. ASSUME mode' = "value", res'.type = "ADDRESS"
        PROVE  Inward({res'.val}, Len(acts))
    <3>1. CASE EvalVar
      <4>1. PICK p \in Places : res' = Address(p.addr)
        BY <3>1 DEF EvalVar, Return
      <4>2. p \in ArgPlaces
        BY DEF Places, ArgPlaces
      <4>3. res'.val = p.addr
        BY <4>1 DEF Address
      <4>. QED  BY <1>1, <4>2, <4>3, PlacesInside
    <3>2. CASE UNCHANGED <<acts, mode, res>>
      <4>1. mode = "value" /\ res.type = "ADDRESS" /\ res'.val = res.val
        BY <2>2, <3>2
      <4>2. acts # <<>>
        BY <4>1, ValueOwned
      <4>. QED  BY <1>1, <4>1, <4>2, TopGiven
    <3>3. CASE EvalNumber \/ EvalReadChar
      <4>1. res'.type # "ADDRESS"
        BY <3>3 DEF EvalNumber, EvalReadChar, Return, Const, Temp
      <4>. QED  BY <2>2, <4>1
    <3>4. CASE Finish \/ Illegal
      BY <2>2, <3>4 DEF Finish, Illegal, Reject
    <3>5. CASE PrintStr \/ DefineFunction \/ Terminated \/ UNCHANGED vars
      BY <3>2, <3>5 DEF PrintStr, DefineFunction, Terminated, vars
    <3>. QED  BY <1>4, <3>1, <3>3, <3>4, <3>5
  <2>. QED  BY <1>1, <1>2, <2>1, <2>2, SameGrown, StayConfined
<1>. QED  BY <1>3, <1>4

LEMMA PushesConfined ==
  ASSUME Filled, OInv, IInv', Confined,
         \/ EvalElement \/ EvalUnary \/ EvalBinary \/ EvalCall \/ CallStmt
         \/ ReturnStmt \/ Let \/ Set \/ CreateArray \/ AssignArray \/ PrintVal
         \/ Loop \/ If
  PROVE  Confined'
<1>1. IInv
  BY DEF OInv
<1>2. scopes' = scopes /\ mode' # "value"
  BY DEF EvalElement, EvalUnary, EvalBinary, EvalCall, CallStmt, CallBegins, ReturnStmt, Let,
     Set, CreateArray, AssignArray, PrintVal, Loop, If, EvalWith, BindWith
<1>3. CASE EvalElement \/ AssignArray
  <2>1. PICK p, a :
          /\ p \in ArrayPlaces
          /\ acts' = Append(acts, a) /\ a.base = p.addr
          /\ a.kind = "element" \/ (a.kind = "index" /\ a.len = p.type.size - 4)
    <3>1. CASE EvalElement
      <4>1. PICK p \in ArrayPlaces : acts' = Append(acts, [Pending("element") EXCEPT !.base = p.addr])
        BY <3>1 DEF EvalElement, EvalWith
      <4>. DEFINE a == [Pending("element") EXCEPT !.base = p.addr]
      <4>2. a.kind = "element" /\ a.base = p.addr
        BY DEF Pending
      <4>. HIDE DEF a
      <4>3. acts' = Append(acts, a)
        BY <4>1 DEF a
      <4>. QED  BY <4>2, <4>3
    <3>2. CASE AssignArray
      <4>1. PICK p \in ArrayPlaces :
              acts' = Append(acts, [Pending("index") EXCEPT !.base = p.addr,
                                                            !.len = p.type.size - 4])
        BY <3>2 DEF AssignArray, EvalWith
      <4>. DEFINE a == [Pending("index") EXCEPT !.base = p.addr, !.len = p.type.size - 4]
      <4>2. a.kind = "index" /\ a.base = p.addr /\ a.len = p.type.size - 4
        BY DEF Pending
      <4>3. acts' = Append(acts, a)
        BY <4>1
      <4>. HIDE DEF a
      <4>. QED  BY <4>2, <4>3
    <3>. QED  BY <1>3, <3>1, <3>2
  <2>2. p \in ArgPlaces /\ p.type.class = "ARRAY"
    BY <2>1 DEF ArrayPlaces, Places, ArgPlaces
  <2>3. /\ p.addr \in Nat /\ p.type \in KnownTypes /\ Inward(TypedCellsOf(p), Len(acts))
        /\ p.addr..(p.addr + 3) \subseteq TypedCellsOf(p)
        /\ p.addr..(p.addr + 3 + (p.type.size - 4)) = TypedCellsOf(p)
    BY <1>1, <2>2, PlacesInside, TypesFilled
  <2>4. Given(a) \subseteq TypedCellsOf(p)
    BY <2>1, <2>3 DEF Given, Refs
  <2>5. Inward(Given(a), Len(acts))
    BY <2>3, <2>4 DEF Inward
  <2>. QED  BY <1>1, <1>2, <2>1, <2>5, PushConfined
<1>4. CASE EvalCall \/ CallStmt
  <2>1. PICK f \in Funs : acts' = Append(acts, [Pending("call") EXCEPT !.base = NextFree,
                                                                      !.name = f])
    BY <1>4 DEF EvalCall, CallStmt, CallBegins, BindWith
  <2>. DEFINE a == [Pending("call") EXCEPT !.base = NextFree, !.name = f]
  <2>2. a.kind = "call" /\ a.binds = NoVars /\ acts' = Append(acts, a)
    BY <2>1 DEF Pending
  <2>. HIDE DEF a
  <2>3. Given(a) = {}
    BY <2>2 DEF Given, Declares, NoVars
  <2>4. Inward(Given(a), Len(acts))
    BY <2>3 DEF Inward
  <2>. QED  BY <1>1, <1>2, <2>2, <2>4, PushConfined
<1>5. CASE \/ EvalUnary \/ EvalBinary \/ ReturnStmt \/ Let \/ Set \/ CreateArray \/ PrintVal
           \/ Loop \/ If
  <2>1. PICK a : /\ acts' = Append(acts, a)
                 /\ a.kind \in {"unary", "left", "return", "let", "set", "array", "print_val",
                                "loop", "if"}
    <3>1. CASE ReturnStmt
      <4>1. acts' = Append(acts, [Pending("return") EXCEPT !.nth = Len(calls)])
        BY <3>1 DEF ReturnStmt, EvalWith
      <4>2. [Pending("return") EXCEPT !.nth = Len(calls)].kind = "return"
        BY DEF Pending
      <4>. QED  BY <4>1, <4>2
    <3>2. CASE ~ReturnStmt
      <4>1. PICK kind \in {"unary", "left", "let", "set", "array", "print_val", "loop", "if"} :
              acts' = Append(acts, Pending(kind))
        BY <1>5, <3>2 DEF EvalUnary, EvalBinary, Let, Set, CreateArray, PrintVal, Loop, If,
           EvalWith
      <4>2. Pending(kind).kind = kind
        BY DEF Pending
      <4>. QED  BY <4>1, <4>2
    <3>. QED  BY <3>1, <3>2
  <2>2. Given(a) = {} /\ a.kind # "body"
    BY <2>1 DEF Given, Refs
  <2>3. Inward(Given(a), Len(acts))
    BY <2>2 DEF Inward
  <2>. QED  BY <1>1, <1>2, <2>1, <2>2, <2>3, PushConfined
<1>. QED  BY <1>3, <1>4, <1>5

LEMMA NextOnly ==
  ASSUME IInv, NEW next, scopes' = WithNext(Depth, next)
  PROVE  SameVars
<1>1. /\ scopes \in Seq(Scope) /\ Depth = Len(scopes) /\ Depth \in 1..Depth /\ Depth \in Nat
      /\ scopes[Depth] \in Scope
  BY Context DEF IInv, Types, StackTypes, Depth
<1>2. Depth' = Depth
  BY <1>1 DEF WithNext, Depth
<1>3. scopes'[Depth] = [scopes[Depth] EXCEPT !.next = next]
  BY <1>1 DEF WithNext
<1>4. scopes'[Depth].vars = scopes[Depth].vars
  BY <1>1, <1>3 DEF Scope
<1>5. \A k \in 1..Depth : k # Depth => scopes'[k] = scopes[k]
  BY <1>1 DEF WithNext
<1>. QED  BY <1>2, <1>4, <1>5 DEF SameVars

\* A refused step.
LEMMA RejectConfined ==
  ASSUME IInv, IInv', Confined, UNCHANGED <<scopes, acts>>, mode' # "value"
  PROVE  Confined'
<1>1. Depth \in Nat
  BY StatesTyped DEF Typed
<1>2. Grown(Len(acts))
  BY <1>1, ScopesStay, SameGrown
<1>. QED  BY <1>2, StayConfined

LEMMA ReturnsConfined ==
  ASSUME OInv, IInv', Confined,
         ElementRead \/ UnaryConst \/ UnaryFlip \/ FoldConstants \/ FoldOnTape
  PROVE  Confined'
<1>1. IInv /\ Depth \in Nat /\ mode = "value"
  BY StatesTyped DEF OInv, Typed, ElementRead, UnaryConst, UnaryFlip, FoldConstants,
     FoldConstantsBy, FoldOnTape, FoldOnTapeBy, Resume
<1>2. acts # <<>> /\ Top.scope = Depth
  BY <1>1, ValueOwned
<1>3. CASE UNCHANGED <<scopes, acts>> /\ mode' = "error"
  BY <1>1, <1>3, RejectConfined
<1>4. CASE ~(UNCHANGED <<scopes, acts>> /\ mode' = "error")
  <2>1. /\ acts' = Under /\ res'.type # "ADDRESS"
        /\ scopes' = scopes \/ \E next : scopes' = WithNext(Depth, next)
    <3>1. CASE UnaryConst \/ FoldConstants
      BY <1>4, <3>1 DEF UnaryConst, FoldConstants, FoldConstantsBy, Reject, Return, Const
    <3>2. CASE ElementRead
      <4>1. acts' = Under /\ res' = Temp(Top.mark)
        BY <3>2 DEF ElementRead, Return
      <4>2. res.type \in {"CONST", "ADDRESS", "TEMP"}
        BY <1>1, ValueOwned
      <4>3. CASE res.type = "TEMP" /\ res.val # Top.mark
        BY <1>2, <3>2, <4>1, <4>3 DEF ElementRead, Temp
      <4>4. CASE res.type = "TEMP" /\ res.val = Top.mark
        BY <1>2, <3>2, <4>1, <4>4 DEF ElementRead, Temp
      <4>5. CASE res.type # "TEMP"
        BY <1>2, <3>2, <4>1, <4>5 DEF ElementRead, Temp
      <4>. QED  BY <4>3, <4>4, <4>5
    <3>3. CASE UnaryFlip
      <4>1. acts' = Under /\ res' = Temp(Top.mark) /\ res.type # "CONST"
        BY <3>3 DEF UnaryFlip, Return
      <4>2. res.type \in {"CONST", "ADDRESS", "TEMP"}
        BY <1>1, ValueOwned
      <4>3. CASE res.type = "ADDRESS"
        BY <1>2, <3>3, <4>1, <4>3 DEF UnaryFlip, Temp
      <4>4. CASE res.type = "TEMP" /\ res.val # Top.mark
        BY <1>2, <3>3, <4>1, <4>4 DEF UnaryFlip, Temp
      <4>5. CASE res.type = "TEMP" /\ res.val = Top.mark
        BY <1>2, <3>3, <4>1, <4>5 DEF UnaryFlip, Temp
      <4>. QED  BY <4>1, <4>2, <4>3, <4>4, <4>5
    <3>4. CASE FoldOnTape
      BY <1>2, <3>4 DEF FoldOnTape, FoldOnTapeBy, Return, Temp
    <3>. QED  BY <3>1, <3>2, <3>3, <3>4
  <2>2. SameVars
    BY <1>1, <2>1, NextOnly, ScopesStay
  <2>. QED  BY <1>1, <1>2, <2>1, <2>2, SameGrown, PopConfined
<1>. QED  BY <1>3, <1>4

LEMMA ValuesConfined ==
  ASSUME OInv, IInv', Confined,
         LetValue \/ SetValue \/ ArraySize \/ StoreValue \/ ValuePrinted \/ ReturnValue
  PROVE  Confined'
<1>1. IInv /\ Depth \in Nat /\ mode = "value"
  BY StatesTyped DEF OInv, Typed, LetValue, LetValueOf, SetValue, SetValueAt, ArraySize,
     StoreValue, ValuePrinted, ReturnValue, Resume
<1>2. /\ acts # <<>> /\ Top.scope = Depth /\ Top.mark \in Nat /\ Floor(Top) \in Nat
      /\ Floor(Top) <= Top.mark
  BY <1>1, ValueOwned
<1>3. mode' # "value"
  BY DEF LetValue, LetValueOf, SetValue, SetValueAt, ArraySize, StoreValue, ValuePrinted,
     ReturnValue, StmtWith, Reject
<1>4. CASE UNCHANGED <<scopes, acts>>
  BY <1>1, <1>3, <1>4, RejectConfined
<1>5. CASE ~UNCHANGED <<scopes, acts>>
  <2>1. acts' = Under
    BY <1>5 DEF LetValue, LetValueOf, SetValue, SetValueAt, ArraySize, StoreValue, ValuePrinted,
       ReturnValue, StmtWith, Reject
  <2>2. \/ scopes' = scopes
        \/ \E next : scopes' = WithNext(Depth, next)
        \/ \E n, v, next :
             n \in Names /\ v.addr = Top.mark /\ scopes' = Declared(Depth, n, v, next)
    <3>1. CASE SetValue \/ StoreValue \/ ValuePrinted \/ ReturnValue
      BY <1>2, <3>1 DEF SetValue, SetValueAt, StoreValue, ValuePrinted, ReturnValue
    <3>2. CASE LetValue
      <4>1. PICK n \in Names : LetValueOf(n)
        BY <3>2 DEF LetValue
      <4>2. Variable(Top.mark, IntegerType, 1).addr = Top.mark
        BY DEF Variable
      <4>3. CASE n \in Declares(scopes[Top.scope].vars)
        BY <1>2, <4>1, <4>3 DEF LetValueOf
      <4>4. CASE n \notin Declares(scopes[Top.scope].vars)
        <5>1. scopes' = Declared(Depth, n, Variable(Top.mark, IntegerType, 1), Top.mark + 1)
          BY <1>2, <4>1, <4>4 DEF LetValueOf
        <5>. QED  BY <4>2, <5>1
      <4>. QED  BY <4>3, <4>4
    <3>3. CASE ArraySize
      <4>1. PICK n, v, next :
              /\ n \in Names /\ scopes' = Declared(Depth, n, v, next)
              /\ v = Variable(Top.mark, ArrayType(res.val), res.val + 4)
        BY <1>2, <1>5, <3>3 DEF ArraySize, Reject
      <4>2. v.addr = Top.mark
        BY <4>1 DEF Variable
      <4>. QED  BY <4>1, <4>2
    <3>. QED  BY <3>1, <3>2, <3>3
  <2>3. Len(acts) - 1 \in 0..Len(acts) /\ Len(acts) \in Nat
    BY <1>1, <1>2, Rearranged DEF IInv, Types, StackTypes
  <2>4. Grown(Len(acts) - 1)
    <3>1. CASE scopes' = scopes \/ \E next : scopes' = WithNext(Depth, next)
      BY <1>1, <3>1, NextOnly, ScopesStay, SameGrown
    <3>2. CASE \E n, v, next :
             n \in Names /\ v.addr = Top.mark /\ scopes' = Declared(Depth, n, v, next)
      <4>1. PICK n, v, next :
              n \in Names /\ v.addr = Top.mark /\ scopes' = Declared(Depth, n, v, next)
        BY <3>2
      <4>2. ASSUME NEW i \in 1..(Len(acts) - 1), acts[i].kind = "body"
            PROVE  acts[i].base <= v.addr
        <5>1. i \in 1..Len(acts)
          BY <2>3
        <5>2. acts[i].base \in Nat /\ acts[i].base <= Floor(Top)
          BY <4>2, <5>1, BasesBelow
        <5>. QED  BY <1>2, <4>1, <5>2
      <4>. QED  BY <1>2, <2>3, <4>1, <4>2, DeclaredGrown
    <3>. QED  BY <2>2, <3>1, <3>2
  <2>. QED  BY <1>1, <1>2, <1>3, <2>1, <2>4, PopConfined
<1>. QED  BY <1>4, <1>5

LEMMA BlocksConfined ==
  ASSUME OInv, IInv', Confined, LoopLeave \/ IfLeave \/ EndCallInExpr \/ EndCallStmt
  PROVE  Confined'
<1>1. IInv /\ mode = "stmt" /\ acts # <<>> /\ Top.kind \in Blocks
  BY DEF OInv, LoopLeave, IfLeave, EndCallInExpr, EndCallStmt, BodyEnds, Blocks
<1>2. Depth > 1 /\ Depth \in Nat
  BY <1>1, BlockDepth
<1>3. CASE LoopLeave \/ IfLeave
  <2>1. scopes' = ScopeRemoved /\ acts' = Under /\ mode' = "stmt" /\ NextFree \in Nat
    BY <1>3, FloorOfNext DEF LoopLeave, IfLeave, Leave, StmtWith
  <2>2. Depth' = Depth - 1 /\ SameVarsBelow(Depth - 1)
    BY <1>1, <1>2, <2>1, ScopeClosed
  <2>. QED  BY <1>1, <1>2, <2>1, <2>2, ClosedGrown, PopConfined
<1>4. CASE EndCallInExpr \/ EndCallStmt
  <2>1. CASE Reject
    BY <1>1, <2>1, RejectConfined DEF Reject
  <2>2. CASE ~Reject
    <3>1. /\ acts' = Under /\ (mode' = "value" => res'.type # "ADDRESS")
          /\ \E next \in {FrameEnd, Top.base} : CallEnded(next)
      BY <1>4, <2>2 DEF EndCallInExpr, EndCallStmt, Return, StmtWith, Temp
    <3>2. FrameEnd \in Nat /\ Top.base \in Nat
      <4>1. Len(acts) \in 1..Len(acts) /\ Top = acts[Len(acts)] /\ Top.kind = "body"
        BY <1>1, <1>4 DEF IInv, Types, StackTypes, Top, EndCallInExpr, EndCallStmt, BodyEnds
      <4>2. Top.base \in Nat
        BY <4>1, BasesBelow
      <4>3. calls # <<>>
        <5>1. Len(calls) >= 1
          BY <1>1, <4>1, StackFacts DEF IInv, Types, Nested, CallsNest
        <5>. QED  BY <5>1
      <4>4. CurrentCall.ret_addr \in Nat
        BY <1>1, <4>3, Context DEF IInv
      <4>. QED  BY <4>2, <4>4 DEF FrameEnd
    <3>3. Depth' = Depth - 1 /\ SameVarsBelow(Depth - 1)
      BY <1>1, <1>2, <3>1, <3>2, ScopeClosed DEF CallEnded
    <3>. QED  BY <1>1, <1>2, <3>1, <3>3, ClosedGrown, PopConfined
  <2>. QED  BY <2>1, <2>2
<1>. QED  BY <1>3, <1>4

LEMMA BoundGiven ==
  ASSUME IInv, Confined, acts # <<>>, Top.kind = "call", Top \in Activation, NEW v,
         Inward(TypedCellsOf(v), Len(acts) - 1)
  PROVE  LET a == Bound(Top, v)
         IN  a.kind = "call" /\ Inward(Given(a), Len(acts) - 1)
<1>. DEFINE a == Bound(Top, v)
<1>1. Top.binds \in [Names -> Variables]
  BY ActivationTypes
<1>2. a.kind = "call" /\ a.binds = Bind(Top.binds, Parameter.name, v)
  BY DEF Bound, Activation
<1>. HIDE DEF a
<1>3. \A n \in Names : a.binds[n] = v \/ a.binds[n] = Top.binds[n]
  BY <1>1, <1>2 DEF Bind
<1>4. Given(a) \subseteq TypedCellsOf(v) \cup Given(Top)
  BY <1>2, <1>3 DEF Given, Declares
<1>5. Inward(Given(Top), Len(acts) - 1)
  BY TopGiven
<1>6. Inward(Given(a), Len(acts) - 1)
  BY <1>4, <1>5 DEF Inward
<1>. QED  BY <1>2, <1>6 DEF a

LEMMA ArgumentsConfined ==
  ASSUME Filled, OInv, IInv', Confined, BindAlias \/ EvalArgument \/ BindValue
  PROVE  Confined'
<1>1. IInv /\ mode' # "value"
  BY DEF OInv, BindAlias, EvalArgument, BindValue, BindWith, EvalWith
<1>2. acts # <<>> /\ Top.kind = "call" /\ Top \in Activation /\ Top.scope = Depth
      /\ Depth \in Nat /\ Len(acts) \in Nat
  <2>1. acts # <<>> /\ Top.kind = "call"
    <3>1. CASE BindAlias \/ EvalArgument
      BY <1>1, <3>1 DEF IInv, ModeShape, BindAlias, EvalArgument
    <3>2. CASE BindValue
      BY <1>1, <3>2, ValueOwned DEF BindValue, Resume
    <3>. QED  BY <3>1, <3>2
  <2>. QED  BY <1>1, <2>1, TopFacts DEF IInv, Types
<1>3. SameVars
  BY <1>1, <1>2, ScopesStay, NextOnly DEF BindAlias, EvalArgument, BindValue
<1>4. Grown(Len(acts) - 1)
  BY <1>2, <1>3, SameGrown
<1>5. CASE BindAlias
  <2>1. PICK p \in ArgPlaces : acts' = TopBecomes(Bound(Top, Variable(p.addr, p.type, 0)))
    BY <1>5 DEF BindAlias, BindWith
  <2>. DEFINE v == Variable(p.addr, p.type, 0)
  <2>2. TypedCellsOf(v) = TypedCellsOf(p)
    BY DEF Variable, TypedCellsOf
  <2>. HIDE DEF v
  <2>3. Inward(TypedCellsOf(v), Len(acts))
    BY <1>1, <2>2, PlacesInside
  <2>4. Inward(TypedCellsOf(v), Len(acts) - 1)
    BY <1>2, <2>3, InwardLess
  <2>. DEFINE a == Bound(Top, v)
  <2>5. a.kind = "call" /\ Inward(Given(a), Len(acts) - 1)
    BY <1>1, <1>2, <2>4, BoundGiven
  <2>6. acts' = TopBecomes(a)
    BY <2>1 DEF v
  <2>. HIDE DEF a
  <2>. QED  BY <1>1, <1>2, <1>4, <2>5, <2>6, SwapConfined
<1>6. CASE BindValue
  <2>. DEFINE v == Variable(Top.mark, IntegerType, 1)
  <2>1. acts' = TopBecomes(Bound(Top, v)) /\ mode = "value"
    BY <1>6 DEF BindValue, BindWith, Resume
  <2>2. v.addr = Top.mark /\ Top.mark \in Nat /\ Floor(Top) <= Top.mark /\ Floor(Top) \in Nat
    BY <2>1, ValueOwned DEF Variable
  <2>. HIDE DEF v
  <2>3. ASSUME NEW i \in 1..(Len(acts) - 1), acts[i].kind = "body"
        PROVE  TypedCellsOf(v) \subseteq Span(acts[i])
    <3>1. i \in 1..Len(acts)
      BY <1>2
    <3>2. acts[i].base \in Nat /\ acts[i].base <= Floor(Top)
      BY <2>3, <3>1, BasesBelow
    <3>3. v.addr \in Nat /\ acts[i].base <= v.addr
      BY <2>2, <3>2
    <3>. QED  BY <3>2, <3>3, AboveBase
  <2>4. Inward(TypedCellsOf(v), Len(acts) - 1)
    BY <2>3 DEF Inward
  <2>. DEFINE a == Bound(Top, v)
  <2>5. a.kind = "call" /\ Inward(Given(a), Len(acts) - 1)
    BY <1>1, <1>2, <2>4, BoundGiven
  <2>6. acts' = TopBecomes(a)
    BY <2>1
  <2>. HIDE DEF a
  <2>. QED  BY <1>1, <1>2, <1>4, <2>5, <2>6, SwapConfined
<1>7. CASE EvalArgument
  <2>. DEFINE a == [Top EXCEPT !.mark = NextFree, !.scope = Depth]
  <2>1. acts' = TopBecomes(a)
    BY <1>7 DEF EvalArgument, EvalWith
  <2>2. a.kind = "call" /\ a.binds = Top.binds
    BY <1>2 DEF Activation
  <2>. HIDE DEF a
  <2>3. Given(a) = Given(Top)
    BY <1>2, <2>2 DEF Given
  <2>4. Inward(Given(a), Len(acts) - 1)
    BY <1>1, <1>2, <2>3, TopGiven
  <2>. QED  BY <1>1, <1>2, <1>4, <2>1, <2>2, <2>4, SwapConfined
<1>. QED  BY <1>5, <1>6, <1>7

LEMMA OperandsConfined ==
  ASSUME OInv, IInv', Confined, LeftEvaluated \/ IndexEvaluated
  PROVE  Confined'
<1>1. IInv /\ mode = "value" /\ mode' # "value"
  BY DEF OInv, LeftEvaluated, IndexEvaluated, EvalWith, Resume
<1>2. acts # <<>> /\ Top \in Activation /\ Top.scope = Depth /\ Depth \in Nat
  BY <1>1, ValueOwned
<1>3. SameVars
  BY <1>1, <1>2, ScopesStay, NextOnly DEF LeftEvaluated, IndexEvaluated
<1>4. Grown(Len(acts) - 1)
  BY <1>2, <1>3, SameGrown
<1>5. PICK a : acts' = TopBecomes(a) /\ a.kind # "body" /\ Given(a) \subseteq Given(Top)
  <2>1. CASE LeftEvaluated
    <3>. DEFINE c == Pending("right")
                a == [c EXCEPT !.held = res]
    <3>1. acts' = TopBecomes(a)
      BY <2>1 DEF LeftEvaluated, EvalWith
    <3>2. a.kind = "right"
      BY DEF Pending
    <3>. HIDE DEF a
    <3>3. Given(a) = {}
      BY <3>2 DEF Given, Refs
    <3>. QED  BY <3>1, <3>2, <3>3
  <2>2. CASE IndexEvaluated
    <3>. DEFINE x == IF res.type = "TEMP" THEN Temp(Top.mark) ELSE res
                a == [Top EXCEPT !.kind = "store", !.held = x]
    <3>1. acts' = TopBecomes(a) /\ Top.kind = "index"
      BY <2>2 DEF IndexEvaluated, EvalWith, Resume
    <3>2. a.kind = "store" /\ a.base = Top.base /\ a.len = Top.len
      BY <1>2 DEF Activation
    <3>. HIDE DEF a
    <3>3. Given(a) = Given(Top)
      BY <3>1, <3>2 DEF Given, Refs
    <3>. QED  BY <3>1, <3>2, <3>3
  <2>. QED  BY <2>1, <2>2
<1>6. Inward(Given(a), Len(acts) - 1)
  BY <1>1, <1>2, <1>5, TopGiven DEF Inward
<1>. QED  BY <1>1, <1>2, <1>4, <1>5, <1>6, SwapConfined

LEMMA EntersConfined ==
  ASSUME OInv, IInv', Confined, LoopEnter \/ IfEnter
  PROVE  Confined'
<1>1. IInv /\ mode = "value" /\ mode' # "value"
  BY DEF OInv, LoopEnter, IfEnter, Enter, StmtWith, Resume
<1>2. /\ acts # <<>> /\ Top \in Activation /\ Top.scope = Depth /\ Depth \in Nat
      /\ Top.mark \in Nat /\ NextFree \in Nat /\ scopes[Top.scope].next = NextFree
  BY <1>1, ValueOwned
<1>3. PICK kind, cell, next, o :
        /\ kind \in {"loopbody", "ifbody"} /\ next \in Nat
        /\ Enter(kind, cell, next, o)
        /\ kind = "loopbody" /\ cell.type = "ADDRESS" => res.type = "ADDRESS" /\ cell = res
  <2>1. CASE LoopEnter
    <3>. DEFINE c == IF res.type = "ADDRESS" THEN res.val ELSE Top.mark
                n == IF res.type = "ADDRESS" THEN scopes[Top.scope].next ELSE Top.mark + 1
                h == IF res.type = "ADDRESS" THEN res ELSE Temp(c)
    <3>1. \E o : Enter("loopbody", h, n, o)
      BY <2>1 DEF LoopEnter
    <3>2. n \in Nat
      BY <1>2
    <3>3. h.type = "ADDRESS" => res.type = "ADDRESS" /\ h = res
      BY DEF Temp
    <3>. HIDE DEF h, n
    <3>. QED  BY <3>1, <3>2, <3>3
  <2>2. CASE IfEnter
    <3>1. \E o : Enter("ifbody", Temp(Top.mark), Top.mark + 1, o)
      BY <2>2 DEF IfEnter
    <3>. QED  BY <1>2, <3>1
  <2>. QED  BY <2>1, <2>2
<1>. DEFINE a == [Top EXCEPT !.kind = kind, !.scope = Depth + 1, !.mark = next,
                             !.held = cell, !.before = o.dirty]
<1>4. acts' = TopBecomes(a) /\ scopes' = Append(WithNext(Depth, next), NewScope(NoVars, next))
  BY <1>2, <1>3 DEF Enter, StmtWith
<1>5. a.kind = kind /\ a.held = cell
  BY <1>2 DEF Activation
<1>. HIDE DEF a
<1>6. Depth' = Depth + 1 /\ SameVarsBelow(Depth) /\ scopes'[Depth + 1].vars = NoVars
  BY <1>1, <1>3, <1>4, ScopeOpened
<1>7. Declares(NoVars) = {}
  BY DEF Declares, NoVars
<1>8. Grown(Len(acts) - 1)
  BY <1>2, <1>6, <1>7, OpenedGrown
<1>9. Given(a) = {} \/ (res.type = "ADDRESS" /\ Given(a) = {res.val})
  BY <1>3, <1>5 DEF Given, Refs
<1>10. Inward(Given(a), Len(acts) - 1)
  <2>1. CASE Given(a) = {}
    BY <2>1 DEF Inward
  <2>2. CASE res.type = "ADDRESS" /\ Given(a) = {res.val}
    <3>1. Inward({res.val}, Len(acts)) /\ Len(acts) \in Nat
      BY <1>1, <1>2, <2>2, TopGiven, StatesTyped DEF Typed
    <3>. QED  BY <2>2, <3>1, InwardLess
  <2>. QED  BY <1>9, <2>1, <2>2
<1>11. a.kind # "body"
  BY <1>3, <1>5
<1>. QED  BY <1>1, <1>2, <1>4, <1>8, <1>10, <1>11, SwapConfined

LEMMA BeginConfined ==
  ASSUME OInv, IInv', Confined, BeginCall
  PROVE  Confined'
<1>. DEFINE m == Len(acts) - 1
            a == [Top EXCEPT !.kind = "body", !.scope = Depth + 1, !.mark = NextFree]
<1>1. IInv /\ mode = "args" /\ mode' # "value"
  BY DEF OInv, BeginCall, StmtWith
<1>2. acts # <<>> /\ Top.kind = "call" /\ Top \in Activation /\ Top.scope = Depth
      /\ Depth \in Nat /\ Len(acts) \in Nat
  <2>1. acts # <<>> /\ Top.kind = "call"
    BY <1>1 DEF IInv, ModeShape
  <2>. QED  BY <1>1, <2>1, TopFacts DEF IInv, Types
<1>3. /\ a.kind = "body" /\ a.base = Top.base /\ a.binds = Top.binds /\ a.scope = Depth + 1
      /\ a.base \in Nat /\ NextFree \in Nat /\ acts' \in Seq(Activation)
  <2>1. a.kind = "body" /\ a.base = Top.base /\ a.binds = Top.binds /\ a.scope = Depth + 1
    BY <1>2 DEF Activation
  <2>2. acts' \in Seq(Activation)
    BY DEF IInv, Types, StackTypes
  <2>. HIDE DEF a
  <2>. QED  BY <1>2, <2>1, <2>2, ActivationTypes, FloorOfNext
<1>4. acts' = TopBecomes(a) /\ scopes' = Append(scopes, NewScope(Top.binds, NextFree))
  BY DEF BeginCall, StmtWith, FrameScope
<1>. HIDE DEF a
<1>5. Kept(m) /\ Len(acts') = m + 1 /\ acts'[m + 1] = a
  <2>1. /\ Len(acts) >= 1 /\ Len(acts') = Len(acts) /\ acts'[Len(acts)] = a
        /\ \A i \in 1..(Len(acts) - 1) : acts'[i] = acts[i]
    BY <1>1, <1>2, <1>4, Rearranged
  <2>. QED  BY <1>2, <1>3, <2>1 DEF Kept
<1>6. Depth' = Depth + 1 /\ SameVarsBelow(Depth) /\ scopes'[Depth + 1].vars = Top.binds
  BY <1>1, <1>3, <1>4, ScopeOpened
<1>7. Inward(Given(Top), m)
  BY <1>1, <1>2, TopGiven
<1>. HIDE DEF m
<1>8. Inward(Given(a), m)
  <2>1. Given(a) = {}
    BY <1>3 DEF Given, Refs
  <2>. QED  BY <2>1 DEF Inward
<1>9. \A n \in Declares(Top.binds) : TypedCellsOf(Top.binds[n]) \subseteq Given(Top)
  BY <1>2 DEF Given
<1>10. Grown(m)
  <2>1. \A n \in Declares(scopes'[Depth + 1].vars) :
          Inward(TypedCellsOf(scopes'[Depth + 1].vars[n]), m)
    BY <1>6, <1>7, <1>9 DEF Inward
  <2>. QED  BY <1>2, <1>6, <2>1, OpenedGrown
<1>11. Framed(a)
  <2>. SUFFICES ASSUME NEW k \in a.scope..Depth', NEW n \in Declares(scopes'[k].vars)
                PROVE  TypedCellsOf(scopes'[k].vars[n]) \subseteq Span(a)
    BY DEF Framed
  <2>1. k = Depth + 1 /\ scopes'[k].vars = Top.binds /\ n \in Declares(Top.binds) /\ n \in Names
    BY <1>2, <1>3, <1>6 DEF Declares
  <2>2. Top.binds[n] \in Variables
    BY <1>2, <2>1, ActivationTypes
  <2>3. CASE Top.binds[n].len = 0
    BY <1>3, <2>1, <2>3 DEF Span
  <2>4. CASE Top.binds[n].len > 0
    <3>1. Top.base <= Top.binds[n].addr
      BY <1>2, <2>1, <2>4, TopCall
    <3>2. Top.binds[n].addr \in Nat
      BY <2>2, VariableCells
    <3>. QED  BY <1>3, <2>1, <3>1, <3>2, AboveBase
  <2>5. Top.binds[n].len \in Nat
    BY <2>2, VariableCells
  <2>. QED  BY <2>3, <2>4, <2>5
<1>. QED  BY <1>1, <1>3, <1>5, <1>8, <1>10, <1>11, ConfinedStep

LEMMA StepConfined ==
  ASSUME Filled, OInv, OInv', Confined, [Next]_vars
  PROVE  Confined'
<1>1. IInv'
  BY DEF OInv
<1>2. CASE UNCHANGED vars \/ Finish \/ Illegal \/ Terminated
  BY <1>1, <1>2, SitsConfined
<1>3. CASE Eval
  BY <1>1, <1>3, SitsConfined, PushesConfined, ArgumentsConfined DEF Eval
<1>4. CASE Resumption
  BY <1>1, <1>4, ReturnsConfined, OperandsConfined, ArgumentsConfined, ValuesConfined,
     EntersConfined DEF Resumption
<1>5. CASE Statement
  BY <1>1, <1>5, SitsConfined, PushesConfined DEF Statement
<1>6. CASE Calling
  BY <1>1, <1>6, ArgumentsConfined, BeginConfined, BlocksConfined DEF Calling
<1>7. CASE LoopLeave \/ IfLeave
  BY <1>1, <1>7, BlocksConfined
<1>. QED  BY <1>2, <1>3, <1>4, <1>5, <1>6, <1>7 DEF Next

LEMMA InitConfined == Init => Confined
BY DEF Init, Confined

LEMMA ConfinedKept == Filled => (Spec => [](OInv /\ Known /\ Coded(out) /\ Confined))
<1>. SUFFICES ASSUME Filled
              PROVE  Spec => [](OInv /\ Known /\ Coded(out) /\ Confined)
  OBVIOUS
<1>1. /\ OInv /\ Known /\ Coded(out) /\ Confined /\ [Next]_vars
      => (OInv /\ Known /\ Coded(out) /\ Confined)'
  BY StepOwned, StepKnown, StepConfined
<1>. QED  BY <1>1, InitOwned, InitKnown, InitConfined, PTL DEF Spec

-----------------------------------------------------------------------------
(* Calls are isolated.                                                     *)

\* What CallsIsolated says of a step.
Isolated ==
  ~Misprints => \A i \in 1..Len(acts) :
    acts[i].kind = "body" => Changed \subseteq Reach(acts[i])

LEMMA StepIsolated ==
  ASSUME Filled, OInv, Known, Coded(out), Confined, [Next]_vars
  PROVE  Isolated
<1>. SUFFICES ASSUME ~Misprints, NEW i \in 1..Len(acts), acts[i].kind = "body"
              PROVE  Changed \subseteq Reach(acts[i])
  BY DEF Isolated
<1>1. IInv /\ Works
  BY StepWorks DEF OInv
<1>2. /\ acts # <<>> /\ Len(acts) \in Nat
      /\ Beyond(NextFree) \cup Beyond(Floor(Top)) \subseteq Span(acts[i])
  BY <1>1, BasesBelow, StatesTyped DEF Typed
<1>3. Placed \subseteq Span(acts[i])
  BY <1>1, PlacedInside DEF Inward
<1>4. Refs(Top) \subseteq Span(acts[i])
  <2>1. CASE i = Len(acts)
    BY <2>1 DEF Refs, Top
  <2>2. CASE i # Len(acts)
    <3>1. i \in 1..(Len(acts) - 1)
      BY <1>2, <2>2
    <3>2. Given(Top) \subseteq Span(acts[i])
      BY <1>1, <1>2, <3>1, TopGiven DEF Inward
    <3>. QED  BY <3>2 DEF Given, Refs
  <2>. QED  BY <2>1, <2>2
<1>5. Changed \subseteq Span(acts[i])
  <2>1. CASE Sits
    BY <1>2, <1>3, <2>1 DEF Sits
  <2>2. CASE Waits
    BY <2>2 DEF Waits
  <2>3. CASE Unwinds
    BY <1>2, <1>3, <1>4, <2>3 DEF Unwinds, Sphere
  <2>. QED  BY <1>1, <2>1, <2>2, <2>3 DEF Works
<1>. QED  BY <1>5 DEF Span, Reach, Beyond

\* README.md, "Function bodies are isolated: they see only their parameters and
\* locals": in a program without empty structs, what is written while a body is
\* inlined, what it calls included, changes cells of its own frame and of the
\* variables it was given by reference only, but for a misuse of print_str.
THEOREM IsolationKept == Filled => (Spec => CallsIsolated)
<1>. SUFFICES ASSUME Filled
              PROVE  Spec => CallsIsolated
  OBVIOUS
<1>1. OInv /\ Known /\ Coded(out) /\ Confined /\ [Next]_vars => [Isolated]_vars
  BY StepIsolated
<1>. QED  BY <1>1, ConfinedKept, PTL DEF Spec, CallsIsolated, Isolated
=============================================================================
