----------------------------- MODULE ParserProofs -----------------------------
(***************************************************************************)
(* Proofs about the parser: the types of its variables, the order of       *)
(* operations, and the matching of brackets.                               *)
(***************************************************************************)
EXTENDS Parser, Induction, SequenceTheorems, TLAPS

Operators == UNION {OpsAt[k] : k \in Levels}

-----------------------------------------------------------------------------
(* The inductive invariant: types.                                         *)

\* What may be pending: the functions for binary operators know their level, a
\* BinaryExpr its operator.
Pending ==
  {i \in Items : /\ i.do \in {"level", "tail"} => i.level \in Levels
                 /\ i.do = "binary" => i.tok \in Operators}

\* None, one or two tokens have been looked at, the last one perhaps the end.
AheadTypes ==
  \/ ahead = <<>>
  \/ \E t \in Tokens \cup {END} : ahead = <<t>>
  \/ \E t \in Tokens, u \in Tokens \cup {END} : ahead = <<t, u>>

Types ==
  /\ AheadTypes
  /\ todo \in Seq(Pending)
  /\ mode \in {"parsing", "accepted", "error", "crash"}
  /\ mode = "accepted" => todo = <<>>

-----------------------------------------------------------------------------
(* The inductive invariant: how tight the operands bind.                   *)

\* How tight the expression binds that an item returns, at the least.
Gives(item) ==
  CASE item.do \in {"level", "tail"}    -> item.level
    [] item.do = "binary"               -> Precedence(item.tok)
    [] item.do \in {"unary", "not"}     -> 5
    [] item.do \in {"factor", "operand"} -> 6
    [] OTHER                            -> 0

\* How tight the expression returned last has to bind when an item's turn comes.
Needs(item) ==
  CASE item.do = "tail"   -> item.level
    [] item.do = "binary" -> Precedence(item.tok) + 1
    [] item.do = "not"    -> 5
    [] OTHER              -> 0

\* Whatever is pending gives what is behind it needs.
Fits(items) == \A i \in 1..(Len(items) - 1) : Needs(items[i + 1]) <= Gives(items[i])

Ordered == Fits(todo) /\ (todo # <<>> => Needs(todo[1]) <= Precedence(val))

-----------------------------------------------------------------------------
(* The inductive invariant: the brackets that are open.                    *)

\* The functions that begin or end a block, and those they come from.
BlockItems == {"program", "loop", "if", "def"}

\* An item finds these brackets open, and leaves those.
Turns(item, before, after) ==
  /\ item.do = "expect" /\ item.tok \in Openers => after = Append(before, item.tok)
  /\ item.do = "expect" /\ item.tok \in Closers =>
       \E o \in Openers : CloserOf[o] = item.tok /\ before = Append(after, o)
  /\ item.do = "program" => before = Append(after, "LBRACE")
  /\ item.do # "program" /\ ~(item.do = "expect" /\ item.tok \in Openers \cup Closers)
       => after = before

\* With these brackets open what is pending closes them all, but that the
\* outermost call of parse_program has no brace to end at.
Balances(items, brackets) ==
  \E open \in [1..Len(items) -> Seq(Openers)] :
    /\ items # <<>>
    /\ open[1] = brackets
    /\ open[Len(items)] = <<>> /\ items[Len(items)].do = "program"
    /\ \A i \in 1..(Len(items) - 1) : Turns(items[i], open[i], open[i + 1])
    /\ \A i \in 1..Len(items) :
         items[i].do \in BlockItems => open[i] \in Seq({"LBRACE"})

\* Nothing but calls of parse_program waits for a block to end.
BlocksOutermost(items) ==
  \A i \in 1..Len(items), j \in 1..Len(items) :
    i < j /\ items[i].do \in BlockItems => items[j].do = "program"

\* The end of the stream ends every block.
AtTheEnd ==
  /\ ahead = <<END>>
  /\ opened \in Seq({"LBRACE"})
  /\ \A i \in 1..Len(todo) : todo[i].do = "program"

OneBraceTooMany == todo = <<>> /\ opened = <<"RBRACE">>

Bracketed ==
  /\ BlocksOutermost(todo)
  /\ Balances(todo, opened) \/ AtTheEnd \/ OneBraceTooMany

IInv == Types /\ Ordered /\ Bracketed

-----------------------------------------------------------------------------
(* What the items are.                                                     *)

\* The functions that begin with a look at a token, and the others.
Others == {"level", "binary", "not", "operand", "var", "call", "assign", "loop", "if",
           "print_str", "print_val", "call_stmt", "return", "struct", "def"}

LEMMA ItemFacts ==
  /\ \A do \in Looking \cup Others :
       /\ Item(do).do = do /\ Item(do) \in Items
       /\ do \notin {"level", "tail", "binary"} => Item(do) \in Pending
  /\ \A tok \in AllTokens :
       Expect(tok) \in Pending /\ Expect(tok).do = "expect" /\ Expect(tok).tok = tok
  /\ \A do \in {"level", "tail"}, k \in Levels :
       /\ AtLevel(do, k) \in Pending
       /\ AtLevel(do, k).do = do /\ AtLevel(do, k).level = k
  /\ \A tok \in Operators :
       LET item == [Item("binary") EXCEPT !.tok = tok]
       IN  item \in Pending /\ item.do = "binary" /\ item.tok = tok
  /\ \A item \in Pending : item \in Items
<1>1. ASSUME NEW do \in Looking \cup Others
      PROVE  Item(do).do = do /\ Item(do) \in Items
  BY DEF Item, Items, Others
<1>2. ASSUME NEW do \in Looking \cup Others, do \notin {"level", "tail", "binary"}
      PROVE  Item(do) \in Pending
  BY <1>1, <1>2 DEF Pending
<1>3. ASSUME NEW tok \in AllTokens
      PROVE  Expect(tok) \in Pending /\ Expect(tok).do = "expect" /\ Expect(tok).tok = tok
  BY DEF Expect, Item, Items, Pending, Looking
<1>4. ASSUME NEW do \in {"level", "tail"}, NEW k \in Levels
      PROVE  /\ AtLevel(do, k) \in Pending
             /\ AtLevel(do, k).do = do /\ AtLevel(do, k).level = k
  <2>1. do \in Looking \cup Others /\ Item(do) \in Items /\ k \in Nat
    BY <1>1 DEF Looking, Others, Levels
  <2>2. AtLevel(do, k) \in Items
    BY <2>1 DEF AtLevel, Items
  <2>3. AtLevel(do, k).do = do /\ AtLevel(do, k).level = k
    BY DEF AtLevel, Item
  <2>. QED  BY <2>2, <2>3 DEF Pending
<1>5. ASSUME NEW tok \in Operators
      PROVE  LET item == [Item("binary") EXCEPT !.tok = tok]
             IN  item \in Pending /\ item.do = "binary" /\ item.tok = tok
  BY DEF Item, Items, Pending, Looking, Operators, AllTokens
<1>. QED  BY <1>1, <1>2, <1>3, <1>4, <1>5, Zenon DEF Pending

-----------------------------------------------------------------------------
(* What a step does to the types.                                          *)

\* The item whose turn it is, and the token it looks at.
LEMMA Looked ==
  ASSUME Types, NEW do, Doing(do)
  PROVE  /\ todo # <<>> /\ Len(todo) \in Nat \ {0}
         /\ Head(todo) = todo[1] /\ todo[1] \in Pending /\ todo[1].do = do
         /\ mode = "parsing"
         /\ do \in Looking => ahead # <<>> /\ Cur \in AllTokens \cup {END}
<1>1. todo # <<>> /\ Head(todo).do = do /\ mode = "parsing" /\ Len(ahead) >= Wanted
  BY DEF Doing
<1>2. Len(todo) \in Nat \ {0} /\ Head(todo) = todo[1] /\ todo[1] \in Pending
  BY <1>1 DEF Types
<1>3. ASSUME do \in Looking
      PROVE  ahead # <<>> /\ Cur \in AllTokens \cup {END}
  <2>1. Wanted \in {1, 2}
    BY <1>1, <1>3 DEF Wanted
  <2>2. ahead # <<>>
    BY <1>1, <2>1
  <2>3. ahead[1] \in Tokens \cup {END}
    BY <2>2 DEF Types, AheadTypes
  <2>. QED  BY <2>2, <2>3, TokensAssumption DEF Cur
<1>. QED  BY <1>1, <1>2, <1>3

\* What is pending after a call: what the body does, then what was pending.
LEMMA Called ==
  ASSUME Types, todo # <<>>, NEW items \in Seq(Pending), Calls(items)
  PROVE  /\ todo' \in Seq(Pending)
         /\ Tail(todo) \in Seq(Pending)
         /\ Len(Tail(todo)) = Len(todo) - 1 /\ Len(todo) \in Nat \ {0} /\ Len(items) \in Nat
         /\ Len(todo') = Len(items) + Len(todo) - 1
         /\ \A i \in 1..Len(items) : todo'[i] = items[i]
         /\ \A i \in (Len(items) + 1)..Len(todo') : todo'[i] = todo[i - Len(items) + 1]
         /\ \A i \in 1..(Len(todo) - 1) : Tail(todo)[i] = todo[i + 1]
<1>1. todo \in Seq(Pending) /\ todo' = items \o Tail(todo)
  BY DEF Types, Calls
<1>2. /\ Tail(todo) \in Seq(Pending) /\ Len(Tail(todo)) = Len(todo) - 1
      /\ \A i \in 1..Len(Tail(todo)) : Tail(todo)[i] = todo[i + 1]
  BY <1>1, HeadTailProperties
<1>3. /\ todo' \in Seq(Pending) /\ Len(todo') = Len(items) + Len(Tail(todo))
      /\ \A i \in 1..(Len(items) + Len(Tail(todo))) :
           todo'[i] = IF i <= Len(items) THEN items[i] ELSE Tail(todo)[i - Len(items)]
  BY <1>1, <1>2, ConcatProperties
<1>4. Len(todo) \in Nat \ {0} /\ Len(items) \in Nat
  BY <1>1
<1>5. ASSUME NEW i \in (Len(items) + 1)..Len(todo')
      PROVE  todo'[i] = todo[i - Len(items) + 1]
  <2>1. i - Len(items) \in 1..Len(Tail(todo)) /\ ~(i <= Len(items))
    BY <1>2, <1>3, <1>4
  <2>. QED  BY <1>2, <1>3, <1>4, <2>1
<1>. QED  BY <1>2, <1>3, <1>4, <1>5

\* The token is consumed.
LEMMA Consumed ==
  ASSUME Types, ahead # <<>>, Consume
  PROVE  AheadTypes'
<1>1. CASE Cur = END
  BY <1>1 DEF Consume, Types, AheadTypes
<1>2. CASE Cur # END
  <2>1. ahead' = Tail(ahead)
    BY <1>2 DEF Consume
  <2>2. CASE \E t \in Tokens \cup {END} : ahead = <<t>>
    BY <2>1, <2>2 DEF AheadTypes
  <2>3. CASE \E t \in Tokens, u \in Tokens \cup {END} : ahead = <<t, u>>
    BY <2>1, <2>3 DEF AheadTypes
  <2>. QED  BY <2>2, <2>3 DEF Types, AheadTypes
<1>. QED  BY <1>1, <1>2

LEMMA TypesStep ==
  ASSUME Types, todo # <<>>, mode = "parsing", mode' = "parsing",
         NEW items \in Seq(Pending), Calls(items),
         ahead' = ahead \/ (ahead # <<>> /\ Consume)
  PROVE  Types'
<1>1. todo' \in Seq(Pending)
  BY Called
<1>2. AheadTypes'
  BY Consumed DEF Types, AheadTypes
<1>. QED  BY <1>1, <1>2 DEF Types

-----------------------------------------------------------------------------
(* What a step does to the order of operations.                            *)

LEMMA LevelFacts ==
  /\ \A k \in Levels : \A t \in OpsAt[k] : Precedence(t) = k
  /\ \A t \in Operators : Precedence(t) \in Levels
  /\ \A t : Precedence(t) \in 1..6
  /\ Precedence(NoVal) = 6 /\ Precedence(Leaf) = 6 /\ Precedence("NOT") = 5
<1>1. \A k \in Levels : \A t \in OpsAt[k] : Precedence(t) = k
  BY DEF Levels, OpsAt, Precedence
<1>2. \A t : Precedence(t) \in 1..6
  BY DEF Precedence
<1>3. Precedence(NoVal) = 6 /\ Precedence(Leaf) = 6 /\ Precedence("NOT") = 5
  BY DEF Precedence, NoVal, Leaf
<1>. QED  BY <1>1, <1>2, <1>3 DEF Operators

LEMMA BindingTypes ==
  ASSUME NEW item \in Pending
  PROVE  Gives(item) \in Nat /\ Needs(item) \in Nat
<1>1. item.do \in {"level", "tail"} => item.level \in Nat
  BY DEF Pending, Levels
<1>2. Precedence(item.tok) \in Nat
  BY LevelFacts
<1>. QED  BY <1>1, <1>2 DEF Gives, Needs

LEMMA OrderedStep ==
  ASSUME Types, Ordered, todo # <<>>, NEW items \in Seq(Pending), Calls(items), Fits(items),
         items # <<>> => /\ Needs(items[1]) <= Precedence(val')
                         /\ Gives(todo[1]) <= Gives(items[Len(items)]),
         items = <<>> => Gives(todo[1]) <= Precedence(val')
  PROVE  Ordered'
<1>. DEFINE n == Len(items)
<1>1. /\ todo' \in Seq(Pending) /\ Len(todo) \in Nat \ {0} /\ n \in Nat
      /\ Len(todo') = n + Len(todo) - 1
      /\ \A i \in 1..n : todo'[i] = items[i]
      /\ \A i \in (n + 1)..Len(todo') : todo'[i] = todo[i - n + 1]
  BY Called
<1>2. /\ \A i \in 1..n : Gives(items[i]) \in Nat /\ Needs(items[i]) \in Nat
      /\ \A i \in 1..Len(todo) : Gives(todo[i]) \in Nat /\ Needs(todo[i]) \in Nat
  <2>1. /\ \A i \in 1..n : items[i] \in Pending
        /\ \A i \in 1..Len(todo) : todo[i] \in Pending
    BY DEF Types
  <2>. QED  BY <2>1, BindingTypes
<1>3. Precedence(val') \in Nat
  BY LevelFacts
<1>4. \A i \in 1..(Len(todo) - 1) : Needs(todo[i + 1]) <= Gives(todo[i])
  BY DEF Ordered, Fits
<1>5. ASSUME NEW i \in 1..(Len(todo') - 1)
      PROVE  Needs(todo'[i + 1]) <= Gives(todo'[i])
  <2>1. CASE i < n
    <3>1. i \in 1..(n - 1) /\ i \in 1..n /\ i + 1 \in 1..n
      BY <1>1, <2>1
    <3>2. todo'[i] = items[i] /\ todo'[i + 1] = items[i + 1]
      BY <1>1, <3>1
    <3>3. Needs(items[i + 1]) <= Gives(items[i])
      BY <3>1 DEF Fits
    <3>. QED  BY <3>2, <3>3
  <2>2. CASE i = n
    <3>1. todo'[i] = items[n] /\ todo'[i + 1] = todo[2] /\ 1 \in 1..(Len(todo) - 1) /\ n # 0
      <4>1. i \in 1..n /\ i + 1 \in (n + 1)..Len(todo') /\ (i + 1) - n + 1 = 2 /\ n # 0
        BY <1>1, <2>2
      <4>2. todo'[i + 1] = todo[(i + 1) - n + 1]
        BY <1>1, <4>1
      <4>3. 1 \in 1..(Len(todo) - 1)
        BY <1>1, <2>2, <4>1
      <4>. QED  BY <1>1, <2>2, <4>1, <4>2, <4>3
    <3>2. Needs(todo[2]) <= Gives(todo[1])
      BY <1>4, <3>1
    <3>3. 2 \in 1..Len(todo) /\ 1 \in 1..Len(todo) /\ n \in 1..n
      BY <1>1, <3>1
    <3>4. Gives(todo[1]) \in Nat /\ Gives(items[n]) \in Nat /\ Needs(todo[2]) \in Nat
      BY <1>2, <3>3
    <3>5. Gives(todo[1]) <= Gives(items[n])
      BY <1>1, <2>2, <3>1
    <3>. QED  BY <3>1, <3>2, <3>4
  <2>3. CASE i > n
    <3>. DEFINE j == i - n + 1
    <3>1. /\ i \in (n + 1)..Len(todo') /\ i + 1 \in (n + 1)..Len(todo')
          /\ j \in 1..(Len(todo) - 1) /\ (i + 1) - n + 1 = j + 1
      BY <1>1, <2>3
    <3>2. todo'[i] = todo[j] /\ todo'[i + 1] = todo[j + 1]
      BY <1>1, <3>1
    <3>. QED  BY <1>4, <3>1, <3>2
  <2>. QED  BY <1>1, <2>1, <2>2, <2>3
<1>6. ASSUME todo' # <<>>
      PROVE  Needs(todo'[1]) <= Precedence(val')
  <2>1. CASE n # 0
    BY <1>1, <2>1
  <2>2. CASE n = 0
    <3>1. todo'[1] = todo[2] /\ 1 \in 1..(Len(todo) - 1) /\ items = <<>>
      BY <1>1, <1>6, <2>2
    <3>2. Needs(todo[2]) <= Gives(todo[1]) /\ Gives(todo[1]) <= Precedence(val')
      BY <1>4, <3>1
    <3>3. 2 \in 1..Len(todo) /\ 1 \in 1..Len(todo)
      BY <1>1, <3>1
    <3>. QED  BY <1>2, <1>3, <3>1, <3>2, <3>3
  <2>. QED  BY <2>1, <2>2
<1>. QED  BY <1>5, <1>6 DEF Ordered, Fits

\* Neither the item nor what replaces it is part of an expression's rest.
LEMMA PlainStep ==
  ASSUME Types, Ordered, todo # <<>>, NEW items \in Seq(Pending), Calls(items),
         Gives(todo[1]) = 0, \A i \in 1..Len(items) : Needs(items[i]) = 0
  PROVE  Ordered'
<1>1. \A i \in 1..Len(items) : Gives(items[i]) \in Nat
  BY BindingTypes
<1>2. Len(items) \in Nat /\ Precedence(val') \in Nat
  BY LevelFacts
<1>3. Fits(items)
  BY <1>1, <1>2 DEF Fits
<1>. QED  BY <1>1, <1>2, <1>3, OrderedStep

-----------------------------------------------------------------------------
(* What a step does to the brackets.                                       *)

\* An item but the outermost call of parse_program leaves open what those behind
\* it close.
LEMMA RestBalances ==
  ASSUME Types, Balances(todo, opened), Len(todo) > 1
  PROVE  \E after \in Seq(Openers) :
           Turns(todo[1], opened, after) /\ Balances(Tail(todo), after)
<1>1. todo \in Seq(Pending) /\ todo # <<>>
  BY DEF Types, Balances
<1>. DEFINE n == Len(todo)
            rest == Tail(todo)
<1>2. /\ n \in Nat /\ n > 1 /\ rest \in Seq(Pending) /\ Len(rest) = n - 1
      /\ \A i \in 1..(n - 1) : rest[i] = todo[i + 1]
  <2>1. n \in Nat /\ n > 1
    BY <1>1
  <2>3. rest \in Seq(Pending) /\ Len(rest) = n - 1 /\ \A i \in 1..Len(rest) : rest[i] = todo[i + 1]
    BY <1>1, HeadTailProperties
  <2>. QED  BY <2>1, <2>3
<1>3. PICK open \in [1..n -> Seq(Openers)] :
        /\ open[1] = opened
        /\ open[n] = <<>> /\ todo[n].do = "program"
        /\ \A i \in 1..(n - 1) : Turns(todo[i], open[i], open[i + 1])
        /\ \A i \in 1..n : todo[i].do \in BlockItems => open[i] \in Seq({"LBRACE"})
  BY DEF Balances
<1>. DEFINE later == [i \in 1..Len(rest) |-> open[i + 1]]
<1>4. later \in [1..Len(rest) -> Seq(Openers)]
  BY <1>2, <1>3
<1>5. rest # <<>> /\ later[1] = open[2] /\ later[Len(rest)] = <<>> /\ rest[Len(rest)].do = "program"
  BY <1>2, <1>3
<1>6. ASSUME NEW i \in 1..(Len(rest) - 1)
      PROVE  Turns(rest[i], later[i], later[i + 1])
  <2>1. /\ i \in 1..(n - 1) /\ i + 1 \in 1..(n - 1)
        /\ later[i] = open[i + 1] /\ later[i + 1] = open[(i + 1) + 1] /\ rest[i] = todo[i + 1]
    BY <1>2
  <2>. QED  BY <1>3, <2>1
<1>7. ASSUME NEW i \in 1..Len(rest), rest[i].do \in BlockItems
      PROVE  later[i] \in Seq({"LBRACE"})
  <2>1. i \in 1..(n - 1) /\ i + 1 \in 1..n /\ later[i] = open[i + 1] /\ rest[i] = todo[i + 1]
    BY <1>2
  <2>. QED  BY <1>3, <1>7, <2>1
<1>8. Balances(rest, open[2])
  <2>. HIDE DEF later, rest
  <2>. QED  BY <1>4, <1>5, <1>6, <1>7 DEF Balances
<1>9. Turns(todo[1], opened, open[2]) /\ open[2] \in Seq(Openers)
  BY <1>2, <1>3
<1>. QED  BY <1>8, <1>9

\* The items in front of others that close what these leave open.
LEMMA InFront ==
  ASSUME NEW rest \in Seq(Pending), NEW items \in Seq(Pending),
         NEW before \in Seq(Seq(Openers)), Len(before) = Len(items) + 1,
         Balances(rest, before[Len(items) + 1]),
         \A i \in 1..Len(items) :
           /\ Turns(items[i], before[i], before[i + 1])
           /\ items[i].do \in BlockItems => before[i] \in Seq({"LBRACE"})
  PROVE  Balances(items \o rest, before[1])
<1>. DEFINE n == Len(items)
            m == Len(rest)
            both == items \o rest
<1>1. /\ n \in Nat /\ m \in Nat /\ both \in Seq(Pending) /\ Len(both) = n + m
      /\ \A i \in 1..(n + m) : both[i] = IF i <= n THEN items[i] ELSE rest[i - n]
  BY ConcatProperties
<1>2. PICK open \in [1..m -> Seq(Openers)] :
        /\ rest # <<>>
        /\ open[1] = before[n + 1]
        /\ open[m] = <<>> /\ rest[m].do = "program"
        /\ \A i \in 1..(m - 1) : Turns(rest[i], open[i], open[i + 1])
        /\ \A i \in 1..m : rest[i].do \in BlockItems => open[i] \in Seq({"LBRACE"})
  BY DEF Balances
<1>3. m # 0
  BY <1>2
<1>4. \A i \in 1..(n + 1) : before[i] \in Seq(Openers)
  BY <1>1
<1>. DEFINE all == [i \in 1..(n + m) |-> IF i <= n THEN before[i] ELSE open[i - n]]
<1>5. all \in [1..Len(both) -> Seq(Openers)]
  <2>1. ASSUME NEW i \in 1..(n + m)
        PROVE  (IF i <= n THEN before[i] ELSE open[i - n]) \in Seq(Openers)
    <3>1. CASE i <= n
      BY <1>1, <1>4, <3>1
    <3>2. CASE i > n
      <4>1. i - n \in 1..m /\ ~(i <= n)
        BY <1>1, <3>2
      <4>. QED  BY <1>2, <4>1
    <3>. QED  BY <1>1, <3>1, <3>2
  <2>. QED  BY <1>1, <2>1
<1>6. /\ both # <<>> /\ all[1] = before[1]
      /\ all[Len(both)] = <<>> /\ both[Len(both)].do = "program"
  BY <1>1, <1>2, <1>3
<1>7. ASSUME NEW i \in 1..(Len(both) - 1)
      PROVE  Turns(both[i], all[i], all[i + 1])
  <2>1. CASE i <= n
    <3>1. i \in 1..n /\ i + 1 \in 1..(n + 1) /\ both[i] = items[i] /\ all[i] = before[i]
      BY <1>1, <2>1
    <3>2. all[i + 1] = before[i + 1]
      BY <1>1, <1>2, <1>3, <2>1
    <3>. QED  BY <3>1, <3>2
  <2>2. CASE i > n
    <3>. DEFINE j == i - n
    <3>1. /\ j \in 1..(m - 1) /\ i + 1 > n /\ (i + 1) - n = j + 1
          /\ i \in 1..(n + m) /\ i + 1 \in 1..(n + m)
      BY <1>1, <2>2
    <3>2. both[i] = rest[j] /\ all[i] = open[j] /\ all[i + 1] = open[j + 1]
      BY <1>1, <2>2, <3>1
    <3>. QED  BY <1>2, <3>1, <3>2
  <2>. QED  BY <1>1, <2>1, <2>2
<1>8. ASSUME NEW i \in 1..Len(both), both[i].do \in BlockItems
      PROVE  all[i] \in Seq({"LBRACE"})
  <2>1. CASE i <= n
    BY <1>1, <1>8, <2>1
  <2>2. CASE i > n
    <3>1. i - n \in 1..m /\ both[i] = rest[i - n] /\ all[i] = open[i - n]
      BY <1>1, <2>2
    <3>. QED  BY <1>2, <1>8, <3>1
  <2>. QED  BY <1>1, <2>1, <2>2
<1>. HIDE DEF all, both
<1>. QED  BY <1>5, <1>6, <1>7, <1>8 DEF Balances, both

\* Before anything but a call of parse_program what is pending still closes the
\* brackets that are open.
LEMMA Unfinished ==
  ASSUME Types, Bracketed, todo # <<>>, todo[1].do # "program"
  PROVE  /\ opened \in Seq(Openers)
         /\ \E after \in Seq(Openers) :
              Turns(todo[1], opened, after) /\ Balances(Tail(todo), after)
<1>1. Len(todo) \in Nat \ {0} /\ 1 \in 1..Len(todo)
  BY DEF Types
<1>2. Balances(todo, opened)
  BY <1>1 DEF Bracketed, AtTheEnd, OneBraceTooMany
<1>3. PICK open \in [1..Len(todo) -> Seq(Openers)] :
        open[1] = opened /\ todo[Len(todo)].do = "program"
  BY <1>2 DEF Balances
<1>4. Len(todo) > 1 /\ opened \in Seq(Openers)
  BY <1>1, <1>3
<1>. QED  BY <1>2, <1>4, RestBalances

LEMMA BlocksStep ==
  ASSUME Types, BlocksOutermost(todo), todo # <<>>, NEW items \in Seq(Pending), Calls(items),
         BlocksOutermost(items),
         ASSUME NEW i \in 1..Len(items), items[i].do \in BlockItems
         PROVE  todo[1].do \in BlockItems
  PROVE  BlocksOutermost(todo')
<1>. DEFINE n == Len(items)
<1>1. /\ Len(todo) \in Nat \ {0} /\ n \in Nat
      /\ Len(todo') = n + Len(todo) - 1
      /\ \A i \in 1..n : todo'[i] = items[i]
      /\ \A i \in (n + 1)..Len(todo') : todo'[i] = todo[i - n + 1]
  BY Called
<1>2. SUFFICES ASSUME NEW i \in 1..Len(todo'), NEW j \in 1..Len(todo'),
                      i < j, todo'[i].do \in BlockItems
               PROVE  todo'[j].do = "program"
  BY DEF BlocksOutermost
<1>3. CASE j <= n
  <2>1. i \in 1..n /\ j \in 1..n /\ todo'[i] = items[i] /\ todo'[j] = items[j]
    BY <1>1, <1>2, <1>3
  <2>. QED  BY <1>2, <2>1 DEF BlocksOutermost
<1>4. CASE j > n
  <2>1. /\ j \in (n + 1)..Len(todo') /\ j - n + 1 \in 1..Len(todo) /\ 1 < j - n + 1
        /\ 1 \in 1..Len(todo)
    BY <1>1, <1>2, <1>4
  <2>2. todo'[j] = todo[j - n + 1]
    BY <1>1, <2>1
  <2>3. CASE i <= n
    <3>1. todo[1].do \in BlockItems
      BY <1>1, <1>2, <2>3
    <3>. QED  BY <2>1, <2>2, <3>1 DEF BlocksOutermost
  <2>4. CASE i > n
    <3>1. /\ i \in (n + 1)..Len(todo') /\ i - n + 1 \in 1..Len(todo)
          /\ i - n + 1 < j - n + 1
      BY <1>1, <1>2, <2>4
    <3>2. todo'[i] = todo[i - n + 1]
      BY <1>1, <3>1
    <3>. QED  BY <1>2, <2>1, <2>2, <3>1, <3>2 DEF BlocksOutermost
  <2>. QED  BY <1>1, <2>3, <2>4
<1>. QED  BY <1>1, <1>3, <1>4

LEMMA BracketsStep ==
  ASSUME Types, Bracketed, todo # <<>>, NEW items \in Seq(Pending), Calls(items),
         BlocksOutermost(items),
         ASSUME NEW i \in 1..Len(items), items[i].do \in BlockItems
         PROVE  todo[1].do \in BlockItems,
         NEW before \in Seq(Seq(Openers)), Len(before) = Len(items) + 1,
         before[1] = opened', Balances(Tail(todo), before[Len(items) + 1]),
         \A i \in 1..Len(items) :
           /\ Turns(items[i], before[i], before[i + 1])
           /\ items[i].do \in BlockItems => before[i] \in Seq({"LBRACE"})
  PROVE  Bracketed'
<1>1. Tail(todo) \in Seq(Pending) /\ todo' = items \o Tail(todo)
  BY Called DEF Calls
<1>2. Balances(todo', opened')
  BY <1>1, InFront
<1>3. BlocksOutermost(todo')
  BY BlocksStep DEF Bracketed
<1>. QED  BY <1>2, <1>3 DEF Bracketed

\* An item that neither is a bracket nor begins or ends a block.
Neutral(item) ==
  item.do \notin BlockItems /\ ~(item.do = "expect" /\ item.tok \in Openers \cup Closers)

LEMMA NeutralBlocks ==
  ASSUME NEW items, \A i \in 1..Len(items) : items[i].do \notin BlockItems
  PROVE  BlocksOutermost(items)
BY DEF BlocksOutermost

LEMMA NeutralStep ==
  ASSUME Types, Bracketed, todo # <<>>, NEW items \in Seq(Pending), Calls(items),
         Neutral(todo[1]), \A i \in 1..Len(items) : Neutral(items[i]), opened' = opened
  PROVE  Bracketed'
<1>. DEFINE n == Len(items)
            before == [i \in 1..(n + 1) |-> opened]
<1>1. n \in Nat
  OBVIOUS
<1>2. PICK after \in Seq(Openers) : Turns(todo[1], opened, after) /\ Balances(Tail(todo), after)
  BY Unfinished DEF Neutral, BlockItems
<1>3. opened \in Seq(Openers) /\ after = opened
  BY <1>2, Unfinished DEF Neutral, BlockItems, Turns
<1>4. before \in Seq(Seq(Openers)) /\ Len(before) = n + 1
  BY <1>1, <1>3
<1>5. before[1] = opened' /\ before[n + 1] = opened
  BY <1>1
<1>6. ASSUME NEW i \in 1..n
      PROVE  /\ Turns(items[i], before[i], before[i + 1])
             /\ items[i].do \in BlockItems => before[i] \in Seq({"LBRACE"})
  <2>1. before[i] = opened /\ before[i + 1] = opened
    BY <1>1
  <2>. QED  BY <2>1 DEF Neutral, BlockItems, Turns
<1>7. \A i \in 1..n : items[i].do \notin BlockItems
  BY DEF Neutral
<1>8. BlocksOutermost(items)
  BY <1>7, NeutralBlocks
<1>. HIDE DEF before
<1>. QED  BY <1>2, <1>3, <1>4, <1>5, <1>6, <1>7, <1>8, BracketsStep

\* A bracket is consumed that was to come.
LEMMA Shut ==
  ASSUME Types, Bracketed, Consume, NEW item \in Pending, item.do = "expect", item.tok = Cur,
         NEW after \in Seq(Openers), Turns(item, opened, after)
  PROVE  opened' = after
<1>1. CASE Cur \in Openers
  BY <1>1 DEF Consume, Turns
<1>2. CASE Cur \in Closers
  <2>1. PICK o \in Openers : CloserOf[o] = Cur /\ opened = Append(after, o)
    BY <1>2 DEF Turns
  <2>2. /\ opened # <<>> /\ opened[Len(opened)] = o
        /\ SubSeq(opened, 1, Len(opened) - 1) = after
    BY <2>1
  <2>3. Cur \notin Openers
    BY <1>2 DEF Openers, Closers, CloserOf
  <2>. QED  BY <1>2, <2>1, <2>2, <2>3 DEF Consume
<1>3. CASE Cur \notin Openers \cup Closers
  BY <1>3 DEF Consume, Turns
<1>. QED  BY <1>1, <1>2, <1>3

-----------------------------------------------------------------------------
(* The steps of the parser.                                                *)

\* What the proofs about a step begin with.
LEMMA Turn ==
  ASSUME IInv, NEW do, Doing(do)
  PROVE  /\ Types /\ Ordered /\ Bracketed /\ mode = "parsing"
         /\ todo # <<>> /\ Len(todo) \in Nat \ {0}
         /\ Head(todo) = todo[1] /\ todo[1] \in Pending /\ todo[1].do = do
         /\ Needs(todo[1]) <= Precedence(val)
BY Looked DEF IInv, Ordered

\* Items that do not touch brackets or blocks replace one such item, and nothing,
\* or a token that is no bracket, is consumed.
LEMMA NeutralCall ==
  ASSUME IInv, NEW do, Doing(do), NEW items \in Seq(Pending), Calls(items),
         mode' = "parsing",
         \/ Stay
         \/ ahead # <<>> /\ Consume /\ Cur \notin Openers \cup Closers,
         Neutral(todo[1]), \A i \in 1..Len(items) : Neutral(items[i])
  PROVE  Types' /\ Bracketed'
<1>1. Types /\ Bracketed /\ mode = "parsing" /\ todo # <<>>
  BY Turn
<1>2. opened' = opened /\ (ahead' = ahead \/ (ahead # <<>> /\ Consume))
  BY DEF Stay, Consume
<1>. QED  BY <1>1, <1>2, TypesStep, NeutralStep

LEMMA ExpectStep ==
  ASSUME IInv, ExpectType, mode' = "parsing"
  PROVE  IInv'
<1>1. Doing("expect") /\ "expect" \in Looking
  BY DEF ExpectType, Looking
<1>2. /\ Types /\ Ordered /\ Bracketed /\ mode = "parsing" /\ todo # <<>>
      /\ Head(todo) = todo[1] /\ todo[1] \in Pending /\ todo[1].do = "expect"
      /\ ahead # <<>>
  BY <1>1, Turn, Looked
<1>3. Cur = todo[1].tok /\ Consume /\ Calls(<<>>)
  BY <1>2 DEF ExpectType, Throw, Takes, Sees
<1>4. <<>> \in Seq(Pending) /\ Len(<<>>) = 0
  OBVIOUS
<1>5. Types'
  BY <1>2, <1>3, <1>4, TypesStep
<1>6. Ordered'
  <2>1. Gives(todo[1]) = 0
    BY <1>2 DEF Gives
  <2>2. \A i \in 1..Len(<<>>) : Needs(<<>>[i]) = 0
    BY <1>4
  <2>. QED  BY <1>2, <1>3, <1>4, <2>1, <2>2, PlainStep
<1>7. Bracketed'
  <2>1. PICK after \in Seq(Openers) : Turns(todo[1], opened, after) /\ Balances(Tail(todo), after)
    BY <1>2, Unfinished
  <2>2. opened' = after
    BY <1>2, <1>3, <2>1, Shut
  <2>3. <<after>> \in Seq(Seq(Openers)) /\ Len(<<after>>) = 1 /\ <<after>>[1] = after
    OBVIOUS
  <2>4. BlocksOutermost(<<>>) /\ (\A i \in 1..Len(<<>>) : FALSE)
    BY <1>4 DEF BlocksOutermost
  <2>5. Len(<<after>>) = Len(<<>>) + 1 /\ <<after>>[Len(<<>>) + 1] = after
    BY <1>4
  <2>. QED  BY <1>2, <1>3, <1>4, <2>1, <2>2, <2>3, <2>4, <2>5, BracketsStep
<1>. QED  BY <1>5, <1>6, <1>7 DEF IInv

-----------------------------------------------------------------------------
(* Functions outside expressions' operators.                               *)

\* Items that no bracket and no operator has to do with.
Plain == {i \in Pending : Neutral(i) /\ Needs(i) = 0}

Brackets == Openers \cup Closers

\* The functions whose items are not plain.
Special == BlockItems \cup {"expect", "level", "tail", "binary", "not"}

\* Words and marks that are not brackets.
Marks == Keywords \cup {"IDENT", "EQUALS", "SEMICOLON", "COLON", "NOT", "COMMA", "DOT",
                        "READ_CHAR", "NUMBER"}

LEMMA TokenFacts == Marks \subseteq AllTokens \ Brackets /\ Brackets \subseteq AllTokens
<1>1. Marks \subseteq AllTokens /\ Brackets \subseteq AllTokens
  <2>1. ASSUME NEW t, \/ t \in Keywords \/ t \in Openers \/ t \in Closers \/ t \in Literals
        PROVE  t \in AllTokens
    BY <2>1 DEF AllTokens
  <2>2. ASSUME NEW t \in {"IDENT", "EQUALS", "SEMICOLON", "COLON", "NOT", "COMMA", "DOT",
                          "READ_CHAR"}
        PROVE  t \in AllTokens
    BY DEF AllTokens
  <2>3. "NUMBER" \in AllTokens
    BY <2>1 DEF Literals
  <2>. QED  BY <2>1, <2>2, <2>3 DEF Marks, Brackets
<1>2. Marks \cap Brackets = {}
  BY DEF Marks, Keywords, Brackets, Openers, Closers, CloserOf
<1>. QED  BY <1>1, <1>2

LEMMA PlainItems ==
  /\ \A do \in (Looking \cup Others) \ Special : Item(do) \in Plain
  /\ \A tok \in AllTokens \ Brackets : Expect(tok) \in Plain
  /\ \A tok \in AllTokens : Needs(Expect(tok)) = 0
  /\ \A k \in Levels : AtLevel("level", k) \in Plain /\ Gives(AtLevel("level", k)) = k
  /\ Expression \in Plain
<1>1. ASSUME NEW do \in (Looking \cup Others) \ Special
      PROVE  Item(do) \in Plain
  <2>1. Item(do) \in Pending /\ Item(do).do = do
    BY ItemFacts DEF Special
  <2>. QED  BY <2>1 DEF Plain, Neutral, Needs, Special
<1>2. ASSUME NEW tok \in AllTokens
      PROVE  Needs(Expect(tok)) = 0 /\ (tok \notin Brackets => Expect(tok) \in Plain)
  <2>1. Expect(tok) \in Pending /\ Expect(tok).do = "expect" /\ Expect(tok).tok = tok
    BY ItemFacts
  <2>2. Needs(Expect(tok)) = 0
    BY <2>1 DEF Needs
  <2>. QED  BY <2>1, <2>2 DEF Plain, Neutral, BlockItems, Brackets
<1>3. ASSUME NEW k \in Levels
      PROVE  AtLevel("level", k) \in Plain /\ Gives(AtLevel("level", k)) = k
  <2>1. AtLevel("level", k) \in Pending /\ AtLevel("level", k).do = "level" /\ AtLevel("level", k).level = k
    BY ItemFacts
  <2>. QED  BY <2>1 DEF Plain, Neutral, Needs, Gives, BlockItems
<1>4. Expression \in Plain
  BY <1>3 DEF Expression, Levels
<1>. QED  BY <1>1, <1>2, <1>3, <1>4

\* The item of a function that no operator waits for.
LEMMA OutsideOperators ==
  ASSUME IInv, NEW do, Doing(do),
         do \notin {"level", "tail", "binary", "unary", "not", "factor", "operand"},
         NEW items \in Seq(Pending), Calls(items), \A i \in 1..Len(items) : Needs(items[i]) = 0
  PROVE  Ordered'
<1>1. Types /\ Ordered /\ todo # <<>> /\ todo[1].do = do
  BY Turn
<1>2. Gives(todo[1]) = 0
  BY <1>1 DEF Gives
<1>. QED  BY <1>1, <1>2, PlainStep

LEMMA PlainCall ==
  ASSUME IInv, NEW do, Doing(do), do \notin Special \cup {"unary", "factor", "operand"},
         NEW items \in Seq(Plain),
         Goes(items) \/ (ahead # <<>> /\ Takes(items) /\ Cur \notin Brackets)
  PROVE  IInv'
<1>1. items \in Seq(Pending) /\ \A i \in 1..Len(items) : Neutral(items[i]) /\ Needs(items[i]) = 0
  BY DEF Plain
<1>2. /\ mode = "parsing" /\ todo[1].do = do
      /\ Neutral(todo[1])
  BY Turn DEF Neutral, Special
<1>3. Calls(items) /\ mode' = "parsing"
  BY <1>2 DEF Goes, Takes
<1>4. Stay \/ (ahead # <<>> /\ Consume /\ Cur \notin Openers \cup Closers)
  BY DEF Goes, Takes, Brackets
<1>5. Types' /\ Bracketed'
  BY <1>1, <1>2, <1>3, <1>4, NeutralCall
<1>6. Ordered'
  BY <1>1, <1>3, OutsideOperators DEF Special
<1>. QED  BY <1>5, <1>6 DEF IInv

\* Calls that expect no brackets.
LEMMA PlainSteps ==
  ASSUME IInv, mode' = "parsing",
         \/ ParseVarExpr \/ ParseFields \/ ParseArgs \/ MoreArgs \/ ParseAssign
         \/ ParseCallStmt \/ ParseReturn \/ StructFields \/ ParseParams \/ MoreParams
  PROVE  IInv'
<1>. USE PlainCall
<1>0. \A tok \in {"IDENT", "COMMA", "SEMICOLON", "RETURN"} : Expect(tok) \in Plain
  BY PlainItems, TokenFacts DEF Marks, Keywords
<1>1. \A do \in {"fields", "more_args", "args", "target", "call", "type", "struct_fields",
                 "more_params", "params"} : Item(do) \in Plain
  BY PlainItems DEF Looking, Others, Special, BlockItems
<1>2. Expression \in Plain
  BY PlainItems
<1>3. \A do \in {"var", "fields", "args", "more_args", "assign", "call_stmt", "return",
                 "struct_fields", "params", "more_params"} :
        do \notin Special \cup {"unary", "factor", "operand"}
  BY DEF Special, BlockItems
<1>4. CASE ParseVarExpr
  <2>1. <<Expect("IDENT"), Item("fields")>> \in Seq(Plain)
    BY <1>0, <1>1
  <2>. QED  BY <1>3, <1>4, <2>1 DEF ParseVarExpr
<1>5. CASE ParseFields
  <2>1. <<Expect("IDENT"), Item("fields")>> \in Seq(Plain) /\ <<>> \in Seq(Plain)
    BY <1>0, <1>1
  <2>2. Doing("fields") /\ ahead # <<>>
    BY <1>5, Looked DEF ParseFields, Looking, IInv
  <2>3. Sees({"DOT"}) => Cur \notin Brackets
    BY DEF Sees, Brackets, Openers, Closers, CloserOf
  <2>. QED  BY <1>3, <1>5, <2>1, <2>2, <2>3 DEF ParseFields
<1>6. CASE ParseArgs
  <2>1. <<Expression, Item("more_args")>> \in Seq(Plain) /\ <<>> \in Seq(Plain)
    BY <1>1, <1>2
  <2>. QED  BY <1>3, <1>6, <2>1 DEF ParseArgs
<1>7. CASE MoreArgs
  <2>1. <<Expect("COMMA"), Item("args")>> \in Seq(Plain) /\ <<>> \in Seq(Plain)
    BY <1>0, <1>1
  <2>. QED  BY <1>3, <1>7, <2>1 DEF MoreArgs
<1>8. CASE ParseAssign
  <2>1. <<Expect("IDENT"), Item("target")>> \in Seq(Plain)
    BY <1>0, <1>1
  <2>. QED  BY <1>3, <1>8, <2>1 DEF ParseAssign
<1>9. CASE ParseCallStmt
  <2>1. <<Item("call"), Expect("SEMICOLON")>> \in Seq(Plain)
    BY <1>0, <1>1
  <2>. QED  BY <1>3, <1>9, <2>1 DEF ParseCallStmt
<1>10. CASE ParseReturn
  <2>1. <<Expect("RETURN"), Expression, Expect("SEMICOLON")>> \in Seq(Plain)
    BY <1>0, <1>2
  <2>. QED  BY <1>3, <1>10, <2>1 DEF ParseReturn
<1>11. CASE StructFields
  <2>1. /\ <<Item("type"), Expect("IDENT"), Expect("COMMA"), Item("struct_fields")>> \in Seq(Plain)
        /\ <<>> \in Seq(Plain)
    BY <1>0, <1>1
  <2>. QED  BY <1>3, <1>11, <2>1 DEF StructFields
<1>12. CASE ParseParams
  <2>1. /\ <<Item("type"), Expect("IDENT"), Item("more_params")>> \in Seq(Plain)
        /\ <<>> \in Seq(Plain)
    BY <1>0, <1>1
  <2>. QED  BY <1>3, <1>12, <2>1 DEF ParseParams
<1>13. CASE MoreParams
  <2>1. <<Expect("COMMA"), Item("params")>> \in Seq(Plain) /\ <<>> \in Seq(Plain)
    BY <1>0, <1>1
  <2>. QED  BY <1>3, <1>13, <2>1 DEF MoreParams
<1>. QED  BY <1>4, <1>5, <1>6, <1>7, <1>8, <1>9, <1>10, <1>11, <1>12, <1>13

\* What follows a value's target decides what it is assigned.
LEMMA ValueItems ==
  /\ \A seen \in SUBSET {"fields", "type", "equals"} :
       LET item == [Item("value") EXCEPT !.seen = seen] IN item \in Plain
  /\ \A item \in Pending, more \in SUBSET {"fields", "type", "equals"} :
       item.do = "value" => [item EXCEPT !.seen = @ \cup more] \in Plain
<1>1. ASSUME NEW item \in Pending, NEW seen \in SUBSET {"fields", "type", "equals"},
             item.do = "value"
      PROVE  [item EXCEPT !.seen = seen] \in Plain
  <2>1. item \in Items
    BY DEF Pending
  <2>2. [item EXCEPT !.seen = seen] \in Items /\ [item EXCEPT !.seen = seen].do = "value"
    BY <1>1, <2>1 DEF Items
  <2>. QED  BY <2>2 DEF Plain, Pending, Neutral, Needs, BlockItems
<1>2. Item("value") \in Pending /\ Item("value").do = "value"
  BY ItemFacts DEF Looking
<1>3. ASSUME NEW item \in Pending
      PROVE  item.seen \in SUBSET {"fields", "type", "equals"}
  BY DEF Pending, Items
<1>4. ASSUME NEW item \in Pending, NEW more \in SUBSET {"fields", "type", "equals"},
             item.do = "value"
      PROVE  [item EXCEPT !.seen = @ \cup more] \in Plain
  <2>. DEFINE seen == item.seen \cup more
  <2>1. seen \in SUBSET {"fields", "type", "equals"}
    BY <1>3
  <2>2. [item EXCEPT !.seen = seen] \in Plain
    <3>. HIDE DEF seen
    <3>. QED  BY <1>1, <1>4, <2>1
  <2>. QED  BY <2>2
<1>. QED  BY <1>1, <1>2, <1>4

LEMMA TargetStep ==
  ASSUME IInv, ParseTarget
  PROVE  IInv'
<1>. DEFINE seen == IF Sees({"DOT"}) THEN {"fields"} ELSE {}
            value == [Item("value") EXCEPT !.seen = seen]
<1>1. Doing("target") /\ Goes(<<Item("fields"), value>>)
  BY DEF ParseTarget
<1>2. value \in Plain
  BY ValueItems
<1>3. Item("fields") \in Plain /\ "target" \notin Special \cup {"unary", "factor", "operand"}
  BY PlainItems DEF Looking, Special, BlockItems
<1>. HIDE DEF value
<1>4. <<Item("fields"), value>> \in Seq(Plain)
  BY <1>2, <1>3
<1>. QED  BY <1>1, <1>3, <1>4, PlainCall

-----------------------------------------------------------------------------
(* Functions that expect brackets.                                         *)

LEMMA BracketTurns ==
  ASSUME NEW s \in Seq(Openers)
  PROVE  /\ \A o \in Openers :
              /\ Append(s, o) \in Seq(Openers)
              /\ Expect(o) \in Pending /\ Needs(Expect(o)) = 0
              /\ Expect(CloserOf[o]) \in Pending /\ Needs(Expect(CloserOf[o])) = 0
              /\ Turns(Expect(o), s, Append(s, o))
              /\ Turns(Expect(CloserOf[o]), Append(s, o), s)
              /\ Expect(o).do = "expect" /\ Expect(CloserOf[o]).do = "expect"
         /\ \A item \in Plain :
              /\ Turns(item, s, s)
              /\ item \in Pending /\ item.do \notin BlockItems /\ Needs(item) = 0
         /\ "expect" \notin BlockItems
<1>1. ASSUME NEW o \in Openers
      PROVE  /\ Append(s, o) \in Seq(Openers)
             /\ Expect(o) \in Pending /\ Needs(Expect(o)) = 0
             /\ Expect(CloserOf[o]) \in Pending /\ Needs(Expect(CloserOf[o])) = 0
             /\ Turns(Expect(o), s, Append(s, o))
             /\ Turns(Expect(CloserOf[o]), Append(s, o), s)
             /\ Expect(o).do = "expect" /\ Expect(CloserOf[o]).do = "expect"
  <2>1. o \in AllTokens /\ CloserOf[o] \in AllTokens /\ CloserOf[o] \in Closers
    BY TokenFacts DEF Brackets, Closers
  <2>2. o \notin Closers /\ CloserOf[o] \notin Openers
    BY DEF Openers, Closers, CloserOf
  <2>3. /\ Expect(o) \in Pending /\ Expect(o).do = "expect" /\ Expect(o).tok = o
        /\ Expect(CloserOf[o]) \in Pending /\ Expect(CloserOf[o]).do = "expect"
        /\ Expect(CloserOf[o]).tok = CloserOf[o]
    BY <2>1, ItemFacts
  <2>4. Needs(Expect(o)) = 0 /\ Needs(Expect(CloserOf[o])) = 0
    BY <2>1, PlainItems
  <2>5. Turns(Expect(o), s, Append(s, o))
    BY <2>2, <2>3 DEF Turns
  <2>6. Turns(Expect(CloserOf[o]), Append(s, o), s)
    BY <2>1, <2>2, <2>3 DEF Turns
  <2>. QED  BY <2>3, <2>4, <2>5, <2>6
<1>2. ASSUME NEW item \in Plain
      PROVE  /\ Turns(item, s, s)
             /\ item \in Pending /\ item.do \notin BlockItems /\ Needs(item) = 0
  BY DEF Plain, Neutral, Turns, BlockItems
<1>. QED  BY <1>1, <1>2 DEF BlockItems

LEMMA BracketCall ==
  ASSUME IInv, NEW do, Doing(do), do \notin {"program", "expect"},
         NEW items \in Seq(Pending), Goes(items) \/ (ahead # <<>> /\ Takes(items)),
         BlocksOutermost(items),
         ASSUME NEW i \in 1..Len(items), items[i].do \in BlockItems
         PROVE  do \in BlockItems,
         NEW before \in Seq(Seq(Openers)), Len(before) = Len(items) + 1,
         before[1] = opened', before[Len(items) + 1] = opened,
         \A i \in 1..Len(items) :
           /\ Turns(items[i], before[i], before[i + 1])
           /\ items[i].do \in BlockItems => before[i] \in Seq({"LBRACE"})
  PROVE  Types' /\ Bracketed'
<1>1. /\ Types /\ Bracketed /\ mode = "parsing" /\ todo # <<>> /\ todo[1].do = do
  BY Turn
<1>2. /\ Calls(items) /\ mode' = "parsing"
      /\ ahead' = ahead \/ (ahead # <<>> /\ Consume)
  BY <1>1 DEF Goes, Takes, Stay
<1>3. Types'
  BY <1>1, <1>2, TypesStep
<1>4. PICK after \in Seq(Openers) : Turns(todo[1], opened, after) /\ Balances(Tail(todo), after)
  BY <1>1, Unfinished
<1>5. after = opened
  BY <1>1, <1>4 DEF Turns
<1>6. Bracketed'
  BY <1>1, <1>2, <1>4, <1>5, BracketsStep
<1>. QED  BY <1>3, <1>6

\* A call's parentheses.
LEMMA CallExprStep ==
  ASSUME IInv, ParseCallExpr
  PROVE  IInv'
<1>. DEFINE items == <<Expect("IDENT"), Expect("LPAREN"), Item("args"), Expect("RPAREN")>>
            paren == Append(opened, "LPAREN")
            before == <<opened, opened, paren, paren, opened>>
<1>1. Doing("call") /\ Goes(items)
  BY DEF ParseCallExpr
<1>2. /\ Types /\ Bracketed /\ mode = "parsing" /\ todo # <<>> /\ todo[1].do = "call"
      /\ opened \in Seq(Openers)
  BY <1>1, Turn, Unfinished
<1>3. "LPAREN" \in Openers /\ CloserOf["LPAREN"] = "RPAREN"
  BY DEF Openers, CloserOf
<1>4. Expect("IDENT") \in Plain /\ Item("args") \in Plain
  BY PlainItems, TokenFacts DEF Marks, Looking, Special, BlockItems
<1>5. /\ paren \in Seq(Openers)
      /\ Expect("LPAREN") \in Pending /\ Needs(Expect("LPAREN")) = 0
      /\ Expect("RPAREN") \in Pending /\ Needs(Expect("RPAREN")) = 0
      /\ Turns(Expect("LPAREN"), opened, paren) /\ Turns(Expect("RPAREN"), paren, opened)
      /\ Expect("LPAREN").do \notin BlockItems /\ Expect("RPAREN").do \notin BlockItems
  BY <1>2, <1>3, BracketTurns
<1>6. /\ Turns(Expect("IDENT"), opened, opened) /\ Turns(Item("args"), paren, paren)
      /\ Expect("IDENT") \in Pending /\ Item("args") \in Pending
      /\ Expect("IDENT").do \notin BlockItems /\ Item("args").do \notin BlockItems
      /\ Needs(Expect("IDENT")) = 0 /\ Needs(Item("args")) = 0
  BY <1>2, <1>4, <1>5, BracketTurns
<1>. HIDE DEF paren
<1>7. items \in Seq(Pending) /\ before \in Seq(Seq(Openers)) /\ Len(before) = Len(items) + 1
  BY <1>2, <1>5, <1>6
<1>8. before[1] = opened /\ before[Len(items) + 1] = opened /\ opened' = opened
  BY <1>1 DEF Goes, Stay
<1>9. \A i \in 1..Len(items) :
        /\ Turns(items[i], before[i], before[i + 1])
        /\ items[i].do \notin BlockItems /\ Needs(items[i]) = 0
  BY <1>5, <1>6
<1>. HIDE DEF items, before
<1>10. BlocksOutermost(items)
  BY <1>9, NeutralBlocks
<1>11. Types' /\ Bracketed'
  BY <1>1, <1>7, <1>8, <1>9, <1>10, BracketCall
<1>12. Ordered'
  BY <1>1, <1>7, <1>9, OutsideOperators DEF Goes
<1>. QED  BY <1>11, <1>12 DEF IInv

\* print_str and print_val.
LEMMA BuiltStep ==
  ASSUME IInv, ParsePrintStr \/ ParsePrintVal
  PROVE  IInv'
<1>1. PICK do \in {"print_str", "print_val"}, K \in {"PRINT_STR", "PRINT_VAL"} :
        Doing(do) /\ Goes(Built(K))
  BY DEF ParsePrintStr, ParsePrintVal
<1>. DEFINE items == <<Expect(K), Expect("LPAREN"), Expression, Expect("RPAREN"), Expect("SEMICOLON")>>
            paren == Append(opened, "LPAREN")
            before == <<opened, opened, paren, paren, opened, opened>>
<1>2. Goes(items)
  BY <1>1 DEF Built
<1>3. opened \in Seq(Openers)
  BY <1>1, Turn, Unfinished
<1>4. "LPAREN" \in Openers /\ CloserOf["LPAREN"] = "RPAREN"
  BY DEF Openers, CloserOf
<1>5. Expect(K) \in Plain /\ Expression \in Plain /\ Expect("SEMICOLON") \in Plain
  BY PlainItems, TokenFacts DEF Marks, Keywords
<1>6. /\ paren \in Seq(Openers)
      /\ Expect("LPAREN") \in Pending /\ Needs(Expect("LPAREN")) = 0
      /\ Expect("RPAREN") \in Pending /\ Needs(Expect("RPAREN")) = 0
      /\ Turns(Expect("LPAREN"), opened, paren) /\ Turns(Expect("RPAREN"), paren, opened)
      /\ Expect("LPAREN").do \notin BlockItems /\ Expect("RPAREN").do \notin BlockItems
  BY <1>3, <1>4, BracketTurns
<1>7. /\ Turns(Expect(K), opened, opened) /\ Turns(Expression, paren, paren)
      /\ Turns(Expect("SEMICOLON"), opened, opened)
      /\ Expect(K) \in Pending /\ Expression \in Pending /\ Expect("SEMICOLON") \in Pending
      /\ Expect(K).do \notin BlockItems /\ Expression.do \notin BlockItems
      /\ Expect("SEMICOLON").do \notin BlockItems
      /\ Needs(Expect(K)) = 0 /\ Needs(Expression) = 0 /\ Needs(Expect("SEMICOLON")) = 0
  BY <1>3, <1>5, <1>6, BracketTurns
<1>. HIDE DEF paren
<1>8. items \in Seq(Pending) /\ before \in Seq(Seq(Openers)) /\ Len(before) = Len(items) + 1
  BY <1>3, <1>6, <1>7
<1>9. before[1] = opened /\ before[Len(items) + 1] = opened /\ opened' = opened
  BY <1>2 DEF Goes, Stay
<1>10. \A i \in 1..Len(items) :
         /\ Turns(items[i], before[i], before[i + 1])
         /\ items[i].do \notin BlockItems /\ Needs(items[i]) = 0
  BY <1>6, <1>7
<1>. HIDE DEF items, before
<1>11. BlocksOutermost(items)
  BY <1>10, NeutralBlocks
<1>12. Types' /\ Bracketed'
  BY <1>1, <1>2, <1>8, <1>9, <1>10, <1>11, BracketCall
<1>13. Ordered'
  BY <1>1, <1>2, <1>8, <1>10, OutsideOperators DEF Goes
<1>. QED  BY <1>12, <1>13 DEF IInv

\* A struct's braces.
LEMMA StructStep ==
  ASSUME IInv, ParseDefineStruct
  PROVE  IInv'
<1>. DEFINE items == <<Expect("STRUCT"), Expect("IDENT"), Expect("LBRACE"), Item("struct_fields"),
                       Expect("RBRACE")>>
            brace == Append(opened, "LBRACE")
            before == <<opened, opened, opened, brace, brace, opened>>
<1>1. Doing("struct") /\ Goes(items)
  BY DEF ParseDefineStruct
<1>2. opened \in Seq(Openers)
  BY <1>1, Turn, Unfinished
<1>3. "LBRACE" \in Openers /\ CloserOf["LBRACE"] = "RBRACE"
  BY DEF Openers, CloserOf
<1>4. Expect("STRUCT") \in Plain /\ Expect("IDENT") \in Plain /\ Item("struct_fields") \in Plain
  BY PlainItems, TokenFacts DEF Marks, Keywords, Looking, Special, BlockItems
<1>5. /\ brace \in Seq(Openers)
      /\ Expect("LBRACE") \in Pending /\ Needs(Expect("LBRACE")) = 0
      /\ Expect("RBRACE") \in Pending /\ Needs(Expect("RBRACE")) = 0
      /\ Turns(Expect("LBRACE"), opened, brace) /\ Turns(Expect("RBRACE"), brace, opened)
      /\ Expect("LBRACE").do \notin BlockItems /\ Expect("RBRACE").do \notin BlockItems
  BY <1>2, <1>3, BracketTurns
<1>6. /\ Turns(Expect("STRUCT"), opened, opened) /\ Turns(Expect("IDENT"), opened, opened)
      /\ Turns(Item("struct_fields"), brace, brace)
      /\ Expect("STRUCT") \in Pending /\ Expect("IDENT") \in Pending
      /\ Item("struct_fields") \in Pending
      /\ Expect("STRUCT").do \notin BlockItems /\ Expect("IDENT").do \notin BlockItems
      /\ Item("struct_fields").do \notin BlockItems
      /\ Needs(Expect("STRUCT")) = 0 /\ Needs(Expect("IDENT")) = 0
      /\ Needs(Item("struct_fields")) = 0
  BY <1>2, <1>4, <1>5, BracketTurns
<1>. HIDE DEF brace
<1>7. items \in Seq(Pending) /\ before \in Seq(Seq(Openers)) /\ Len(before) = Len(items) + 1
  BY <1>2, <1>5, <1>6
<1>8. before[1] = opened /\ before[Len(items) + 1] = opened /\ opened' = opened
  BY <1>1 DEF Goes, Stay
<1>9. \A i \in 1..Len(items) :
        /\ Turns(items[i], before[i], before[i + 1])
        /\ items[i].do \notin BlockItems /\ Needs(items[i]) = 0
  BY <1>5, <1>6
<1>. HIDE DEF items, before
<1>10. BlocksOutermost(items)
  BY <1>9, NeutralBlocks
<1>11. Types' /\ Bracketed'
  BY <1>1, <1>7, <1>8, <1>9, <1>10, BracketCall
<1>12. Ordered'
  BY <1>1, <1>7, <1>9, OutsideOperators DEF Goes
<1>. QED  BY <1>11, <1>12 DEF IInv

\* What a block begins with is called where only braces are open.
LEMMA OnlyBraces ==
  ASSUME Types, Bracketed, todo # <<>>, todo[1].do \in {"loop", "if", "def"}
  PROVE  opened \in Seq({"LBRACE"}) /\ Append(opened, "LBRACE") \in Seq({"LBRACE"})
<1>1. Balances(todo, opened) /\ 1 \in 1..Len(todo)
  BY DEF Types, Bracketed, AtTheEnd, OneBraceTooMany
<1>2. opened \in Seq({"LBRACE"})
  BY <1>1 DEF Balances, BlockItems
<1>. QED  BY <1>2

LEMMA ProgramItem ==
  ASSUME NEW s \in Seq(Openers)
  PROVE  /\ Turns(Item("program"), Append(s, "LBRACE"), s)
         /\ Item("program") \in Pending /\ Item("program").do = "program"
         /\ Needs(Item("program")) = 0
<1>1. Item("program") \in Pending /\ Item("program").do = "program"
  BY ItemFacts DEF Looking
<1>. QED  BY <1>1 DEF Turns, Needs

\* loop and if.
LEMMA BlockStep ==
  ASSUME IInv, ParseLoop \/ ParseIf
  PROVE  IInv'
<1>1. PICK do \in {"loop", "if"}, K \in {"LOOP", "IF"} : Doing(do) /\ Goes(Block(K))
  BY DEF ParseLoop, ParseIf
<1>. DEFINE items == <<Expect(K), Expect("LPAREN"), Expression, Expect("RPAREN"), Expect("LBRACE"),
                       Item("program")>>
            paren == Append(opened, "LPAREN")
            brace == Append(opened, "LBRACE")
            before == <<opened, opened, paren, paren, opened, brace, opened>>
<1>2. Goes(items)
  BY <1>1 DEF Block
<1>3. opened \in Seq(Openers) /\ brace \in Seq({"LBRACE"})
  BY <1>1, Turn, Unfinished, OnlyBraces
<1>4. /\ "LPAREN" \in Openers /\ CloserOf["LPAREN"] = "RPAREN" /\ "LBRACE" \in Openers
      /\ do \in BlockItems
  BY DEF Openers, CloserOf, BlockItems
<1>5. Expect(K) \in Plain /\ Expression \in Plain
  BY PlainItems, TokenFacts DEF Marks, Keywords
<1>6. /\ paren \in Seq(Openers) /\ brace \in Seq(Openers)
      /\ Expect("LPAREN") \in Pending /\ Needs(Expect("LPAREN")) = 0
      /\ Expect("RPAREN") \in Pending /\ Needs(Expect("RPAREN")) = 0
      /\ Expect("LBRACE") \in Pending /\ Needs(Expect("LBRACE")) = 0
      /\ Turns(Expect("LPAREN"), opened, paren) /\ Turns(Expect("RPAREN"), paren, opened)
      /\ Turns(Expect("LBRACE"), opened, brace)
      /\ Expect("LPAREN").do \notin BlockItems /\ Expect("RPAREN").do \notin BlockItems
      /\ Expect("LBRACE").do \notin BlockItems
  BY <1>3, <1>4, BracketTurns
<1>7. /\ Turns(Expect(K), opened, opened) /\ Turns(Expression, paren, paren)
      /\ Expect(K) \in Pending /\ Expression \in Pending
      /\ Expect(K).do \notin BlockItems /\ Expression.do \notin BlockItems
      /\ Needs(Expect(K)) = 0 /\ Needs(Expression) = 0
  BY <1>3, <1>5, <1>6, BracketTurns
<1>8. /\ Turns(Item("program"), brace, opened) /\ Item("program") \in Pending
      /\ Item("program").do = "program" /\ Needs(Item("program")) = 0
  BY <1>3, ProgramItem
<1>. HIDE DEF paren, brace
<1>9. items \in Seq(Pending) /\ before \in Seq(Seq(Openers)) /\ Len(before) = Len(items) + 1
  BY <1>3, <1>6, <1>7, <1>8
<1>10. before[1] = opened /\ before[Len(items) + 1] = opened /\ opened' = opened
  BY <1>2 DEF Goes, Stay
<1>11. \A i \in 1..Len(items) :
         /\ Turns(items[i], before[i], before[i + 1])
         /\ Needs(items[i]) = 0
         /\ items[i].do \in BlockItems => i = 6 /\ before[i] \in Seq({"LBRACE"})
  <2>1. \A i \in 1..6 :
          /\ Turns(items[i], before[i], before[i + 1])
          /\ Needs(items[i]) = 0
    BY <1>6, <1>7, <1>8
  <2>2. \A i \in 1..5 : items[i].do \notin BlockItems
    BY <1>6, <1>7
  <2>3. Len(items) = 6 /\ before[6] = brace
    OBVIOUS
  <2>. HIDE DEF items, before
  <2>. QED  BY <1>3, <2>1, <2>2, <2>3
<1>12. Len(items) = 6
  OBVIOUS
<1>. HIDE DEF items, before
<1>13. BlocksOutermost(items)
  BY <1>11, <1>12 DEF BlocksOutermost
<1>14. Types' /\ Bracketed'
  BY <1>1, <1>2, <1>4, <1>9, <1>10, <1>11, <1>13, BracketCall
<1>15. Ordered'
  BY <1>1, <1>2, <1>9, <1>11, OutsideOperators DEF Goes
<1>. QED  BY <1>14, <1>15 DEF IInv

LEMMA FunctionStep ==
  ASSUME IInv, ParseFunctionDefinition
  PROVE  IInv'
<1>. DEFINE items == <<Expect("DEF"), Expect("IDENT"), Expect("IDENT"), Expect("LPAREN"),
                       Item("params"), Expect("RPAREN"), Expect("LBRACE"), Item("program")>>
            paren == Append(opened, "LPAREN")
            brace == Append(opened, "LBRACE")
            before == <<opened, opened, opened, opened, paren, paren, opened, brace, opened>>
<1>1. Doing("def") /\ Goes(items)
  BY DEF ParseFunctionDefinition
<1>2. opened \in Seq(Openers) /\ brace \in Seq({"LBRACE"})
  BY <1>1, Turn, Unfinished, OnlyBraces
<1>3. /\ "LPAREN" \in Openers /\ CloserOf["LPAREN"] = "RPAREN" /\ "LBRACE" \in Openers
      /\ "def" \in BlockItems
  BY DEF Openers, CloserOf, BlockItems
<1>4. Expect("DEF") \in Plain /\ Expect("IDENT") \in Plain /\ Item("params") \in Plain
  BY PlainItems, TokenFacts DEF Marks, Keywords, Looking, Special, BlockItems
<1>5. /\ paren \in Seq(Openers) /\ brace \in Seq(Openers)
      /\ Expect("LPAREN") \in Pending /\ Needs(Expect("LPAREN")) = 0
      /\ Expect("RPAREN") \in Pending /\ Needs(Expect("RPAREN")) = 0
      /\ Expect("LBRACE") \in Pending /\ Needs(Expect("LBRACE")) = 0
      /\ Turns(Expect("LPAREN"), opened, paren) /\ Turns(Expect("RPAREN"), paren, opened)
      /\ Turns(Expect("LBRACE"), opened, brace)
      /\ Expect("LPAREN").do \notin BlockItems /\ Expect("RPAREN").do \notin BlockItems
      /\ Expect("LBRACE").do \notin BlockItems
  BY <1>2, <1>3, BracketTurns
<1>6. /\ Turns(Expect("DEF"), opened, opened) /\ Turns(Expect("IDENT"), opened, opened)
      /\ Turns(Item("params"), paren, paren)
      /\ Expect("DEF") \in Pending /\ Expect("IDENT") \in Pending /\ Item("params") \in Pending
      /\ Expect("DEF").do \notin BlockItems /\ Expect("IDENT").do \notin BlockItems
      /\ Item("params").do \notin BlockItems
      /\ Needs(Expect("DEF")) = 0 /\ Needs(Expect("IDENT")) = 0 /\ Needs(Item("params")) = 0
  BY <1>2, <1>4, <1>5, BracketTurns
<1>7. /\ Turns(Item("program"), brace, opened) /\ Item("program") \in Pending
      /\ Item("program").do = "program" /\ Needs(Item("program")) = 0
  BY <1>2, ProgramItem
<1>. HIDE DEF paren, brace
<1>8. items \in Seq(Pending) /\ before \in Seq(Seq(Openers)) /\ Len(before) = Len(items) + 1
  BY <1>2, <1>5, <1>6, <1>7
<1>9. before[1] = opened /\ before[Len(items) + 1] = opened /\ opened' = opened
  BY <1>1 DEF Goes, Stay
<1>10. \A i \in 1..Len(items) :
         /\ Turns(items[i], before[i], before[i + 1])
         /\ Needs(items[i]) = 0
         /\ items[i].do \in BlockItems => i = 8 /\ before[i] \in Seq({"LBRACE"})
  <2>1. \A i \in 1..8 :
          /\ Turns(items[i], before[i], before[i + 1])
          /\ Needs(items[i]) = 0
    BY <1>5, <1>6, <1>7
  <2>2. \A i \in 1..7 : items[i].do \notin BlockItems
    BY <1>5, <1>6
  <2>3. Len(items) = 8 /\ before[8] = brace
    OBVIOUS
  <2>. HIDE DEF items, before
  <2>. QED  BY <1>2, <2>1, <2>2, <2>3
<1>11. Len(items) = 8
  OBVIOUS
<1>. HIDE DEF items, before
<1>12. BlocksOutermost(items)
  BY <1>10, <1>11 DEF BlocksOutermost
<1>13. Types' /\ Bracketed'
  BY <1>1, <1>3, <1>8, <1>9, <1>10, <1>12, BracketCall
<1>14. Ordered'
  BY <1>1, <1>8, <1>10, OutsideOperators DEF Goes
<1>. QED  BY <1>13, <1>14 DEF IInv

\* An opening bracket is consumed; one item, and its closing bracket is expected.
LEMMA OpenedStep ==
  ASSUME IInv, NEW do, Doing(do), do \notin {"program", "expect"}, ahead # <<>>,
         NEW o \in Openers, Cur = o, NEW x \in Plain, NEW rest \in Seq(Plain),
         Takes(<<x, Expect(CloserOf[o])>> \o rest)
  PROVE  /\ Types' /\ Bracketed'
         /\ <<x, Expect(CloserOf[o])>> \o rest \in Seq(Pending)
         /\ \A i \in 1..Len(<<x, Expect(CloserOf[o])>> \o rest) :
              Needs((<<x, Expect(CloserOf[o])>> \o rest)[i]) = 0
<1>. DEFINE pair == <<x, Expect(CloserOf[o])>>
            items == pair \o rest
            n == Len(items)
            inside == Append(opened, o)
            before == [i \in 1..(n + 1) |-> IF i <= 2 THEN inside ELSE opened]
<1>1. opened \in Seq(Openers)
  BY Turn, Unfinished
<1>2. /\ inside \in Seq(Openers) /\ Turns(Expect(CloserOf[o]), inside, opened)
      /\ Expect(CloserOf[o]) \in Pending /\ Expect(CloserOf[o]).do \notin BlockItems
      /\ Needs(Expect(CloserOf[o])) = 0
  BY <1>1, BracketTurns
<1>3. opened' = inside
  <2>1. Consume
    BY DEF Takes
  <2>2. o \notin Closers
    BY DEF Openers, Closers, CloserOf
  <2>. QED  BY <2>1, <2>2 DEF Consume
<1>. HIDE DEF inside
<1>4. \A y \in Plain : /\ Turns(y, opened, opened) /\ Turns(y, inside, inside)
                       /\ y \in Pending /\ y.do \notin BlockItems /\ Needs(y) = 0
  BY <1>1, <1>2, BracketTurns
<1>5. pair \in Seq(Pending) /\ Len(pair) = 2 /\ pair[1] = x /\ pair[2] = Expect(CloserOf[o])
  BY <1>2, <1>4
<1>6. rest \in Seq(Pending) /\ Len(rest) \in Nat /\ \A i \in 1..Len(rest) : rest[i] \in Plain
  BY <1>4
<1>. HIDE DEF pair
<1>7. /\ items \in Seq(Pending) /\ n = 2 + Len(rest)
      /\ \A i \in 1..n : items[i] = IF i <= 2 THEN pair[i] ELSE rest[i - 2]
  <2>1. /\ items \in Seq(Pending) /\ n = Len(pair) + Len(rest)
        /\ \A i \in 1..(Len(pair) + Len(rest)) :
             items[i] = IF i <= Len(pair) THEN pair[i] ELSE rest[i - Len(pair)]
    BY <1>5, <1>6, ConcatProperties
  <2>. HIDE DEF items
  <2>. QED  BY <1>5, <2>1
<1>8. /\ items[1] = x /\ items[2] = Expect(CloserOf[o])
      /\ \A i \in 3..n : items[i] \in Plain
  <2>1. 1 \in 1..n /\ 2 \in 1..n
    BY <1>6, <1>7
  <2>2. ASSUME NEW i \in 3..n
        PROVE  items[i] \in Plain
    <3>1. i - 2 \in 1..Len(rest) /\ i \in 1..n /\ ~(i <= 2)
      BY <1>6, <1>7
    <3>. QED  BY <1>6, <1>7, <3>1
  <2>. QED  BY <1>5, <1>7, <2>1, <2>2
<1>. HIDE DEF items
<1>9. n \in Nat /\ n >= 2
  BY <1>6, <1>7
<1>10. before \in Seq(Seq(Openers)) /\ Len(before) = n + 1
  BY <1>1, <1>2, <1>9
<1>11. /\ before[1] = inside /\ before[2] = inside
       /\ \A i \in 3..(n + 1) : before[i] = opened
  BY <1>9
<1>12. n + 1 \in 3..(n + 1)
  BY <1>9
<1>. HIDE DEF before
<1>13. ASSUME NEW i \in 1..n
       PROVE  /\ Turns(items[i], before[i], before[i + 1])
              /\ items[i].do \notin BlockItems /\ Needs(items[i]) = 0
  <2>1. CASE i = 1
    BY <1>4, <1>8, <1>11, <2>1
  <2>2. CASE i = 2
    <3>1. 3 \in 3..(n + 1) /\ i + 1 = 3
      BY <1>9, <2>2
    <3>. QED  BY <1>2, <1>8, <1>11, <2>2, <3>1
  <2>3. CASE i > 2
    <3>1. i \in 3..n /\ i \in 3..(n + 1) /\ i + 1 \in 3..(n + 1)
      BY <1>9, <2>3
    <3>. QED  BY <1>4, <1>8, <1>11, <3>1
  <2>. QED  BY <2>1, <2>2, <2>3
<1>14. BlocksOutermost(items)
  BY <1>13, NeutralBlocks
<1>15. Takes(items)
  BY DEF items, pair
<1>16. Types' /\ Bracketed'
  BY <1>3, <1>7, <1>10, <1>11, <1>12, <1>13, <1>14, <1>15, BracketCall
<1>. QED  BY <1>7, <1>13, <1>16 DEF items, pair

LEMMA IndexStep ==
  ASSUME IInv, ParseIndex
  PROVE  IInv'
<1>. DEFINE items == <<Expression, Expect("RBRACKET")>>
<1>1. Doing("index") /\ ahead # <<>>
  BY Looked DEF ParseIndex, Looking, IInv
<1>2. Expression \in Plain
  BY PlainItems
<1>3. CASE Sees({"LBRACKET"})
  <2>1. Takes(items) /\ Cur = "LBRACKET" /\ "LBRACKET" \in Openers /\ CloserOf["LBRACKET"] = "RBRACKET"
    BY <1>3 DEF ParseIndex, Sees, Openers, CloserOf
  <2>2. items \in Seq({Expression, Expect("RBRACKET")}) /\ <<>> \in Seq(Plain)
    OBVIOUS
  <2>3. items \o <<>> = items
    BY <2>2, ConcatEmptySeq
  <2>. HIDE DEF items
  <2>4. /\ Types' /\ Bracketed' /\ items \in Seq(Pending)
        /\ \A i \in 1..Len(items) : Needs(items[i]) = 0
    <3>1. items = <<Expression, Expect(CloserOf["LBRACKET"])>>
      BY <2>1 DEF items
    <3>. QED  BY <1>1, <1>2, <2>1, <2>2, <2>3, <3>1, OpenedStep
  <2>5. Ordered'
    BY <1>1, <2>1, <2>4, OutsideOperators DEF Takes
  <2>. QED  BY <2>4, <2>5 DEF IInv
<1>4. CASE ~Sees({"LBRACKET"})
  <2>1. Goes(<<>>) /\ <<>> \in Seq(Plain)
    BY <1>4 DEF ParseIndex
  <2>. QED  BY <1>1, <2>1, PlainCall DEF Special, BlockItems
<1>. QED  BY <1>3, <1>4

LEMMA TypeStep ==
  ASSUME IInv, ParseType
  PROVE  IInv'
<1>. DEFINE items == <<Expect("NUMBER"), Expect("RBRACKET")>>
<1>1. Doing("type") /\ ahead # <<>>
  BY Looked DEF ParseType, Looking, IInv
<1>2. Expect("NUMBER") \in Plain /\ Expect("IDENT") \in Plain
  BY PlainItems, TokenFacts DEF Marks
<1>3. CASE Sees({"LBRACKET"})
  <2>1. Takes(items) /\ Cur = "LBRACKET" /\ "LBRACKET" \in Openers /\ CloserOf["LBRACKET"] = "RBRACKET"
    BY <1>3 DEF ParseType, Sees, Openers, CloserOf
  <2>2. items \in Seq({Expect("NUMBER"), Expect("RBRACKET")}) /\ <<>> \in Seq(Plain)
    OBVIOUS
  <2>3. items \o <<>> = items
    BY <2>2, ConcatEmptySeq
  <2>. HIDE DEF items
  <2>4. /\ Types' /\ Bracketed' /\ items \in Seq(Pending)
        /\ \A i \in 1..Len(items) : Needs(items[i]) = 0
    <3>1. items = <<Expect("NUMBER"), Expect(CloserOf["LBRACKET"])>>
      BY <2>1 DEF items
    <3>. DEFINE again == <<Expect("NUMBER"), Expect(CloserOf["LBRACKET"])>> \o <<>>
    <3>2. items = again
      BY <2>3, <3>1
    <3>3. "type" \notin {"program", "expect"} /\ Takes(again)
      BY <2>1, <3>2
    <3>4. /\ Types' /\ Bracketed' /\ again \in Seq(Pending)
          /\ \A i \in 1..Len(again) : Needs(again[i]) = 0
      BY <1>1, <1>2, <2>1, <2>2, <3>3, OpenedStep
    <3>. HIDE DEF again
    <3>. QED  BY <3>2, <3>4
  <2>5. Ordered'
    BY <1>1, <2>1, <2>4, OutsideOperators DEF Takes
  <2>. QED  BY <2>4, <2>5 DEF IInv
<1>4. CASE ~Sees({"LBRACKET"})
  <2>1. Goes(<<Expect("IDENT")>>) /\ <<Expect("IDENT")>> \in Seq(Plain)
    BY <1>2, <1>4 DEF ParseType
  <2>. QED  BY <1>1, <2>1, PlainCall DEF Special, BlockItems
<1>. QED  BY <1>3, <1>4

LEMMA ValueStep ==
  ASSUME IInv, ParseValue, mode' = "parsing"
  PROVE  IInv'
<1>. DEFINE index == <<Expression, Expect("RBRACKET")>>
            store == <<Expect("EQUALS"), Expression, Expect("SEMICOLON")>>
            typed == [Head(todo) EXCEPT !.seen = @ \cup {"type"}]
            equal == [Head(todo) EXCEPT !.seen = @ \cup {"equals"}]
<1>1. /\ Doing("value") /\ ahead # <<>>
      /\ Head(todo) \in Pending /\ Head(todo).do = "value"
  BY Looked, Turn DEF ParseValue, Looking, IInv
<1>2. /\ Expression \in Plain /\ Expect("EQUALS") \in Plain /\ Expect("SEMICOLON") \in Plain
      /\ Item("type") \in Plain
  BY PlainItems, TokenFacts DEF Marks, Looking, Special, BlockItems
<1>3. typed \in Plain /\ equal \in Plain
  BY <1>1, ValueItems
<1>4. mode = "parsing"
  BY <1>1, Turn
<1>. HIDE DEF typed, equal
<1>5. /\ store \in Seq(Plain) /\ <<Expect("SEMICOLON")>> \in Seq(Plain)
      /\ <<Item("type"), typed>> \in Seq(Plain) /\ <<Expect("EQUALS"), equal>> \in Seq(Plain)
      /\ <<Expression, Expect("SEMICOLON")>> \in Seq(Plain)
  BY <1>2, <1>3
<1>6. \/ Cur = "LBRACKET" /\ Takes(index \o store)
      \/ Cur = "COLON" /\ Takes(<<Item("type"), typed>>)
      \/ Goes(<<Expect("EQUALS"), equal>>)
      \/ Cur = "LBRACKET" /\ Takes(index \o <<Expect("SEMICOLON")>>)
      \/ Goes(<<Expression, Expect("SEMICOLON")>>)
  BY <1>4 DEF ParseValue, typed, equal, Throw, Sees
<1>7. ASSUME NEW rest \in Seq(Plain), Cur = "LBRACKET", Takes(index \o rest)
      PROVE  IInv'
  <2>1. "LBRACKET" \in Openers /\ CloserOf["LBRACKET"] = "RBRACKET"
    BY DEF Openers, CloserOf
  <2>. DEFINE items == <<Expression, Expect(CloserOf["LBRACKET"])>> \o rest
  <2>2. Takes(items)
    BY <1>7, <2>1
  <2>. HIDE DEF items
  <2>3. /\ Types' /\ Bracketed' /\ items \in Seq(Pending)
        /\ \A i \in 1..Len(items) : Needs(items[i]) = 0
    BY <1>1, <1>2, <1>7, <2>1, <2>2, OpenedStep DEF items
  <2>4. Ordered'
    BY <1>1, <2>2, <2>3, OutsideOperators DEF Takes
  <2>. QED  BY <2>3, <2>4 DEF IInv
<1>. HIDE DEF index, store
<1>8. "COLON" \notin Brackets /\ "value" \notin Special \cup {"unary", "factor", "operand"}
  BY TokenFacts DEF Marks, Special, BlockItems
<1>. QED  BY <1>1, <1>5, <1>6, <1>7, <1>8, PlainCall

-----------------------------------------------------------------------------
(* Expressions.                                                            *)

\* The items of an expression's functions.
LEMMA OperatorItems ==
  /\ \A k \in Levels :
       LET tail == AtLevel("tail", k)
       IN  tail \in Pending /\ Neutral(tail) /\ Needs(tail) = k /\ Gives(tail) = k
  /\ \A k \in Levels :
       /\ RightOperand(k) \in Pending /\ Neutral(RightOperand(k))
       /\ Needs(RightOperand(k)) = 0 /\ Gives(RightOperand(k)) \in Nat
       /\ Gives(RightOperand(k)) > k
  /\ \A k \in Levels : \A t \in OpsAt[k] :
       LET binary == [Item("binary") EXCEPT !.tok = t]
       IN  binary \in Pending /\ Neutral(binary) /\ Needs(binary) = k + 1 /\ Gives(binary) = k
  /\ \A do \in {"unary", "not", "factor", "operand"} :
       /\ Item(do) \in Pending /\ Neutral(Item(do))
       /\ Needs(Item(do)) = IF do = "not" THEN 5 ELSE 0
       /\ Gives(Item(do)) = IF do \in {"unary", "not"} THEN 5 ELSE 6
<1>1. ASSUME NEW k \in Levels
      PROVE  LET tail == AtLevel("tail", k)
             IN  tail \in Pending /\ Neutral(tail) /\ Needs(tail) = k /\ Gives(tail) = k
  <2>1. AtLevel("tail", k) \in Pending /\ AtLevel("tail", k).do = "tail" /\ AtLevel("tail", k).level = k
    BY ItemFacts
  <2>. QED  BY <2>1 DEF Neutral, BlockItems, Needs, Gives
<1>2. ASSUME NEW do \in {"unary", "not", "factor", "operand"}
      PROVE  /\ Item(do) \in Pending /\ Neutral(Item(do))
             /\ Needs(Item(do)) = IF do = "not" THEN 5 ELSE 0
             /\ Gives(Item(do)) = IF do \in {"unary", "not"} THEN 5 ELSE 6
  <2>1. Item(do) \in Pending /\ Item(do).do = do
    BY ItemFacts DEF Looking, Others
  <2>. QED  BY <2>1 DEF Neutral, BlockItems, Needs, Gives
<1>3. ASSUME NEW k \in Levels
      PROVE  /\ RightOperand(k) \in Pending /\ Neutral(RightOperand(k))
             /\ Needs(RightOperand(k)) = 0 /\ Gives(RightOperand(k)) \in Nat
             /\ Gives(RightOperand(k)) > k
  <2>1. CASE k = 4
    BY <1>2, <2>1 DEF RightOperand
  <2>2. CASE k # 4
    <3>1. k + 1 \in Levels /\ RightOperand(k) = AtLevel("level", k + 1)
      BY <2>2 DEF Levels, RightOperand
    <3>2. AtLevel("level", k + 1) \in Plain /\ Gives(AtLevel("level", k + 1)) = k + 1
      BY <3>1, PlainItems
    <3>3. k \in Nat
      BY DEF Levels
    <3>. QED  BY <3>1, <3>2, <3>3 DEF Plain
  <2>. QED  BY <2>1, <2>2
<1>4. ASSUME NEW k \in Levels, NEW t \in OpsAt[k]
      PROVE  LET binary == [Item("binary") EXCEPT !.tok = t]
             IN  binary \in Pending /\ Neutral(binary) /\ Needs(binary) = k + 1 /\ Gives(binary) = k
  <2>. DEFINE binary == [Item("binary") EXCEPT !.tok = t]
  <2>1. t \in Operators
    BY DEF Operators
  <2>2. binary \in Pending /\ binary.do = "binary" /\ binary.tok = t
    BY <2>1, ItemFacts
  <2>3. Precedence(t) = k
    BY LevelFacts
  <2>. HIDE DEF binary
  <2>4. Neutral(binary) /\ Needs(binary) = k + 1 /\ Gives(binary) = k
    BY <2>2, <2>3 DEF Neutral, BlockItems, Needs, Gives
  <2>. QED  BY <2>2, <2>4 DEF binary
<1>. QED  BY <1>1, <1>2, <1>3, <1>4

LEMMA SmallFits ==
  ASSUME NEW items \in Seq(Pending)
  PROVE  /\ Len(items) = 1 => Fits(items) /\ items # <<>>
         /\ Len(items) = 2 /\ Needs(items[2]) <= Gives(items[1]) => Fits(items) /\ items # <<>>
         /\ Len(items) = 3 /\ Needs(items[2]) <= Gives(items[1])
              /\ Needs(items[3]) <= Gives(items[2]) => Fits(items) /\ items # <<>>
<1>1. ASSUME NEW n \in {1, 2, 3}, Len(items) = n
      PROVE  items # <<>>
  <2>1. Len(<<>>) = 0 /\ n # 0
    OBVIOUS
  <2>. QED  BY <1>1, <2>1
<1>2. ASSUME NEW n \in {1, 2, 3}, Len(items) = n,
             \A i \in 1..(n - 1) : Needs(items[i + 1]) <= Gives(items[i])
      PROVE  Fits(items)
  BY <1>2 DEF Fits
<1>. QED  BY <1>1, <1>2

LEMMA LevelStep ==
  ASSUME IInv, ParseLevel
  PROVE  IInv'
<1>. DEFINE k == Head(todo).level
            right == RightOperand(k)
            tail == AtLevel("tail", k)
            items == <<right, tail>>
<1>1. /\ Doing("level") /\ Types /\ Ordered /\ todo # <<>> /\ mode = "parsing"
      /\ Head(todo) = todo[1] /\ todo[1] \in Pending /\ todo[1].do = "level"
  BY Turn DEF ParseLevel
<1>2. k \in Levels /\ Gives(todo[1]) = k /\ Neutral(todo[1])
  BY <1>1 DEF Pending, Gives, Neutral, BlockItems
<1>3. Calls(items) /\ val' = NoVal /\ Stay /\ mode' = "parsing"
  BY <1>1 DEF ParseLevel, RightOperand
<1>4. /\ right \in Pending /\ Neutral(right) /\ Needs(right) = 0
      /\ Gives(right) \in Nat /\ Gives(right) > k
      /\ tail \in Pending /\ Neutral(tail) /\ Needs(tail) = k /\ Gives(tail) = k
  BY <1>2, OperatorItems
<1>. HIDE DEF right, tail, k
<1>5. items \in Seq(Pending) /\ Len(items) = 2 /\ items[1] = right /\ items[2] = tail
  BY <1>4
<1>6. k \in Nat /\ Precedence(val') \in Nat
  BY <1>2, LevelFacts DEF Levels
<1>. HIDE DEF items
<1>7. Types' /\ Bracketed'
  BY <1>1, <1>2, <1>3, <1>4, <1>5, NeutralCall
<1>8. Fits(items) /\ items # <<>>
  BY <1>4, <1>5, <1>6, SmallFits
<1>9. Ordered'
  BY <1>1, <1>2, <1>3, <1>4, <1>5, <1>6, <1>8, OrderedStep
<1>. QED  BY <1>7, <1>9 DEF IInv

LEMMA TailStep ==
  ASSUME IInv, ParseTail
  PROVE  IInv'
<1>. DEFINE k == Head(todo).level
            right == RightOperand(k)
            binary == [Item("binary") EXCEPT !.tok = Cur]
            items == <<right, binary, Head(todo)>>
<1>1. /\ Doing("tail") /\ Types /\ Ordered /\ todo # <<>> /\ mode = "parsing"
      /\ Head(todo) = todo[1] /\ todo[1] \in Pending /\ todo[1].do = "tail" /\ ahead # <<>>
      /\ Needs(todo[1]) <= Precedence(val)
  BY Turn, Looked DEF ParseTail, Looking
<1>2. k \in Levels /\ Gives(todo[1]) = k /\ Needs(todo[1]) = k /\ Neutral(todo[1])
  BY <1>1 DEF Pending, Gives, Needs, Neutral, BlockItems
<1>3. k \in Nat /\ k <= 4 /\ Precedence(val') \in Nat /\ Precedence(val) \in Nat
  BY <1>2, LevelFacts DEF Levels
<1>4. CASE Cur \in OpsAt[k]
  <2>1. Calls(items) /\ Consume /\ mode' = "parsing"
    BY <1>1, <1>4 DEF ParseTail, Sees, Takes
  <2>2. Cur \notin Openers \cup Closers
    BY <1>2, <1>4 DEF OpsAt, Levels, Openers, Closers, CloserOf
  <2>3. /\ right \in Pending /\ Neutral(right) /\ Needs(right) = 0
        /\ Gives(right) \in Nat /\ Gives(right) > k
        /\ binary \in Pending /\ Neutral(binary) /\ Needs(binary) = k + 1 /\ Gives(binary) = k
    BY <1>2, <1>4, OperatorItems
  <2>. HIDE DEF right, binary, k
  <2>4. /\ items \in Seq(Pending) /\ Len(items) = 3
        /\ items[1] = right /\ items[2] = binary /\ items[3] = todo[1]
    BY <1>1, <2>3
  <2>. HIDE DEF items
  <2>5. Types' /\ Bracketed'
    BY <1>1, <1>2, <2>1, <2>2, <2>3, <2>4, NeutralCall
  <2>6. Fits(items) /\ items # <<>>
    BY <1>2, <1>3, <2>3, <2>4, SmallFits
  <2>7. Ordered'
    BY <1>1, <1>2, <1>3, <2>1, <2>3, <2>4, <2>6, OrderedStep
  <2>. QED  BY <2>5, <2>7 DEF IInv
<1>5. CASE Cur \notin OpsAt[k]
  <2>1. Calls(<<>>) /\ Stay /\ mode' = "parsing" /\ val' = IF k = 1 THEN NoVal ELSE val
    BY <1>1, <1>5 DEF ParseTail, Sees
  <2>2. k <= Precedence(val')
    BY <1>1, <1>2, <1>3, <2>1, LevelFacts
  <2>. HIDE DEF k
  <2>3. <<>> \in Seq(Pending) /\ Len(<<>>) = 0
    OBVIOUS
  <2>4. Fits(<<>>) /\ \A i \in 1..Len(<<>>) : Neutral(<<>>[i])
    BY <2>3 DEF Fits
  <2>5. Types' /\ Bracketed'
    BY <1>1, <1>2, <2>1, <2>3, <2>4, NeutralCall
  <2>6. Ordered'
    BY <1>1, <1>2, <2>1, <2>2, <2>3, <2>4, OrderedStep
  <2>. QED  BY <2>5, <2>6 DEF IInv
<1>. QED  BY <1>4, <1>5

\* A function returns an expression that binds as tight as its item promised.
LEMMA ReturnsStep ==
  ASSUME IInv, NEW do \in {"binary", "not", "operand", "factor"}, Doing(do), Calls(<<>>),
         mode' = mode, Gives(todo[1]) <= Precedence(val'),
         Stay \/ (ahead # <<>> /\ Consume /\ Cur \notin Openers \cup Closers)
  PROVE  IInv'
<1>1. /\ Types /\ Ordered /\ todo # <<>> /\ mode = "parsing"
      /\ todo[1].do = do
  BY Turn
<1>2. Neutral(todo[1])
  BY <1>1 DEF Neutral, BlockItems
<1>3. <<>> \in Seq(Pending) /\ Len(<<>>) = 0
  OBVIOUS
<1>4. Fits(<<>>) /\ \A i \in 1..Len(<<>>) : Neutral(<<>>[i])
  BY <1>3 DEF Fits
<1>5. Types' /\ Bracketed'
  BY <1>1, <1>2, <1>3, <1>4, NeutralCall
<1>6. Ordered'
  BY <1>1, <1>3, <1>4, OrderedStep
<1>. QED  BY <1>5, <1>6 DEF IInv

LEMMA ReturnSteps ==
  ASSUME IInv, MakeBinary \/ MakeUnary \/ FinishOperand \/ ParseLiteral
  PROVE  IInv'
<1>1. CASE MakeBinary
  <2>1. Doing("binary") /\ Calls(<<>>) /\ mode' = mode /\ Stay /\ val' = Head(todo).tok
    BY <1>1 DEF MakeBinary
  <2>2. Gives(todo[1]) = Precedence(val') /\ Precedence(val') \in Nat
    BY <2>1, Turn, LevelFacts DEF Gives
  <2>. QED  BY <2>1, <2>2, ReturnsStep
<1>2. CASE MakeUnary
  <2>1. Doing("not") /\ Calls(<<>>) /\ mode' = mode /\ Stay /\ val' = "NOT"
    BY <1>2 DEF MakeUnary
  <2>2. Gives(todo[1]) = 5 /\ Precedence(val') = 5
    BY <2>1, Turn, LevelFacts DEF Gives
  <2>. QED  BY <2>1, <2>2, ReturnsStep
<1>3. CASE FinishOperand
  <2>1. Doing("operand") /\ Calls(<<>>) /\ mode' = mode /\ Stay /\ val' = Leaf
    BY <1>3 DEF FinishOperand
  <2>2. Gives(todo[1]) = 6 /\ Precedence(val') = 6
    BY <2>1, Turn, LevelFacts DEF Gives
  <2>. QED  BY <2>1, <2>2, ReturnsStep
<1>4. CASE ParseLiteral
  <2>1. Doing("factor") /\ Calls(<<>>) /\ mode' = mode /\ Consume /\ val' = Leaf /\ Cur \in Literals
    BY <1>4 DEF ParseLiteral, Sees
  <2>2. Gives(todo[1]) = 6 /\ Precedence(val') = 6 /\ ahead # <<>>
    BY <2>1, Turn, Looked, LevelFacts DEF Gives, Looking
  <2>3. Cur \notin Openers \cup Closers
    BY <2>1 DEF Literals, Openers, Closers, CloserOf
  <2>. QED  BY <2>1, <2>2, <2>3, ReturnsStep
<1>. QED  BY <1>1, <1>2, <1>3, <1>4

LEMMA UnaryStep ==
  ASSUME IInv, ParseUnary
  PROVE  IInv'
<1>1. /\ Doing("unary") /\ Types /\ Ordered /\ todo # <<>> /\ mode = "parsing"
      /\ todo[1].do = "unary" /\ ahead # <<>>
  BY Turn, Looked DEF ParseUnary, Looking
<1>2. Gives(todo[1]) = 5 /\ Neutral(todo[1]) /\ Precedence(val') \in Nat
  BY <1>1, LevelFacts DEF Gives, Neutral, BlockItems
<1>3. /\ \A do \in {"unary", "not", "factor"} : Item(do) \in Pending /\ Neutral(Item(do))
      /\ Needs(Item("unary")) = 0 /\ Gives(Item("unary")) = 5
      /\ Needs(Item("not")) = 5 /\ Gives(Item("not")) = 5
      /\ Needs(Item("factor")) = 0 /\ Gives(Item("factor")) = 6
  BY OperatorItems
<1>4. CASE Sees({"NOT"})
  <2>. DEFINE items == <<Item("unary"), Item("not")>>
  <2>1. Takes(items)
    BY <1>4 DEF ParseUnary
  <2>2. /\ items \in Seq(Pending) /\ Len(items) = 2
        /\ items[1] = Item("unary") /\ items[2] = Item("not")
    BY <1>3
  <2>3. Cur \notin Openers \cup Closers
    BY <1>4 DEF Sees, Openers, Closers, CloserOf
  <2>. HIDE DEF items
  <2>4. Types' /\ Bracketed'
    BY <1>1, <1>2, <1>3, <2>1, <2>2, <2>3, NeutralCall DEF Takes
  <2>5. Fits(items) /\ items # <<>>
    BY <1>3, <2>2, SmallFits
  <2>6. Ordered'
    BY <1>1, <1>2, <1>3, <2>1, <2>2, <2>5, OrderedStep DEF Takes
  <2>. QED  BY <2>4, <2>6 DEF IInv
<1>5. CASE ~Sees({"NOT"})
  <2>. DEFINE items == <<Item("factor")>>
  <2>1. Goes(items)
    BY <1>5 DEF ParseUnary
  <2>2. items \in Seq(Pending) /\ Len(items) = 1 /\ items[1] = Item("factor")
    BY <1>3
  <2>. HIDE DEF items
  <2>3. Types' /\ Bracketed'
    BY <1>1, <1>2, <1>3, <2>1, <2>2, NeutralCall DEF Goes
  <2>4. Fits(items) /\ items # <<>>
    BY <2>2, SmallFits
  <2>5. Ordered'
    BY <1>1, <1>2, <1>3, <2>1, <2>2, <2>4, OrderedStep DEF Goes
  <2>. QED  BY <2>3, <2>5 DEF IInv
<1>. QED  BY <1>4, <1>5

LEMMA AppendTuples ==
  ASSUME NEW a, NEW b, NEW c
  PROVE  <<a, b>> \o <<c>> = <<a, b, c>>
<1>. DEFINE S == {a, b, c}
            s == <<a, b>>
            t == <<c>>
            u == <<a, b, c>>
<1>1. s \in Seq(S) /\ t \in Seq(S) /\ u \in Seq(S) /\ Len(s) = 2 /\ Len(t) = 1 /\ Len(u) = 3
  OBVIOUS
<1>2. /\ s \o t \in Seq(S) /\ Len(s \o t) = Len(s) + Len(t)
      /\ \A i \in 1..(Len(s) + Len(t)) :
           (s \o t)[i] = IF i <= Len(s) THEN s[i] ELSE t[i - Len(s)]
  BY <1>1, ConcatProperties
<1>3. s[1] = u[1] /\ s[2] = u[2] /\ t[1] = u[3]
  OBVIOUS
<1>. HIDE DEF s, t, u
<1>4. Len(s \o t) = Len(u)
  BY <1>1, <1>2
<1>5. ASSUME NEW i \in 1..Len(s \o t)
      PROVE  (s \o t)[i] = u[i]
  <2>1. i \in 1..(Len(s) + Len(t)) /\ i \in {1, 2, 3}
    BY <1>1, <1>2, <1>4
  <2>2. (s \o t)[i] = IF i <= Len(s) THEN s[i] ELSE t[i - Len(s)]
    BY <1>2, <2>1
  <2>. QED  BY <1>1, <1>3, <2>1, <2>2
<1>6. s \o t = u
  BY <1>1, <1>2, <1>4, <1>5, SeqEqual
<1>. QED  BY <1>6 DEF s, t, u

LEMMA FactorStep ==
  ASSUME IInv, ParseFactor, mode' = "parsing"
  PROVE  IInv'
<1>1. /\ Doing("factor") /\ Types /\ Ordered /\ Bracketed /\ todo # <<>> /\ mode = "parsing"
      /\ todo[1].do = "factor" /\ ahead # <<>>
  BY Turn, Looked DEF ParseFactor, Looking
<1>2. Gives(todo[1]) = 6 /\ Neutral(todo[1]) /\ Precedence(val') \in Nat
  BY <1>1, LevelFacts DEF Gives, Neutral, BlockItems
<1>3. /\ Whole \in Plain /\ Item("call") \in Plain /\ Item("var") \in Plain
      /\ Item("index") \in Plain /\ Expression \in Plain
  BY PlainItems DEF Whole, Looking, Others, Special, BlockItems
<1>4. Gives(Whole) = 6
  BY OperatorItems DEF Whole
\* Whatever an operand is made of, it is complete at the end.
<1>5. ASSUME NEW items \in Seq(Pending), Calls(items), Len(items) \in {2, 3},
             items[Len(items)] = Whole, \A j \in 1..Len(items) : Needs(items[j]) = 0
      PROVE  Ordered'
  <2>1. items # <<>> /\ Fits(items)
    <3>1. \A j \in 1..Len(items) : Gives(items[j]) \in Nat
      BY BindingTypes
    <3>. QED  BY <1>5, <3>1, SmallFits
  <2>2. Needs(items[1]) = 0
    BY <1>5
  <2>. QED  BY <1>1, <1>2, <1>4, <1>5, <2>1, <2>2, OrderedStep
<1>6. \/ Goes(<<Item("call"), Whole>>)
      \/ Goes(<<Item("var"), Item("index"), Whole>>)
      \/ Cur = "READ_CHAR" /\ Takes(<<Expect("LPAREN"), Expect("RPAREN"), Whole>>)
      \/ Cur = "LPAREN" /\ Takes(<<Expression, Expect("RPAREN"), Whole>>)
  BY <1>1 DEF ParseFactor, Throw, Sees
<1>7. CASE Goes(<<Item("call"), Whole>>)
  <2>. DEFINE items == <<Item("call"), Whole>>
  <2>1. /\ items \in Seq(Pending) /\ Len(items) = 2 /\ items[Len(items)] = Whole
        /\ \A j \in 1..Len(items) : Needs(items[j]) = 0 /\ Neutral(items[j])
    BY <1>3 DEF Plain
  <2>2. Calls(items) /\ Stay
    BY <1>7 DEF Goes
  <2>. HIDE DEF items
  <2>3. Types' /\ Bracketed'
    BY <1>1, <1>2, <2>1, <2>2, NeutralCall
  <2>. QED  BY <1>5, <2>1, <2>2, <2>3 DEF IInv
<1>8. CASE Goes(<<Item("var"), Item("index"), Whole>>)
  <2>. DEFINE items == <<Item("var"), Item("index"), Whole>>
  <2>1. /\ items \in Seq(Pending) /\ Len(items) = 3 /\ items[Len(items)] = Whole
        /\ \A j \in 1..Len(items) : Needs(items[j]) = 0 /\ Neutral(items[j])
    BY <1>3 DEF Plain
  <2>2. Calls(items) /\ Stay
    BY <1>8 DEF Goes
  <2>. HIDE DEF items
  <2>3. Types' /\ Bracketed'
    BY <1>1, <1>2, <2>1, <2>2, NeutralCall
  <2>. QED  BY <1>5, <2>1, <2>2, <2>3 DEF IInv
<1>9. "LPAREN" \in Openers /\ CloserOf["LPAREN"] = "RPAREN"
  BY DEF Openers, CloserOf
<1>10. CASE Cur = "READ_CHAR" /\ Takes(<<Expect("LPAREN"), Expect("RPAREN"), Whole>>)
  <2>. DEFINE items == <<Expect("LPAREN"), Expect("RPAREN"), Whole>>
              paren == Append(opened, "LPAREN")
              before == <<opened, paren, opened, opened>>
  <2>1. opened \in Seq(Openers)
    BY <1>1, Unfinished
  <2>2. /\ paren \in Seq(Openers)
        /\ Expect("LPAREN") \in Pending /\ Needs(Expect("LPAREN")) = 0
        /\ Expect("RPAREN") \in Pending /\ Needs(Expect("RPAREN")) = 0
        /\ Turns(Expect("LPAREN"), opened, paren) /\ Turns(Expect("RPAREN"), paren, opened)
        /\ Expect("LPAREN").do \notin BlockItems /\ Expect("RPAREN").do \notin BlockItems
    BY <1>9, <2>1, BracketTurns
  <2>3. /\ Turns(Whole, opened, opened) /\ Whole \in Pending
        /\ Whole.do \notin BlockItems /\ Needs(Whole) = 0
    BY <1>3, <2>1, BracketTurns
  <2>. HIDE DEF paren
  <2>4. /\ items \in Seq(Pending) /\ before \in Seq(Seq(Openers)) /\ Len(before) = Len(items) + 1
        /\ Len(items) = 3 /\ items[Len(items)] = Whole
    BY <2>1, <2>2, <2>3
  <2>5. "READ_CHAR" \notin Openers \cup Closers
    BY DEF Openers, Closers, CloserOf
  <2>6. before[1] = opened /\ before[Len(items) + 1] = opened /\ opened' = opened
    BY <1>10, <2>5 DEF Takes, Consume
  <2>7. \A j \in 1..Len(items) :
          /\ Turns(items[j], before[j], before[j + 1])
          /\ items[j].do \notin BlockItems /\ Needs(items[j]) = 0
    BY <2>2, <2>3
  <2>8. Takes(items)
    BY <1>10
  <2>. HIDE DEF items, before
  <2>9. BlocksOutermost(items)
    BY <2>7, NeutralBlocks
  <2>10. Types' /\ Bracketed'
    BY <1>1, <2>4, <2>6, <2>7, <2>8, <2>9, BracketCall
  <2>. QED  BY <1>5, <2>4, <2>7, <2>8, <2>10 DEF IInv, Takes
<1>11. CASE Cur = "LPAREN" /\ Takes(<<Expression, Expect("RPAREN"), Whole>>)
  <2>. DEFINE rest == <<Whole>>
              items == <<Expression, Expect(CloserOf["LPAREN"])>> \o rest
  <2>1. items = <<Expression, Expect("RPAREN"), Whole>>
    BY <1>9, AppendTuples
  <2>2. Len(items) = 3 /\ items[Len(items)] = Whole
    BY <2>1
  <2>3. rest \in Seq(Plain)
    BY <1>3
  <2>. HIDE DEF items, rest
  <2>4. Takes(items)
    BY <1>11, <2>1
  <2>5. "factor" \notin {"program", "expect"} /\ Cur = "LPAREN"
    BY <1>11
  <2>6. /\ Types' /\ Bracketed' /\ items \in Seq(Pending)
        /\ \A j \in 1..Len(items) : Needs(items[j]) = 0
    BY <1>1, <1>3, <1>9, <2>3, <2>4, <2>5, OpenedStep DEF items
  <2>. QED  BY <1>5, <2>2, <2>4, <2>6 DEF IInv, Takes
<1>. QED  BY <1>6, <1>7, <1>8, <1>10, <1>11

-----------------------------------------------------------------------------
(* Blocks.                                                                 *)

LEMMA StatementItems ==
  ASSUME StatementOf # <<>>
  PROVE  /\ StatementOf \in Seq(Pending)
         /\ \A i \in 1..Len(StatementOf) :
              /\ Needs(StatementOf[i]) = 0
              /\ StatementOf[i].do # "program"
              /\ ~(StatementOf[i].do = "expect" /\ StatementOf[i].tok \in Openers \cup Closers)
              /\ StatementOf[i].do \in BlockItems => Len(StatementOf) = 1
         /\ Cur # END
<1>1. /\ Expect("LET") \in Plain /\ Item("assign") \in Plain
      /\ \A do \in {"assign", "call_stmt", "print_str", "print_val", "struct", "return"} :
           Item(do) \in Plain
  BY PlainItems, TokenFacts DEF Marks, Keywords, Looking, Others, Special, BlockItems
<1>2. \A do \in {"loop", "if", "def"} :
        Item(do) \in Pending /\ Item(do).do = do /\ Needs(Item(do)) = 0
  <2>1. \A do \in {"loop", "if", "def"} : Item(do) \in Pending /\ Item(do).do = do
    BY ItemFacts DEF Looking, Others
  <2>. QED  BY <2>1 DEF Needs
<1>3. \A do \in {"assign", "call_stmt", "print_str", "print_val", "struct", "return",
                 "loop", "if", "def"} :
        /\ Item(do) \in Pending /\ Needs(Item(do)) = 0 /\ Item(do).do # "program"
        /\ Item(do).do # "expect"
  BY <1>1, <1>2, ItemFacts DEF Plain, Others
<1>4. \/ StatementOf = <<Expect("LET"), Item("assign")>>
      \/ \E do \in {"assign", "call_stmt", "print_str", "print_val", "struct", "return",
                    "loop", "if", "def"} : StatementOf = <<Item(do)>>
  BY DEF StatementOf
<1>5. Cur # END
  BY DEF StatementOf, Sees, END
<1>6. CASE StatementOf = <<Expect("LET"), Item("assign")>>
  <2>1. /\ Expect("LET").do \notin BlockItems /\ Item("assign").do \notin BlockItems
        /\ Expect("LET") \in Pending /\ Needs(Expect("LET")) = 0 /\ Neutral(Expect("LET"))
        /\ Item("assign") \in Pending /\ Needs(Item("assign")) = 0 /\ Neutral(Item("assign"))
    BY <1>1 DEF Plain, Neutral
  <2>. QED  BY <1>5, <1>6, <2>1 DEF Neutral, BlockItems
<1>7. CASE \E do \in {"assign", "call_stmt", "print_str", "print_val", "struct", "return",
                      "loop", "if", "def"} : StatementOf = <<Item(do)>>
  BY <1>3, <1>5, <1>7
<1>. QED  BY <1>4, <1>6, <1>7

\* Where a statement is expected the open brackets are braces.
LEMMA AtProgram ==
  ASSUME IInv, Doing("program")
  PROVE  /\ ahead # <<>> /\ Cur \in AllTokens \cup {END}
         /\ opened \in Seq({"LBRACE"})
         /\ Cur # END => Balances(todo, opened)
         /\ Cur = END => ahead = <<END>>
<1>1. /\ Types /\ Bracketed /\ todo # <<>> /\ todo[1].do = "program" /\ 1 \in 1..Len(todo)
      /\ ahead # <<>> /\ Cur \in AllTokens \cup {END}
  BY Turn, Looked DEF Looking
<1>2. Balances(todo, opened) \/ AtTheEnd
  BY <1>1 DEF Bracketed, OneBraceTooMany
<1>3. opened \in Seq({"LBRACE"})
  <2>1. CASE Balances(todo, opened)
    BY <1>1, <2>1 DEF Balances, BlockItems
  <2>2. CASE AtTheEnd
    BY <2>2 DEF AtTheEnd
  <2>. QED  BY <1>2, <2>1, <2>2
<1>4. AtTheEnd => Cur = END
  BY DEF AtTheEnd, Cur
<1>5. ASSUME Cur = END
      PROVE  ahead = <<END>>
  <2>1. END \notin Tokens
    BY TokensAssumption DEF AllTokens, END, Levels, OpsAt, Literals, Openers, Closers, CloserOf,
       Keywords
  <2>. QED  BY <1>1, <1>5, <2>1 DEF Cur, Types, AheadTypes
<1>. QED  BY <1>1, <1>2, <1>3, <1>4, <1>5

\* A call of parse_program that goes on closes what it would have closed.
LEMMA GoesOn ==
  ASSUME Types, todo # <<>>, todo[1].do = "program", Balances(todo, opened)
  PROVE  /\ <<Item("program")>> \o Tail(todo) \in Seq(Pending)
         /\ Balances(<<Item("program")>> \o Tail(todo), opened)
<1>. DEFINE n == Len(todo)
            again == <<Item("program")>>
            rest == again \o Tail(todo)
<1>1. /\ n \in Nat \ {0} /\ Tail(todo) \in Seq(Pending) /\ Len(Tail(todo)) = n - 1
      /\ \A i \in 1..(n - 1) : Tail(todo)[i] = todo[i + 1]
  BY HeadTailProperties DEF Types
<1>2. again \in Seq(Pending) /\ Len(again) = 1 /\ again[1].do = "program"
  <2>. DEFINE i == Item("program")
  <2>1. i \in Pending /\ i.do = "program"
    BY ItemFacts DEF Looking
  <2>. HIDE DEF i
  <2>2. <<i>> \in Seq(Pending) /\ Len(<<i>>) = 1 /\ <<i>>[1] = i
    BY <2>1
  <2>. QED  BY <2>1, <2>2 DEF i
<1>. HIDE DEF again
<1>3. /\ rest \in Seq(Pending) /\ Len(rest) = 1 + (n - 1)
      /\ \A i \in 1..(1 + (n - 1)) : rest[i] = IF i <= 1 THEN again[i] ELSE Tail(todo)[i - 1]
  <2>. DEFINE k == Len(again)
              m == Len(Tail(todo))
  <2>1. again \in Seq(Pending) /\ Tail(todo) \in Seq(Pending)
    BY <1>1, <1>2
  <2>2. /\ rest \in Seq(Pending) /\ Len(rest) = k + m
        /\ \A i \in 1..(k + m) : rest[i] = IF i <= k THEN again[i] ELSE Tail(todo)[i - k]
    BY <2>1, ConcatProperties, Zenon
  <2>3. k = 1 /\ m = n - 1
    BY <1>1, <1>2
  <2>. HIDE DEF k, m
  <2>. QED  BY <2>2, <2>3
<1>4. Len(rest) = n /\ rest[1].do = "program" /\ rest # <<>>
  BY <1>1, <1>2, <1>3
<1>5. ASSUME NEW i \in 2..n
      PROVE  rest[i] = todo[i]
  <2>1. i \in 1..(1 + (n - 1)) /\ ~(i <= 1) /\ i - 1 \in 1..(n - 1) /\ (i - 1) + 1 = i
    BY <1>1
  <2>. QED  BY <1>1, <1>3, <2>1
<1>6. PICK open \in [1..n -> Seq(Openers)] :
        /\ open[1] = opened
        /\ open[n] = <<>> /\ todo[n].do = "program"
        /\ \A i \in 1..(n - 1) : Turns(todo[i], open[i], open[i + 1])
        /\ \A i \in 1..n : todo[i].do \in BlockItems => open[i] \in Seq({"LBRACE"})
  BY DEF Balances
<1>7. ASSUME NEW i \in 1..(n - 1)
      PROVE  Turns(rest[i], open[i], open[i + 1])
  <2>1. CASE i = 1
    <3>1. Turns(todo[1], open[1], open[2])
      BY <1>6, <2>1
    <3>. QED  BY <1>4, <2>1, <3>1 DEF Turns
  <2>2. CASE i # 1
    <3>1. rest[i] = todo[i]
      BY <1>1, <1>5, <2>2
    <3>. QED  BY <1>6, <3>1
  <2>. QED  BY <2>1, <2>2
<1>8. ASSUME NEW i \in 1..n, rest[i].do \in BlockItems
      PROVE  open[i] \in Seq({"LBRACE"})
  <2>1. rest[i].do = todo[i].do
    <3>1. CASE i = 1
      BY <1>4, <3>1
    <3>2. CASE i # 1
      <4>1. i \in 2..n
        BY <1>1, <3>2
      <4>2. rest[i] = todo[i]
        BY <1>5, <4>1
      <4>. QED  BY <4>2
    <3>. QED  BY <3>1, <3>2
  <2>. QED  BY <1>6, <1>8, <2>1
<1>9. rest[n].do = "program"
  BY <1>1, <1>4, <1>5, <1>6
<1>. HIDE DEF rest
<1>10. Balances(rest, opened)
  BY <1>4, <1>6, <1>7, <1>8, <1>9 DEF Balances
<1>. QED  BY <1>3, <1>10 DEF rest, again

LEMMA ThreeParts ==
  ASSUME NEW s \in Seq(Pending), NEW t \in Seq(Pending), NEW u \in Seq(Pending)
  PROVE  (s \o t) \o u = s \o (t \o u)
<1>. DEFINE P == Pending
<1>1. s \in Seq(P) /\ t \in Seq(P) /\ u \in Seq(P)
  OBVIOUS
<1>. HIDE DEF P
<1>. QED  BY <1>1, ConcatAssociative

LEMMA ProgramStep ==
  ASSUME IInv, ParseProgram
  PROVE  IInv'
<1>. DEFINE front == StatementOf
            again == <<Item("program")>>
            items == Append(front, Item("program"))
            n == Len(front)
<1>1. Doing("program") /\ front # <<>> /\ Calls(items) /\ Stay /\ UNCHANGED <<val, mode>>
  BY DEF ParseProgram
<1>2. /\ Types /\ Bracketed /\ todo # <<>> /\ todo[1].do = "program" /\ mode = "parsing"
      /\ ahead # <<>> /\ Tail(todo) \in Seq(Pending) /\ opened \in Seq({"LBRACE"})
  <2>1. /\ Types /\ Bracketed /\ todo # <<>> /\ todo[1].do = "program" /\ mode = "parsing"
    BY <1>1, Turn
  <2>. QED  BY <1>1, <2>1, AtProgram, HeadTailProperties DEF Types
<1>3. /\ front \in Seq(Pending) /\ Cur # END
      /\ \A i \in 1..n :
           /\ Needs(front[i]) = 0
           /\ front[i].do # "program"
           /\ ~(front[i].do = "expect" /\ front[i].tok \in Openers \cup Closers)
           /\ front[i].do \in BlockItems => n = 1
  BY <1>1, StatementItems
<1>4. Item("program") \in Pending /\ Item("program").do = "program" /\ Needs(Item("program")) = 0
  <2>1. Item("program") \in Pending /\ Item("program").do = "program"
    BY ItemFacts DEF Looking
  <2>. QED  BY <2>1 DEF Needs
<1>. HIDE DEF front
<1>5. /\ n \in Nat /\ items \in Seq(Pending) /\ Len(items) = n + 1
      /\ \A i \in 1..n : items[i] = front[i]
      /\ items[n + 1] = Item("program")
  BY <1>3, <1>4
<1>6. todo' = front \o (again \o Tail(todo))
  <2>1. items = front \o again
    BY <1>3, <1>4, AppendIsConcat
  <2>2. again \in Seq(Pending)
    BY <1>4
  <2>. HIDE DEF items, again
  <2>3. todo' = items \o Tail(todo)
    BY <1>1 DEF Calls
  <2>4. (front \o again) \o Tail(todo) = front \o (again \o Tail(todo))
    <3>1. front \in Seq(Pending) /\ Tail(todo) \in Seq(Pending)
      BY <1>2, <1>3
    <3>. QED  BY <2>2, <3>1, ThreeParts
  <2>. QED  BY <2>1, <2>3, <2>4
<1>. HIDE DEF items
<1>7. Types'
  BY <1>1, <1>2, <1>5, TypesStep DEF Stay
<1>8. Ordered'
  <2>1. ASSUME NEW i \in 1..Len(items)
        PROVE  Needs(items[i]) = 0
    <3>1. i \in 1..n \/ i = n + 1
      BY <1>5
    <3>. QED  BY <1>3, <1>4, <1>5, <3>1
  <2>. QED  BY <1>1, <1>5, <2>1, OutsideOperators
<1>9. BlocksOutermost(todo')
  <2>1. ASSUME NEW i \in 1..Len(items), NEW j \in 1..Len(items), i < j,
               items[i].do \in BlockItems
        PROVE  items[j].do = "program"
    <3>1. CASE j = n + 1
      BY <1>4, <1>5, <3>1
    <3>2. CASE j # n + 1
      <4>1. i \in 1..n /\ n > 1 /\ items[i] = front[i]
        BY <1>5, <2>1, <3>2
      <4>. QED  BY <1>3, <1>5, <2>1, <4>1
    <3>. QED  BY <3>1, <3>2
  <2>2. BlocksOutermost(items)
    BY <2>1 DEF BlocksOutermost
  <2>. QED  BY <1>1, <1>2, <1>5, <2>2, BlocksStep DEF Bracketed, BlockItems
<1>10. Balances(todo', opened')
  <2>. DEFINE before == [i \in 1..(n + 1) |-> opened]
              rest == again \o Tail(todo)
  <2>1. Balances(rest, opened) /\ rest \in Seq(Pending)
    BY <1>1, <1>2, <1>3, AtProgram, GoesOn
  <2>2. opened \in Seq(Openers)
    <3>1. {"LBRACE"} \subseteq Openers
      BY DEF Openers
    <3>. QED  BY <1>2, <3>1
  <2>3. before \in Seq(Seq(Openers)) /\ Len(before) = n + 1 /\ before[1] = opened /\ before[n + 1] = opened
    BY <1>5, <2>2
  <2>4. ASSUME NEW i \in 1..n
        PROVE  /\ Turns(front[i], before[i], before[i + 1])
               /\ front[i].do \in BlockItems => before[i] \in Seq({"LBRACE"})
    <3>1. before[i] = opened /\ before[i + 1] = opened
      BY <1>5
    <3>. QED  BY <1>2, <1>3, <3>1 DEF Turns
  <2>. HIDE DEF before, rest
  <2>5. Balances(front \o rest, before[1])
    BY <1>3, <2>1, <2>3, <2>4, InFront
  <2>6. opened' = opened
    BY <1>1 DEF Stay
  <2>. QED  BY <1>6, <2>3, <2>5, <2>6 DEF rest
<1>. QED  BY <1>7, <1>8, <1>9, <1>10 DEF IInv, Bracketed

\* A second token is looked at.
LEMMA AppendPair ==
  ASSUME NEW a, NEW b
  PROVE  Append(<<a>>, b) = <<a, b>>
<1>. DEFINE S == {a, b}
            s == <<a>>
            t == <<b>>
            u == <<a, b>>
<1>1. /\ s \in Seq(S) /\ t \in Seq(S) /\ u \in Seq(S) /\ b \in S
      /\ Len(s) = 1 /\ Len(t) = 1 /\ Len(u) = 2
  OBVIOUS
<1>2. Append(s, b) = s \o t
  BY <1>1, AppendIsConcat
<1>3. /\ s \o t \in Seq(S) /\ Len(s \o t) = Len(s) + Len(t)
      /\ \A i \in 1..(Len(s) + Len(t)) :
           (s \o t)[i] = IF i <= Len(s) THEN s[i] ELSE t[i - Len(s)]
  BY <1>1, ConcatProperties
<1>4. s[1] = u[1] /\ t[1] = u[2]
  OBVIOUS
<1>. HIDE DEF s, t, u
<1>5. Len(s \o t) = Len(u)
  BY <1>1, <1>3
<1>6. ASSUME NEW i \in 1..Len(s \o t)
      PROVE  (s \o t)[i] = u[i]
  <2>1. i \in 1..(Len(s) + Len(t)) /\ i \in {1, 2}
    BY <1>1, <1>3, <1>5
  <2>2. (s \o t)[i] = IF i <= Len(s) THEN s[i] ELSE t[i - Len(s)]
    BY <1>3, <2>1
  <2>. QED  BY <1>1, <1>4, <2>1, <2>2
<1>7. s \o t = u
  BY <1>1, <1>3, <1>5, <1>6, SeqEqual
<1>. QED  BY <1>2, <1>7 DEF s, t, u

LEMMA EndStep ==
  ASSUME IInv, EndProgram, mode' = "parsing"
  PROVE  IInv'
<1>1. Doing("program")
  BY DEF EndProgram
<1>2. /\ Types /\ Bracketed /\ todo # <<>> /\ todo[1].do = "program" /\ mode = "parsing"
      /\ Len(todo) \in Nat \ {0}
      /\ ahead # <<>> /\ opened \in Seq({"LBRACE"})
      /\ Cur # END => Balances(todo, opened)
      /\ Cur = END => ahead = <<END>>
  BY <1>1, Turn, AtProgram
<1>3. \/ Cur = "RBRACE" /\ Takes(<<>>)
      \/ Cur = END /\ Goes(<<>>)
  BY <1>2 DEF EndProgram, Sees, Throw
<1>4. <<>> \in Seq(Pending) /\ Len(<<>>) = 0 /\ (\A i \in 1..Len(<<>>) : FALSE) /\ Calls(<<>>)
  BY <1>3 DEF Takes, Goes
<1>5. Types'
  BY <1>2, <1>3, <1>4, TypesStep DEF Takes, Goes, Stay
<1>6. Ordered'
  BY <1>1, <1>4, OutsideOperators
<1>7. BlocksOutermost(<<>>) /\ BlocksOutermost(todo')
  <2>1. BlocksOutermost(<<>>)
    BY <1>4 DEF BlocksOutermost
  <2>. QED  BY <1>2, <1>4, <2>1, BlocksStep DEF Bracketed
<1>8. /\ todo' = Tail(todo) /\ Len(todo') = Len(todo) - 1
      /\ \A i \in 1..Len(todo') : todo'[i] = todo[i + 1]
  <2>1. Tail(todo) \in Seq(Pending) /\ todo' = <<>> \o Tail(todo)
    BY <1>2, <1>4, Called DEF Calls
  <2>2. todo' = Tail(todo)
    BY <2>1, ConcatEmptySeq
  <2>. QED  BY <1>2, <2>2, HeadTailProperties DEF Types
<1>9. CASE Cur = "RBRACE" /\ Takes(<<>>)
  <2>1. Balances(todo, opened) /\ Consume /\ "RBRACE" # END /\ "RBRACE" \notin Openers
        /\ "RBRACE" \in Closers
    BY <1>2, <1>9 DEF Takes, END, Openers, Closers, CloserOf
  <2>2. CASE Len(todo) > 1
    <3>1. PICK after \in Seq(Openers) :
            Turns(todo[1], opened, after) /\ Balances(Tail(todo), after)
      BY <1>2, <2>1, <2>2, RestBalances
    <3>2. opened = Append(after, "LBRACE")
      BY <1>2, <3>1 DEF Turns
    <3>3. /\ opened # <<>> /\ opened[Len(opened)] = "LBRACE"
          /\ SubSeq(opened, 1, Len(opened) - 1) = after
      BY <3>2
    <3>4. "LBRACE" \in Openers /\ CloserOf["LBRACE"] = "RBRACE"
      BY DEF Openers, CloserOf
    <3>5. opened' = after
      BY <1>9, <2>1, <3>3, <3>4 DEF Consume
    <3>. QED  BY <1>5, <1>6, <1>7, <1>8, <3>1, <3>5 DEF IInv, Bracketed
  <2>3. CASE ~(Len(todo) > 1)
    <3>0. Len(todo) = 1
      <4>. DEFINE n == Len(todo)
      <4>1. n \in Nat \ {0} /\ ~(n > 1)
        BY <1>2, <2>3
      <4>. HIDE DEF n
      <4>2. n = 1
        BY <4>1
      <4>. QED  BY <4>2 DEF n
    <3>1. opened = <<>>
      BY <2>1, <3>0 DEF Balances
    <3>2. opened' = Append(<<>>, "RBRACE")
      BY <1>9, <2>1, <3>1 DEF Consume
    <3>3. opened' = <<"RBRACE">>
      BY <3>2
    <3>4. todo' = <<>>
      BY <1>5, <1>8, <3>0, EmptySeq DEF Types
    <3>. QED  BY <1>5, <1>6, <1>7, <3>3, <3>4 DEF IInv, Bracketed, OneBraceTooMany
  <2>. QED  BY <2>2, <2>3
<1>10. CASE Cur = END /\ Goes(<<>>)
  <2>1. ahead' = <<END>> /\ opened' = opened
    BY <1>2, <1>10 DEF Goes, Stay
  <2>2. ASSUME NEW i \in 1..Len(todo')
        PROVE  todo'[i].do = "program"
    <3>1. 1 \in 1..Len(todo) /\ i + 1 \in 1..Len(todo) /\ 1 < i + 1 /\ todo'[i] = todo[i + 1]
      BY <1>2, <1>8
    <3>2. todo[1].do \in BlockItems
      BY <1>2 DEF BlockItems
    <3>. QED  BY <1>2, <3>1, <3>2 DEF Bracketed, BlocksOutermost
  <2>. QED  BY <1>2, <1>5, <1>6, <1>7, <2>1, <2>2 DEF IInv, Bracketed, AtTheEnd
<1>. QED  BY <1>3, <1>5, <1>6, <1>9, <1>10 DEF IInv

-----------------------------------------------------------------------------
(* The invariant.                                                          *)

LEMMA InitInvariant ==
  ASSUME Init
  PROVE  IInv
<1>. DEFINE item == Item("program")
            open == [i \in 1..1 |-> <<>>]
<1>1. item \in Pending /\ item.do = "program" /\ Needs(item) = 0
  <2>1. item \in Pending /\ item.do = "program"
    BY ItemFacts DEF Looking
  <2>. QED  BY <2>1 DEF Needs
<1>2. todo = <<item>> /\ ahead = <<>> /\ mode = "parsing" /\ opened = <<>>
  BY DEF Init
<1>. HIDE DEF item
<1>3. todo \in Seq(Pending) /\ Len(todo) = 1 /\ todo[1] = item /\ todo # <<>>
  BY <1>1, <1>2
<1>4. Types
  BY <1>2, <1>3 DEF Types, AheadTypes
<1>5. Ordered
  <2>1. Precedence(val) \in 1..6
    BY LevelFacts
  <2>2. Fits(todo)
    BY <1>3 DEF Fits
  <2>. QED  BY <1>1, <1>3, <2>1, <2>2 DEF Ordered
<1>6. BlocksOutermost(todo)
  BY <1>3 DEF BlocksOutermost
<1>7. Balances(todo, opened)
  <2>1. open \in [1..Len(todo) -> Seq(Openers)] /\ open[1] = <<>> /\ <<>> \in Seq({"LBRACE"})
    BY <1>3
  <2>2. /\ \A i \in 1..(Len(todo) - 1) : Turns(todo[i], open[i], open[i + 1])
        /\ \A i \in 1..Len(todo) : open[i] \in Seq({"LBRACE"})
    BY <1>3, <2>1
  <2>. HIDE DEF open
  <2>. QED  BY <1>1, <1>2, <1>3, <2>1, <2>2 DEF Balances
<1>. QED  BY <1>4, <1>5, <1>6, <1>7 DEF IInv, Bracketed

\* A token is looked at.
LEMMA ScanStep ==
  ASSUME IInv, Scan
  PROVE  IInv'
<1>1. Types /\ Ordered /\ Bracketed /\ UNCHANGED <<todo, val, mode, opened>>
  BY DEF IInv, Scan
<1>2. PICK t \in Tokens \cup {END} : ahead' = Append(ahead, t)
  BY DEF Scan
<1>3. /\ Len(ahead) < Wanted
      /\ \/ Wanted \in {0, 1}
         \/ Wanted = 2 /\ ahead # <<>> /\ ahead[1] = "IDENT"
  BY DEF Scan, Wanted
<1>4. \/ ahead = <<>>
      \/ \E u \in Tokens : ahead = <<u>> /\ u = "IDENT"
  <2>1. CASE ahead = <<>>
    BY <2>1
  <2>2. CASE \E u \in Tokens \cup {END} : ahead = <<u>>
    BY <1>3, <2>2 DEF END
  <2>3. ASSUME NEW u \in Tokens, NEW v \in Tokens \cup {END}, ahead = <<u, v>>
        PROVE  FALSE
    <3>1. Len(ahead) = 2
      BY <2>3
    <3>. QED  BY <1>3, <3>1
  <2>. QED  BY <1>1, <2>1, <2>2, <2>3 DEF Types, AheadTypes
<1>5. AheadTypes'
  <2>1. CASE ahead = <<>>
    <3>1. ahead' = <<t>>
      BY <1>2, <2>1
    <3>. QED  BY <3>1 DEF AheadTypes
  <2>2. ASSUME NEW u \in Tokens, ahead = <<u>>
        PROVE  AheadTypes'
    <3>1. ahead' = <<u, t>>
      BY <1>2, <2>2, AppendPair
    <3>. QED  BY <3>1 DEF AheadTypes
  <2>. QED  BY <1>4, <2>1, <2>2
<1>6. ~AtTheEnd
  <2>1. ASSUME ahead = <<END>>
        PROVE  FALSE
    <3>1. ahead # <<>> /\ \A u : ahead = <<u>> => u = END
      BY <2>1
    <3>. QED  BY <1>4, <3>1 DEF END
  <2>. QED  BY <2>1 DEF AtTheEnd
<1>. QED  BY <1>1, <1>5, <1>6 DEF IInv, Types, Ordered, Bracketed, OneBraceTooMany

\* The parser stops: nothing else changes.
LEMMA StopStep ==
  ASSUME IInv, UNCHANGED <<ahead, todo, val, opened>>,
         mode' \in {"parsing", "accepted", "error", "crash"}, mode' = "accepted" => todo = <<>>
  PROVE  IInv'
BY DEF IInv, Types, AheadTypes, Ordered, Bracketed, AtTheEnd, OneBraceTooMany

\* Where an exception is thrown nothing has been done yet.
LEMMA ThrowStep ==
  ASSUME IInv, ExpectType \/ ParseFactor \/ ParseValue \/ EndProgram, mode' # "parsing"
  PROVE  IInv'
<1>1. mode = "parsing"
  BY DEF ExpectType, ParseFactor, ParseValue, EndProgram, Doing
<1>2. Throw
  <2>1. CASE ExpectType
    BY <1>1, <2>1 DEF ExpectType, Takes
  <2>2. CASE ParseFactor
    BY <1>1, <2>2 DEF ParseFactor, Takes, Goes
  <2>3. CASE ParseValue
    BY <1>1, <2>3 DEF ParseValue, Takes, Goes
  <2>4. CASE EndProgram
    BY <1>1, <2>4 DEF EndProgram, Takes, Goes
  <2>. QED  BY <2>1, <2>2, <2>3, <2>4
<1>3. mode' \in {"error", "crash"} /\ UNCHANGED <<ahead, todo, val, opened>>
  BY <1>2 DEF Throw
<1>. QED  BY <1>3, StopStep

LEMMA StepInvariant ==
  ASSUME IInv, [Next]_vars
  PROVE  IInv'
<1>1. CASE Scan
  BY <1>1, ScanStep
<1>2. CASE ExpectType
  BY <1>2, ExpectStep, ThrowStep
<1>. DEFINE Plainly ==
              \/ ParseVarExpr \/ ParseFields \/ ParseArgs \/ MoreArgs \/ ParseAssign
              \/ ParseCallStmt \/ ParseReturn \/ StructFields \/ ParseParams \/ MoreParams
<1>0. CASE Plainly
  <2>1. mode' = mode /\ mode = "parsing"
    BY <1>0 DEF ParseVarExpr, ParseFields, ParseArgs, MoreArgs, ParseAssign, ParseCallStmt,
       ParseReturn, StructFields, ParseParams, MoreParams, Goes, Takes, Doing
  <2>. QED  BY <1>0, <2>1, PlainSteps
<1>3. CASE Expressions
  BY <1>0, <1>3, LevelStep, TailStep, UnaryStep, ReturnSteps, FactorStep, ThrowStep, IndexStep,
     CallExprStep, Zenon
  DEF Expressions
<1>4. CASE Statements
  BY <1>0, <1>4, TargetStep, ValueStep, ThrowStep, TypeStep, BlockStep, BuiltStep,
     StructStep, FunctionStep, ProgramStep, EndStep, Zenon
  DEF Statements
<1>5. CASE Accept
  BY <1>5, StopStep DEF Accept
<1>6. CASE Stopped \/ UNCHANGED vars
  <2>1. UNCHANGED vars
    BY <1>6 DEF Stopped
  <2>2. mode' = mode
    BY <2>1 DEF vars
  <2>. QED  BY <2>1, <2>2, StopStep DEF IInv, Types, vars
<1>. QED  BY <1>1, <1>2, <1>3, <1>4, <1>5, <1>6 DEF Next

THEOREM Invariant == Spec => []IInv
<1>1. Init => IInv
  BY InitInvariant
<1>2. IInv /\ [Next]_vars => IInv'
  BY StepInvariant
<1>. QED  BY <1>1, <1>2, PTL DEF Spec

-----------------------------------------------------------------------------
(* What it says of the parser.                                             *)

\* The parser looks at most two tokens ahead, never behind the end of the stream
\* (m_pointer stays at m_size there), and what it has yet to do are calls of its
\* functions and tokens it expects.
THEOREM TypeCorrect == Spec => []TypeOK
<1>1. ASSUME IInv
      PROVE  TypeOK
  <2>1. Types
    BY <1>1 DEF IInv
  <2>2. END \notin Tokens
    BY TokensAssumption DEF AllTokens, END, Levels, OpsAt, Literals, Openers, Closers, CloserOf,
       Keywords
  <2>3. /\ Len(ahead) <= 2 /\ \A i \in 1..Len(ahead) : ahead[i] \in Tokens \cup {END}
        /\ \A i \in 1..Len(ahead) - 1 : ahead[i] # END
    <3>1. CASE ahead = <<>>
      BY <3>1
    <3>2. CASE \E t \in Tokens \cup {END} : ahead = <<t>>
      BY <3>2
    <3>3. CASE \E t \in Tokens, u \in Tokens \cup {END} : ahead = <<t, u>>
      BY <2>2, <3>3
    <3>. QED  BY <2>1, <3>1, <3>2, <3>3 DEF Types, AheadTypes
  <2>4. \A i \in 1..Len(todo) : todo[i] \in Items
    BY <2>1, ItemFacts DEF Types
  <2>. QED  BY <2>1, <2>3, <2>4 DEF Types, TypeOK
<1>. QED  BY <1>1, Invariant, PTL

\* Whatever the tokens are, the operands of every binary operator and of "!" bind
\* as tight as parse_expression, parse_comparison, parse_additive, parse_term and
\* parse_unary say they do: the tree follows the order of operations.
THEOREM OrderKept == Spec => []OrderOfOperations
<1>1. ASSUME IInv, mode = "parsing", todo # <<>>
      PROVE  CASE Doing("tail") ->
                    Sees(OpsAt[Head(todo).level]) => Precedence(val) >= Precedence(Cur)
               [] Doing("binary") -> Precedence(val) > Precedence(Head(todo).tok)
               [] Doing("not")    -> Precedence(val) >= Precedence("NOT")
               [] OTHER -> TRUE
  <2>1. Precedence(val) \in Nat
    BY LevelFacts
  <2>2. ASSUME Doing("tail"), Sees(OpsAt[Head(todo).level])
        PROVE  Precedence(val) >= Precedence(Cur)
    <3>1. /\ todo[1].do = "tail" /\ todo[1] \in Pending /\ Head(todo) = todo[1]
          /\ Needs(todo[1]) <= Precedence(val)
      BY <1>1, <2>2, Turn
    <3>2. todo[1].level \in Levels /\ Needs(todo[1]) = todo[1].level
      BY <3>1 DEF Pending, Needs
    <3>3. Precedence(Cur) = todo[1].level
      BY <2>2, <3>1, <3>2, LevelFacts DEF Sees
    <3>. QED  BY <2>1, <3>1, <3>2, <3>3 DEF Levels
  <2>3. ASSUME Doing("binary")
        PROVE  Precedence(val) > Precedence(Head(todo).tok)
    <3>1. todo[1].do = "binary" /\ Head(todo) = todo[1] /\ Needs(todo[1]) <= Precedence(val)
      BY <1>1, <2>3, Turn
    <3>2. Needs(todo[1]) = Precedence(todo[1].tok) + 1 /\ Precedence(todo[1].tok) \in Nat
      BY <3>1, LevelFacts DEF Needs
    <3>. QED  BY <2>1, <3>1, <3>2
  <2>4. ASSUME Doing("not")
        PROVE  Precedence(val) >= Precedence("NOT")
    <3>1. todo[1].do = "not" /\ Needs(todo[1]) <= Precedence(val)
      BY <1>1, <2>4, Turn
    <3>2. Needs(todo[1]) = 5 /\ Precedence("NOT") = 5
      BY <3>1, LevelFacts DEF Needs
    <3>. QED  BY <2>1, <3>1, <3>2
  <2>. QED  BY <2>2, <2>3, <2>4, Zenon
<1>2. IInv => OrderOfOperations
  BY <1>1, Zenon DEF OrderOfOperations
<1>. QED  BY <1>2, Invariant, PTL

\* Where a statement begins every call in progress is one of parse_program, and
\* each but main's has its brace open.
LEMMA BlocksCounted ==
  ASSUME Types, BlocksOutermost(todo), Balances(todo, opened), todo[1].do = "program"
  PROVE  /\ \A i \in 1..Len(todo) : todo[i].do = "program"
         /\ opened \in Seq({"LBRACE"})
         /\ Len(todo) = Len(opened) + 1
<1>. DEFINE n == Len(todo)
<1>1. n \in Nat /\ n >= 1
  BY DEF Types, Balances
<1>. HIDE DEF n
<1>2. \A i \in 1..n : todo[i].do = "program"
  BY <1>1 DEF BlocksOutermost, BlockItems, n
<1>3. PICK open \in [1..n -> Seq(Openers)] :
        /\ open[1] = opened /\ open[n] = <<>>
        /\ \A i \in 1..(n - 1) : Turns(todo[i], open[i], open[i + 1])
        /\ \A i \in 1..n : todo[i].do \in BlockItems => open[i] \in Seq({"LBRACE"})
  BY DEF Balances, n
<1>4. opened \in Seq({"LBRACE"})
  BY <1>1, <1>2, <1>3 DEF BlockItems
<1>5. ASSUME NEW i \in 1..(n - 1)
      PROVE  Len(open[i]) = Len(open[i + 1]) + 1
  <2>1. i \in 1..n /\ i + 1 \in 1..n
    BY <1>1
  <2>2. open[i + 1] \in Seq(Openers) /\ "LBRACE" \in Openers
    BY <1>3, <2>1 DEF Openers
  <2>3. open[i] = Append(open[i + 1], "LBRACE")
    BY <1>2, <1>3, <2>1 DEF Turns
  <2>. QED  BY <2>2, <2>3, AppendProperties
<1>. DEFINE T == {k \in Nat : k < n => Len(open[n - k]) = k}
<1>6. 0 \in T
  BY <1>1, <1>3
<1>7. ASSUME NEW k \in Nat, k \in T
      PROVE  k + 1 \in T
  <2>1. SUFFICES ASSUME k + 1 < n
                 PROVE  Len(open[n - (k + 1)]) = k + 1
    OBVIOUS
  <2>. DEFINE i == n - (k + 1)
  <2>2. i \in 1..(n - 1) /\ i + 1 = n - k /\ k < n
    BY <1>1, <2>1
  <2>3. Len(open[n - k]) = k
    BY <1>7, <2>2
  <2>. HIDE DEF i
  <2>4. Len(open[i]) = k + 1
    BY <1>5, <2>2, <2>3
  <2>. QED  BY <2>4 DEF i
<1>8. n - 1 \in T
  <2>. HIDE DEF T
  <2>1. Nat \subseteq T
    BY <1>6, <1>7, Inductive
  <2>. QED  BY <1>1, <2>1
<1>9. Len(opened) = n - 1
  <2>1. n - 1 < n /\ n - (n - 1) = 1
    BY <1>1
  <2>. QED  BY <1>3, <1>8, <2>1
<1>. QED  BY <1>1, <1>2, <1>4, <1>9 DEF n

\* Whatever the tokens are: every closing bracket parser.cpp takes closes the
\* bracket opened last, but for a brace that ends the program where nothing is
\* open; a statement begins, and a block ends, with one open brace for every
\* call of parse_program inside main's; and a program that is accepted has no
\* parenthesis and no square bracket open, and braces only where the stream ended.
THEOREM BracketsMatched == Spec => []BracketsMatch
<1>1. ASSUME IInv
      PROVE  BracketsMatch
  <2>1. Types /\ (Balances(todo, opened) \/ AtTheEnd \/ OneBraceTooMany)
    BY <1>1 DEF IInv, Bracketed
  <2>2. todo # <<>> => \A i \in 1..Len(opened) : opened[i] \in Openers
    <3>1. CASE Balances(todo, opened)
      <4>1. todo # <<>> /\ 1 \in 1..Len(todo)
        BY <2>1, <3>1 DEF Balances, Types
      <4>2. opened \in Seq(Openers)
        BY <3>1, <4>1 DEF Balances
      <4>. QED  BY <4>2
    <3>2. CASE AtTheEnd
      BY <3>2 DEF AtTheEnd, Openers
    <3>3. CASE OneBraceTooMany
      BY <3>3 DEF OneBraceTooMany
    <3>. QED  BY <2>1, <3>1, <3>2, <3>3
  <2>3. ASSUME Doing("program"), Cur # END
        PROVE  /\ \A i \in 1..Len(todo) : todo[i].do = "program"
               /\ \A i \in 1..Len(opened) : opened[i] = "LBRACE"
               /\ Len(todo) = Len(opened) + 1
    <3>1. todo # <<>> /\ todo[1].do = "program" /\ BlocksOutermost(todo)
      BY <1>1, <2>3, Turn DEF Bracketed
    <3>2. ~AtTheEnd
      BY <2>3 DEF AtTheEnd, Cur
    <3>3. Balances(todo, opened)
      BY <2>1, <3>1, <3>2 DEF OneBraceTooMany
    <3>4. /\ \A i \in 1..Len(todo) : todo[i].do = "program"
          /\ opened \in Seq({"LBRACE"})
          /\ Len(todo) = Len(opened) + 1
      BY <2>1, <3>1, <3>3, BlocksCounted
    <3>. QED  BY <3>4
  <2>4. ASSUME todo = <<>> \/ mode = "accepted"
        PROVE  \/ opened = <<"RBRACE">>
               \/ ahead = <<END>> /\ \A i \in 1..Len(opened) : opened[i] = "LBRACE"
    <3>1. ~Balances(todo, opened)
      BY <2>1, <2>4 DEF Types, Balances
    <3>2. AtTheEnd => ahead = <<END>> /\ \A i \in 1..Len(opened) : opened[i] = "LBRACE"
      BY DEF AtTheEnd
    <3>. QED  BY <2>1, <3>1, <3>2 DEF OneBraceTooMany
  <2>. QED  BY <2>2, <2>3, <2>4 DEF BracketsMatch
<1>. QED  BY <1>1, Invariant, PTL
=============================================================================
