--------------------------- MODULE IrCompileProofs ---------------------------
(***************************************************************************)
(* Proofs about the macro expander, for every set of labels and            *)
(* instructions and every bound.  TypeOK, ActiveIsStack and                *)
(* ExpansionDefinesNothing lean on each other: the label that a call of    *)
(* expand takes out of active_ when it returns must be there for no other  *)
(* call, and the lines of the bodies, which are collected only between a   *)
(* def and an end, must contain neither, or else feeding a body could open *)
(* a definition.                                                           *)
(***************************************************************************)
EXTENDS IrCompile, Induction, SequenceTheorems, FiniteSetTheorems, TLAPS

\* The lines a body is made of.
BodyLines == {ln \in Lines : ln.op \notin {"def", "end"}}

Frames == [label : Labels, body : Seq(BodyLines), at : Nat \ {0}]

\* What the state is made of, more closely than in TypeOK.
Shapes ==
  /\ line \in Lines
  /\ status \in {"reading", "busy", "done", "error", "crash"}
  /\ DOMAIN macros_ \subseteq Labels
  /\ \A l \in DOMAIN macros_ : macros_[l] \in Seq(BodyLines)
  /\ active_ \subseteq Labels
  /\ current_ \in Labels \cup {NoLabel}
  /\ defining_ \in BOOLEAN /\ (defining_ => current_ \in DOMAIN macros_)
  /\ stack \in Seq(Frames)
  /\ written \in Seq(Instructions)
  /\ base \in Nat /\ base <= Len(written)

\* What is being expanded is defined.
Expanded == \A i \in 1..Len(stack) : stack[i].label \in DOMAIN macros_

Inv == Shapes /\ Expanded /\ ActiveIsStack /\ ExpansionDefinesNothing

-----------------------------------------------------------------------------
\* The lines that feed compiles are instructions of the file.
LEMMA InstructionLine ==
  ASSUME NEW ln \in Lines, ln.op = "ins"
  PROVE  ln.arg \in Instructions
BY DEF Lines, Line, End, Blank, Bad

\* A stack without its last element.
LEMMA WithoutLast ==
  ASSUME NEW X, NEW s \in Seq(X), s # <<>>
  PROVE  /\ SubSeq(s, 1, Len(s) - 1) \in Seq(X)
         /\ Len(SubSeq(s, 1, Len(s) - 1)) = Len(s) - 1
         /\ \A i \in 1..(Len(s) - 1) : SubSeq(s, 1, Len(s) - 1)[i] = s[i]
<1>1. Len(s) - 1 \in Nat
  OBVIOUS
<1>. QED  BY <1>1, SubSeqProperties

\* Going on to the next line of a body leaves labels and bodies as they are.
LEMMA AdvancedFrames ==
  ASSUME NEW s \in Seq(Frames)
  PROVE  /\ Advanced(s) \in Seq(Frames)
         /\ Len(Advanced(s)) = Len(s)
         /\ \A i \in 1..Len(s) : /\ Advanced(s)[i].label = s[i].label
                                 /\ Advanced(s)[i].body = s[i].body
<1>1. CASE s = <<>>
  BY <1>1 DEF Advanced
<1>2. CASE s # <<>>
  <2>1. s[Len(s)] \in Frames /\ Len(s) \in 1..Len(s)
    BY <1>2
  <2>2. \A fr \in Frames :
          /\ [fr EXCEPT !.at = @ + 1] \in Frames
          /\ [fr EXCEPT !.at = @ + 1].label = fr.label
          /\ [fr EXCEPT !.at = @ + 1].body = fr.body
    <3> SUFFICES ASSUME NEW fr \in Frames
                 PROVE  /\ [fr EXCEPT !.at = @ + 1] \in Frames
                        /\ [fr EXCEPT !.at = @ + 1].label = fr.label
                        /\ [fr EXCEPT !.at = @ + 1].body = fr.body
      OBVIOUS
    <3>1. fr.at + 1 \in Nat \ {0}
      BY DEF Frames
    <3>. QED  BY <3>1 DEF Frames
  <2>. QED  BY <1>2, <2>1, <2>2 DEF Advanced
<1>. QED  BY <1>1, <1>2

\* The properties do not look at where a body is read.
LEMMA AdvancedInvariant ==
  ASSUME Inv, UNCHANGED <<macros_, active_, defining_>>, stack' = Advanced(stack)
  PROVE  Expanded' /\ ActiveIsStack' /\ ExpansionDefinesNothing'
<1>1. stack \in Seq(Frames)
  BY DEF Inv, Shapes
<1>2. /\ Len(stack') = Len(stack)
      /\ \A i \in 1..Len(stack) : /\ stack'[i].label = stack[i].label
                                  /\ stack'[i].body = stack[i].body
      /\ stack' \in Seq(Frames)
  BY <1>1, AdvancedFrames
<1>3. stack' # <<>> => stack # <<>>
  BY <1>1, <1>2
<1>4. Expanded'
  BY <1>2 DEF Inv, Expanded
<1>5. ActiveIsStack'
  BY <1>2 DEF Inv, ActiveIsStack
<1>6. ExpansionDefinesNothing'
  BY <1>2, <1>3 DEF Inv, ExpansionDefinesNothing
<1>. QED  BY <1>4, <1>5, <1>6

\* With different labels the calls of expand are no more than there are labels.
LEMMA NoMoreThanLabels ==
  ASSUME Inv
  PROVE  Len(stack) <= Cardinality(Labels)
<1> DEFINE label == [i \in 1..Len(stack) |-> stack[i].label]
<1>1. Len(stack) \in Nat /\ IsFiniteSet(1..Len(stack)) /\ Cardinality(1..Len(stack)) = Len(stack)
  <2>1. Len(stack) \in Nat
    BY DEF Inv, Shapes
  <2>. HIDE DEF label
  <2>2. /\ IsFiniteSet(1..Len(stack))
        /\ Cardinality(1..Len(stack)) = IF 1 > Len(stack) THEN 0 ELSE Len(stack) - 1 + 1
    BY <2>1, FS_Interval
  <2>. QED  BY <2>1, <2>2
<1>2. IsFiniteSet(Labels) /\ Cardinality(Labels) \in Nat
  BY LabelsAssumption, FS_CardinalityType
<1>3. label \in [1..Len(stack) -> Labels]
  <2>1. \A i \in 1..Len(stack) : stack[i] \in Frames
    BY DEF Inv, Shapes
  <2>. QED  BY <2>1 DEF Frames
<1>4. \A i, j \in 1..Len(stack) : label[i] = label[j] => i = j
  BY DEF Inv, ActiveIsStack
<1>. HIDE DEF label
<1>5. ~(Cardinality(Labels) < Len(stack))
  BY <1>1, <1>2, <1>3, <1>4, FS_PigeonHole
<1>. QED  BY <1>1, <1>2, <1>5

-----------------------------------------------------------------------------
\* An exception changes nothing but the status.
LEMMA ThrowStep ==
  ASSUME Inv, Throw, UNCHANGED <<line, base>>
  PROVE  Inv'
BY DEF Inv, Shapes, Expanded, ActiveIsStack, ExpansionDefinesNothing, Throw

\* compile_line, wherever the line comes from.
LEMMA CompileLineStep ==
  ASSUME Inv, NEW ln \in Lines, CompileLine(ln), UNCHANGED <<line, base>>
  PROVE  Inv'
<1>1. CASE Throw
  BY <1>1, ThrowStep
<1>2. CASE ~Throw
  <2>1. /\ written' = IF ln.op = "ins" THEN Append(written, ln.arg) ELSE written
        /\ stack' = Advanced(stack)
        /\ status' \in {"reading", "busy"}
        /\ UNCHANGED <<macros_, active_, current_, defining_>>
    BY <1>2 DEF CompileLine, FedWith
  <2>2. Shapes'
    <3>1. written' \in Seq(Instructions) /\ Len(written') >= Len(written)
      BY <2>1, InstructionLine DEF Inv, Shapes
    <3>2. stack' \in Seq(Frames)
      BY <2>1, AdvancedFrames DEF Inv, Shapes
    <3>. QED  BY <2>1, <3>1, <3>2 DEF Inv, Shapes
  <2>3. Expanded' /\ ActiveIsStack' /\ ExpansionDefinesNothing'
    BY <2>1, AdvancedInvariant
  <2>. QED  BY <2>2, <2>3 DEF Inv
<1>. QED  BY <1>1, <1>2

\* A call of expand begins: its label was not active.
LEMMA ExpandStep ==
  ASSUME Inv, NEW l, Expand(l), ~defining_, UNCHANGED <<line, base>>
  PROVE  Inv'
<1>1. CASE Throw
  BY <1>1, ThrowStep
<1>2. CASE ~Throw
  <2>1. /\ l \in DOMAIN macros_ /\ l \notin active_
        /\ active_' = active_ \cup {l}
        /\ stack' = Append(stack, Frame(l, macros_[l]))
        /\ status' \in {"crash", "busy"}
        /\ UNCHANGED <<macros_, current_, defining_, written>>
    BY <1>2 DEF Expand, InUse
  <2>2. l \in Labels /\ Frame(l, macros_[l]) \in Frames
    BY <2>1 DEF Inv, Shapes, Frame, Frames
  <2>3. /\ stack \in Seq(Frames)
        /\ stack' \in Seq(Frames)
        /\ Len(stack') = Len(stack) + 1
        /\ \A i \in 1..Len(stack) : stack'[i] = stack[i]
        /\ stack'[Len(stack) + 1] = Frame(l, macros_[l])
    BY <2>1, <2>2 DEF Inv, Shapes
  <2>4. /\ \A i \in 1..Len(stack) : stack[i].label \in active_
        /\ stack'[Len(stack) + 1].label = l
        /\ stack'[Len(stack) + 1].body = macros_[l]
    BY <2>3 DEF Inv, ActiveIsStack, Frame
  <2>5. Shapes'
    BY <2>1, <2>2, <2>3 DEF Inv, Shapes
  <2>6. Expanded'
    BY <2>1, <2>3, <2>4 DEF Inv, Expanded
  <2>7. active_' = {stack'[i].label : i \in 1..Len(stack')}
    <3>1. 1..Len(stack') = 1..Len(stack) \cup {Len(stack) + 1}
      BY <2>3
    <3>. QED  BY <2>1, <2>3, <2>4, <3>1 DEF Inv, ActiveIsStack
  <2>8. \A i, j \in 1..Len(stack') : stack'[i].label = stack'[j].label => i = j
    BY <2>1, <2>3, <2>4 DEF Inv, ActiveIsStack
  <2>9. ExpansionDefinesNothing'
    <3>1. ASSUME NEW i \in 1..Len(stack')
          PROVE  stack'[i].body = macros_[stack'[i].label]
      <4>1. CASE i \in 1..Len(stack)
        BY <2>3, <4>1 DEF Inv, ExpansionDefinesNothing
      <4>2. CASE i = Len(stack) + 1
        BY <2>4, <4>2
      <4>. QED  BY <2>3, <4>1, <4>2
    <3>. QED  BY <2>1, <3>1 DEF ExpansionDefinesNothing
  <2>. QED  BY <2>5, <2>6, <2>7, <2>8, <2>9 DEF Inv, ActiveIsStack
<1>. QED  BY <1>1, <1>2

\* A call of expand returns: no other has its label.
LEMMA LeaveExpandStep ==
  ASSUME Inv, LeaveExpand
  PROVE  Inv'
<1> DEFINE rest == SubSeq(stack, 1, Len(stack) - 1)
<1>1. /\ stack \in Seq(Frames) /\ stack # <<>> /\ Len(stack) \in Nat \ {0}
      /\ rest \in Seq(Frames) /\ Len(rest) = Len(stack) - 1
      /\ \A i \in 1..Len(rest) : rest[i] = stack[i]
  <2>1. stack \in Seq(Frames) /\ stack # <<>>
    BY DEF Inv, Shapes, LeaveExpand, Expanding
  <2>2. Len(stack) \in Nat \ {0} /\ \A i \in 1..Len(stack) : stack[i] \in Frames
    BY <2>1
  <2>. QED  BY <2>1, <2>2, WithoutLast
<1>2. /\ active_' = active_ \ {stack[Len(stack)].label}
      /\ stack' = Advanced(rest)
      /\ status' \in {"reading", "busy"}
      /\ UNCHANGED <<line, macros_, current_, defining_, written, base>>
  BY DEF LeaveExpand, FedWith, Top
<1>. HIDE DEF rest
<1>3. /\ stack' \in Seq(Frames)
      /\ Len(stack') = Len(stack) - 1
      /\ \A i \in 1..Len(stack') : /\ stack'[i].label = stack[i].label
                                   /\ stack'[i].body = stack[i].body
  <2>1. /\ stack' \in Seq(Frames) /\ Len(stack') = Len(rest)
        /\ \A i \in 1..Len(rest) : /\ stack'[i].label = rest[i].label
                                   /\ stack'[i].body = rest[i].body
    BY <1>1, <1>2, AdvancedFrames
  <2>. QED  BY <1>1, <2>1
<1>4. Shapes'
  BY <1>2, <1>3 DEF Inv, Shapes
<1>5. Expanded'
  BY <1>1, <1>2, <1>3 DEF Inv, Expanded
<1>6. ExpansionDefinesNothing'
  BY <1>1, <1>2, <1>3 DEF Inv, ExpansionDefinesNothing
<1>7. ASSUME NEW i \in 1..Len(stack'), NEW j \in 1..Len(stack'),
             stack'[i].label = stack'[j].label
      PROVE  i = j
  <2>1. i \in 1..Len(stack) /\ j \in 1..Len(stack)
    BY <1>1, <1>3
  <2>2. stack[i].label = stack[j].label
    BY <1>3, <1>7
  <2>3. \A k, l \in 1..Len(stack) : stack[k].label = stack[l].label => k = l
    BY DEF Inv, ActiveIsStack
  <2>. QED  BY <2>1, <2>2, <2>3
<1>8. active_' = {stack'[i].label : i \in 1..Len(stack')}
  <2>1. 1..Len(stack) = 1..Len(stack') \cup {Len(stack)}
    BY <1>1, <1>3
  <2>2. active_ = {stack'[i].label : i \in 1..Len(stack')} \cup {stack[Len(stack)].label}
    <3>1. active_ = {stack[i].label : i \in 1..Len(stack)}
      BY DEF Inv, ActiveIsStack
    <3>2. \A i \in 1..Len(stack') : stack'[i].label = stack[i].label
      BY <1>3
    <3>. QED  BY <2>1, <3>1, <3>2
  <2>3. ASSUME NEW i \in 1..Len(stack')
        PROVE  stack'[i].label # stack[Len(stack)].label
    <3>1. i \in 1..Len(stack) /\ Len(stack) \in 1..Len(stack) /\ i # Len(stack)
      BY <1>1, <1>3, <2>3
    <3>2. \A k, l \in 1..Len(stack) : stack[k].label = stack[l].label => k = l
      BY DEF Inv, ActiveIsStack
    <3>. QED  BY <1>3, <3>1, <3>2
  <2>. QED  BY <1>2, <2>2, <2>3
<1>. QED  BY <1>4, <1>5, <1>6, <1>7, <1>8 DEF Inv, ActiveIsStack

-----------------------------------------------------------------------------
\* A line inside a definition, which is a line of the file.
LEMMA InDefinitionStep ==
  ASSUME Inv, defining_, stack = <<>>, NEW ln \in Lines, InDefinition(ln),
         UNCHANGED <<line, base>>
  PROVE  Inv'
<1>1. CASE ln.op = "end"
  <2>1. /\ defining_' = FALSE /\ stack' = <<>> /\ status' = "reading"
        /\ UNCHANGED <<macros_, active_, current_, written>>
    BY <1>1 DEF InDefinition, FedWith, Advanced
  <2>2. Shapes'
    BY <2>1 DEF Inv, Shapes
  <2>3. Expanded' /\ ActiveIsStack'
    BY <2>1 DEF Inv, Expanded, ActiveIsStack
  <2>4. ExpansionDefinesNothing'
    BY <2>1 DEF ExpansionDefinesNothing
  <2>. QED  BY <2>2, <2>3, <2>4 DEF Inv
<1>2. CASE ln.op = "def"
  BY <1>2, ThrowStep DEF InDefinition
<1>3. CASE ln.op \notin {"def", "end"}
  <2>1. /\ macros_' = [macros_ EXCEPT ![current_] = Append(@, ln)]
        /\ stack' = <<>> /\ status' = "reading"
        /\ UNCHANGED <<active_, current_, defining_, written>>
    BY <1>3 DEF InDefinition, Collect, FedWith, Advanced
  <2>2. current_ \in DOMAIN macros_ /\ macros_[current_] \in Seq(BodyLines)
    BY DEF Inv, Shapes
  <2>3. ln \in BodyLines
    BY <1>3 DEF BodyLines
  <2>4. /\ DOMAIN macros_' = DOMAIN macros_
        /\ \A l \in DOMAIN macros_ : macros_'[l] \in Seq(BodyLines)
    BY <2>1, <2>2, <2>3 DEF Inv, Shapes
  <2>5. Shapes'
    BY <2>1, <2>4 DEF Inv, Shapes
  <2>. QED  BY <2>1, <2>5 DEF Inv, Expanded, ActiveIsStack, ExpansionDefinesNothing
<1>. QED  BY <1>1, <1>2, <1>3

\* A definition is opened by a line of the file.
LEMMA DefineStep ==
  ASSUME Inv, stack = <<>>, NEW ln \in Lines, ln.op = "def", Define(ln),
         UNCHANGED <<line, base>>
  PROVE  Inv'
<1>1. CASE ln.arg = NoLabel
  BY <1>1, ThrowStep DEF Define
<1>2. CASE ln.arg # NoLabel
  <2>1. ln.arg \in Labels
    BY <1>2 DEF Lines, Line, End, Blank, Bad
  <2>2. /\ current_' = ln.arg /\ defining_' = TRUE
        /\ macros_' = Started(ln.arg)
        /\ stack' = <<>> /\ status' = "reading"
        /\ UNCHANGED <<active_, written>>
    BY <1>2 DEF Define, Defining, FedWith, Advanced
  <2>3. /\ DOMAIN macros_' = DOMAIN macros_ \cup {ln.arg}
        /\ \A l \in DOMAIN macros_' : macros_'[l] \in Seq(BodyLines)
    BY <2>2 DEF Started, Inv, Shapes
  <2>4. Shapes'
    BY <2>1, <2>2, <2>3 DEF Inv, Shapes
  <2>. QED  BY <2>2, <2>4 DEF Inv, Expanded, ActiveIsStack, ExpansionDefinesNothing
<1>. QED  BY <1>1, <1>2

\* A line of the file.
LEMMA FeedLineStep ==
  ASSUME Inv, FeedLine
  PROVE  Inv'
<1>1. /\ stack = <<>> /\ line \in Lines /\ defining_ \in BOOLEAN
      /\ Feed(line) /\ UNCHANGED <<line, base>>
  BY DEF FeedLine, Inv, Shapes
<1>2. CASE defining_
  BY <1>1, <1>2, InDefinitionStep DEF Feed
<1>3. CASE ~defining_ /\ line.op = "def"
  BY <1>1, <1>3, DefineStep DEF Feed
<1>4. CASE ~defining_ /\ line.op = "use"
  BY <1>1, <1>4, ExpandStep DEF Feed
<1>5. CASE ~defining_ /\ line.op \notin {"def", "use"}
  BY <1>1, <1>5, CompileLineStep DEF Feed
<1>. QED  BY <1>1, <1>2, <1>3, <1>4, <1>5

\* A line of a body, which defines nothing.
LEMMA FeedBodyLineStep ==
  ASSUME Inv, FeedBodyLine
  PROVE  Inv'
<1> DEFINE ln == Top.body[Top.at]
<1>1. /\ stack \in Seq(Frames) /\ stack # <<>> /\ ~defining_
      /\ Feed(ln) /\ UNCHANGED <<line, base>>
  BY DEF FeedBodyLine, Expanding, Inv, Shapes, ExpansionDefinesNothing
<1>2. ln \in BodyLines
  <2>1. Top \in Frames /\ Top.at <= Len(Top.body)
    BY <1>1 DEF FeedBodyLine, Top
  <2>. QED  BY <2>1 DEF Frames
<1>3. ln \in Lines /\ ln.op # "def"
  BY <1>2 DEF BodyLines
<1>. HIDE DEF ln
<1>4. CASE ln.op = "use"
  BY <1>1, <1>4, ExpandStep DEF Feed
<1>5. CASE ln.op # "use"
  BY <1>1, <1>3, <1>5, CompileLineStep DEF Feed
<1>. QED  BY <1>4, <1>5

\* A call of expand that finds the C++ stack full would be one too many.
LEMMA NoCrashStep ==
  ASSUME Inv, status # "crash", [Next]_vars
  PROVE  status' # "crash"
<1>1. ASSUME NEW l, Expand(l)
      PROVE  status' # "crash"
  <2>1. Len(stack) <= Cardinality(Labels) /\ Len(stack) \in Nat
    BY NoMoreThanLabels DEF Inv, Shapes
  <2>2. Cardinality(Labels) \in Nat
    BY LabelsAssumption, FS_CardinalityType
  <2>3. Len(stack) # StackLimit
    BY <2>1, <2>2, LimitAssumption
  <2>. QED  BY <1>1, <2>3 DEF Expand, Throw
<1>2. ASSUME NEW ln, Feed(ln)
      PROVE  status' # "crash"
  BY <1>1, <1>2 DEF Feed, InDefinition, Collect, Define, Defining, CompileLine, Throw,
                    FedWith
<1>. QED  BY <1>2 DEF Next, vars, ReadLine, FeedLine, FeedBodyLine, LeaveExpand, Finish, Exited,
                      FedWith

-----------------------------------------------------------------------------
\* The invariant is inductive.
LEMMA InvHolds == Spec => []Inv
<1>1. Init => Inv
  <2>1. Blank \in Lines
    BY DEF Lines
  <2>2. Init => Shapes
    <3>1. /\ DOMAIN <<>> = {} /\ Len(<<>>) = 0
          /\ <<>> \in Seq(Frames) /\ <<>> \in Seq(Instructions)
      OBVIOUS
    <3>2. ASSUME Init
          PROVE  /\ DOMAIN macros_ \subseteq Labels
                 /\ \A l \in DOMAIN macros_ : macros_[l] \in Seq(BodyLines)
      BY <3>1, <3>2 DEF Init
    <3>3. ASSUME Init
          PROVE  /\ stack \in Seq(Frames) /\ written \in Seq(Instructions)
                 /\ base \in Nat /\ base <= Len(written)
      BY <3>1, <3>3 DEF Init
    <3>. QED  BY <2>1, <3>2, <3>3 DEF Init, Shapes
  <2>3. Init => Expanded /\ ActiveIsStack /\ ExpansionDefinesNothing
    BY DEF Init, Expanded, ActiveIsStack, ExpansionDefinesNothing
  <2>. QED  BY <2>2, <2>3 DEF Inv
<1>2. Inv /\ [Next]_vars => Inv'
  <2> SUFFICES ASSUME Inv, [Next]_vars PROVE Inv'
    OBVIOUS
  <2>1. CASE ReadLine
    BY <2>1 DEF ReadLine, Inv, Shapes, Expanded, ActiveIsStack, ExpansionDefinesNothing
  <2>2. CASE FeedLine
    BY <2>2, FeedLineStep
  <2>3. CASE FeedBodyLine
    BY <2>3, FeedBodyLineStep
  <2>4. CASE LeaveExpand
    BY <2>4, LeaveExpandStep
  <2>5. CASE Finish
    BY <2>5 DEF Finish, Inv, Shapes, Expanded, ActiveIsStack, ExpansionDefinesNothing
  <2>6. CASE UNCHANGED vars
    BY <2>6 DEF vars, Inv, Shapes, Expanded, ActiveIsStack, ExpansionDefinesNothing
  <2>. QED  BY <2>1, <2>2, <2>3, <2>4, <2>5, <2>6 DEF Next, Exited
<1>. QED  BY <1>1, <1>2, PTL DEF Spec

\* For all files, the variables of the expander have their types.
THEOREM ExpanderTypes == Spec => []TypeOK
<1>1. Inv => TypeOK
  <2> SUFFICES ASSUME Inv PROVE TypeOK
    OBVIOUS
  <2>1. \A l \in DOMAIN macros_ : macros_[l] \in Seq(Lines)
    <3>1. \A b \in Seq(BodyLines) : b \in Seq(Lines)
      BY DEF BodyLines
    <3>. QED  BY <3>1 DEF Inv, Shapes
  <2>2. \A i \in 1..Len(stack) : stack[i].label \in Labels /\ stack[i].at \in Nat
    <3>1. \A i \in 1..Len(stack) : stack[i] \in Frames
      BY DEF Inv, Shapes
    <3>. QED  BY <3>1 DEF Frames
  <2>3. base \in 0..Len(written)
    BY DEF Inv, Shapes
  <2>. QED  BY <2>1, <2>2, <2>3 DEF Inv, Shapes, TypeOK
<1>. QED  BY <1>1, InvHolds, PTL

\* For all files, the labels in active_ are those of the calls of expand in
\* progress, no two of which have the same: ircompile.cpp:346 refuses exactly the
\* uses of a macro in itself.
THEOREM ActiveLabels == Spec => []ActiveIsStack
<1>1. Inv => ActiveIsStack
  BY DEF Inv
<1>. QED  BY <1>1, InvHolds, PTL

\* For all files, no definition is opened or changed while a macro is expanded,
\* so that the copy expand works on (ircompile.cpp:348) stays what the macro is.
THEOREM ExpansionIsReadOnly == Spec => []ExpansionDefinesNothing
<1>1. Inv => ExpansionDefinesNothing
  BY DEF Inv
<1>. QED  BY <1>1, InvHolds, PTL

\* For all files, feed and expand never exhaust the C++ stack: with a macro
\* refused while it is active, their calls nest no deeper than there are labels.
THEOREM RecursionIsBounded == Spec => []StackSuffices
<1> DEFINE NoCrash == status # "crash"
<1>1. Init => NoCrash
  BY DEF Init
<1>2. Inv /\ NoCrash /\ [Next]_vars => NoCrash'
  BY NoCrashStep
<1>3. Inv /\ NoCrash => StackSuffices
  BY NoMoreThanLabels DEF StackSuffices
<1>. QED  BY <1>1, <1>2, <1>3, InvHolds, PTL DEF Spec

-----------------------------------------------------------------------------
(* The text of a macro: a fold over its lines.                             *)

Flattening(g, s, X) ==
  /\ g \in [0..Len(s) -> Seq(X)]
  /\ g[0] = <<>> /\ \A i \in 1..Len(s) : g[i] = g[i - 1] \o s[i]

LEMMA FlattenSteps ==
  ASSUME NEW X, NEW s \in Seq(Seq(X))
  PROVE  \E g : Flattening(g, s, X) /\ File!FlattenSeq(s) = g[Len(s)]
<1>. DEFINE n == Len(s)
            F == [p \in Nat \X Seq(X) |-> IF p[1] \in 1..n THEN p[2] \o s[p[1]] ELSE p[2]]
<1>1. n \in Nat /\ \A i \in 1..n : s[i] \in Seq(X)
  OBVIOUS
<1>2. F \in [Nat \X Seq(X) -> Seq(X)]
  <2>. SUFFICES ASSUME NEW i \in Nat, NEW t \in Seq(X)
                PROVE  (IF i \in 1..n THEN t \o s[i] ELSE t) \in Seq(X)
    OBVIOUS
  <2>. QED  BY <1>1
<1>3. \E g \in [0..n -> Seq(X)] : g[0] = <<>> /\ \A i \in 1..n : g[i] = F[<<i, g[i - 1]>>]
  <2>1. <<>> \in Seq(X)
    OBVIOUS
  <2>. DEFINE S == Seq(X)
  <2>2. <<>> \in S /\ F \in [Nat \X S -> S] /\ n \in Nat
    BY <1>1, <1>2, <2>1
  <2>. HIDE DEF F, n, S
  <2>3. Recurs(S, <<>>, F, n)
    BY <2>2, Recursion
  <2>. QED  BY <2>3 DEF Recurs, S
<1>4. PICK g \in [0..n -> Seq(X)] : g[0] = <<>> /\ \A i \in 1..n : g[i] = F[<<i, g[i - 1]>>]
  BY <1>3
<1>5. ASSUME NEW i \in 1..n
      PROVE  g[i] = g[i - 1] \o s[i]
  <2>1. i \in Nat /\ i - 1 \in 0..n
    BY <1>1
  <2>2. g[i - 1] \in Seq(X)
    BY <2>1
  <2>. QED  BY <1>4, <2>1, <2>2
<1>6. Flattening(g, s, X)
  BY <1>4, <1>5 DEF Flattening
<1>7. CASE n = 0
  <2>1. s = <<>>
    BY <1>7
  <2>2. File!FlattenSeq(s) = s
    BY <1>7 DEF File!FlattenSeq
  <2>. QED  BY <1>4, <1>6, <1>7, <2>1, <2>2
<1>8. CASE n # 0
  <2>. DEFINE Is(f) == f = [i \in 1..n |-> IF i = 1 THEN s[i] ELSE f[i - 1] \o s[i]]
              f     == CHOOSE h : Is(h)
  <2>1. Is([i \in 1..n |-> g[i]])
    <3>. DEFINE h == [i \in 1..n |-> g[i]]
    <3>1. ASSUME NEW i \in 1..n
          PROVE  h[i] = IF i = 1 THEN s[i] ELSE h[i - 1] \o s[i]
      <4>1. CASE i = 1
        <5>1. g[1] = g[0] \o s[1]
          <6>1. g[i] = g[i - 1] \o s[i]
            BY <1>5
          <6>. QED  BY <4>1, <6>1
        <5>2. <<>> \o s[1] = s[1]
          BY <1>1, <4>1
        <5>. QED  BY <1>4, <4>1, <5>1, <5>2
      <4>2. CASE i # 1
        <5>1. i - 1 \in 1..n
          BY <1>1, <4>2
        <5>. QED  BY <1>5, <4>2, <5>1
      <4>. QED  BY <4>1, <4>2
    <3>. QED  BY <3>1
  <2>2. \E h : Is(h)
    BY <2>1
  <2>3. Is(f)
    <3>. HIDE DEF Is
    <3>. QED  BY <2>2, Zenon
  <2>4. File!FlattenSeq(s) = f[n]
    BY <1>8 DEF File!FlattenSeq
  <2>. HIDE DEF f
  <2>5. \A i \in 1..n : f[i] = IF i = 1 THEN s[i] ELSE f[i - 1] \o s[i]
    BY <2>3
  <2>. DEFINE T == {i \in Nat : i \in 1..n => f[i] = g[i]}
  <2>6. ASSUME NEW i \in Nat, i \in T
        PROVE  i + 1 \in T
    <3>1. CASE i = 0
      <4>1. 1 \in 1..n
        BY <1>1, <1>8
      <4>2. f[1] = s[1] /\ s[1] \in Seq(X)
        BY <1>1, <2>5, <4>1
      <4>3. g[1] = g[0] \o s[1]
        <5>1. \A j \in 1..n : g[j] = g[j - 1] \o s[j]
          BY <1>5
        <5>2. g[1] = g[1 - 1] \o s[1]
          BY <4>1, <5>1, Zenon
        <5>3. 1 - 1 = 0
          OBVIOUS
        <5>. QED  BY <5>2, <5>3, Zenon
      <4>4. g[1] = s[1]
        BY <1>4, <4>2, <4>3
      <4>. QED  BY <3>1, <4>2, <4>4
    <3>2. CASE i # 0 /\ i + 1 \in 1..n
      <4>1. i + 1 # 1 /\ (i + 1) - 1 = i /\ i \in 1..n
        BY <3>2
      <4>2. f[i + 1] = f[i] \o s[i + 1] /\ g[i + 1] = g[i] \o s[i + 1]
        BY <1>5, <2>5, <3>2, <4>1
      <4>3. f[i] = g[i]
        BY <2>6, <4>1
      <4>4. f[i + 1] = g[i + 1] /\ i + 1 \in Nat
        BY <4>2, <4>3
      <4>. QED  BY <4>4
    <3>3. CASE i # 0 /\ i + 1 \notin 1..n
      BY <3>3
    <3>. HIDE DEF T
    <3>. QED  BY <3>1, <3>2, <3>3
  <2>7. n \in T
    <3>1. 0 \in T
      OBVIOUS
    <3>. HIDE DEF T
    <3>. QED  BY <1>1, <2>6, <3>1, Inductive
  <2>8. f[n] = g[n]
    BY <1>1, <1>8, <2>7
  <2>. QED  BY <1>6, <2>4, <2>8
<1>. QED  BY <1>7, <1>8

\* The text of the first k pieces.
LEMMA FlattenPrefixes ==
  ASSUME NEW X, NEW s \in Seq(Seq(X))
  PROVE  \E g : /\ Flattening(g, s, X)
                /\ \A k \in 0..Len(s) : File!FlattenSeq(SubSeq(s, 1, k)) = g[k]
<1>1. PICK g : Flattening(g, s, X)
  BY FlattenSteps
<1>2. ASSUME NEW k \in 0..Len(s)
      PROVE  File!FlattenSeq(SubSeq(s, 1, k)) = g[k]
  <2>. DEFINE t == SubSeq(s, 1, k)
  <2>1. t \in Seq(Seq(X)) /\ Len(t) = k /\ k \in Nat /\ \A i \in 1..k : t[i] = s[i]
    OBVIOUS
  <2>. HIDE DEF t
  <2>2. PICK h : Flattening(h, t, X) /\ File!FlattenSeq(t) = h[Len(t)]
    BY <2>1, FlattenSteps
  <2>3. h[0] = <<>> /\ \A i \in 1..k : h[i] = h[i - 1] \o s[i]
    BY <2>1, <2>2 DEF Flattening
  <2>4. g[0] = <<>> /\ \A i \in 1..k : g[i] = g[i - 1] \o s[i]
    <3>1. \A i \in 1..k : i \in 1..Len(s)
      BY <2>1
    <3>. QED  BY <1>1, <3>1 DEF Flattening
  <2>. DEFINE T == {i \in Nat : i \in 0..k => h[i] = g[i]}
  <2>5. 0 \in T
    BY <2>3, <2>4
  <2>6. ASSUME NEW i \in Nat, i \in T
        PROVE  i + 1 \in T
    <3>1. CASE i + 1 \in 1..k
      <4>1. (i + 1) - 1 = i /\ i \in 0..k
        BY <3>1
      <4>2. h[i + 1] = h[i] \o s[i + 1] /\ g[i + 1] = g[i] \o s[i + 1]
        BY <2>3, <2>4, <3>1, <4>1
      <4>3. h[i] = g[i]
        BY <2>6, <4>1
      <4>4. h[i + 1] = g[i + 1]
        BY <4>2, <4>3
      <4>. QED  BY <4>4
    <3>2. CASE i + 1 \notin 1..k
      BY <3>2
    <3>. HIDE DEF T
    <3>. QED  BY <3>1, <3>2
  <2>7. k \in T
    <3>. HIDE DEF T
    <3>. QED  BY <2>1, <2>5, <2>6, Inductive
  <2>8. h[k] = g[k]
    BY <2>1, <2>7
  <2>. QED  BY <2>1, <2>2, <2>8 DEF t
<1>. QED  BY <1>1, <1>2

-----------------------------------------------------------------------------
(* The texts of macros.                                                    *)

\* Uses of different labels nest no more deeply.
Deepest == Cardinality(Labels)

Bodies ==
  /\ DOMAIN macros_ \subseteq Labels
  /\ \A l \in DOMAIN macros_ : macros_[l] \in Seq(BodyLines)

AllTexts == [File!Targets -> Seq(Instructions)]

LEMMA SameCardinality == \A S : File!Cardinality(S) = Cardinality(S)
BY DEF File!Cardinality, Cardinality

LEMMA BodyShape ==
  ASSUME Bodies, NEW l \in File!Targets
  PROVE  /\ File!BodyOf(l) \in Seq(BodyLines)
         /\ l \in DOMAIN macros_ => File!BodyOf(l) = macros_[l]
         /\ \A i \in 1..Len(File!BodyOf(l)) :
              LET ln == File!BodyOf(l)[i]
              IN  /\ ln \in BodyLines
                  /\ ln.op = "ins" => ln.arg \in Instructions
                  /\ ln.op = "use" => ln.arg \in File!Targets
<1>1. <<>> \in Seq(BodyLines)
  OBVIOUS
<1>2. /\ File!BodyOf(l) \in Seq(BodyLines)
      /\ l \in DOMAIN macros_ => File!BodyOf(l) = macros_[l]
  BY <1>1 DEF Bodies, File!BodyOf, File!Defined
<1>3. \A ln \in BodyLines : /\ ln.op = "ins" => ln.arg \in Instructions
                            /\ ln.op = "use" => ln.arg \in File!Targets
  BY DEF BodyLines, Lines, Line, End, Blank, Bad, File!Targets
<1>. QED  BY <1>2, <1>3

LEMMA PiecesShape ==
  ASSUME Bodies, NEW l \in File!Targets, NEW texts \in AllTexts
  PROVE  /\ File!Pieces(l, texts) \in Seq(Seq(Instructions))
         /\ Len(File!Pieces(l, texts)) = Len(File!BodyOf(l))
         /\ \A i \in 1..Len(File!BodyOf(l)) :
              File!Pieces(l, texts)[i] = File!Piece(File!BodyOf(l)[i], texts)
<1>. DEFINE b == File!BodyOf(l)
<1>1. Len(b) \in Nat
  BY BodyShape
<1>2. ASSUME NEW i \in 1..Len(b)
      PROVE  File!Piece(b[i], texts) \in Seq(Instructions)
  <2>1. /\ b[i].op = "ins" => b[i].arg \in Instructions
        /\ b[i].op = "use" => texts[b[i].arg] \in Seq(Instructions)
    BY BodyShape DEF AllTexts
  <2>2. CASE b[i].op = "ins"
    BY <2>1, <2>2 DEF File!Piece
  <2>3. CASE b[i].op = "use"
    BY <2>1, <2>3 DEF File!Piece
  <2>4. CASE b[i].op \notin {"ins", "use"}
    BY <2>4 DEF File!Piece
  <2>. QED  BY <2>2, <2>3, <2>4
<1>. HIDE DEF b
<1>3. File!Pieces(l, texts) = [i \in 1..Len(b) |-> File!Piece(b[i], texts)]
  BY DEF File!Pieces, b
<1>. QED  BY <1>1, <1>2, <1>3 DEF b

LEMMA TextsDefined ==
  ASSUME Bodies
  PROVE  /\ File!Texts \in [0..Deepest -> AllTexts]
         /\ \A l \in File!Targets : File!Texts[0][l] = <<>>
         /\ \A n \in 1..Deepest, l \in File!Targets :
              File!Texts[n][l] = File!FlattenSeq(File!Pieces(l, File!Texts[n - 1]))
<1>. DEFINE Next1(t) == [l \in File!Targets |-> File!FlattenSeq(File!Pieces(l, t))]
            none == [l \in File!Targets |-> <<>>]
            F == [p \in Nat \X AllTexts |-> Next1(p[2])]
            Is(t) == t = [n \in 0..Deepest |->
                            [l \in File!Targets |->
                               IF n = 0 THEN <<>>
                               ELSE File!FlattenSeq(File!Pieces(l, t[n - 1]))]]
<1>1. Deepest \in Nat
  BY LabelsAssumption, FS_CardinalityType DEF Deepest
<1>2. none \in AllTexts
  BY DEF AllTexts
<1>3. ASSUME NEW t \in AllTexts
      PROVE  Next1(t) \in AllTexts
  <2>1. ASSUME NEW l \in File!Targets
        PROVE  File!FlattenSeq(File!Pieces(l, t)) \in Seq(Instructions)
    <3>1. File!Pieces(l, t) \in Seq(Seq(Instructions))
      BY <1>3, PiecesShape
    <3>2. PICK g : /\ Flattening(g, File!Pieces(l, t), Instructions)
                   /\ File!FlattenSeq(File!Pieces(l, t)) = g[Len(File!Pieces(l, t))]
      BY <3>1, FlattenSteps
    <3>3. Len(File!Pieces(l, t)) \in 0..Len(File!Pieces(l, t))
      BY <3>1
    <3>. QED  BY <3>2, <3>3 DEF Flattening
  <2>. QED  BY <2>1 DEF AllTexts
<1>4. F \in [Nat \X AllTexts -> AllTexts]
  BY <1>3
<1>5. Recurs(AllTexts, none, F, Deepest)
  <2>. HIDE DEF none, F
  <2>. QED  BY <1>1, <1>2, <1>4, Recursion
<1>6. PICK g \in [0..Deepest -> AllTexts] :
        g[0] = none /\ \A i \in 1..Deepest : g[i] = F[<<i, g[i - 1]>>]
  BY <1>5 DEF Recurs
<1>7. ASSUME NEW i \in 1..Deepest
      PROVE  g[i] = Next1(g[i - 1])
  <2>1. i \in Nat /\ i - 1 \in 0..Deepest /\ g[i - 1] \in AllTexts
    BY <1>1
  <2>. HIDE DEF Next1
  <2>. QED  BY <1>6, <2>1
<1>8. Is(g)
  <2>1. ASSUME NEW n \in 0..Deepest
        PROVE  g[n] = [l \in File!Targets |->
                         IF n = 0 THEN <<>>
                         ELSE File!FlattenSeq(File!Pieces(l, g[n - 1]))]
    <3>1. CASE n = 0
      BY <1>6, <3>1
    <3>2. CASE n # 0
      <4>1. n \in 1..Deepest
        BY <1>1, <3>2
      <4>. QED  BY <1>7, <3>2, <4>1
    <3>. QED  BY <3>1, <3>2
  <2>. QED  BY <2>1
<1>9. Is(File!Texts)
  <2>1. File!Texts = CHOOSE t : Is(t)
    BY SameCardinality DEF File!Texts, Deepest
  <2>. HIDE DEF Is
  <2>. QED  BY <1>8, <2>1, Zenon
<1>10. \A n \in 0..Deepest : File!Texts[n] = [l \in File!Targets |->
                               IF n = 0 THEN <<>>
                               ELSE File!FlattenSeq(File!Pieces(l, File!Texts[n - 1]))]
  BY <1>9
<1>11. ASSUME NEW n \in 0..Deepest
       PROVE  File!Texts[n] = g[n]
  <2>. DEFINE T == {i \in Nat : i \in 0..Deepest => File!Texts[i] = g[i]}
  <2>1. 0 \in T
    BY <1>1, <1>6, <1>10
  <2>2. ASSUME NEW i \in Nat, i \in T
        PROVE  i + 1 \in T
    <3>1. CASE i + 1 \in 0..Deepest
      <4>1. i \in 0..Deepest /\ i + 1 \in 1..Deepest /\ i + 1 # 0 /\ (i + 1) - 1 = i
        BY <1>1, <3>1
      <4>2. g[i + 1] = Next1(g[i])
        BY <1>7, <4>1
      <4>3. File!Texts[i] = g[i]
        BY <2>2, <4>1
      <4>4. File!Texts[i + 1] = Next1(g[i])
        BY <1>10, <3>1, <4>1, <4>3
      <4>. QED  BY <4>2, <4>4
    <3>2. CASE i + 1 \notin 0..Deepest
      BY <3>2
    <3>. HIDE DEF T
    <3>. QED  BY <3>1, <3>2
  <2>3. n \in T
    <3>. HIDE DEF T
    <3>. QED  BY <1>1, <2>1, <2>2, Inductive
  <2>. QED  BY <2>3
<1>12. \A n \in 0..Deepest : File!Texts[n] \in AllTexts
  BY <1>11
<1>13. DOMAIN File!Texts = 0..Deepest /\ File!Texts = [n \in 0..Deepest |-> File!Texts[n]]
  BY <1>9
<1>14. File!Texts \in [0..Deepest -> AllTexts]
  BY <1>12, <1>13
<1>. QED  BY <1>1, <1>10, <1>14

-----------------------------------------------------------------------------
(* What a label leads to.                                                  *)

Leads(l) == File!Closure({l})

Closed(S) == S \subseteq File!Targets /\ \A m \in S : File!UsedBy(m) \subseteq S

LEMMA UsesAreTargets ==
  ASSUME Bodies, NEW l \in File!Targets
  PROVE  File!UsedBy(l) \subseteq File!Targets
<1>1. File!Range(File!BodyOf(l)) = {File!BodyOf(l)[i] : i \in 1..Len(File!BodyOf(l))}
  <2>1. DOMAIN File!BodyOf(l) = 1..Len(File!BodyOf(l))
    BY BodyShape
  <2>. QED  BY <2>1 DEF File!Range
<1>. QED  BY <1>1, BodyShape DEF File!UsedBy

LEMMA ClosureContains ==
  ASSUME NEW L, L \subseteq File!Targets
  PROVE  L \subseteq File!Closure(L)
BY DEF File!Closure

LEMMA ClosureClosed ==
  ASSUME Bodies, NEW L
  PROVE  Closed(File!Closure(L))
<1>1. File!Closure(L) \subseteq File!Targets
  BY DEF File!Closure
<1>2. ASSUME NEW m \in File!Closure(L), NEW u \in File!UsedBy(m)
      PROVE  u \in File!Closure(L)
  <2>1. u \in File!Targets
    BY <1>1, UsesAreTargets
  <2>. QED  BY <2>1 DEF File!Closure
<1>. QED  BY <1>1, <1>2 DEF Closed

LEMMA ClosureLeast ==
  ASSUME NEW L, NEW S, L \subseteq S, Closed(S)
  PROVE  File!Closure(L) \subseteq S
BY DEF File!Closure, Closed

LEMMA LeadsOn ==
  ASSUME Bodies, NEW l \in File!Targets
  PROVE  /\ l \in Leads(l) /\ Closed(Leads(l))
         /\ \A m \in Leads(l) : Leads(m) \subseteq Leads(l)
         /\ \A u \in File!UsedBy(l) : u \in File!Targets /\ Leads(u) \subseteq File!Closure(File!UsedBy(l))
         /\ \A m \in Leads(l) : m = l \/ \E u \in File!UsedBy(l) : m \in Leads(u)
         /\ \A m \in File!Closure(File!UsedBy(l)) : \E u \in File!UsedBy(l) : m \in Leads(u)
<1>. DEFINE U == File!UsedBy(l)
            S == UNION {Leads(u) : u \in U}
<1>1. l \in Leads(l) /\ Closed(Leads(l))
  BY ClosureContains, ClosureClosed DEF Leads
<1>2. \A m \in Leads(l) : Leads(m) \subseteq Leads(l)
  BY <1>1, ClosureLeast DEF Leads
<1>3. U \subseteq File!Targets /\ U \subseteq File!Closure(U) /\ Closed(File!Closure(U))
  BY UsesAreTargets, ClosureContains, ClosureClosed
<1>4. ASSUME NEW u \in U
      PROVE  u \in File!Targets /\ Leads(u) \subseteq File!Closure(U) /\ u \in Leads(u)
             /\ Closed(Leads(u))
  <2>1. {u} \subseteq File!Closure(U) /\ {u} \subseteq File!Targets
    BY <1>3
  <2>. QED  BY <1>3, <2>1, ClosureLeast, ClosureContains, ClosureClosed DEF Leads
<1>. HIDE DEF U
<1>5. Closed(S) /\ U \subseteq S
  BY <1>4 DEF Closed
<1>6. File!Closure(U) \subseteq S
  BY <1>5, ClosureLeast
<1>7. Closed({l} \cup S) /\ {l} \subseteq {l} \cup S
  BY <1>5 DEF Closed, U
<1>8. Leads(l) \subseteq {l} \cup S
  <2>. HIDE DEF S
  <2>. QED  BY <1>7, ClosureLeast DEF Leads
<1>. QED  BY <1>1, <1>2, <1>4, <1>6, <1>8 DEF U

Plain(l) ==
  /\ l \in DOMAIN macros_
  /\ \A i \in 1..Len(macros_[l]) : macros_[l][i].op \in {"ins", "use", "blank"}

LEMMA UsedLines ==
  ASSUME Bodies, NEW l \in DOMAIN macros_
  PROVE  /\ l \in File!Targets
         /\ \A i \in 1..Len(macros_[l]) :
              macros_[l][i].op = "use" => macros_[l][i].arg \in File!UsedBy(l)
         /\ \A u \in File!UsedBy(l) : \E i \in 1..Len(macros_[l]) :
              macros_[l][i].op = "use" /\ macros_[l][i].arg = u
         /\ (\A ln \in File!Range(File!BodyOf(l)) : ln.op \in {"ins", "use", "blank"})
              <=> Plain(l)
<1>1. l \in File!Targets
  BY DEF Bodies, File!Targets
<1>2. File!BodyOf(l) = macros_[l] /\ DOMAIN macros_[l] = 1..Len(macros_[l])
  BY <1>1, BodyShape
<1>3. File!Range(File!BodyOf(l)) = {macros_[l][i] : i \in 1..Len(macros_[l])}
  BY <1>2 DEF File!Range
<1>. QED  BY <1>1, <1>2, <1>3 DEF File!UsedBy, Plain

\* Expandable, as far as one step goes.
LEMMA ExpandableUnfolds ==
  ASSUME Bodies, NEW l \in File!Targets
  PROVE  File!Expandable(l) <=>
           Plain(l) /\ \A u \in File!UsedBy(l) : File!Expandable(u)
<1>. DEFINE Fine(m) == /\ m \in DOMAIN macros_
                       /\ m \notin File!Closure(File!UsedBy(m))
                       /\ \A ln \in File!Range(File!BodyOf(m)) :
                            ln.op \in {"ins", "use", "blank"}
<1>1. \A k : File!Expandable(k) <=> \A m \in Leads(k) : Fine(m)
  BY DEF File!Expandable, Leads, File!Defined
<1>. HIDE DEF Fine
<1>2. ASSUME File!Expandable(l)
      PROVE  Plain(l) /\ \A u \in File!UsedBy(l) : File!Expandable(u)
  <2>1. Plain(l)
    BY <1>1, <1>2, LeadsOn, UsedLines DEF Fine
  <2>2. ASSUME NEW u \in File!UsedBy(l)
        PROVE  File!Expandable(u)
    <3>1. Leads(u) \subseteq Leads(l)
      BY LeadsOn DEF Closed
    <3>. QED  BY <1>1, <1>2, <3>1
  <2>. QED  BY <2>1, <2>2
<1>3. ASSUME Plain(l), \A u \in File!UsedBy(l) : File!Expandable(u)
      PROVE  File!Expandable(l)
  <2>1. ASSUME NEW m \in Leads(l), NEW u \in File!UsedBy(l), m \in Leads(u)
        PROVE  Fine(m)
    BY <1>1, <1>3, <2>1
  <2>2. Fine(l)
    <3>1. ASSUME l \in File!Closure(File!UsedBy(l))
          PROVE  FALSE
      <4>1. PICK u \in File!UsedBy(l) : l \in Leads(u)
        BY <3>1, LeadsOn
      <4>2. Fine(l)
        BY <2>1, <4>1, LeadsOn
      <4>. QED  BY <3>1, <4>2 DEF Fine
    <3>2. l \in DOMAIN macros_
      BY <1>3 DEF Plain
    <3>. QED  BY <1>3, <3>1, <3>2, UsedLines DEF Fine
  <2>3. \A m \in Leads(l) : Fine(m)
    BY <2>1, <2>2, LeadsOn
  <2>. QED  BY <1>1, <2>3
<1>. QED  BY <1>2, <1>3

LEMMA ExpandableSmaller ==
  ASSUME Bodies, NEW l \in File!Targets, File!Expandable(l)
  PROVE  /\ Leads(l) \subseteq Labels
         /\ \A u \in File!UsedBy(l) : Leads(u) \subseteq Leads(l) /\ l \notin Leads(u)
<1>1. \A m \in Leads(l) : m \in DOMAIN macros_ /\ m \notin File!Closure(File!UsedBy(m))
  BY DEF File!Expandable, Leads, File!Defined
<1>2. ASSUME NEW u \in File!UsedBy(l)
      PROVE  Leads(u) \subseteq Leads(l) /\ l \notin Leads(u)
  <2>1. u \in Leads(l) /\ Leads(u) \subseteq File!Closure(File!UsedBy(l))
    BY LeadsOn DEF Closed
  <2>. QED  BY <1>1, <2>1, LeadsOn
<1>. QED  BY <1>1, <1>2 DEF Bodies

\* The lines of a macro have the same pieces under texts that agree on what it uses.
LEMMA SamePieces ==
  ASSUME Bodies, NEW l \in DOMAIN macros_, NEW s \in AllTexts, NEW t \in AllTexts,
         \A u \in File!UsedBy(l) : s[u] = t[u]
  PROVE  File!Pieces(l, s) = File!Pieces(l, t)
<1>1. l \in File!Targets /\ File!BodyOf(l) = macros_[l]
  BY UsedLines, BodyShape
<1>2. ASSUME NEW i \in 1..Len(macros_[l])
      PROVE  File!Piece(macros_[l][i], s) = File!Piece(macros_[l][i], t)
  <2>1. macros_[l][i].op = "use" => s[macros_[l][i].arg] = t[macros_[l][i].arg]
    BY UsedLines
  <2>. QED  BY <2>1 DEF File!Piece
<1>. QED  BY <1>1, <1>2 DEF File!Pieces

LEMMA TextsSettle ==
  ASSUME Bodies, NEW k \in Nat
  PROVE  \A l \in File!Targets, n \in 0..Deepest :
           File!Expandable(l) /\ Cardinality(Leads(l)) <= k /\ k <= n
             => File!Texts[n][l] = File!Texts[Deepest][l]
<1>. DEFINE Settled(j) ==
              \A l \in File!Targets, n \in 0..Deepest :
                File!Expandable(l) /\ Cardinality(Leads(l)) <= j /\ j <= n
                  => File!Texts[n][l] = File!Texts[Deepest][l]
            T == {j \in Nat : Settled(j)}
<1>1. Deepest \in Nat /\ IsFiniteSet(Labels)
  BY LabelsAssumption, FS_CardinalityType DEF Deepest
<1>2. ASSUME NEW l \in File!Targets, File!Expandable(l)
      PROVE  /\ IsFiniteSet(Leads(l)) /\ Cardinality(Leads(l)) \in Nat
             /\ Cardinality(Leads(l)) # 0
             /\ \A u \in File!UsedBy(l) : Cardinality(Leads(u)) < Cardinality(Leads(l))
  <2>1. IsFiniteSet(Leads(l)) /\ Leads(l) # {}
    BY <1>1, <1>2, ExpandableSmaller, FS_Subset, LeadsOn
  <2>2. Cardinality(Leads(l)) \in Nat /\ Cardinality(Leads(l)) # 0
    BY <2>1, FS_CardinalityType, FS_EmptySet
  <2>3. ASSUME NEW u \in File!UsedBy(l)
        PROVE  Cardinality(Leads(u)) < Cardinality(Leads(l))
    <3>1. Leads(u) \subseteq Leads(l) /\ Leads(u) # Leads(l)
      BY <1>2, ExpandableSmaller, LeadsOn
    <3>2. /\ IsFiniteSet(Leads(u)) /\ Cardinality(Leads(u)) <= Cardinality(Leads(l))
          /\ Cardinality(Leads(u)) # Cardinality(Leads(l))
      BY <2>1, <3>1, FS_Subset
    <3>3. Cardinality(Leads(u)) \in Nat
      BY <3>2, FS_CardinalityType
    <3>. QED  BY <2>2, <3>2, <3>3
  <2>. QED  BY <2>1, <2>2, <2>3
<1>3. 0 \in T
  <2>1. Settled(0)
    BY <1>2
  <2>. QED  BY <2>1
<1>4. ASSUME NEW j \in Nat, j \in T
      PROVE  j + 1 \in T
  <2>1. Settled(j)
    BY <1>4
  <2>. SUFFICES ASSUME NEW l \in File!Targets, NEW n \in 0..Deepest, File!Expandable(l),
                       Cardinality(Leads(l)) <= j + 1, j + 1 <= n
                PROVE  File!Texts[n][l] = File!Texts[Deepest][l]
    OBVIOUS
  <2>2. n \in 1..Deepest /\ Deepest \in 1..Deepest /\ n - 1 \in 0..Deepest /\ Deepest - 1 \in 0..Deepest /\ j <= n - 1 /\ j <= Deepest - 1
    BY <1>1
  <2>3. ASSUME NEW u \in File!UsedBy(l)
        PROVE  File!Texts[n - 1][u] = File!Texts[Deepest - 1][u]
    <3>1. u \in File!Targets /\ File!Expandable(u)
      BY ExpandableUnfolds, LeadsOn
    <3>2. Cardinality(Leads(u)) <= j
      BY <1>2, <3>1
    <3>3. /\ File!Texts[n - 1][u] = File!Texts[Deepest][u]
          /\ File!Texts[Deepest - 1][u] = File!Texts[Deepest][u]
      <4>. HIDE DEF T
      <4>. QED  BY <2>1, <2>2, <3>1, <3>2
    <3>. QED  BY <3>3
  <2>4. l \in DOMAIN macros_
    BY ExpandableUnfolds DEF Plain
  <2>5. File!Texts[n - 1] \in AllTexts /\ File!Texts[Deepest - 1] \in AllTexts
    BY <2>2, TextsDefined
  <2>6. File!Pieces(l, File!Texts[n - 1]) = File!Pieces(l, File!Texts[Deepest - 1])
    BY <2>3, <2>4, <2>5, SamePieces
  <2>7. /\ File!Texts[n][l] = File!FlattenSeq(File!Pieces(l, File!Texts[n - 1]))
        /\ File!Texts[Deepest][l] = File!FlattenSeq(File!Pieces(l, File!Texts[Deepest - 1]))
    BY <2>2, TextsDefined
  <2>. QED  BY <2>6, <2>7
<1>5. k \in T
  <2>. HIDE DEF T
  <2>. QED  BY <1>3, <1>4, Inductive
<1>. QED  BY <1>5

\* What the lines of a macro write, one by one.
PiecesOf(l) == File!Pieces(l, File!Texts[Deepest])

\* The text of an expandable macro is what its lines write, with the texts of the
\* macros it uses: no nesting is too deep for Texts.
LEMMA TextUnfolds ==
  ASSUME Bodies, NEW l \in File!Targets, File!Expandable(l)
  PROVE  File!Text(l) = File!FlattenSeq(PiecesOf(l))
<1>1. Deepest \in Nat /\ IsFiniteSet(Labels)
  BY LabelsAssumption, FS_CardinalityType DEF Deepest
<1>2. /\ IsFiniteSet(Leads(l)) /\ Cardinality(Leads(l)) <= Deepest
      /\ Cardinality(Leads(l)) \in Nat /\ Cardinality(Leads(l)) # 0
  <2>1. Leads(l) # {} /\ IsFiniteSet(Leads(l)) /\ Cardinality(Leads(l)) <= Deepest
    BY <1>1, ExpandableSmaller, FS_Subset, LeadsOn DEF Deepest
  <2>. QED  BY <2>1, FS_CardinalityType, FS_EmptySet
<1>3. Deepest \in 1..Deepest /\ Deepest - 1 \in 0..Deepest /\ Deepest \in 0..Deepest
  BY <1>1, <1>2
<1>4. File!Texts[Deepest - 1] \in AllTexts /\ File!Texts[Deepest] \in AllTexts
  BY <1>3, TextsDefined
<1>5. ASSUME NEW u \in File!UsedBy(l)
      PROVE  File!Texts[Deepest - 1][u] = File!Texts[Deepest][u]
  <2>1. u \in File!Targets /\ File!Expandable(u)
    BY ExpandableUnfolds, LeadsOn
  <2>2. Leads(u) \subseteq Leads(l) /\ Leads(u) # Leads(l)
    BY ExpandableSmaller, LeadsOn
  <2>3. /\ IsFiniteSet(Leads(u)) /\ Cardinality(Leads(u)) <= Cardinality(Leads(l))
        /\ Cardinality(Leads(u)) # Cardinality(Leads(l))
    BY <1>2, <2>2, FS_Subset
  <2>4. Cardinality(Leads(u)) \in Nat
    BY <2>3, FS_CardinalityType
  <2>5. Cardinality(Leads(u)) <= Deepest - 1 /\ Deepest - 1 \in Nat
    BY <1>1, <1>2, <2>3, <2>4
  <2>. QED  BY <1>3, <2>1, <2>5, TextsSettle
<1>6. l \in DOMAIN macros_
  BY ExpandableUnfolds DEF Plain
<1>7. File!Pieces(l, File!Texts[Deepest - 1]) = PiecesOf(l)
  BY <1>4, <1>5, <1>6, SamePieces DEF PiecesOf
<1>8. File!Texts[Deepest][l] = File!FlattenSeq(File!Pieces(l, File!Texts[Deepest - 1]))
  BY <1>3, TextsDefined
<1>. QED  BY <1>7, <1>8, SameCardinality DEF File!Text, Deepest

-----------------------------------------------------------------------------
(* A step that leaves the definitions alone leaves what they mean alone.   *)

LEMMA TextsDefinedNext ==
  Bodies' => /\ (File!Texts \in [0..Deepest -> AllTexts])'
             /\ (\A l \in File!Targets : File!Texts[0][l] = <<>>)'
             /\ (\A n \in 1..Deepest, l \in File!Targets :
                   File!Texts[n][l] = File!FlattenSeq(File!Pieces(l, File!Texts[n - 1])))'
<1>1. Bodies => /\ File!Texts \in [0..Deepest -> AllTexts]
                /\ \A l \in File!Targets : File!Texts[0][l] = <<>>
                /\ \A n \in 1..Deepest, l \in File!Targets :
                   File!Texts[n][l] = File!FlattenSeq(File!Pieces(l, File!Texts[n - 1]))
  BY TextsDefined
<1>. QED  BY <1>1, PTL

LEMMA SameMeaning ==
  ASSUME Bodies, macros_' = macros_
  PROVE  /\ \A l : File!Expandable(l)' <=> File!Expandable(l)
         /\ \A l \in File!Targets : PiecesOf(l)' = PiecesOf(l)
<1>1. \A l : File!BodyOf(l)' = File!BodyOf(l)
  BY DEF File!BodyOf, File!Defined
<1>2. \A l : File!UsedBy(l)' = File!UsedBy(l)
  BY <1>1 DEF File!UsedBy
<1>3. \A L : File!Closure(L)' = File!Closure(L)
  BY <1>2 DEF File!Closure
<1>4. \A l : File!Expandable(l)' <=> File!Expandable(l)
  BY <1>1, <1>2, <1>3 DEF File!Expandable, File!Defined
<1>5. \A l, t : File!Pieces(l, t)' = File!Pieces(l, t)
  BY <1>1 DEF File!Pieces
<1>6. Deepest \in Nat
  BY LabelsAssumption, FS_CardinalityType DEF Deepest
<1>. DEFINE now   == File!Texts
            later == File!Texts'
<1>7. Bodies'
  BY DEF Bodies
<1>8. /\ now \in [0..Deepest -> AllTexts] /\ later \in [0..Deepest -> AllTexts]
      /\ \A l \in File!Targets : now[0][l] = <<>> /\ later[0][l] = <<>>
      /\ \A n \in 1..Deepest, l \in File!Targets :
           /\ now[n][l] = File!FlattenSeq(File!Pieces(l, now[n - 1]))
           /\ later[n][l] = File!FlattenSeq(File!Pieces(l, later[n - 1]))
  BY <1>5, <1>7, TextsDefined, TextsDefinedNext
<1>. HIDE DEF now, later
<1>. DEFINE T == {n \in Nat : n \in 0..Deepest => now[n] = later[n]}
<1>9. 0 \in T
  <2>1. now[0] \in AllTexts /\ later[0] \in AllTexts
    BY <1>6, <1>8
  <2>. QED  BY <1>8, <2>1 DEF AllTexts
<1>10. ASSUME NEW n \in Nat, n \in T
       PROVE  n + 1 \in T
  <2>1. CASE n + 1 \in 0..Deepest
    <3>1. n + 1 \in 1..Deepest /\ n \in 0..Deepest /\ (n + 1) - 1 = n
      BY <1>6, <2>1
    <3>2. now[n] = later[n]
      BY <1>10, <3>1
    <3>3. \A l \in File!Targets : now[n + 1][l] = later[n + 1][l]
      BY <1>8, <3>1, <3>2
    <3>4. now[n + 1] \in AllTexts /\ later[n + 1] \in AllTexts
      BY <1>8, <2>1
    <3>5. now[n + 1] = later[n + 1]
      BY <3>3, <3>4 DEF AllTexts
    <3>. QED  BY <3>5
  <2>2. CASE n + 1 \notin 0..Deepest
    BY <2>2
  <2>. HIDE DEF T
  <2>. QED  BY <2>1, <2>2
<1>11. now[Deepest] = later[Deepest]
  <2>1. Deepest \in T
    <3>. HIDE DEF T
    <3>. QED  BY <1>6, <1>9, <1>10, Inductive
  <2>. QED  BY <1>6, <2>1
<1>. QED  BY <1>4, <1>5, <1>11 DEF PiecesOf, now, later

-----------------------------------------------------------------------------
(* The invariant of the refinement: how far the use of a macro has come.   *)

\* The macros whose use is not refused, and the pieces of their texts.
Good == {l \in File!Targets : File!Expandable(l)}

AllPieces == [l \in File!Targets |-> PiecesOf(l)]

\* A line of a body that expansion gets over.
Passes(good, ln) ==
  ln.op \in {"ins", "use", "blank"} /\ (ln.op = "use" => ln.arg \in good)

\* A call of expand waits for the next one at the line that uses its macro, and
\* has got over the lines before.
Waiting(good, ln, calls) ==
  calls # <<>> =>
    /\ ln.op = "use" /\ ln.arg = calls[1].label
    /\ \A i \in 1..Len(calls) :
         /\ calls[i].at <= Len(calls[i].body) + 1
         /\ \A j \in 1..(calls[i].at - 1) : Passes(good, calls[i].body[j])
         /\ i # Len(calls) => /\ calls[i].at <= Len(calls[i].body)
                              /\ calls[i].body[calls[i].at].op = "use"
                              /\ calls[i].body[calls[i].at].arg = calls[i + 1].label

\* What the first n lines of macro l write.
FedText(pieces, l, n) == File!FlattenSeq(SubSeq(pieces[l], 1, n))

\* What has been written since the file's line was read is what the calls of
\* expand have fed, the outermost first: marks is where each of them begins.
Begins(marks, pieces, start, calls, out) ==
  /\ marks \in [1..(Len(calls) + 1) -> 0..Len(out)]
  /\ marks[1] = start /\ marks[Len(calls) + 1] = Len(out)
  /\ \A i \in 1..Len(calls) :
       /\ marks[i] <= marks[i + 1]
       /\ SubSeq(out, marks[i] + 1, marks[i + 1])
            = FedText(pieces, calls[i].label, calls[i].at - 1)

Midway ==
  /\ status = "reading" => stack = <<>>
  /\ status = "busy" => /\ Waiting(Good, line, stack)
                        /\ \E marks : Begins(marks, AllPieces, base, stack, written)

-----------------------------------------------------------------------------
(* Waiting and Begins, as calls of expand begin, go on and return.         *)

LEMMA AdvancedTop ==
  ASSUME NEW s \in Seq(Frames), s # <<>>
  PROVE  /\ Advanced(s) \in Seq(Frames) /\ Len(Advanced(s)) = Len(s) /\ Len(s) \in 1..Len(s)
         /\ \A i \in 1..(Len(s) - 1) : Advanced(s)[i] = s[i]
         /\ Advanced(s)[Len(s)].label = s[Len(s)].label
         /\ Advanced(s)[Len(s)].body = s[Len(s)].body
         /\ Advanced(s)[Len(s)].at = s[Len(s)].at + 1
<1>1. s[Len(s)] \in Frames /\ Len(s) \in 1..Len(s)
  OBVIOUS
<1>2. Advanced(s) = [s EXCEPT ![Len(s)] = [s[Len(s)] EXCEPT !.at = @ + 1]]
  BY DEF Advanced
<1>3. [s[Len(s)] EXCEPT !.at = @ + 1].at = s[Len(s)].at + 1
  BY <1>1 DEF Frames
<1>4. Advanced(s)[Len(s)] = [s[Len(s)] EXCEPT !.at = @ + 1]
  BY <1>1, <1>2
<1>5. \A i \in 1..(Len(s) - 1) : Advanced(s)[i] = s[i]
  BY <1>1, <1>2
<1>. QED  BY <1>1, <1>3, <1>4, <1>5, AdvancedFrames

LEMMA WaitingPush ==
  ASSUME NEW good, NEW ln, NEW s \in Seq(Frames), Waiting(good, ln, s),
         NEW fr \in Frames, fr.at = 1,
         IF s = <<>> THEN ln.op = "use" /\ ln.arg = fr.label
         ELSE /\ s[Len(s)].at <= Len(s[Len(s)].body)
              /\ s[Len(s)].body[s[Len(s)].at].op = "use"
              /\ s[Len(s)].body[s[Len(s)].at].arg = fr.label
  PROVE  Waiting(good, ln, Append(s, fr))
<1> DEFINE t == Append(s, fr)
<1>1. /\ t \in Seq(Frames) /\ Len(t) = Len(s) + 1 /\ t # <<>>
      /\ \A i \in 1..Len(s) : t[i] = s[i]
      /\ t[Len(s) + 1] = fr /\ Len(s) \in Nat
  BY AppendProperties
<1>2. Len(fr.body) \in Nat
  BY DEF Frames
<1>. HIDE DEF t
<1>3. ln.op = "use" /\ ln.arg = t[1].label
  <2>1. CASE s = <<>>
    BY <1>1, <2>1
  <2>2. CASE s # <<>>
    <3>1. 1 \in 1..Len(s)
      BY <1>1, <2>2
    <3>. QED  BY <1>1, <2>2, <3>1 DEF Waiting
  <2>. QED  BY <2>1, <2>2
<1>4. ASSUME NEW i \in 1..Len(t)
      PROVE  /\ t[i].at <= Len(t[i].body) + 1
             /\ \A j \in 1..(t[i].at - 1) : Passes(good, t[i].body[j])
             /\ i # Len(t) => /\ t[i].at <= Len(t[i].body)
                              /\ t[i].body[t[i].at].op = "use"
                              /\ t[i].body[t[i].at].arg = t[i + 1].label
  <2>1. CASE i = Len(s) + 1
    BY <1>1, <1>2, <2>1
  <2>2. CASE i = Len(s)
    <3>1. s # <<>> /\ i \in 1..Len(s) /\ i + 1 = Len(s) + 1
      BY <1>1, <2>2
    <3>2. t[i] = s[i] /\ t[i + 1] = fr
      BY <1>1, <3>1
    <3>3. \A j \in 1..(s[i].at - 1) : Passes(good, s[i].body[j])
      BY <3>1 DEF Waiting
    <3>4. s[i].at <= Len(s[i].body) + 1
      BY <3>1 DEF Waiting
    <3>. QED  BY <2>2, <3>1, <3>2, <3>3, <3>4
  <2>3. CASE i \in 1..(Len(s) - 1)
    <3>1. s # <<>> /\ i \in 1..Len(s) /\ i # Len(s) /\ i + 1 \in 1..Len(s)
      BY <1>1, <2>3
    <3>2. t[i] = s[i] /\ t[i + 1] = s[i + 1]
      BY <1>1, <3>1
    <3>. QED  BY <3>1, <3>2 DEF Waiting
  <2>. QED  BY <1>1, <2>1, <2>2, <2>3
<1>. QED  BY <1>3, <1>4 DEF Waiting, t

LEMMA WaitingAdvance ==
  ASSUME NEW good, NEW ln, NEW s \in Seq(Frames), s # <<>>, Waiting(good, ln, s),
         s[Len(s)].at <= Len(s[Len(s)].body),
         Passes(good, s[Len(s)].body[s[Len(s)].at])
  PROVE  Waiting(good, ln, Advanced(s))
<1> DEFINE t == Advanced(s)
<1>1. /\ t \in Seq(Frames) /\ Len(t) = Len(s) /\ Len(s) \in 1..Len(s)
      /\ \A i \in 1..(Len(s) - 1) : t[i] = s[i]
      /\ t[Len(s)].label = s[Len(s)].label
      /\ t[Len(s)].body = s[Len(s)].body
      /\ t[Len(s)].at = s[Len(s)].at + 1
  BY AdvancedTop
<1>2. s[Len(s)].at \in Nat \ {0} /\ Len(s[Len(s)].body) \in Nat
  <2>1. s[Len(s)] \in Frames
    BY <1>1
  <2>. QED  BY <2>1 DEF Frames
<1>. HIDE DEF t
<1>3. ASSUME NEW i \in 1..Len(s)
      PROVE  t[i].label = s[i].label
  <2>1. CASE i = Len(s)
    BY <1>1, <2>1
  <2>2. CASE i # Len(s)
    <3>1. i \in 1..(Len(s) - 1)
      BY <1>1, <2>2
    <3>. QED  BY <1>1, <3>1
  <2>. QED  BY <2>1, <2>2
<1>4. ln.op = "use" /\ ln.arg = t[1].label
  BY <1>1, <1>3 DEF Waiting
<1>5. ASSUME NEW i \in 1..Len(t)
      PROVE  /\ t[i].at <= Len(t[i].body) + 1
             /\ \A j \in 1..(t[i].at - 1) : Passes(good, t[i].body[j])
             /\ i # Len(t) => /\ t[i].at <= Len(t[i].body)
                              /\ t[i].body[t[i].at].op = "use"
                              /\ t[i].body[t[i].at].arg = t[i + 1].label
  <2>1. CASE i = Len(s)
    <3>1. ASSUME NEW j \in 1..s[i].at
          PROVE  Passes(good, s[i].body[j])
      <4>1. CASE j = s[i].at
        BY <2>1, <4>1
      <4>2. CASE j # s[i].at
        <5>1. j \in 1..(s[i].at - 1)
          BY <1>2, <2>1, <4>2
        <5>. QED  BY <1>1, <2>1, <5>1 DEF Waiting
      <4>. QED  BY <4>1, <4>2
    <3>2. t[i].at - 1 = s[i].at
      BY <1>1, <1>2, <2>1
    <3>. QED  BY <1>1, <1>2, <2>1, <3>1, <3>2
  <2>2. CASE i \in 1..(Len(s) - 1)
    <3>1. i \in 1..Len(s) /\ i # Len(s) /\ i + 1 \in 1..Len(s)
      BY <1>1, <2>2
    <3>2. t[i] = s[i] /\ t[i + 1].label = s[i + 1].label
      BY <1>1, <1>3, <2>2, <3>1
    <3>. QED  BY <3>1, <3>2 DEF Waiting
  <2>. QED  BY <1>1, <2>1, <2>2
<1>. QED  BY <1>4, <1>5 DEF Waiting, t

LEMMA WaitingPop ==
  ASSUME NEW good, NEW ln, NEW s \in Seq(Frames), s # <<>>, Waiting(good, ln, s),
         s[Len(s)].label \in good,
         NEW rest, rest = SubSeq(s, 1, Len(s) - 1), rest # <<>>
  PROVE  /\ Waiting(good, ln, rest)
         /\ rest[Len(rest)].at <= Len(rest[Len(rest)].body)
         /\ rest[Len(rest)].body[rest[Len(rest)].at].op = "use"
         /\ rest[Len(rest)].body[rest[Len(rest)].at].arg = s[Len(s)].label
         /\ Passes(good, rest[Len(rest)].body[rest[Len(rest)].at])
<1>1. /\ rest \in Seq(Frames) /\ Len(rest) = Len(s) - 1 /\ Len(rest) \in 1..Len(s)
      /\ \A i \in 1..Len(rest) : rest[i] = s[i]
  BY WithoutLast
<1>2. /\ 1 \in 1..Len(rest) /\ Len(rest) \in 1..Len(rest) /\ Len(rest) # Len(s)
      /\ Len(rest) + 1 = Len(s)
  BY <1>1
<1>3. ASSUME NEW i \in 1..Len(rest)
      PROVE  /\ rest[i].at <= Len(rest[i].body) + 1
             /\ \A j \in 1..(rest[i].at - 1) : Passes(good, rest[i].body[j])
             /\ i # Len(rest) => /\ rest[i].at <= Len(rest[i].body)
                                 /\ rest[i].body[rest[i].at].op = "use"
                                 /\ rest[i].body[rest[i].at].arg = rest[i + 1].label
  <2>1. i \in 1..Len(s) /\ i # Len(s) /\ rest[i] = s[i]
    BY <1>1
  <2>2. i # Len(rest) => rest[i + 1] = s[i + 1]
    BY <1>1
  <2>. QED  BY <2>1, <2>2 DEF Waiting
<1>4. ln.op = "use" /\ ln.arg = rest[1].label
  BY <1>1, <1>2 DEF Waiting
<1>5. /\ s[Len(rest)].at <= Len(s[Len(rest)].body)
      /\ s[Len(rest)].body[s[Len(rest)].at].op = "use"
      /\ s[Len(rest)].body[s[Len(rest)].at].arg = s[Len(s)].label
  BY <1>1, <1>2 DEF Waiting
<1>6. rest[Len(rest)] = s[Len(rest)]
  BY <1>1, <1>2
<1>7. Waiting(good, ln, rest)
  BY <1>3, <1>4 DEF Waiting
<1>8. Passes(good, rest[Len(rest)].body[rest[Len(rest)].at])
  BY <1>5, <1>6 DEF Passes
<1>. QED  BY <1>5, <1>6, <1>7, <1>8

\* The text of the first n lines goes on from line to line, from nothing to all of it.
LEMMA FlattenNext ==
  ASSUME NEW X, NEW s \in Seq(Seq(X)), NEW n \in 1..Len(s)
  PROVE  File!FlattenSeq(SubSeq(s, 1, n)) = File!FlattenSeq(SubSeq(s, 1, n - 1)) \o s[n]
<1>1. PICK g : /\ Flattening(g, s, X)
               /\ \A k \in 0..Len(s) : File!FlattenSeq(SubSeq(s, 1, k)) = g[k]
  BY FlattenPrefixes
<1>2. n \in 0..Len(s) /\ n - 1 \in 0..Len(s)
  OBVIOUS
<1>3. g[n] = g[n - 1] \o s[n]
  BY <1>1 DEF Flattening
<1>. QED  BY <1>1, <1>2, <1>3

LEMMA FlattenNone ==
  ASSUME NEW X, NEW s \in Seq(Seq(X))
  PROVE  File!FlattenSeq(SubSeq(s, 1, 0)) = <<>>
<1>1. PICK g : /\ Flattening(g, s, X)
               /\ \A k \in 0..Len(s) : File!FlattenSeq(SubSeq(s, 1, k)) = g[k]
  BY FlattenPrefixes
<1>2. 0 \in 0..Len(s)
  OBVIOUS
<1>. QED  BY <1>1, <1>2 DEF Flattening

LEMMA FedTextNone ==
  ASSUME NEW pieces, NEW l, pieces[l] \in Seq(Seq(Instructions))
  PROVE  FedText(pieces, l, 0) = <<>>
BY FlattenNone DEF FedText

LEMMA FedTextAll ==
  ASSUME NEW pieces, NEW l, pieces[l] \in Seq(Seq(Instructions))
  PROVE  FedText(pieces, l, Len(pieces[l])) = File!FlattenSeq(pieces[l])
<1>1. SubSeq(pieces[l], 1, Len(pieces[l])) = pieces[l]
  BY SubSeqFull
<1>. QED  BY <1>1 DEF FedText

LEMMA FedTextNext ==
  ASSUME NEW pieces, NEW l, pieces[l] \in Seq(Seq(Instructions)), NEW n \in 1..Len(pieces[l])
  PROVE  FedText(pieces, l, n) = FedText(pieces, l, n - 1) \o pieces[l][n]
BY FlattenNext DEF FedText

\* The part of a sequence between two marks.
LEMMA SliceJoin ==
  ASSUME NEW X, NEW w \in Seq(X),
         NEW a \in 0..Len(w), NEW b \in 0..Len(w), NEW c \in 0..Len(w), a <= b, b <= c
  PROVE  SubSeq(w, a + 1, b) \o SubSeq(w, b + 1, c) = SubSeq(w, a + 1, c)
<1>1. a + 1 \in 1..(Len(w) + 1) /\ b \in ((a + 1) - 1)..Len(w) /\ c \in b..Len(w)
  OBVIOUS
<1>. QED  BY <1>1, ConcatAdjacentSubSeq

LEMMA SliceKept ==
  ASSUME NEW X, NEW w \in Seq(X), NEW t \in Seq(X),
         NEW a \in 0..Len(w), NEW b \in 0..Len(w), a <= b
  PROVE  SubSeq(w \o t, a + 1, b) = SubSeq(w, a + 1, b)
<1>1. CASE a = b
  <2>1. b < a + 1 /\ a + 1 \in Int /\ b \in Int
    BY <1>1
  <2>. QED  BY <2>1, SubSeqEmpty
<1>2. CASE a # b
  <2>1. a + 1 \in 1..Len(w) /\ b \in 1..Len(w)
    BY <1>2
  <2>. QED  BY <2>1, SubSeqOfConcat1
<1>. QED  BY <1>1, <1>2

LEMMA SliceGrows ==
  ASSUME NEW X, NEW w \in Seq(X), NEW t \in Seq(X), NEW a \in 0..Len(w)
  PROVE  SubSeq(w \o t, a + 1, Len(w \o t)) = SubSeq(w, a + 1, Len(w)) \o t
<1>1. /\ Len(w) \in Nat /\ Len(t) \in Nat /\ w \o t \in Seq(X)
      /\ Len(w \o t) = Len(w) + Len(t)
  BY ConcatProperties
<1>2. SubSeq(w \o t, a + 1, Len(w)) = SubSeq(w, a + 1, Len(w))
  <2>1. Len(w) \in 0..Len(w) /\ a <= Len(w)
    BY <1>1
  <2>. QED  BY <2>1, SliceKept
<1>3. SubSeq(w \o t, Len(w) + 1, Len(w) + Len(t)) = t
  <2>1. CASE t = <<>>
    BY <1>1, <2>1, SubSeqEmpty
  <2>2. CASE t # <<>>
    <3>1. /\ Len(w) + 1 \in (Len(w) + 1)..(Len(w) + Len(t))
          /\ Len(w) + Len(t) \in (Len(w) + 1)..(Len(w) + Len(t))
          /\ (Len(w) + 1) - Len(w) = 1 /\ (Len(w) + Len(t)) - Len(w) = Len(t)
      BY <1>1, <2>2
    <3>2. SubSeq(w \o t, Len(w) + 1, Len(w) + Len(t))
            = SubSeq(t, (Len(w) + 1) - Len(w), (Len(w) + Len(t)) - Len(w))
      BY <3>1, SubSeqOfConcat2
    <3>. QED  BY <3>1, <3>2, SubSeqFull
  <2>. QED  BY <2>1, <2>2
<1>4. /\ a \in 0..Len(w \o t) /\ Len(w) \in 0..Len(w \o t)
      /\ Len(w \o t) \in 0..Len(w \o t) /\ a <= Len(w) /\ Len(w) <= Len(w \o t)
  BY <1>1
<1>5. SubSeq(w \o t, a + 1, Len(w)) \o SubSeq(w \o t, Len(w) + 1, Len(w \o t))
        = SubSeq(w \o t, a + 1, Len(w \o t))
  BY <1>1, <1>4, SliceJoin
<1>. QED  BY <1>1, <1>2, <1>3, <1>5

\* What Begins says of one of the calls.
LEMMA MarkAt ==
  ASSUME NEW out, NEW s \in Seq(Frames),
         NEW marks, NEW pieces, NEW start, Begins(marks, pieces, start, s, out),
         NEW i \in 1..Len(s)
  PROVE  /\ i + 1 \in 1..(Len(s) + 1)
         /\ marks[i] \in 0..Len(out) /\ marks[i + 1] \in 0..Len(out) /\ marks[i] <= marks[i + 1]
         /\ SubSeq(out, marks[i] + 1, marks[i + 1]) = FedText(pieces, s[i].label, s[i].at - 1)
         /\ (s[i].at + 1) - 1 = s[i].at
<1>1. i \in 1..(Len(s) + 1) /\ i + 1 \in 1..(Len(s) + 1) /\ s[i] \in Frames
  OBVIOUS
<1>2. s[i].at \in Nat
  BY <1>1 DEF Frames
<1>3. (s[i].at + 1) - 1 = s[i].at
  BY <1>2
<1>4. marks[i] \in 0..Len(out) /\ marks[i + 1] \in 0..Len(out)
  BY <1>1 DEF Begins
<1>. QED  BY <1>1, <1>3, <1>4 DEF Begins

\* The same marks for the first n calls, and a last one.
LEMMA Remarked ==
  ASSUME NEW n \in Nat, NEW y \in Nat, NEW marks, NEW x \in 0..y,
         \A i \in 1..n : marks[i] \in 0..y,
         NEW m, m = [i \in 1..(n + 1) |-> IF i = n + 1 THEN x ELSE marks[i]]
  PROVE  /\ m \in [1..(n + 1) -> 0..y] /\ m[n + 1] = x
         /\ \A i \in 1..n : m[i] = marks[i]
<1>1. \A i \in 1..(n + 1) : (IF i = n + 1 THEN x ELSE marks[i]) \in 0..y
  <2>1. \A i \in 1..(n + 1) : i # n + 1 => i \in 1..n
    OBVIOUS
  <2>. QED  BY <2>1
<1>2. n + 1 \in 1..(n + 1) /\ \A i \in 1..n : i \in 1..(n + 1) /\ i # n + 1
  OBVIOUS
<1>. QED  BY <1>1, <1>2

LEMMA BeginsPush ==
  ASSUME NEW X, NEW out \in Seq(X), NEW s \in Seq(Frames), NEW fr \in Frames,
         NEW marks, NEW pieces, NEW start, Begins(marks, pieces, start, s, out),
         fr.at = 1, FedText(pieces, fr.label, 0) = <<>>
  PROVE  \E m : Begins(m, pieces, start, Append(s, fr), out)
<1> DEFINE t == Append(s, fr)
           n == Len(s) + 1
           m == [i \in 1..(n + 1) |-> IF i = n + 1 THEN Len(out) ELSE marks[i]]
<1>1. /\ t \in Seq(Frames) /\ Len(t) = n
      /\ \A i \in 1..Len(s) : t[i] = s[i]
      /\ t[n] = fr /\ n \in Nat /\ Len(s) \in Nat /\ Len(out) \in 0..Len(out)
      /\ Len(out) \in Nat
  BY AppendProperties
<1>. HIDE DEF t
<1>2. \A i \in 1..n : marks[i] \in 0..Len(out)
  BY DEF Begins
<1>3. /\ m \in [1..(n + 1) -> 0..Len(out)] /\ m[n + 1] = Len(out)
      /\ \A i \in 1..n : m[i] = marks[i]
  <2>. HIDE DEF n
  <2>. QED  BY <1>1, <1>2, Remarked
<1>4. 1 \in 1..n /\ n \in 1..n /\ \A i \in 1..Len(s) : i \in 1..n /\ i + 1 \in 1..n
  BY <1>1
<1>. HIDE DEF m
<1>5. m[1] = start
  <2>1. marks[1] = start
    BY DEF Begins
  <2>. QED  BY <1>3, <1>4, <2>1
<1>6. ASSUME NEW i \in 1..n
      PROVE  /\ m[i] <= m[i + 1]
             /\ SubSeq(out, m[i] + 1, m[i + 1]) = FedText(pieces, t[i].label, t[i].at - 1)
  <2>1. CASE i = n
    <3>1. m[i] = Len(out) /\ m[i + 1] = Len(out)
      <4>1. marks[Len(s) + 1] = Len(out)
        BY DEF Begins
      <4>. QED  BY <1>3, <1>4, <2>1, <4>1
    <3>2. SubSeq(out, Len(out) + 1, Len(out)) = <<>> /\ Len(out) <= Len(out)
      BY <1>1, SubSeqEmpty
    <3>3. t[i].label = fr.label /\ t[i].at - 1 = 0
      BY <1>1, <2>1
    <3>. QED  BY <3>1, <3>2, <3>3
  <2>2. CASE i # n
    <3>1. i \in 1..Len(s)
      BY <1>1, <2>2
    <3>2. t[i] = s[i] /\ m[i] = marks[i] /\ m[i + 1] = marks[i + 1]
      BY <1>1, <1>3, <1>4, <3>1
    <3>3. /\ marks[i] <= marks[i + 1]
          /\ SubSeq(out, marks[i] + 1, marks[i + 1]) = FedText(pieces, s[i].label, s[i].at - 1)
      BY <3>1, MarkAt
    <3>. QED  BY <3>2, <3>3
  <2>. QED  BY <2>1, <2>2
<1>7. Begins(m, pieces, start, t, out)
  BY <1>1, <1>3, <1>5, <1>6 DEF Begins
<1>. QED  BY <1>7 DEF t

LEMMA BeginsWrite ==
  ASSUME NEW X, NEW out \in Seq(X), NEW text \in Seq(X), NEW s \in Seq(Frames), s # <<>>,
         NEW marks, NEW pieces, NEW start, Begins(marks, pieces, start, s, out),
         FedText(pieces, s[Len(s)].label, s[Len(s)].at)
           = FedText(pieces, s[Len(s)].label, s[Len(s)].at - 1) \o text
  PROVE  \E m : Begins(m, pieces, start, Advanced(s), out \o text)
<1> DEFINE t == Advanced(s)
           w == out \o text
           n == Len(s)
           m == [i \in 1..(n + 1) |-> IF i = n + 1 THEN Len(w) ELSE marks[i]]
<1>1. /\ t \in Seq(Frames) /\ Len(t) = n /\ n \in 1..n
      /\ \A i \in 1..(n - 1) : t[i] = s[i]
      /\ t[n].label = s[n].label
      /\ t[n].at = s[n].at + 1
  BY AdvancedTop
<1>2. /\ n \in Nat \ {0} /\ Len(out) \in Nat /\ Len(text) \in Nat
      /\ Len(w) = Len(out) + Len(text) /\ w \in Seq(X)
  BY <1>1, ConcatProperties
<1>. HIDE DEF t, w
<1>3. /\ Len(w) \in Nat /\ Len(w) \in 0..Len(w) /\ Len(out) <= Len(w)
      /\ Len(out) \in 0..Len(out)
  BY <1>2
<1>4. \A i \in 1..n : marks[i] \in 0..Len(out) /\ marks[i] \in 0..Len(w)
  <2>1. ASSUME NEW i \in 1..n
        PROVE  marks[i] \in 0..Len(out)
    <3>1. i \in 1..(Len(s) + 1)
      BY <1>2
    <3>. QED  BY <3>1 DEF Begins
  <2>. QED  BY <1>2, <1>3, <2>1
<1>5. /\ m \in [1..(n + 1) -> 0..Len(w)] /\ m[n + 1] = Len(w)
      /\ \A i \in 1..n : m[i] = marks[i]
  <2>. HIDE DEF n
  <2>. QED  BY <1>2, <1>3, <1>4, Remarked
<1>. HIDE DEF m
<1>6. m[1] = start
  <2>1. 1 \in 1..n
    BY <1>2
  <2>. QED  BY <1>5, <2>1 DEF Begins
<1>7. ASSUME NEW i \in 1..n
      PROVE  /\ m[i] <= m[i + 1]
             /\ SubSeq(w, m[i] + 1, m[i + 1]) = FedText(pieces, t[i].label, t[i].at - 1)
  <2>1. /\ m[i] = marks[i] /\ i + 1 \in 1..(n + 1)
        /\ marks[i] \in 0..Len(out) /\ marks[i + 1] \in 0..Len(out) /\ marks[i] <= marks[i + 1]
        /\ SubSeq(out, marks[i] + 1, marks[i + 1]) = FedText(pieces, s[i].label, s[i].at - 1)
        /\ (s[i].at + 1) - 1 = s[i].at
    <3>1. m[i] = marks[i] /\ i \in 1..Len(s) /\ i + 1 \in 1..(n + 1)
      BY <1>2, <1>5
    <3>2. /\ marks[i] \in 0..Len(out) /\ marks[i + 1] \in 0..Len(out)
          /\ marks[i] <= marks[i + 1]
          /\ SubSeq(out, marks[i] + 1, marks[i + 1])
               = FedText(pieces, s[i].label, s[i].at - 1)
          /\ (s[i].at + 1) - 1 = s[i].at
      BY <3>1, MarkAt
    <3>. QED  BY <3>1, <3>2
  <2>2. CASE i = n
    <3>1. m[i + 1] = Len(w) /\ marks[i + 1] = Len(out)
      BY <1>5, <2>2 DEF Begins
    <3>2. SubSeq(w, marks[i] + 1, Len(w)) = SubSeq(out, marks[i] + 1, Len(out)) \o text
      BY <1>3, <2>1, <3>1, SliceGrows DEF w
    <3>3. t[i].label = s[i].label /\ t[i].at - 1 = s[i].at
      BY <1>1, <2>1, <2>2
    <3>4. SubSeq(w, m[i] + 1, m[i + 1]) = FedText(pieces, t[i].label, t[i].at - 1)
      BY <2>1, <2>2, <3>1, <3>2, <3>3
    <3>5. m[i] <= m[i + 1]
      BY <1>4, <2>1, <3>1
    <3>. QED  BY <3>4, <3>5
  <2>3. CASE i # n
    <3>1. i \in 1..(n - 1) /\ i + 1 \in 1..n
      BY <1>2, <2>3
    <3>2. t[i] = s[i] /\ m[i + 1] = marks[i + 1]
      BY <1>1, <1>5, <3>1
    <3>3. SubSeq(w, marks[i] + 1, marks[i + 1]) = SubSeq(out, marks[i] + 1, marks[i + 1])
      <4>1. marks[i + 1] <= marks[i + 1]
        BY <2>1
      <4>. QED  BY <2>1, <4>1, SliceKept DEF w
    <3>. QED  BY <2>1, <3>2, <3>3
  <2>. QED  BY <2>2, <2>3
<1>8. Begins(m, pieces, start, t, w)
  BY <1>1, <1>5, <1>6, <1>7 DEF Begins
<1>. QED  BY <1>8 DEF t, w

LEMMA BeginsPop ==
  ASSUME NEW X, NEW out \in Seq(X), NEW s \in Seq(Frames), s # <<>>,
         NEW marks, NEW pieces, NEW start, Begins(marks, pieces, start, s, out),
         NEW rest, rest = SubSeq(s, 1, Len(s) - 1), rest # <<>>,
         FedText(pieces, rest[Len(rest)].label, rest[Len(rest)].at)
           = FedText(pieces, rest[Len(rest)].label, rest[Len(rest)].at - 1)
               \o FedText(pieces, s[Len(s)].label, s[Len(s)].at - 1)
  PROVE  \E m : Begins(m, pieces, start, Advanced(rest), out)
<1> DEFINE t == Advanced(rest)
           n == Len(rest)
           m == [i \in 1..(n + 1) |-> IF i = n + 1 THEN Len(out) ELSE marks[i]]
<1>0. /\ marks[1] = start /\ marks[Len(s) + 1] = Len(out)
      /\ \A i \in 1..(Len(s) + 1) : marks[i] \in 0..Len(out)
      /\ \A i \in 1..Len(s) :
           /\ i + 1 \in 1..(Len(s) + 1) /\ marks[i] <= marks[i + 1]
           /\ SubSeq(out, marks[i] + 1, marks[i + 1])
                = FedText(pieces, s[i].label, s[i].at - 1)
           /\ (s[i].at + 1) - 1 = s[i].at
  <2>1. Len(out) \in Nat /\ marks[1] = start /\ marks[Len(s) + 1] = Len(out)
    BY ONLY Begins(marks, pieces, start, s, out) DEF Begins
  <2>2. ASSUME NEW i \in 1..(Len(s) + 1)
        PROVE  marks[i] \in 0..Len(out)
    BY DEF Begins
  <2>3. ASSUME NEW i \in 1..Len(s)
        PROVE  /\ i + 1 \in 1..(Len(s) + 1) /\ marks[i] <= marks[i + 1]
               /\ SubSeq(out, marks[i] + 1, marks[i + 1])
                    = FedText(pieces, s[i].label, s[i].at - 1)
               /\ (s[i].at + 1) - 1 = s[i].at
    BY ONLY Begins(marks, pieces, start, s, out), MarkAt
  <2>. QED  BY <2>1, <2>2, <2>3
<1>1. /\ rest \in Seq(Frames) /\ n = Len(s) - 1 /\ n \in 1..Len(s)
      /\ \A i \in 1..n : rest[i] = s[i]
  <2>1. /\ rest \in Seq(Frames) /\ n = Len(s) - 1
        /\ \A i \in 1..(Len(s) - 1) : rest[i] = s[i]
    BY ONLY s # <<>>, rest = SubSeq(s, 1, Len(s) - 1), WithoutLast
  <2>2. Len(s) \in Nat /\ n # 0 /\ n \in Nat
    BY ONLY <2>1, rest # <<>>
  <2>3. n \in 1..Len(s)
    BY ONLY <2>1, <2>2
  <2>. QED  BY ONLY <2>1, <2>3
<1>2. /\ t \in Seq(Frames) /\ Len(t) = n /\ n \in 1..n
      /\ \A i \in 1..(n - 1) : t[i] = rest[i]
      /\ t[n].label = rest[n].label
      /\ t[n].at = rest[n].at + 1
  BY <1>1, AdvancedTop
<1>. HIDE DEF n, t
<1>3. /\ Len(s) = n + 1 /\ n \in Nat \ {0} /\ Len(out) \in Nat /\ Len(out) \in 0..Len(out)
      /\ \A i \in 1..(n + 1) : i \in 1..Len(s) /\ i \in 1..(Len(s) + 1)
  <2>1. Len(s) \in Nat /\ n \in Nat
    BY <1>1
  <2>. QED  BY <1>1, <2>1
<1>4. ASSUME NEW i \in 1..n
      PROVE  i \in 1..Len(s) /\ marks[i] \in 0..Len(out)
  <2>1. i \in 1..Len(s) /\ i \in 1..(Len(s) + 1)
    BY ONLY <1>3
  <2>. QED  BY <1>0, <2>1
<1>5. /\ m \in [1..(n + 1) -> 0..Len(out)] /\ m[n + 1] = Len(out)
      /\ \A i \in 1..n : m[i] = marks[i]
  BY ONLY <1>3, <1>4, Remarked
<1>. HIDE DEF m
<1>6. m[1] = start
  <2>1. 1 \in 1..n
    BY ONLY <1>3
  <2>. QED  BY <1>0, <1>5, <2>1
<1>7. ASSUME NEW i \in 1..n
      PROVE  /\ m[i] <= m[i + 1]
             /\ SubSeq(out, m[i] + 1, m[i + 1]) = FedText(pieces, t[i].label, t[i].at - 1)
  <2>1. /\ m[i] = marks[i] /\ i + 1 \in 1..(Len(s) + 1) /\ rest[i] = s[i]
        /\ marks[i] \in 0..Len(out) /\ marks[i + 1] \in 0..Len(out) /\ marks[i] <= marks[i + 1]
        /\ SubSeq(out, marks[i] + 1, marks[i + 1]) = FedText(pieces, s[i].label, s[i].at - 1)
        /\ (s[i].at + 1) - 1 = s[i].at
    <3>1. i \in 1..Len(s) /\ rest[i] = s[i] /\ m[i] = marks[i] /\ marks[i] \in 0..Len(out)
      BY <1>1, <1>4, <1>5
    <3>2. i + 1 \in 1..(Len(s) + 1)
      BY <1>0, <3>1
    <3>. QED  BY <1>0, <3>1, <3>2
  <2>2. CASE i = n
    <3>1. m[i + 1] = Len(out) /\ i + 1 = Len(s)
      BY <1>3, <1>5, <2>2
    <3>2. /\ marks[Len(s)] \in 0..Len(out) /\ marks[Len(s)] <= marks[Len(s) + 1]
          /\ marks[Len(s) + 1] = Len(out)
          /\ SubSeq(out, marks[Len(s)] + 1, marks[Len(s) + 1])
               = FedText(pieces, s[Len(s)].label, s[Len(s)].at - 1)
      <4>1. Len(s) \in 1..Len(s) /\ Len(s) \in 1..(Len(s) + 1)
        BY ONLY <1>3
      <4>. QED  BY <1>0, <4>1
    <3>3. SubSeq(out, marks[i] + 1, marks[Len(s)]) \o SubSeq(out, marks[Len(s)] + 1, Len(out))
            = SubSeq(out, marks[i] + 1, Len(out))
      <4>1. marks[i] <= marks[Len(s)] /\ marks[Len(s)] <= Len(out)
        BY <2>1, <3>1, <3>2
      <4>2. out \in Seq(X) /\ Len(out) \in 0..Len(out)
        BY <1>3
      <4>. QED  BY ONLY <2>1, <3>2, <4>1, <4>2, SliceJoin
    <3>4. t[i].label = rest[i].label /\ t[i].at - 1 = rest[i].at
      BY <1>2, <2>1, <2>2
    <3>5. FedText(pieces, rest[i].label, rest[i].at)
            = FedText(pieces, rest[i].label, rest[i].at - 1)
                \o FedText(pieces, s[Len(s)].label, s[Len(s)].at - 1)
      BY <2>2 DEF n
    <3>6. FedText(pieces, t[i].label, t[i].at - 1)
            = SubSeq(out, marks[i] + 1, marks[Len(s)]) \o SubSeq(out, marks[Len(s)] + 1, Len(out))
      BY <2>1, <3>1, <3>2, <3>4, <3>5
    <3>7. marks[i] <= Len(out)
      <4>1. marks[i] \in 0..Len(out)
        BY ONLY <2>1
      <4>2. Len(out) \in Nat
        BY ONLY <1>3
      <4>. QED  BY ONLY <4>1, <4>2
    <3>. QED  BY <2>1, <3>1, <3>3, <3>6, <3>7
  <2>3. CASE i # n
    <3>1. i \in 1..(n - 1) /\ i + 1 \in 1..n
      BY ONLY <1>3, <2>3
    <3>2. t[i] = s[i] /\ m[i + 1] = marks[i + 1]
      BY <1>2, <1>5, <2>1, <3>1
    <3>. QED  BY <2>1, <3>2
  <2>. QED  BY <2>2, <2>3
<1>8. Begins(m, pieces, start, t, out)
  BY <1>2, <1>5, <1>6, <1>7 DEF Begins
<1>. QED  BY <1>8 DEF t

LEMMA BeginsLast ==
  ASSUME NEW X, NEW out \in Seq(X), NEW s \in Seq(Frames), Len(s) = 1,
         NEW marks, NEW pieces, NEW start, Begins(marks, pieces, start, s, out)
  PROVE  out = SubSeq(out, 1, start) \o FedText(pieces, s[1].label, s[1].at - 1)
<1>1. /\ start \in 0..Len(out) /\ Len(out) \in Nat
      /\ SubSeq(out, start + 1, Len(out)) = FedText(pieces, s[1].label, s[1].at - 1)
  BY DEF Begins
<1>2. SubSeq(out, 1, start) \o SubSeq(out, start + 1, Len(out)) = SubSeq(out, 1, Len(out))
  <2>1. 1 \in 1..(Len(out) + 1) /\ start \in (1 - 1)..Len(out) /\ Len(out) \in start..Len(out)
    <3>1. 1 - 1 = 0
      OBVIOUS
    <3>. QED  BY <1>1, <3>1
  <2>. QED  BY <2>1, ConcatAdjacentSubSeq
<1>. QED  BY <1>1, <1>2, SubSeqFull

-----------------------------------------------------------------------------
(* What the state says of the macros.                                      *)

LEMMA MacrosShape ==
  ASSUME Inv
  PROVE  /\ Bodies /\ stack \in Seq(Frames) /\ Len(stack) \in Nat
         /\ written \in Seq(Instructions) /\ base \in 0..Len(written) /\ line \in Lines
         /\ \A i \in 1..Len(stack) :
              /\ stack[i] \in Frames /\ stack[i].at \in Nat \ {0}
              /\ stack[i].label \in DOMAIN macros_ /\ stack[i].label \in File!Targets
              /\ stack[i].body = macros_[stack[i].label] /\ Len(stack[i].body) \in Nat
              /\ stack[i].body \in Seq(BodyLines)
<1>1. /\ Bodies /\ stack \in Seq(Frames) /\ Len(stack) \in Nat
      /\ written \in Seq(Instructions) /\ base \in 0..Len(written) /\ line \in Lines
  BY DEF Inv, Shapes, Bodies
<1>2. ASSUME NEW i \in 1..Len(stack)
      PROVE  /\ stack[i] \in Frames /\ stack[i].at \in Nat \ {0}
             /\ stack[i].label \in DOMAIN macros_ /\ stack[i].label \in File!Targets
             /\ stack[i].body = macros_[stack[i].label] /\ Len(stack[i].body) \in Nat
             /\ stack[i].body \in Seq(BodyLines)
  <2>1. stack[i] \in Frames /\ stack # <<>>
    BY <1>1
  <2>2. stack[i].at \in Nat \ {0} /\ stack[i].label \in Labels /\ stack[i].body \in Seq(BodyLines)
    BY <2>1 DEF Frames
  <2>3. stack[i].label \in DOMAIN macros_ /\ stack[i].body = macros_[stack[i].label]
    BY <2>1 DEF Inv, Expanded, ExpansionDefinesNothing
  <2>. QED  BY <2>1, <2>2, <2>3 DEF File!Targets
<1>. QED  BY <1>1, <1>2

LEMMA GoodShape ==
  ASSUME Bodies, NEW l \in File!Targets
  PROVE  /\ l \in Good <=> File!Expandable(l)
         /\ l \in Good <=>
              /\ l \in DOMAIN macros_
              /\ \A i \in 1..Len(macros_[l]) : Passes(Good, macros_[l][i])
<1>1. l \in Good <=> File!Expandable(l)
  BY DEF Good
<1>2. CASE l \in DOMAIN macros_
  <2>1. \A u \in File!UsedBy(l) : u \in File!Targets
    BY UsesAreTargets
  <2>2. (\A u \in File!UsedBy(l) : File!Expandable(u)) <=>
          \A i \in 1..Len(macros_[l]) : macros_[l][i].op = "use" => macros_[l][i].arg \in Good
    BY <1>2, <2>1, UsedLines DEF Good
  <2>. QED  BY <1>1, <1>2, <2>2, ExpandableUnfolds DEF Plain, Passes
<1>3. CASE l \notin DOMAIN macros_
  BY <1>1, <1>3, ExpandableUnfolds DEF Plain
<1>. QED  BY <1>1, <1>2, <1>3

LEMMA PieceShape ==
  ASSUME Bodies, NEW l \in DOMAIN macros_
  PROVE  /\ AllPieces[l] = PiecesOf(l)
         /\ AllPieces[l] \in Seq(Seq(Instructions)) /\ Len(AllPieces[l]) = Len(macros_[l])
         /\ l \in Good => File!Text(l) = FedText(AllPieces, l, Len(macros_[l]))
<1>1. l \in File!Targets /\ File!BodyOf(l) = macros_[l]
  BY UsedLines, BodyShape
<1>2. File!Texts[Deepest] \in AllTexts
  <2>1. Deepest \in 0..Deepest
    BY LabelsAssumption, FS_CardinalityType DEF Deepest
  <2>. QED  BY <2>1, TextsDefined
<1>3. AllPieces[l] = PiecesOf(l)
  BY <1>1 DEF AllPieces
<1>4. AllPieces[l] \in Seq(Seq(Instructions)) /\ Len(AllPieces[l]) = Len(macros_[l])
  BY <1>1, <1>2, <1>3, PiecesShape DEF PiecesOf
<1>5. l \in Good => File!Text(l) = FedText(AllPieces, l, Len(macros_[l]))
  <2>1. l \in Good => File!Text(l) = File!FlattenSeq(AllPieces[l])
    BY <1>1, <1>3, TextUnfolds DEF Good
  <2>2. FedText(AllPieces, l, Len(AllPieces[l])) = File!FlattenSeq(AllPieces[l])
    BY <1>4, FedTextAll
  <2>. QED  BY <1>4, <2>1, <2>2
<1>. QED  BY <1>3, <1>4, <1>5

\* What the next line of a macro adds to the text.
LEMMA NextPiece ==
  ASSUME Bodies, NEW l \in DOMAIN macros_, NEW n \in 1..Len(macros_[l])
  PROVE  LET ln == macros_[l][n]
             text == AllPieces[l][n]
         IN  /\ text \in Seq(Instructions)
             /\ FedText(AllPieces, l, n) = FedText(AllPieces, l, n - 1) \o text
             /\ ln.op = "ins" => text = <<ln.arg>>
             /\ ln.op = "blank" => text = <<>>
             /\ ln.op = "use" /\ ln.arg \in Good =>
                  /\ ln.arg \in DOMAIN macros_
                  /\ text = FedText(AllPieces, ln.arg, Len(macros_[ln.arg]))
<1> DEFINE ln == macros_[l][n]
           text == AllPieces[l][n]
<1>1. /\ AllPieces[l] = PiecesOf(l) /\ AllPieces[l] \in Seq(Seq(Instructions))
      /\ Len(AllPieces[l]) = Len(macros_[l])
  BY PieceShape
<1>2. text \in Seq(Instructions)
  BY <1>1
<1>3. FedText(AllPieces, l, n) = FedText(AllPieces, l, n - 1) \o text
  <2>1. AllPieces[l] \in Seq(Seq(Instructions)) /\ n \in 1..Len(AllPieces[l])
    BY <1>1
  <2>. QED  BY <2>1, FedTextNext
<1>4. l \in File!Targets /\ File!BodyOf(l) = macros_[l] /\ Deepest \in 0..Deepest
  <2>1. Deepest \in Nat
    BY LabelsAssumption, FS_CardinalityType DEF Deepest
  <2>. QED  BY <2>1, UsedLines, BodyShape
<1>5. text = File!Piece(ln, File!Texts[Deepest])
  <2>1. File!Texts[Deepest] \in AllTexts
    BY <1>4, TextsDefined
  <2>. QED  BY <1>1, <1>4, <2>1, PiecesShape DEF PiecesOf
<1>. HIDE DEF text
<1>6. ln.op = "ins" => text = <<ln.arg>>
  BY <1>5 DEF File!Piece
<1>7. ln.op = "blank" => text = <<>>
  BY <1>5 DEF File!Piece
<1>8. ASSUME ln.op = "use", ln.arg \in Good
      PROVE  /\ ln.arg \in DOMAIN macros_
             /\ text = FedText(AllPieces, ln.arg, Len(macros_[ln.arg]))
  <2>1. ln.arg \in File!Targets /\ ln.arg \in DOMAIN macros_
    BY <1>8, GoodShape DEF Good
  <2>2. text = File!Text(ln.arg)
    BY <1>5, <1>8, SameCardinality DEF File!Piece, File!Text, Deepest
  <2>. QED  BY <1>8, <2>1, <2>2, PieceShape
<1>. QED  BY <1>2, <1>3, <1>6, <1>7, <1>8 DEF text

LEMMA SameGood ==
  ASSUME Bodies, macros_' = macros_
  PROVE  Good' = Good /\ AllPieces' = AllPieces
BY SameMeaning DEF Good, AllPieces

\* What an inner call of expand leads to, the outer ones do.
LEMMA StackLeads ==
  ASSUME Inv, stack # <<>>, Waiting(Good, line, stack)
  PROVE  /\ \A i, j \in 1..Len(stack) : i <= j =>
              Leads(stack[j].label) \subseteq Leads(stack[i].label)
         /\ \A i \in 1..Len(stack) : stack[i].label \in Leads(line.arg)
<1>1. /\ Bodies /\ Len(stack) \in Nat /\ 1 \in 1..Len(stack)
      /\ \A i \in 1..Len(stack) : /\ stack[i].label \in DOMAIN macros_
                                  /\ stack[i].label \in File!Targets
                                  /\ stack[i].body = macros_[stack[i].label]
                                  /\ stack[i].at \in Nat \ {0}
  BY MacrosShape
<1>2. ASSUME NEW i \in 1..Len(stack), i + 1 \in 1..Len(stack)
      PROVE  Leads(stack[i + 1].label) \subseteq Leads(stack[i].label)
  <2>1. /\ stack[i].at \in 1..Len(stack[i].body)
        /\ stack[i].body[stack[i].at].op = "use"
        /\ stack[i].body[stack[i].at].arg = stack[i + 1].label
    <3>1. i # Len(stack) /\ stack[i].at \in Nat \ {0}
      BY <1>1, <1>2
    <3>2. /\ stack[i].at <= Len(stack[i].body)
          /\ stack[i].body[stack[i].at].op = "use"
          /\ stack[i].body[stack[i].at].arg = stack[i + 1].label
      BY <3>1 DEF Waiting
    <3>3. Len(stack[i].body) \in Nat
      BY MacrosShape
    <3>. QED  BY <3>1, <3>2, <3>3
  <2>2. stack[i + 1].label \in File!UsedBy(stack[i].label)
    BY <1>1, <2>1, UsedLines
  <2>. QED  BY <1>1, <2>2, LeadsOn DEF Closed
<1>3. ASSUME NEW i \in 1..Len(stack), NEW j \in 1..Len(stack), i <= j
      PROVE  Leads(stack[j].label) \subseteq Leads(stack[i].label)
  <2>. DEFINE T == {k \in Nat : i + k \in 1..Len(stack) =>
                      Leads(stack[i + k].label) \subseteq Leads(stack[i].label)}
  <2>1. 0 \in T
    <3>1. i + 0 = i
      OBVIOUS
    <3>. QED  BY <3>1
  <2>2. ASSUME NEW k \in Nat, k \in T
        PROVE  k + 1 \in T
    <3>1. CASE i + (k + 1) \in 1..Len(stack)
      <4>1. i + k \in 1..Len(stack) /\ (i + k) + 1 = i + (k + 1)
        BY <1>1, <3>1
      <4>2. Leads(stack[(i + k) + 1].label) \subseteq Leads(stack[i + k].label)
        BY <1>2, <3>1, <4>1
      <4>3. Leads(stack[i + k].label) \subseteq Leads(stack[i].label)
        BY <2>2, <4>1
      <4>4. Leads(stack[i + (k + 1)].label) \subseteq Leads(stack[i].label)
        BY <4>1, <4>2, <4>3
      <4>. QED  BY <4>4
    <3>2. CASE i + (k + 1) \notin 1..Len(stack)
      BY <3>2
    <3>. QED  BY <3>1, <3>2
  <2>3. j - i \in Nat /\ i + (j - i) = j
    BY <1>1, <1>3
  <2>4. j - i \in T
    <3>. HIDE DEF T
    <3>. QED  BY <2>1, <2>2, <2>3, Inductive
  <2>. QED  BY <2>3, <2>4
<1>4. ASSUME NEW i \in 1..Len(stack)
      PROVE  stack[i].label \in Leads(line.arg)
  <2>1. 1 <= i /\ line.arg = stack[1].label
    BY DEF Waiting
  <2>2. Leads(stack[i].label) \subseteq Leads(line.arg)
    BY <1>1, <1>3, <2>1
  <2>. QED  BY <1>1, <2>2, LeadsOn
<1>. QED  BY <1>3, <1>4

\* Where expand or compile_line throws, the line of the file was to be refused.
LEMMA ThrownUse ==
  ASSUME Inv, stack # <<>>, Waiting(Good, line, stack), NEW n \in 1..Len(Top.body),
         LET ln == Top.body[n]
         IN  \/ ln.op \notin {"ins", "use", "blank"}
             \/ ln.op = "use" /\ (ln.arg \notin DOMAIN macros_ \/ ln.arg \in active_)
  PROVE  ~File!Expandable(line.arg)
<1> DEFINE ln == Top.body[n]
           m == Top.label
<1>1. /\ Bodies /\ Len(stack) \in 1..Len(stack) /\ m \in DOMAIN macros_ /\ m \in File!Targets
      /\ Top.body = macros_[m] /\ m \in Leads(line.arg)
  <2>1. Len(stack) \in 1..Len(stack)
    BY MacrosShape
  <2>. QED  BY <2>1, MacrosShape, StackLeads DEF Top
<1>2. line.arg \in File!Targets
  <2>1. 1 \in 1..Len(stack)
    BY <1>1
  <2>. QED  BY <2>1, MacrosShape DEF Waiting
<1>. SUFFICES ASSUME File!Expandable(line.arg) PROVE FALSE
  OBVIOUS
<1>3. \A k \in Leads(line.arg) :
         /\ k \in DOMAIN macros_
         /\ k \notin File!Closure(File!UsedBy(k))
         /\ \A x \in File!Range(File!BodyOf(k)) : x.op \in {"ins", "use", "blank"}
  BY DEF File!Expandable, Leads, File!Defined
<1>4. ln.op \in {"ins", "use", "blank"}
  BY <1>1, <1>3, UsedLines DEF Plain
<1>5. ln.op = "use" /\ ln.arg \in File!UsedBy(m)
  BY <1>1, <1>4, UsedLines
<1>6. ln.arg \in File!Targets /\ ln.arg \in Leads(ln.arg) /\ ln.arg \in Leads(line.arg)
  <2>1. ln.arg \in Leads(m) /\ Leads(m) \subseteq Leads(line.arg)
    BY <1>1, <1>2, <1>5, LeadsOn DEF Closed
  <2>2. ln.arg \in File!Targets
    BY <1>1, <1>5, LeadsOn
  <2>. QED  BY <1>1, <2>1, <2>2, LeadsOn
<1>7. ln.arg \in active_
  BY <1>3, <1>5, <1>6
<1>8. PICK i \in 1..Len(stack) : stack[i].label = ln.arg
  BY <1>7 DEF Inv, ActiveIsStack
<1>9. m \in Leads(ln.arg)
  <2>1. i <= Len(stack) /\ Len(stack) \in 1..Len(stack)
    BY <1>1
  <2>2. Leads(stack[Len(stack)].label) \subseteq Leads(stack[i].label)
    BY <1>8, <2>1, StackLeads
  <2>. QED  BY <1>1, <1>8, <2>2, LeadsOn DEF Top
<1>10. m \in File!Closure(File!UsedBy(m))
  BY <1>1, <1>5, <1>9, LeadsOn
<1>. QED  BY <1>1, <1>3, <1>10

-----------------------------------------------------------------------------
(* The steps of the expander are steps of IrFile.                          *)

\* The label being defined, and the instructions, as IrFile sees them.
OpenLabel == IF defining_ THEN current_ ELSE NoLabel
Appeared  == IF status = "busy" THEN SubSeq(written, 1, base) ELSE written

\* What Refuse promises of the instructions.
LEMMA AppearedPrefix ==
  ASSUME Inv
  PROVE  File!IsPrefix(SubSeq(written, 1, base), written)
<1>1. written \in Seq(Instructions) /\ base \in 0..Len(written)
  BY MacrosShape
<1>2. /\ Len(SubSeq(written, 1, base)) = base /\ SubSeq(written, 1, base) \in Seq(Instructions)
  BY <1>1
<1>3. SubSeq(SubSeq(written, 1, base), 1, base) = SubSeq(written, 1, base)
  BY <1>2, SubSeqFull
<1>. QED  BY <1>1, <1>2, <1>3 DEF File!IsPrefix

\* Before a use of a macro, nothing of the line has been written.
LEMMA BeginsNothing ==
  ASSUME Inv, Midway, status = "busy", stack = <<>>
  PROVE  base = Len(written) /\ SubSeq(written, 1, base) = written
<1>1. PICK marks : Begins(marks, AllPieces, base, stack, written)
  BY DEF Midway
<1>2. base = Len(written)
  <2>1. Len(stack) + 1 = 1
    <3>1. Len(stack) = 0
      OBVIOUS
    <3>. QED  BY <3>1
  <2>. QED  BY <1>1, <2>1 DEF Begins
<1>. QED  BY <1>2, MacrosShape, SubSeqFull

LEMMA BeginsHere ==
  ASSUME NEW X, NEW out \in Seq(X), NEW pieces
  PROVE  \E m : Begins(m, pieces, Len(out), <<>>, out)
<1> DEFINE m == [i \in 1..1 |-> Len(out)]
<1>1. Len(out) \in Nat /\ Len(<<>>) = 0 /\ Len(<<>>) + 1 = 1
  OBVIOUS
<1>2. m \in [1..(Len(<<>>) + 1) -> 0..Len(out)] /\ m[1] = Len(out)
  BY <1>1
<1>3. m[Len(<<>>) + 1] = Len(out) /\ 1..Len(<<>>) = {}
  BY <1>1, <1>2
<1>. HIDE DEF m
<1>. QED  BY <1>2, <1>3 DEF Begins

LEMMA ReadsLine ==
  ASSUME Inv, Midway, ReadLine
  PROVE  Midway' /\ File!Read
<1>1. /\ status = "reading" /\ status' = "busy" /\ line' \in Lines /\ base' = Len(written)
      /\ stack = <<>> /\ stack' = <<>>
      /\ UNCHANGED <<macros_, current_, defining_, written>>
  BY DEF ReadLine, Midway
<1>2. Lines = File!Lines
  BY DEF Lines, File!Lines, File!DefLines, File!UseLines, File!InsLines, Line, File!Line,
         End, Blank, Bad, File!End, File!Blank, File!Bad
<1>3. written \in Seq(Instructions) /\ SubSeq(written, 1, Len(written)) = written
  BY MacrosShape, SubSeqFull
<1>4. Midway'
  <2>1. Waiting(Good', line', stack')
    BY <1>1 DEF Waiting
  <2>2. \E m : Begins(m, AllPieces', base', stack', written')
    <3>1. \E m : Begins(m, AllPieces', Len(written), <<>>, written)
      BY <1>3, BeginsHere
    <3>. QED  BY <1>1, <3>1
  <2>. QED  BY <1>1, <2>1, <2>2 DEF Midway
<1>5. File!Read
  BY <1>1, <1>2, <1>3 DEF File!Read
<1>. QED  BY <1>4, <1>5

\* A line of the file outside the expansion of a macro.
LEMMA ThrowsLine ==
  ASSUME Inv, Midway, status = "busy", stack = <<>>, Throw, UNCHANGED <<line, base>>,
         ~File!Acceptable
  PROVE  Midway' /\ File!Refuse
<1>1. status' = "error" /\ UNCHANGED <<line, macros_, current_, defining_, written>>
  BY DEF Throw
<1>2. Midway'
  BY <1>1 DEF Midway
<1>3. File!IsPrefix(SubSeq(written, 1, base), written')
  BY <1>1, AppearedPrefix
<1>. QED  BY <1>1, <1>2, <1>3 DEF File!Refuse

\* A call of expand begins.
LEMMA BeginsExpand ==
  ASSUME Inv, Inv', Midway, status = "busy", status' = "busy", UNCHANGED <<line, base>>,
         NEW l \in DOMAIN macros_, stack' = Append(stack, Frame(l, macros_[l])),
         UNCHANGED <<macros_, current_, defining_, written>>,
         IF stack = <<>> THEN line.op = "use" /\ line.arg = l
         ELSE /\ Top.at <= Len(Top.body)
              /\ Top.body[Top.at].op = "use" /\ Top.body[Top.at].arg = l
  PROVE  Midway' /\ UNCHANGED File!vars
<1> DEFINE fr == Frame(l, macros_[l])
<1>1. /\ Bodies /\ stack \in Seq(Frames) /\ written \in Seq(Instructions)
  BY MacrosShape
<1>2. fr \in Frames /\ fr.label = l /\ fr.at = 1
  BY <1>1 DEF Frame, Frames, Bodies
<1>3. Good' = Good /\ AllPieces' = AllPieces
  BY <1>1, SameGood
<1>4. FedText(AllPieces, l, 0) = <<>>
  BY <1>1, PieceShape, FedTextNone
<1>. HIDE DEF fr
<1>5. Waiting(Good, line, Append(stack, fr))
  <2>1. Waiting(Good, line, stack)
    BY DEF Midway
  <2>. QED  BY <1>1, <1>2, <2>1, WaitingPush DEF Top
<1>6. \E m : Begins(m, AllPieces, base, Append(stack, fr), written)
  <2>1. PICK marks : Begins(marks, AllPieces, base, stack, written)
    BY DEF Midway
  <2>. QED  BY <1>1, <1>2, <1>4, <2>1, BeginsPush
<1>7. Midway'
  <2>1. Waiting(Good', line', stack')
    BY <1>3, <1>5 DEF fr
  <2>2. \E m : Begins(m, AllPieces', base', stack', written')
    BY <1>3, <1>6 DEF fr
  <2>. QED  BY <2>1, <2>2 DEF Midway
<1>8. UNCHANGED File!vars
  BY DEF File!vars
<1>. QED  BY <1>7, <1>8

LEMMA FeedsLine ==
  ASSUME Inv, Inv', Midway, status' # "crash", FeedLine
  PROVE  Midway' /\ [File!Next]_File!vars
<1>1. /\ status = "busy" /\ stack = <<>> /\ Feed(line) /\ UNCHANGED <<line, base>>
      /\ Bodies /\ line \in Lines /\ active_ = {} /\ Advanced(stack) = <<>>
  BY MacrosShape DEF FeedLine, Inv, ActiveIsStack, Advanced
<1>2. /\ SubSeq(written, 1, base) = written /\ Appeared = written
      /\ written \in Seq(Instructions)
  BY <1>1, BeginsNothing, MacrosShape DEF Appeared
<1>3. /\ defining_ \in BOOLEAN
      /\ defining_ => current_ \in DOMAIN macros_ /\ current_ # NoLabel
  BY LabelsAssumption DEF Inv, Shapes
<1>4. FedWith(Advanced(stack)) => Midway' /\ status' = "reading"
  BY <1>1 DEF FedWith, Midway
<1>5. CASE defining_
  <2>1. InDefinition(line)
    BY <1>1, <1>5 DEF Feed
  <2>2. CASE line.op = "def"
    <3>1. Throw /\ ~File!Acceptable
      BY <1>3, <1>5, <2>1, <2>2 DEF InDefinition, File!Acceptable
    <3>2. File!Refuse /\ Midway'
      BY <1>1, <3>1, ThrowsLine
    <3>. QED  BY <3>2 DEF File!Next
  <2>3. CASE line.op = "end"
    <3>1. /\ defining_' = FALSE /\ FedWith(Advanced(stack))
          /\ UNCHANGED <<macros_, active_, current_, written>>
      BY <2>1, <2>3 DEF InDefinition
    <3>2. File!Close
      BY <1>1, <1>2, <1>3, <1>4, <1>5, <2>3, <3>1 DEF File!Close, File!Dealt
    <3>. QED  BY <1>4, <3>1, <3>2 DEF File!Next
  <2>4. CASE line.op \notin {"def", "end"}
    <3>1. /\ macros_' = [macros_ EXCEPT ![current_] = Append(@, line)]
          /\ FedWith(Advanced(stack))
          /\ UNCHANGED <<active_, current_, defining_, written>>
      BY <2>1, <2>4 DEF InDefinition, Collect
    <3>2. macros_' = File!WithMacro(current_, Append(macros_[current_], line))
      <4>1. DOMAIN macros_ \cup {current_} = DOMAIN macros_
        BY <1>3, <1>5
      <4>. QED  BY <1>3, <1>5, <3>1, <4>1 DEF File!WithMacro, File!Defined
    <3>3. File!Collect
      BY <1>1, <1>2, <1>3, <1>4, <1>5, <2>4, <3>1, <3>2 DEF File!Collect, File!Dealt
    <3>. QED  BY <1>4, <3>1, <3>3 DEF File!Next
  <2>. QED  BY <2>2, <2>3, <2>4
<1>6. CASE ~defining_ /\ line.op = "def"
  <2>1. Define(line)
    BY <1>1, <1>6 DEF Feed
  <2>2. CASE line.arg = NoLabel
    <3>1. Throw /\ ~File!Acceptable
      BY <1>6, <2>1, <2>2 DEF Define, File!Acceptable
    <3>2. File!Refuse /\ Midway'
      BY <1>1, <3>1, ThrowsLine
    <3>. QED  BY <3>2 DEF File!Next
  <2>3. CASE line.arg # NoLabel
    <3>1. /\ current_' = line.arg /\ macros_' = Started(line.arg) /\ defining_' = TRUE
          /\ FedWith(Advanced(stack)) /\ UNCHANGED <<active_, written>>
      BY <2>1, <2>3 DEF Define, Defining
    <3>2. macros_' = File!WithMacro(line.arg, <<>>)
      BY <3>1 DEF Started, File!WithMacro, File!Defined
    <3>3. File!Define
      BY <1>1, <1>2, <1>4, <1>6, <2>3, <3>1, <3>2 DEF File!Define, File!Dealt
    <3>. QED  BY <1>4, <3>1, <3>3 DEF File!Next
  <2>. QED  BY <2>2, <2>3
<1>7. CASE ~defining_ /\ line.op = "use"
  <2>1. Expand(line.arg)
    BY <1>1, <1>7 DEF Feed
  <2>2. CASE line.arg \notin DOMAIN macros_
    <3>1. line.arg \in File!Targets
      BY <1>1, <1>7 DEF Lines, Line, End, Blank, Bad, File!Targets
    <3>2. ~File!Expandable(line.arg)
      BY <1>1, <2>2, <3>1, ExpandableUnfolds DEF Plain
    <3>3. Throw /\ ~File!Acceptable
      BY <1>7, <2>1, <2>2, <3>2 DEF Expand, File!Acceptable
    <3>4. File!Refuse /\ Midway'
      BY <1>1, <3>3, ThrowsLine
    <3>. QED  BY <3>4 DEF File!Next
  <2>3. CASE line.arg \in DOMAIN macros_
    <3>1. /\ stack' = Append(stack, Frame(line.arg, macros_[line.arg])) /\ status' = "busy"
          /\ UNCHANGED <<macros_, current_, defining_, written>>
      BY <1>1, <2>1, <2>3 DEF Expand, InUse
    <3>. QED  BY <1>1, <1>7, <2>3, <3>1, BeginsExpand
  <2>. QED  BY <2>2, <2>3
<1>8. CASE ~defining_ /\ line.op \notin {"def", "use"}
  <2>1. CompileLine(line)
    BY <1>1, <1>8 DEF Feed
  <2>2. CASE line.op \in {"bad", "end"}
    <3>1. Throw /\ ~File!Acceptable
      BY <1>8, <2>1, <2>2 DEF CompileLine, File!Acceptable
    <3>2. File!Refuse /\ Midway'
      BY <1>1, <3>1, ThrowsLine
    <3>. QED  BY <3>2 DEF File!Next
  <2>3. CASE line.op \notin {"bad", "end"}
    <3>1. /\ written' = IF line.op = "ins" THEN Append(written, line.arg) ELSE written
          /\ FedWith(Advanced(stack)) /\ UNCHANGED <<macros_, active_, current_, defining_>>
      BY <2>1, <2>3 DEF CompileLine
    <3>2. line.op \in {"ins", "blank"}
      BY <1>1, <1>8, <2>3 DEF Lines, Line, End, Blank, Bad
    <3>3. File!Write
      BY <1>1, <1>2, <1>4, <1>8, <3>1, <3>2 DEF File!Write, File!Dealt
    <3>. QED  BY <1>4, <3>1, <3>3 DEF File!Next
  <2>. QED  BY <2>2, <2>3
<1>. QED  BY <1>3, <1>5, <1>6, <1>7, <1>8

\* A line of a body.
LEMMA FeedsBodyLine ==
  ASSUME Inv, Inv', Midway, status' # "crash", FeedBodyLine
  PROVE  Midway' /\ [File!Next]_File!vars
<1> DEFINE ln == Top.body[Top.at]
           top == Top.label
<1>1. /\ status = "busy" /\ stack # <<>> /\ Feed(ln) /\ UNCHANGED <<line, base>>
      /\ Bodies /\ ~defining_ /\ stack \in Seq(Frames) /\ Top.at <= Len(Top.body)
  BY MacrosShape DEF FeedBodyLine, Expanding, Inv, ExpansionDefinesNothing
<1>2. /\ Len(stack) \in 1..Len(stack) /\ Top.at \in 1..Len(Top.body)
      /\ top \in DOMAIN macros_ /\ Top.body = macros_[top] /\ ln \in BodyLines
      /\ Top.body \in Seq(BodyLines)
  <2>1. Len(stack) \in 1..Len(stack)
    BY <1>1
  <2>2. /\ Top.at \in Nat \ {0} /\ Len(Top.body) \in Nat /\ top \in DOMAIN macros_
        /\ Top.body = macros_[top] /\ Top.body \in Seq(BodyLines)
    BY <2>1, MacrosShape DEF Top
  <2>3. Top.at \in 1..Len(Top.body)
    BY <1>1, <2>2
  <2>. QED  BY <2>1, <2>2, <2>3
<1>3. /\ Waiting(Good, line, stack) /\ \E m : Begins(m, AllPieces, base, stack, written)
      /\ line.op = "use"
  BY <1>1 DEF Midway, Waiting
<1>4. written \in Seq(Instructions) /\ base \in 0..Len(written)
  BY MacrosShape
<1>5. ASSUME Throw, ~File!Expandable(line.arg)
      PROVE  Midway' /\ File!Refuse
  <2>1. status' = "error" /\ UNCHANGED <<macros_, active_, current_, defining_, stack, written>>
    BY <1>5 DEF Throw
  <2>2. ~File!Acceptable
    BY <1>1, <1>3, <1>5 DEF File!Acceptable
  <2>3. Midway'
    BY <2>1 DEF Midway
  <2>4. File!IsPrefix(SubSeq(written, 1, base), written')
    BY <2>1, AppearedPrefix
  <2>. QED  BY <1>1, <2>1, <2>2, <2>3, <2>4 DEF File!Refuse
<1>6. CASE ln.op = "use"
  <2>1. Expand(ln.arg)
    BY <1>1, <1>6 DEF Feed
  <2>2. CASE ln.arg \notin DOMAIN macros_ \/ InUse(ln.arg)
    <3>1. Throw
      BY <2>1, <2>2 DEF Expand
    <3>2. ~File!Expandable(line.arg)
      BY <1>1, <1>2, <1>3, <1>6, <2>2, ThrownUse DEF InUse
    <3>. QED  BY <1>5, <3>1, <3>2 DEF File!Next
  <2>3. CASE ~(ln.arg \notin DOMAIN macros_ \/ InUse(ln.arg))
    <3>1. /\ stack' = Append(stack, Frame(ln.arg, macros_[ln.arg])) /\ status' = "busy"
          /\ UNCHANGED <<macros_, current_, defining_, written>>
      BY <1>1, <2>1, <2>3 DEF Expand
    <3>2. ln.arg \in DOMAIN macros_
      BY <2>3
    <3>. QED  BY <1>1, <1>6, <3>1, <3>2, BeginsExpand
  <2>. QED  BY <2>2, <2>3
<1>7. CASE ln.op # "use"
  <2>1. CompileLine(ln) /\ ln.op \in {"ins", "blank", "bad"}
    BY <1>1, <1>2, <1>7 DEF Feed, BodyLines, Lines, Line, End, Blank, Bad
  <2>2. CASE ln.op = "bad"
    <3>1. Throw
      BY <2>1, <2>2 DEF CompileLine
    <3>2. ln.op \notin {"ins", "use", "blank"}
      BY <2>2
    <3>3. ~File!Expandable(line.arg)
      BY <1>1, <1>2, <1>3, <3>2, ThrownUse
    <3>. QED  BY <1>5, <3>1, <3>3 DEF File!Next
  <2>3. CASE ln.op \in {"ins", "blank"}
    <3> DEFINE text == IF ln.op = "ins" THEN <<ln.arg>> ELSE <<>>
    <3>1. /\ written' = IF ln.op = "ins" THEN Append(written, ln.arg) ELSE written
          /\ FedWith(Advanced(stack)) /\ UNCHANGED <<macros_, active_, current_, defining_>>
      BY <2>1, <2>3 DEF CompileLine
    <3>2. /\ Advanced(stack) \in Seq(Frames) /\ Len(Advanced(stack)) = Len(stack)
          /\ Advanced(stack) # <<>>
      BY <1>1, <1>2, AdvancedTop
    <3>3. stack' = Advanced(stack) /\ status' = "busy"
      BY <3>1, <3>2 DEF FedWith
    <3>4. /\ text \in Seq(Instructions)
          /\ FedText(AllPieces, top, Top.at) = FedText(AllPieces, top, Top.at - 1) \o text
      <4>1. /\ AllPieces[top][Top.at] \in Seq(Instructions)
            /\ FedText(AllPieces, top, Top.at)
                 = FedText(AllPieces, top, Top.at - 1) \o AllPieces[top][Top.at]
            /\ ln.op = "ins" => AllPieces[top][Top.at] = <<ln.arg>>
            /\ ln.op = "blank" => AllPieces[top][Top.at] = <<>>
        <5>1. Top.at \in 1..Len(macros_[top]) /\ ln = macros_[top][Top.at]
          BY <1>2
        <5>. HIDE DEF ln, top
        <5>. QED  BY <1>1, <1>2, <5>1, NextPiece
      <4>2. text = AllPieces[top][Top.at]
        BY <2>3, <4>1
      <4>. QED  BY <4>1, <4>2
    <3>5. written' = written \o text
      <4>1. CASE ln.op = "ins"
        <5>1. ln.arg \in Instructions
          BY <1>2, <4>1, InstructionLine DEF BodyLines
        <5>. QED  BY <1>4, <3>1, <4>1, <5>1, AppendIsConcat
      <4>2. CASE ln.op # "ins"
        BY <1>4, <3>1, <4>2, ConcatEmptySeq
      <4>. QED  BY <4>1, <4>2
    <3>. HIDE DEF text
    <3>6. Good' = Good /\ AllPieces' = AllPieces
      BY <1>1, <3>1, SameGood
    <3>7. Waiting(Good', line', stack')
      <4>1. Passes(Good, ln)
        BY <2>3 DEF Passes
      <4>2. Waiting(Good, line, Advanced(stack))
        BY <1>1, <1>3, <4>1, WaitingAdvance DEF Top
      <4>. QED  BY <1>1, <3>3, <3>6, <4>2
    <3>8. \E m : Begins(m, AllPieces', base', stack', written')
      <4>1. PICK marks : Begins(marks, AllPieces, base, stack, written)
        BY <1>3
      <4>2. \E m : Begins(m, AllPieces, base, Advanced(stack), written \o text)
        BY <1>1, <1>4, <3>4, <4>1, BeginsWrite DEF Top
      <4>. QED  BY <1>1, <3>3, <3>5, <3>6, <4>2
    <3>9. Midway'
      BY <3>3, <3>7, <3>8 DEF Midway
    <3>10. SubSeq(written', 1, base') = SubSeq(written, 1, base)
      <4>1. SubSeq(written \o text, 0 + 1, base) = SubSeq(written, 0 + 1, base)
        <5>1. 0 \in 0..Len(written) /\ 0 <= base
          BY <1>4
        <5>. QED  BY <1>4, <3>4, <5>1, SliceKept
      <4>2. 0 + 1 = 1
        OBVIOUS
      <4>. QED  BY <1>1, <3>5, <4>1, <4>2
    <3>. QED  BY <1>1, <3>1, <3>3, <3>9, <3>10 DEF File!vars
  <2>. QED  BY <2>1, <2>2, <2>3
<1>. QED  BY <1>6, <1>7

\* A call of expand returns.
LEMMA LeavesExpand ==
  ASSUME Inv, Inv', Midway, LeaveExpand
  PROVE  Midway' /\ [File!Next]_File!vars
<1> DEFINE rest == SubSeq(stack, 1, Len(stack) - 1)
           top == Top.label
<1>1. /\ status = "busy" /\ stack # <<>> /\ stack \in Seq(Frames) /\ Top.at > Len(Top.body)
      /\ FedWith(Advanced(rest)) /\ Bodies /\ ~defining_
      /\ UNCHANGED <<line, macros_, current_, defining_, written, base>>
  BY MacrosShape DEF LeaveExpand, Expanding, Inv, ExpansionDefinesNothing
<1>2. /\ Waiting(Good, line, stack) /\ \E m : Begins(m, AllPieces, base, stack, written)
      /\ line.op = "use" /\ line.arg = stack[1].label
  BY <1>1 DEF Midway, Waiting
<1>3. /\ written \in Seq(Instructions) /\ base \in 0..Len(written) /\ Len(stack) \in 1..Len(stack)
  BY <1>1, MacrosShape
<1>4. /\ top \in DOMAIN macros_ /\ top \in File!Targets /\ Top.body = macros_[top]
      /\ Top.at - 1 = Len(macros_[top]) /\ Top.at \in Nat
  <2>1. /\ top \in DOMAIN macros_ /\ top \in File!Targets /\ Top.body = macros_[top]
        /\ Top.at \in Nat \ {0} /\ Len(Top.body) \in Nat
    BY <1>3, MacrosShape DEF Top
  <2>2. Top.at <= Len(Top.body) + 1
    BY <1>1, <1>2, <1>3 DEF Waiting, Top
  <2>. QED  BY <1>1, <2>1, <2>2
<1>5. top \in Good
  <2>1. \A j \in 1..Len(macros_[top]) : Passes(Good, macros_[top][j])
    <3>1. \A j \in 1..(Top.at - 1) : Passes(Good, Top.body[j])
      BY <1>1, <1>2, <1>3 DEF Waiting, Top
    <3>. QED  BY <1>4, <3>1
  <2>. QED  BY <1>1, <1>4, <2>1, GoodShape
<1>6. Good' = Good /\ AllPieces' = AllPieces
  BY <1>1, SameGood
<1>. HIDE DEF rest
<1>7. CASE rest = <<>>
  <2>1. Len(stack) = 1
    <3>1. Len(rest) = Len(stack) - 1 /\ Len(rest) = 0
      BY <1>1, <1>7, WithoutLast DEF rest
    <3>. QED  BY <1>3, <3>1
  <2>2. stack' = <<>> /\ status' = "reading"
    BY <1>1, <1>7 DEF FedWith, Advanced
  <2>3. Midway'
    BY <2>2 DEF Midway
  <2>4. written = SubSeq(written, 1, base) \o File!Text(line.arg)
    <3>1. written = SubSeq(written, 1, base) \o FedText(AllPieces, stack[1].label, stack[1].at - 1)
      BY <1>1, <1>2, <1>3, <2>1, BeginsLast
    <3>2. Top = stack[1]
      BY <2>1 DEF Top
    <3>3. File!Text(top) = FedText(AllPieces, top, Len(macros_[top]))
      BY <1>1, <1>4, <1>5, PieceShape
    <3>. QED  BY <1>2, <1>4, <3>1, <3>2, <3>3
  <2>5. File!Expandable(line.arg)
    BY <1>1, <1>2, <1>4, <1>5, <2>1, GoodShape DEF Top
  <2>6. File!Use
    BY <1>1, <1>2, <2>2, <2>4, <2>5 DEF File!Use, File!Dealt
  <2>. QED  BY <2>3, <2>6 DEF File!Next
<1>8. CASE rest # <<>>
  <2> DEFINE prev == rest[Len(rest)]
  <2>1. /\ rest \in Seq(Frames) /\ Len(rest) \in 1..Len(rest) /\ Len(rest) \in 1..Len(stack)
        /\ prev = stack[Len(rest)]
    BY <1>1, <1>8, WithoutLast DEF rest
  <2>2. /\ Waiting(Good, line, rest) /\ prev.at <= Len(prev.body)
        /\ prev.body[prev.at].op = "use" /\ prev.body[prev.at].arg = top
        /\ Passes(Good, prev.body[prev.at])
    BY <1>1, <1>2, <1>5, <1>8, WaitingPop DEF Top, rest
  <2>3. /\ prev.at \in 1..Len(prev.body) /\ prev.label \in DOMAIN macros_
        /\ prev.body = macros_[prev.label]
    <3>1. /\ prev.at \in Nat \ {0} /\ Len(prev.body) \in Nat /\ prev.label \in DOMAIN macros_
          /\ prev.body = macros_[prev.label]
      BY <2>1, MacrosShape
    <3>. QED  BY <2>2, <3>1
  <2>4. FedText(AllPieces, prev.label, prev.at)
          = FedText(AllPieces, prev.label, prev.at - 1) \o FedText(AllPieces, top, Top.at - 1)
    <3>1. FedText(AllPieces, prev.label, prev.at)
            = FedText(AllPieces, prev.label, prev.at - 1) \o AllPieces[prev.label][prev.at]
      BY <1>1, <2>3, NextPiece
    <3>2. AllPieces[prev.label][prev.at] = FedText(AllPieces, top, Len(macros_[top]))
      <4>1. /\ prev.label \in DOMAIN macros_ /\ prev.at \in 1..Len(macros_[prev.label])
            /\ macros_[prev.label][prev.at].op = "use"
            /\ macros_[prev.label][prev.at].arg = top
        BY <2>2, <2>3
      <4>. HIDE DEF prev, top
      <4>. QED  BY <1>1, <1>5, <4>1, NextPiece
    <3>. QED  BY <1>4, <3>1, <3>2
  <2>. HIDE DEF prev
  <2>5. /\ Advanced(rest) # <<>> /\ Advanced(rest) \in Seq(Frames)
    <3>1. Len(Advanced(rest)) = Len(rest) /\ Advanced(rest) \in Seq(Frames)
      BY <2>1, AdvancedFrames
    <3>. QED  BY <2>1, <3>1
  <2>6. stack' = Advanced(rest) /\ status' = "busy"
    BY <1>1, <2>5 DEF FedWith
  <2>7. Waiting(Good, line, Advanced(rest))
    BY <1>8, <2>1, <2>2, WaitingAdvance DEF prev
  <2>8. \E m : Begins(m, AllPieces, base, Advanced(rest), written)
    <3>1. PICK marks : Begins(marks, AllPieces, base, stack, written)
      BY <1>2
    <3>. QED  BY <1>1, <1>3, <1>8, <2>4, <3>1, BeginsPop DEF Top, prev, rest
  <2>9. Midway'
    <3>1. Waiting(Good', line', stack')
      BY <1>1, <1>6, <2>6, <2>7
    <3>2. \E m : Begins(m, AllPieces', base', stack', written')
      BY <1>1, <1>6, <2>6, <2>8
    <3>. QED  BY <2>6, <3>1, <3>2 DEF Midway
  <2>. QED  BY <1>1, <2>6, <2>9 DEF File!vars
<1>. QED  BY <1>7, <1>8

LEMMA Finishes ==
  ASSUME Inv, Midway, Finish
  PROVE  Midway' /\ File!Finish
<1>1. /\ status = "reading" /\ status' = IF defining_ THEN "error" ELSE "done"
      /\ UNCHANGED <<line, macros_, current_, defining_, stack, written>>
  BY DEF Finish
<1>2. Midway'
  BY <1>1 DEF Midway
<1>3. OpenLabel = NoLabel <=> ~defining_
  BY LabelsAssumption DEF Inv, Shapes, OpenLabel
<1>4. status' # "busy"
  BY <1>1
<1>5. File!Finish
  BY <1>1, <1>3, <1>4 DEF File!Finish, OpenLabel
<1>. QED  BY <1>2, <1>5

\* For all files, the expander does what IrFile says: the use of a macro appears to
\* write the macro's text in one step, and a file is refused exactly where IrFile
\* refuses it, although feed and expand (ircompile.cpp) feed the lines of bodies one
\* by one and find an undefined or recursive macro only when they come to it.
THEOREM ExpanderImplementsFile == Spec => MeansFile
<1> DEFINE NoCrash == status # "crash"
<1>1. Init => Midway /\ File!Init /\ NoCrash
  BY DEF Init, Midway, File!Init, Blank, File!Blank, Line, File!Line
<1>2. Inv /\ Inv' /\ NoCrash /\ Midway /\ [Next]_vars
        => Midway' /\ NoCrash' /\ [File!Next]_File!vars
  <2> SUFFICES ASSUME Inv, Inv', NoCrash, Midway, [Next]_vars
               PROVE  Midway' /\ NoCrash' /\ [File!Next]_File!vars
    OBVIOUS
  <2>0. status' # "crash"
    BY NoCrashStep
  <2>1. CASE ReadLine
    BY <2>0, <2>1, ReadsLine DEF File!Next
  <2>2. CASE FeedLine
    BY <2>0, <2>2, FeedsLine
  <2>3. CASE FeedBodyLine
    BY <2>0, <2>3, FeedsBodyLine
  <2>4. CASE LeaveExpand
    BY <2>0, <2>4, LeavesExpand
  <2>5. CASE Finish
    BY <2>0, <2>5, Finishes DEF File!Next
  <2>6. CASE UNCHANGED vars
    <3>1. UNCHANGED <<line, status, macros_, current_, defining_, stack, written, base>>
      BY <2>6 DEF vars
    <3>2. Good' = Good /\ AllPieces' = AllPieces
      BY <3>1, MacrosShape, SameGood
    <3>3. Midway'
      BY <3>1, <3>2 DEF Midway
    <3>. QED  BY <2>0, <3>1, <3>3 DEF File!vars
  <2>. QED  BY <2>1, <2>2, <2>3, <2>4, <2>5, <2>6 DEF Next, Exited
<1>. QED  BY <1>1, <1>2, InvHolds, PTL DEF Spec, MeansFile, File!Spec
=============================================================================
