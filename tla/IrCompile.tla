------------------------------ MODULE IrCompile ------------------------------
(***************************************************************************)
(* The macro expander of ircompile (ircompile.cpp, class Compiler and      *)
(* main).  feed and expand call each other: a use feeds the lines of the   *)
(* macro's body back, one by one, through the same members that hold the   *)
(* state of the file's own lines.  One step feeds one line.                *)
(***************************************************************************)
EXTENDS Integers, Sequences, FiniteSets

CONSTANTS
  Labels,         \* labels of macros
  NoLabel,        \* the empty label
  Instructions,   \* lines that compile_line accepts
  MaxBody,        \* bound: lines of a macro
  MaxWritten,     \* bound: nothing is read once so many instructions are written
  StackLimit      \* nested calls of expand that the C++ stack has room for

ASSUME LabelsAssumption == NoLabel \notin Labels /\ IsFiniteSet(Labels)

\* The C++ stack is deeper than a chain of different labels.
ASSUME LimitAssumption == StackLimit \in Nat /\ StackLimit > Cardinality(Labels)

VARIABLES
  line,       \* main: the line of the file
  status,     \* main: "reading", "busy" with the line, or how it exited
  macros_,    \* Compiler::macros_
  active_,    \* Compiler::active_, the labels being expanded
  current_,   \* Compiler::current_, the label last defined
  defining_,  \* Compiler::defining_
  stack,      \* the calls of expand, innermost last: label, body, line it is at
  written,    \* the instructions given to the IRFileWriter
  base        \* history: how many of them were there before this line

vars == <<line, status, macros_, active_, current_, defining_, stack, written, base>>

Line(op, arg) == [op |-> op, arg |-> arg]

End   == Line("end", NoLabel)
Blank == Line("blank", NoLabel)
Bad   == Line("bad", NoLabel)

Lines ==
  {Line(op, l) : op \in {"def", "use"}, l \in Labels \cup {NoLabel}}
    \cup {Line("ins", i) : i \in Instructions} \cup {End, Blank, Bad}

Top == stack[Len(stack)]

Frame(l, body) == [label |-> l, body |-> body, at |-> 1]

\* The caller of feed goes on: main with the next line, expand with the line
\* after this one.
Advanced(calls) ==
  IF calls = <<>> THEN calls ELSE [calls EXCEPT ![Len(calls)].at = @ + 1]

FedWith(calls) ==
  /\ stack' = calls
  /\ status' = IF calls = <<>> THEN "reading" ELSE "busy"

\* An exception leaves feed and expand as they are; main reports it and exits.
Throw ==
  /\ status' = "error"
  /\ UNCHANGED <<macros_, active_, current_, defining_, stack, written>>

-----------------------------------------------------------------------------
(* feed.                                                                   *)

Collect(ln) ==
  /\ macros_' = [macros_ EXCEPT ![current_] = Append(@, ln)]
  /\ FedWith(Advanced(stack))
  /\ UNCHANGED <<active_, current_, defining_, written>>

\* Mutant of InDefinition: a definition may be opened inside another one.
InDefinitionNested(ln) ==
  IF ln.op = "end"
    THEN /\ defining_' = FALSE
         /\ FedWith(Advanced(stack))
         /\ UNCHANGED <<macros_, active_, current_, written>>
    ELSE Collect(ln)

\* A line of the macro being defined; it is not looked at unless it is a def
\* or an end.
InDefinition(ln) ==
  CASE ln.op = "end" ->
         /\ defining_' = FALSE
         /\ FedWith(Advanced(stack))
         /\ UNCHANGED <<macros_, active_, current_, written>>
    [] ln.op = "def" -> Throw
    [] OTHER -> Collect(ln)

\* Mutant of Started: a second definition of a label is added to the first.
StartedAgain(l) ==
  [m \in DOMAIN macros_ \cup {l} |-> IF m \in DOMAIN macros_ THEN macros_[m] ELSE <<>>]

Started(l) ==
  [m \in DOMAIN macros_ \cup {l} |-> IF m = l THEN <<>> ELSE macros_[m]]

Defining(l) ==
  /\ current_' = l
  /\ macros_' = Started(l)
  /\ defining_' = TRUE
  /\ FedWith(Advanced(stack))
  /\ UNCHANGED <<active_, written>>

\* Mutant of Define: the name may be missing.
DefineUnnamed(ln) == Defining(ln.arg)

\* A definition of a label that has one starts from an empty body.
Define(ln) == IF ln.arg = NoLabel THEN Throw ELSE Defining(ln.arg)

\* Mutant of InUse: only a macro that uses itself is noticed.
InUseDirectly(l) == stack # <<>> /\ Top.label = l

InUse(l) == l \in active_

\* The use of a macro: expand copies the body and feeds it. Recursion that goes
\* unnoticed would exhaust the C++ stack.
Expand(l) ==
  IF l \notin DOMAIN macros_ \/ InUse(l)
    THEN Throw
    ELSE /\ active_' = active_ \cup {l}
         /\ stack' = Append(stack, Frame(l, macros_[l]))
         /\ status' = IF Len(stack) = StackLimit THEN "crash" ELSE "busy"
         /\ UNCHANGED <<macros_, current_, defining_, written>>

\* compile_line: an end outside a definition is no instruction.
CompileLine(ln) ==
  IF ln.op \in {"bad", "end"}
    THEN Throw
    ELSE /\ written' = IF ln.op = "ins" THEN Append(written, ln.arg) ELSE written
         /\ FedWith(Advanced(stack))
         /\ UNCHANGED <<macros_, active_, current_, defining_>>

Feed(ln) ==
  CASE defining_ -> InDefinition(ln)
    [] ~defining_ /\ ln.op = "def" -> Define(ln)
    [] ~defining_ /\ ln.op = "use" -> Expand(ln.arg)
    [] OTHER -> CompileLine(ln)

-----------------------------------------------------------------------------
(* The steps.                                                              *)

\* std::getline in main. The bounds end files that are too long.
ReadLine ==
  /\ status = "reading"
  /\ Len(written) < MaxWritten
  /\ line' \in Lines
  /\ defining_ /\ Len(macros_[current_]) = MaxBody => line'.op \in {"def", "end"}
  /\ status' = "busy"
  /\ base' = Len(written)
  /\ UNCHANGED <<macros_, active_, current_, defining_, stack, written>>

FeedLine ==
  /\ status = "busy" /\ stack = <<>>
  /\ Feed(line)
  /\ UNCHANGED <<line, base>>

Expanding == status = "busy" /\ stack # <<>>

FeedBodyLine ==
  /\ Expanding /\ Top.at <= Len(Top.body)
  /\ Feed(Top.body[Top.at])
  /\ UNCHANGED <<line, base>>

\* Mutant of LeaveExpand: the label stays active.
LeaveExpandActive ==
  /\ Expanding /\ Top.at > Len(Top.body)
  /\ FedWith(Advanced(SubSeq(stack, 1, Len(stack) - 1)))
  /\ UNCHANGED <<line, macros_, active_, current_, defining_, written, base>>

\* The last line of a body has been fed: expand returns.
LeaveExpand ==
  /\ Expanding /\ Top.at > Len(Top.body)
  /\ active_' = active_ \ {Top.label}
  /\ FedWith(Advanced(SubSeq(stack, 1, Len(stack) - 1)))
  /\ UNCHANGED <<line, macros_, current_, defining_, written, base>>

\* finish.
Finish ==
  /\ status = "reading"
  /\ status' = IF defining_ THEN "error" ELSE "done"
  /\ UNCHANGED <<line, macros_, active_, current_, defining_, stack, written, base>>

Exited == status \in {"done", "error", "crash"} /\ UNCHANGED vars

Init ==
  /\ line = Blank
  /\ status = "reading"
  /\ macros_ = <<>>
  /\ active_ = {}
  /\ current_ = NoLabel
  /\ defining_ = FALSE
  /\ stack = <<>>
  /\ written = <<>>
  /\ base = 0

Next == ReadLine \/ FeedLine \/ FeedBodyLine \/ LeaveExpand \/ Finish \/ Exited

\* The program goes on while it has something to do. That a further line of the
\* file is read is not assumed.
Fairness == WF_vars(FeedLine) /\ WF_vars(FeedBodyLine) /\ WF_vars(LeaveExpand)

Spec == Init /\ [][Next]_vars /\ Fairness

-----------------------------------------------------------------------------
TypeOK ==
  /\ line \in Lines
  /\ status \in {"reading", "busy", "done", "error", "crash"}
  /\ DOMAIN macros_ \subseteq Labels
  /\ \A l \in DOMAIN macros_ : macros_[l] \in Seq(Lines)
  /\ active_ \subseteq Labels
  /\ current_ \in Labels \cup {NoLabel} /\ (defining_ => current_ \in DOMAIN macros_)
  /\ defining_ \in BOOLEAN
  /\ \A i \in 1..Len(stack) : stack[i].label \in Labels /\ stack[i].at \in Nat
  /\ written \in Seq(Instructions) /\ base \in 0..Len(written)

\* ircompile.cpp:346, "recursive use of label": active_ has the labels of the calls
\* of expand in progress, each once. Nothing but the two ends of expand may
\* touch it, so that a label is refused if and only if it is being expanded.
ActiveIsStack ==
  /\ active_ = {stack[i].label : i \in 1..Len(stack)}
  /\ \A i, j \in 1..Len(stack) : stack[i].label = stack[j].label => i = j

\* ircompile.cpp:348, "Copy the body so expanding it can't be invalidated by new
\* definitions": while macros are expanded no definition is opened or changed,
\* and the copies stay equal to the macros they were made of.
ExpansionDefinesNothing ==
  stack # <<>> =>
    ~defining_ /\ \A i \in 1..Len(stack) : stack[i].body = macros_[stack[i].label]

\* ircompile.cpp:345, "active_.insert(label).second": because recursion is noticed,
\* directly or through other macros, feed and expand never call each other more
\* deeply than there are labels, which the C++ stack has room for.
StackSuffices == status # "crash" /\ Len(stack) <= Cardinality(Labels)

\* Every line of the file is dealt with: main gets back to reading or exits with a
\* result, whatever macros lead to.
EveryLineEnds == status = "busy" ~> status \in {"reading", "done", "error"}

\* The file means what IrFile says: a use appears to write the text of the macro
\* in one step, and a file is refused if and only if IrFile refuses it.
File == INSTANCE IrFile WITH
          macros  <- macros_,
          open    <- IF defining_ THEN current_ ELSE NoLabel,
          written <- IF status = "busy" THEN SubSeq(written, 1, base) ELSE written

\* The refinement itself (see File).
MeansFile == File!Spec
=============================================================================
