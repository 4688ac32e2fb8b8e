------------------------------- MODULE IrFile -------------------------------
(***************************************************************************)
(* What an IR file with macros means: the specification that the macro     *)
(* expander of ircompile implements.  A line of the file is dealt with in  *)
(* one step.  The use of a macro writes the text of the macro at once, or  *)
(* refuses the file; which of the two depends on the definitions there are *)
(* at that moment, and not on those there were when a body was collected.  *)
(***************************************************************************)
EXTENDS Integers, Sequences, SequencesExt, FiniteSets

CONSTANTS
  Labels,         \* labels of macros
  NoLabel,        \* the empty label
  Instructions    \* lines that compile_line accepts

VARIABLES
  line,      \* the line of the file being dealt with
  status,    \* "reading" the next line, "busy" with one, "done", "error"
  macros,    \* the definitions: label -> lines of the body
  open,      \* the label being defined, or NoLabel
  written    \* the instructions compiled so far

vars == <<line, status, macros, open, written>>

-----------------------------------------------------------------------------
(* Lines, as far as the expander tells them apart.  "bad" is a line that   *)
(* compile_line throws at, "blank" is empty or a comment.                  *)

Line(op, arg) == [op |-> op, arg |-> arg]

End   == Line("end", NoLabel)
Blank == Line("blank", NoLabel)
Bad   == Line("bad", NoLabel)

DefLines == {Line("def", l) : l \in Labels \cup {NoLabel}}
UseLines == {Line("use", l) : l \in Labels \cup {NoLabel}}
InsLines == {Line("ins", i) : i \in Instructions}

Lines == DefLines \cup UseLines \cup InsLines \cup {End, Blank, Bad}

Defined == DOMAIN macros

\* Define label l with this body, or define it again.
WithMacro(l, body) ==
  [m \in Defined \cup {l} |-> IF m = l THEN body ELSE macros[m]]

-----------------------------------------------------------------------------
(* The meaning of a use.                                                   *)

BodyOf(l) == IF l \in Defined THEN macros[l] ELSE <<>>

UsedBy(l) == {ln.arg : ln \in {x \in Range(BodyOf(l)) : x.op = "use"}}

\* What a use may name.
Targets == Labels \cup {NoLabel}

\* The labels that those of L lead to, themselves included: they are in every set
\* of labels that has those of L and what its own labels use.
Closure(L) ==
  {l \in Targets :
     \A S \in SUBSET Targets :
       L \subseteq S /\ (\A m \in S : UsedBy(m) \subseteq S) => l \in S}

\* Everything l leads to is defined, does not lead to itself and has no line
\* that is refused.
Expandable(l) ==
  \A m \in Closure({l}) :
    /\ m \in Defined
    /\ m \notin Closure(UsedBy(m))
    /\ \A ln \in Range(BodyOf(m)) : ln.op \in {"ins", "use", "blank"}

\* What a line writes, given the texts of the macros.
Piece(ln, texts) ==
  CASE ln.op = "ins" -> <<ln.arg>>
    [] ln.op = "use" -> texts[ln.arg]
    [] OTHER         -> <<>>

Pieces(l, texts) == [i \in 1..Len(BodyOf(l)) |-> Piece(BodyOf(l)[i], texts)]

\* The texts of the macros whose uses are nested less than n deep.
Texts[n \in 0..Cardinality(Labels)] ==
  [l \in Targets |-> IF n = 0 THEN <<>> ELSE FlattenSeq(Pieces(l, Texts[n - 1]))]

\* The text of an expandable macro: its lines in order, a use replaced by the
\* text of what it uses. A chain of uses is no longer than there are labels.
Text(l) == Texts[Cardinality(Labels)][l]

-----------------------------------------------------------------------------
Init ==
  /\ line = Blank
  /\ status = "reading"
  /\ macros = <<>>
  /\ open = NoLabel
  /\ written = <<>>

Read ==
  /\ status = "reading"
  /\ line' \in Lines
  /\ status' = "busy"
  /\ UNCHANGED <<macros, open, written>>

Dealt == status = "busy" /\ status' = "reading" /\ UNCHANGED line

\* A line inside a definition is collected as it is.
Collect ==
  /\ Dealt
  /\ open # NoLabel /\ line.op \notin {"def", "end"}
  /\ macros' = WithMacro(open, Append(macros[open], line))
  /\ UNCHANGED <<open, written>>

Close ==
  /\ Dealt
  /\ open # NoLabel /\ line.op = "end"
  /\ open' = NoLabel
  /\ UNCHANGED <<macros, written>>

Define ==
  /\ Dealt
  /\ open = NoLabel /\ line.op = "def" /\ line.arg # NoLabel
  /\ open' = line.arg
  /\ macros' = WithMacro(line.arg, <<>>)
  /\ UNCHANGED written

Use ==
  /\ Dealt
  /\ open = NoLabel /\ line.op = "use" /\ Expandable(line.arg)
  /\ written' = written \o Text(line.arg)
  /\ UNCHANGED <<macros, open>>

Write ==
  /\ Dealt
  /\ open = NoLabel /\ line.op \in {"ins", "blank"}
  /\ written' = IF line.op = "ins" THEN Append(written, line.arg) ELSE written
  /\ UNCHANGED <<macros, open>>

Acceptable ==
  IF open # NoLabel
    THEN line.op # "def"
    ELSE \/ line.op \in {"ins", "blank"}
         \/ line.op = "def" /\ line.arg # NoLabel
         \/ line.op = "use" /\ Expandable(line.arg)

\* A file is refused for a line that is not acceptable; part of that line's text
\* may have been written.
Refuse ==
  /\ status = "busy" /\ ~Acceptable
  /\ status' = "error"
  /\ IsPrefix(written, written')
  /\ UNCHANGED <<line, macros, open>>

\* The end of the file, where a definition may not be open.
Finish ==
  /\ status = "reading"
  /\ status' = IF open = NoLabel THEN "done" ELSE "error"
  /\ UNCHANGED <<line, macros, open, written>>

Next == Read \/ Collect \/ Close \/ Define \/ Use \/ Write \/ Refuse \/ Finish

Spec == Init /\ [][Next]_vars
=============================================================================
