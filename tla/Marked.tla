------------------------------- MODULE Marked -------------------------------
(***************************************************************************)
(* A text that the page marks up (Marking.tla): what a tool printed, or a  *)
(* line of prose, said an atom at a time and said afresh.                  *)
(***************************************************************************)
EXTENDS Naturals, Sequences

CONSTANT MaxAtoms  \* bound: how many atoms a text is built of

VARIABLES origin,  \* what a text is: a tool's output or a line of prose
          wording

marking == <<origin, wording>>

M == INSTANCE Marking

\* Prose is marked before it is escaped, so a quote is a character of it.
Atoms == [tool |-> {"a", "1", ".", ",", "-", "+", " ", "newline", "quote",
                    "link", "path", "line", "check"},
          prose |-> {"a", "backtick", " ", "link"},
          none |-> {}]

MarkedInit == origin \in {"tool", "prose"} /\ wording = <<>>

Say ==
  /\ \/ Len(wording) < MaxAtoms /\ \E x \in Atoms[origin] : wording' = Append(wording, x)
     \/ Len(wording) = MaxAtoms /\ wording' = <<>>
  /\ UNCHANGED origin

MarkedSpec == MarkedInit /\ [][Say]_marking

-----------------------------------------------------------------------------
\* A text is on the page whole and in order, with every escaped character in
\* one piece, however it is marked (colorize, prose_line_html).
MarkingKeepsTheText ==
  /\ origin = "tool" => M!MarkingKeepsTheText(wording)
  /\ origin = "prose" => M!ProseKeepsItsWords(wording)

=============================================================================
