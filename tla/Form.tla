--------------------------------- MODULE Form --------------------------------
(***************************************************************************)
(* The form a chat is asked for with: its fields, typed an atom at a time  *)
(* and typed afresh, and what becomes of what stands in them (Names.tla).  *)
(***************************************************************************)
EXTENDS Naturals, Sequences

CONSTANT MaxText  \* bound: how many atoms are typed, per field

VARIABLES field, text

form == <<field, text>>

N == INSTANCE Names

Typed ==
  [slug |-> {"name", "Name", "1", "-", " ", "_", "kelvin"},
   repo |-> {"https://", "github.com", "GITHUB.COM", "name", "1", ".", ":",
             "/", "@", "#", "-", " "},
   env |-> {"name", "1", "=", "#", " ", "return", "newline",
            "CLAUDE_CODE_OAUTH_TOKEN", "GH_TOKEN"},
   none |-> {}]

\* Two lines of an environment take an atom more.
Longest == IF field = "env" THEN MaxText + 1 ELSE MaxText

FormInit == field \in {"slug", "repo", "env"} /\ text = <<>>

Type ==
  /\ \/ Len(text) < Longest /\ \E x \in Typed[field] : text' = Append(text, x)
     \/ Len(text) = Longest /\ text' = <<>>
  /\ UNCHANGED field

FormSpec == FormInit /\ [][Type]_form

-----------------------------------------------------------------------------
\* What the form says beside its fields is what becomes of them: the branch
\* it shows is the one that is cut, blank lines and comments are ignored, and
\* every other line reaches the container unless the core refused it (ui's
\* new_chat_form over slugify, parse_env and spawn_env).
TheFormKeepsItsWord ==
  /\ field = "slug" => N!SlugsNameBranches(text)
  /\ field = "env" => N!FormEnvReachesTheAgent(text)

\* Where the operator's GitHub token goes, for every repository that is typed:
\* to github.com and nowhere else (Remotes::origin, Origin).
TheTokenGoesHome == field = "repo" => N!TheTokenGoesHome(text)

=============================================================================
