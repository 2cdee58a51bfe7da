------------------------------- MODULE MCPage -------------------------------
(***************************************************************************)
(* What is read off a page, on small instances: a chat's log, with one     *)
(* payload of each shape that entry, join, amend and passages tell apart;  *)
(* the console's list of chats; and the marking of a text.  They share no  *)
(* state, so a behaviour is one of them and the others stand still.        *)
(***************************************************************************)
EXTENDS EventLog, Survey, Marked, TLC

VARIABLE part  \* which of the three moves

ASSUME PayloadsAreEvents == PayloadsOK

log == vars

LogPayloads ==
  {Chunk("agent", <<line>>) : line \in LineKinds \ {"fence", "item"}}
    \cup {Chunk("thought", <<"words">>), Chunk("agent", <<>>),
          Chunk("agent", <<"fence", "words">>), Chunk("agent", <<"item", "fence">>),
          Event("turn", None, <<"fence", "item">>, None, None, None),
          Plain("notice"), Plain("unknown"),
          Tool("t1", "grep", None), Tool("t1", None, "done"),
          Tool(None, "grep", None)}

-----------------------------------------------------------------------------
PageInit ==
  /\ part \in {"log", "console", "marking"}
  /\ Init
  /\ SurveyInit /\ (part = "console" \/ \A c \in Chats : state[c] = "none")
  /\ IF part = "marking" THEN MarkedInit ELSE origin = "none" /\ wording = <<>>

PageNext ==
  \/ part = "log" /\ Next /\ UNCHANGED <<part, surveyVars, marking>>
  \/ part = "console" /\ SurveyNext /\ UNCHANGED <<part, log, marking>>
  \/ part = "marking" /\ Say /\ UNCHANGED <<part, log, surveyVars>>

PageSpec == PageInit /\ [][PageNext]_<<part, log, surveyVars, marking>>

Symmetry == Permutations(Chats) \cup Permutations(Writers)

=============================================================================
