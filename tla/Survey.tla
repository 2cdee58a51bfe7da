------------------------------- MODULE Survey -------------------------------
(***************************************************************************)
(* What the console shows of the chats (src/chats.rs, survey_or_unknown;   *)
(* src/ui/console.rs, chat_list and status_picture): the daemon is asked   *)
(* which chats have a container, then the manifests are read one by one,   *)
(* while the chats go on being created, woken, parked, archived and        *)
(* revived.                                                                *)
(*                                                                         *)
(* A chat's own moves are only as ordered as the lifecycle orders them: an *)
(* archive is written before the container goes, a revival before one      *)
(* comes up, and a container comes up for a chat that is open, or that was *)
(* when its creation asked for one.                                        *)
(***************************************************************************)
EXTENDS Naturals, FiniteSets

CONSTANTS Chats,
          SurveyFaults,  \* "daemon" gives no answer, "garble" of a manifest
          MaxMoves       \* bound: how often the chats move in one pass

VARIABLES state,   \* per chat, its manifest: "none", "open", "archived", "bad"
          boxes,   \* the chats whose container is up
          asked,   \* the creations that have asked for a container
          pass,    \* what the pass under way has read
          shown,   \* the page the last pass came to
          seen,    \* auxiliary: every status a chat had while the pass ran
          revived, \* auxiliary: the chats brought back while it ran
          moves

surveyVars == <<state, boxes, asked, pass, shown, seen, revived, moves>>

\* runtime_status.
Statuses == {"Live", "Parked", "Archived"}

RuntimeStatus(manifest, live, c) ==
  CASE manifest = "archived" -> "Archived"
    [] manifest = "open" /\ c \in live -> "Live"
    [] OTHER -> "Parked"

\* What is so of a chat right now: the headings it may stand under.
Truth(c) == IF state[c] \in {"none", "bad"} THEN {}
            ELSE IF state[c] = "archived" THEN {"Archived"}
            ELSE {"Open", IF c \in boxes THEN "Live" ELSE "Parked"}

NoPass == [at |-> "idle", live |-> {}, known |-> TRUE, left |-> {}, rows |-> {}]
Nothing == [known |-> TRUE, headings |-> {}, pool |-> {}, parked |-> 0]
Broken == [Nothing EXCEPT !.known = FALSE]

SurveyInit ==
  /\ state \in [Chats -> {"none", "open", "archived"}]
  /\ boxes \in SUBSET {c \in Chats : state[c] = "open"}
  /\ asked = {} /\ pass = NoPass /\ shown = Nothing
  /\ seen = [c \in Chats |-> {}] /\ revived = {} /\ moves = 0

-----------------------------------------------------------------------------
(* The chats move on.                                                      *)

\* Every status a chat passes through while the pass runs was true of it.
Noted == seen' = [c \in Chats |-> seen[c] \cup Truth(c)']

Moved == /\ pass.at # "idle" /\ moves < MaxMoves /\ moves' = moves + 1
         /\ Noted /\ UNCHANGED <<pass, shown>>

Becomes(c, next) == state' = [state EXCEPT ![c] = next]

Create(c) == /\ state[c] = "none" /\ Becomes(c, "open")
             /\ asked' = asked \cup {c}
             /\ UNCHANGED <<boxes, revived>> /\ Moved

Spawn(c) == /\ c \notin boxes /\ (state[c] = "open" \/ c \in asked)
            /\ boxes' = boxes \cup {c} /\ asked' = asked \ {c}
            /\ UNCHANGED <<state, revived>> /\ Moved

\* A capping, an archive's release, or an exit of its own.
LetGo(c) == /\ c \in boxes /\ boxes' = boxes \ {c}
            /\ UNCHANGED <<state, asked, revived>> /\ Moved

Archive(c) == /\ state[c] = "open" /\ Becomes(c, "archived")
              /\ UNCHANGED <<boxes, asked, revived>> /\ Moved

Revive(c) == /\ state[c] = "archived" /\ Becomes(c, "open")
             /\ revived' = revived \cup {c}
             /\ UNCHANGED <<boxes, asked>> /\ Moved

Garble(c) == /\ "garble" \in SurveyFaults /\ state[c] \in {"open", "archived"}
             /\ Becomes(c, "bad")
             /\ UNCHANGED <<boxes, asked, revived>> /\ Moved

-----------------------------------------------------------------------------
(* survey_or_unknown.                                                      *)

Begin ==
  /\ pass.at = "idle" /\ pass' = [NoPass EXCEPT !.at = "listing"]
  /\ seen' = [c \in Chats |-> Truth(c)] /\ revived' = {} /\ moves' = 0
  /\ UNCHANGED <<state, boxes, asked, shown>>

\* live_chat_ids: the running containers alone; a daemon that gives no answer
\* costs the live and parked headings and not the pass (issue #25).
List ==
  /\ pass.at = "listing"
  /\ \/ pass' = [pass EXCEPT !.at = "scanning", !.live = boxes]
     \/ /\ "daemon" \in SurveyFaults
        /\ pass' = [pass EXCEPT !.at = "scanning", !.known = FALSE]
  /\ UNCHANGED <<state, boxes, asked, shown, seen, revived, moves>>

\* scan: the directory, then each manifest.  A chat published meanwhile may
\* be in the listing or not.
Scan ==
  /\ pass.at = "scanning"
  /\ \E missed \in SUBSET {c \in Chats : state[c] = "none"} :
        pass' = [pass EXCEPT !.at = "reading", !.left = Chats \ missed]
  /\ UNCHANGED <<state, boxes, asked, shown, seen, revived, moves>>

Read ==
  /\ pass.at = "reading"
  /\ \E c \in pass.left :
       LET row == <<c, RuntimeStatus(state[c], pass.live, c)>>
       IN  CASE state[c] = "none" ->
                  pass' = [pass EXCEPT !.left = @ \ {c}] /\ UNCHANGED shown
             [] state[c] = "bad" -> pass' = NoPass /\ shown' = Broken
             [] OTHER -> /\ pass' = [pass EXCEPT !.left = @ \ {c},
                                                !.rows = @ \cup {row}]
                         /\ UNCHANGED shown
  /\ UNCHANGED <<state, boxes, asked, seen, revived, moves>>

-----------------------------------------------------------------------------
(* chat_list and status_of.                                                *)

Under(status, rows) == {<<status, row[1]>> : row \in {r \in rows : r[2] = status}}

GroupedList(rows) == UNION {Under(status, rows) : status \in Statuses}

\* The archived where they always are, the rest under one heading.
UngroupedList(rows) ==
  Under("Archived", rows)
    \cup {<<"Open", row[1]>> : row \in {r \in rows : r[2] # "Archived"}}

\* Slip: the list is grouped by what little is known.
ChatListGrouped(rows, known) == GroupedList(rows)

ChatList(rows, known) == IF known THEN GroupedList(rows) ELSE UngroupedList(rows)

\* The counts of the status line, which says none of them without an answer.
StatusOf(rows, known) ==
  [known |-> known, headings |-> ChatList(rows, known),
   pool |-> IF known THEN {r[1] : r \in {q \in rows : q[2] = "Live"}} ELSE {},
   parked |-> IF known THEN Cardinality({r \in rows : r[2] = "Parked"}) ELSE 0]

Show ==
  /\ pass.at = "reading" /\ pass.left = {}
  /\ shown' = StatusOf(pass.rows, pass.known) /\ pass' = NoPass
  /\ UNCHANGED <<state, boxes, asked, seen, revived, moves>>

SurveyNext ==
  \/ \E c \in Chats : \/ Create(c) \/ Spawn(c) \/ LetGo(c)
                      \/ Archive(c) \/ Revive(c) \/ Garble(c)
  \/ Begin \/ List \/ Scan \/ Read \/ Show

SurveySpec == SurveyInit /\ [][SurveyNext]_surveyVars

-----------------------------------------------------------------------------
\* Though the containers and the manifests are read at different times, every
\* chat is shown under a heading that was true of it at some instant of the
\* pass, and the pool names only chats that were live then; but for a chat
\* brought back out of the archive meanwhile, which may be told of by the
\* container it was archived with (runtime_status, chat_list, issue #25).
ShownWasTrue ==
  pass.at = "idle" =>
    /\ \A h \in shown.headings : h[2] \in revived \/ h[1] \in seen[h[2]]
    /\ \A c \in shown.pool : c \in revived \/ "Live" \in seen[c]

=============================================================================
