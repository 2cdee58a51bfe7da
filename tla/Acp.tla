--------------------------------- MODULE Acp ---------------------------------
(***************************************************************************)
(* One chat's conversation with its adapter: the numbered calls of         *)
(* src/acp/mod.rs, the reconnect ladder of src/resume.rs, and the turns    *)
(* and wakes of src/chats.rs that drive both.                              *)
(*                                                                         *)
(* The pipe is a queue of lines.  What a line says is kept only as far as  *)
(* the client tells lines apart: its kind, and the number it carries (the  *)
(* id of a request or an answer, the turn an update is about).  Whoever    *)
(* writes into the pipe is the environment: an adapter that streams,       *)
(* asks, answers, refuses, replays or dies, and a process that garbles.    *)
(***************************************************************************)
EXTENDS Naturals, Sequences, FiniteSets

CONSTANTS Tolerance,  \* GARBLE_TOLERANCE
          MaxTurns,   \* bound: prompts put to the chat
          MaxSaid,    \* bound: lines the adapter says of its own accord
          MaxUnread,  \* bound: lines in the pipe
          Ids,        \* the numbers the adapter gives its own requests
          Faults      \* what may happen: see AcpOK

ASSUME AcpOK == /\ Tolerance \in Nat \ {0}
                /\ {MaxTurns, MaxSaid, MaxUnread} \subseteq Nat
                /\ Ids \subseteq Nat
                /\ Faults \subseteq {"pipe", "store", "die", "hangup", "crash"}

VARIABLES at,       \* where the client is; "off" without a connection
          call,     \* the method of the call in hand
          outcome,  \* what the last call came to
          nextId,   \* Calls::next_id
          garble,   \* lines in a row that carried no message
          inbox,    \* the adapter's stdout, unread
          due,      \* our calls the adapter has not answered
          owing,    \* the adapter's requests we have not answered
          alive,    \* the adapter runs
          replaying,\* it has more of a transcript to replay
          session,  \* how long the log was when this session began
          recorded, \* the same of the session the manifest names
          turns,    \* prompts put so far
          said,     \* lines said so far
          log,      \* events.jsonl
          astray    \* auxiliary: ways in which the log may have come apart

wire == <<inbox, due, owing, alive, replaying, said>>
mind == <<session, recorded>>
vars == <<at, call, outcome, nextId, garble, wire, mind, turns, log, astray>>

Rungs == {"resume", "load", "open"}
Methods == Rungs \cup {"initialize", "prompt"}
Line(kind, n) == [kind |-> kind, n |-> n]

Init == /\ at = "off" /\ call = "none" /\ outcome = "none"
        /\ nextId = 1 /\ garble = 0
        /\ inbox = <<>> /\ due = {} /\ owing = {}
        /\ alive = FALSE /\ replaying = FALSE
        /\ session = 0 /\ recorded = 0
        /\ turns = 0 /\ said = 0 /\ log = <<>> /\ astray = {}

-----------------------------------------------------------------------------
(* What a line is to the client.                                           *)

\* protocol_message: a line that parses and has a method or an id.
CarriesMessage(line) == line.kind \notin {"blank", "garble"}
HasMethod(line) ==
  line.kind \in {"update", "replay", "foreign", "ask", "request"}
IsAnswer(line, id) == line.kind \in {"answer", "refusal"} /\ line.n = id

\* owed: what a message with an id is answered with, whatever it asks.  An
\* answer has an id as well; only read_past puts one to owed.
IsOwed(line) == line.kind \in {"ask", "request", "answer", "refusal"}
\* Slip: only a permission ask is answered.
AnsweredAsk(line) == owing \ (IF line.kind = "ask" THEN {line.n} ELSE {})

Answered(line) == owing \ (IF line.kind \in {"ask", "request"}
                             THEN {line.n} ELSE {})

\* worth_recording: this session's updates, and its permission asks.
IsWorthRecording(line) == line.kind \in {"update", "replay", "ask"}

MayFail(fault) == fault \in Faults
Appended(entry) == log' = Append(log, entry)

\* note: a line of the core's own, and only a warning where it cannot be put.
Noted(entry) == \/ Appended(entry)
                \/ MayFail("store") /\ UNCHANGED log

-----------------------------------------------------------------------------
(* One call: call_within, say, answer_to.                                  *)

Tell(result) == /\ at' = "told" /\ outcome' = result

\* say: the request is in the adapter's hands, or the pipe would not take it.
Send ==
  /\ at = "send"
  /\ nextId' = nextId + 1
  /\ garble' = 0
  /\ \/ /\ alive
        /\ at' = "wait"
        /\ due' = due \cup {[id |-> nextId, method |-> call, turn |-> turns]}
        /\ replaying' = (replaying \/ call = "load")
        /\ UNCHANGED outcome
     \/ /\ MayFail("pipe") \/ ~alive
        /\ Tell("broken")
        /\ UNCHANGED <<due, replaying>>
  /\ UNCHANGED <<call, inbox, owing, alive, said, mind, turns, log, astray>>

Take == inbox' = Tail(inbox)

ReadPast ==
  /\ at = "wait" /\ inbox # <<>>
  /\ LET line == Head(inbox)
     IN  \/ line.kind = "blank" /\ UNCHANGED garble
         \/ /\ CarriesMessage(line) /\ ~HasMethod(line)
            /\ ~IsAnswer(line, nextId - 1)
            /\ garble' = 0
  /\ Take
  /\ UNCHANGED <<at, call, outcome, nextId, due, owing, alive, replaying,
                 said, mind, turns, log, astray>>

\* Slip: the lines are never counted.
ReadGarbleForever ==
  /\ at = "wait" /\ inbox # <<>> /\ Head(inbox).kind = "garble"
  /\ Take
  /\ UNCHANGED <<at, call, outcome, nextId, garble, due, owing, alive,
                 replaying, said, mind, turns, log, astray>>

ReadGarble ==
  /\ at = "wait" /\ inbox # <<>> /\ Head(inbox).kind = "garble"
  /\ garble' = garble + 1
  /\ IF garble + 1 >= Tolerance THEN Tell("garbled")
     ELSE UNCHANGED <<at, outcome>>
  /\ Take
  /\ UNCHANGED <<call, nextId, due, owing, alive, replaying, said, mind,
                 turns, log, astray>>

\* overhear first, and a record that cannot be written ends the turn there,
\* before what the line asks is answered.
ReadOwn ==
  /\ at = "wait" /\ inbox # <<>> /\ HasMethod(Head(inbox))
  /\ garble' = 0
  /\ Take
  /\ LET line == Head(inbox)
         kept == call = "prompt" /\ IsWorthRecording(line)
     IN  \/ /\ IF kept THEN Appended(line) ELSE UNCHANGED log
            /\ \/ /\ owing' = Answered(line)
                  /\ UNCHANGED <<at, outcome>>
               \/ /\ IsOwed(line) /\ (MayFail("pipe") \/ ~alive)
                  /\ Tell("broken")
                  /\ UNCHANGED owing
            /\ UNCHANGED astray
         \/ /\ kept /\ MayFail("store")
            /\ Tell("unrecorded")
            /\ astray' = astray \cup {"unrecorded"}
            /\ UNCHANGED <<owing, log>>
  /\ UNCHANGED <<call, nextId, due, alive, replaying, said, mind, turns>>

\* Slip: what trails the answer to a load is left in the pipe.
ReadAnswerUndrained ==
  /\ at = "wait" /\ inbox # <<>>
  /\ IsAnswer(Head(inbox), nextId - 1)
  /\ garble' = 0
  /\ Take
  /\ Tell(IF Head(inbox).kind = "answer" THEN "ok" ELSE "refused")
  /\ session' = IF call = "open" THEN Len(log) ELSE session
  /\ UNCHANGED <<call, nextId, due, owing, alive, replaying, said, recorded,
                 turns, log, astray>>

\* Slip: the id alone is taken to say whose answer it is.
ReadAnswerById ==
  /\ at = "wait" /\ inbox # <<>>
  /\ Head(inbox).kind \in {"answer", "refusal", "ask", "request"}
  /\ Head(inbox).n = nextId - 1
  /\ garble' = 0
  /\ Take
  /\ Tell(IF Head(inbox).kind = "refusal" THEN "refused" ELSE "ok")
  /\ session' = IF call = "open" THEN Len(log) ELSE session
  /\ UNCHANGED <<call, nextId, due, owing, alive, replaying, said, recorded,
                 turns, log, astray>>

\* The answer to our request, told from the adapter's own requests by having
\* no method.  An answer that opens a session names it, or is unreadable.
ReadAnswer ==
  /\ at = "wait" /\ inbox # <<>>
  /\ IsAnswer(Head(inbox), nextId - 1)
  /\ garble' = 0
  /\ Take
  /\ \/ /\ Head(inbox).kind = "refusal" /\ Tell("refused")
        /\ UNCHANGED session
     \/ /\ Head(inbox).kind = "answer"
        /\ IF call = "load" THEN at' = "drain" /\ UNCHANGED outcome
           ELSE Tell("ok")
        /\ session' = IF call = "open" THEN Len(log) ELSE session
     \/ /\ Head(inbox).kind = "answer" /\ call = "open" /\ Tell("broken")
        /\ UNCHANGED session
  /\ UNCHANGED <<call, nextId, due, owing, alive, replaying, said, recorded,
                 turns, log, astray>>

\* The patience for one line ran out, or the channel was closed.
Silence ==
  /\ at = "wait" /\ inbox = <<>>
  /\ Tell("broken")
  /\ UNCHANGED <<call, nextId, garble, wire, mind, turns, log, astray>>

(* drain and read_past: what trails the answer to a load.                  *)

DrainRead ==
  /\ at = "drain" /\ inbox # <<>>
  /\ Take
  /\ \/ /\ owing' = Answered(Head(inbox))
        /\ UNCHANGED <<at, outcome>>
     \/ /\ IsOwed(Head(inbox)) /\ (MayFail("pipe") \/ ~alive)
        /\ Tell("broken")
        /\ UNCHANGED owing
  /\ UNCHANGED <<call, nextId, garble, due, alive, replaying, said, mind,
                 turns, log, astray>>

\* REPLAY_TAIL of quiet, or REPLAY_LIMIT of anything.  A gap in a replay that
\* is not over reads as its end.
LeaveReplay ==
  /\ Tell("ok")
  /\ astray' = astray \cup (IF replaying \/ inbox # <<>> THEN {"replay"} ELSE {})
  /\ UNCHANGED <<call, nextId, garble, wire, mind, turns, log>>

DrainQuiet == at = "drain" /\ inbox = <<>> /\ alive /\ LeaveReplay
DrainLimit == at = "drain" /\ LeaveReplay

DrainClosed ==
  /\ at = "drain" /\ inbox = <<>> /\ ~alive
  /\ Tell("broken")
  /\ UNCHANGED <<call, nextId, garble, wire, mind, turns, log, astray>>

-----------------------------------------------------------------------------
(* The ladder: resume::after and Chats::climb.                             *)

\* Slip: a session that remembers nothing is prompted like any other.
AfterSilently(rung, attempt) ==
  CASE attempt \in {"broken", "garbled"} -> "giveUp"
    [] rung = "open" /\ attempt = "refused" -> "giveUp"
    [] attempt = "ok" -> "prompt"
    [] rung = "resume" /\ attempt = "refused" -> "load"
    [] rung = "load" /\ attempt = "refused" -> "open"

\* What an attempt at a rung leaves to be done; a rung is named by its call.
After(rung, attempt) ==
  CASE attempt \in {"broken", "garbled"} -> "giveUp"
    [] rung = "open" /\ attempt = "refused" -> "giveUp"
    [] rung \in {"resume", "load"} /\ attempt = "ok" -> "prompt"
    [] rung = "open" /\ attempt = "ok" -> "promptWithoutMemory"
    [] rung = "resume" /\ attempt = "refused" -> "load"
    [] rung = "load" /\ attempt = "refused" -> "open"

Quiet == UNCHANGED <<nextId, garble, wire, turns>>

\* The chat lets go of the pipe: what is in it is read by nobody.
LetGo == /\ at' = "off" /\ call' = "none"
         /\ inbox' = <<>> /\ due' = {} /\ owing' = {}
         /\ alive' = FALSE /\ replaying' = FALSE
         /\ nextId' = 1 /\ garble' = 0 /\ session' = 0

\* wake: a failure is noted, and the connection, if any, is dropped.
Unwoken == /\ LetGo
           /\ outcome' = "none"
           /\ Noted(Line("unwoken", turns))
           /\ UNCHANGED <<said, recorded, turns, astray>>

Greeted ==
  /\ at = "told" /\ call = "initialize"
  /\ \/ /\ outcome = "ok"
        /\ at' = "send" /\ call' = "resume" /\ outcome' = "none"
        /\ session' = recorded
        /\ Quiet /\ UNCHANGED <<recorded, log, astray>>
     \/ outcome # "ok" /\ Unwoken

Climb ==
  /\ at = "told" /\ call \in Rungs
  /\ LET step == After(call, outcome)
     IN  \/ /\ step \in Rungs
            /\ at' = "send" /\ call' = step /\ outcome' = "none"
            /\ Quiet /\ UNCHANGED <<mind, log, astray>>
         \/ /\ step = "prompt"
            /\ at' = "say" /\ call' = "none" /\ outcome' = "none"
            /\ Quiet /\ UNCHANGED <<mind, log, astray>>
         \/ /\ step = "promptWithoutMemory"
            /\ at' = "record" /\ call' = "none" /\ outcome' = "none"
            /\ Quiet /\ UNCHANGED <<mind, log, astray>>
         \/ step = "giveUp" /\ Unwoken

\* woken: a session that forgot everything is written down, then told of.
RecordSession ==
  /\ at = "record"
  /\ \/ /\ recorded' = session /\ at' = "tell"
        /\ UNCHANGED <<call, outcome, nextId, garble, wire, session, turns,
                       log, astray>>
     \/ MayFail("store") /\ Unwoken

TellReset ==
  /\ at = "tell" /\ at' = "say"
  /\ \/ Appended(Line("reset", 0)) /\ UNCHANGED astray
     \/ /\ MayFail("store") /\ UNCHANGED log
        /\ astray' = astray \cup {"untold"}
  /\ UNCHANGED <<call, outcome, nextId, garble, wire, mind, turns>>

-----------------------------------------------------------------------------
(* A prompt: Chats::turn, Connection::take_turn, Chats::ended.             *)

\* A chat without a connection is woken first: an adapter is started and
\* greeted, or none can be.
Wake ==
  /\ at = "off" /\ turns < MaxTurns
  /\ turns' = turns + 1
  /\ \/ /\ at' = "send" /\ call' = "initialize" /\ alive' = TRUE
        /\ UNCHANGED log
     \/ /\ MayFail("die")
        /\ Noted(Line("unwoken", turns'))
        /\ UNCHANGED <<at, call, alive>>
  /\ UNCHANGED <<outcome, nextId, garble, inbox, due, owing, replaying, said, mind,
                 astray>>

Prompt ==
  /\ at = "ready" /\ turns < MaxTurns
  /\ turns' = turns + 1 /\ at' = "say"
  /\ UNCHANGED <<call, outcome, nextId, garble, wire, mind, log, astray>>

\* The prompt is in the log before it is on the wire.
TakeTurn ==
  /\ at = "say"
  /\ call' = "prompt"
  /\ \/ /\ Appended([kind |-> "prompt", n |-> turns, mind |-> session])
        /\ at' = "send" /\ UNCHANGED outcome
     \/ MayFail("store") /\ Tell("unrecorded") /\ UNCHANGED log
  /\ UNCHANGED <<nextId, garble, wire, mind, turns, astray>>

\* turn_lost: what the chat is told of a turn that failed, as far as it says
\* what became of the connection.
TurnLost(failure) == CASE failure = "garbled" -> "corrupted"
                       [] failure = "unrecorded" -> "abandoned"
                       [] OTHER -> "dropped"

\* Slip: a connection is kept whatever its turn came to.
EndedKept ==
  /\ at = "told" /\ call = "prompt"
  /\ at' = "ready" /\ call' = "none" /\ outcome' = "none"
  /\ IF outcome = "ok" THEN UNCHANGED log ELSE Noted(Line(TurnLost(outcome), turns))
  /\ UNCHANGED <<nextId, garble, wire, mind, turns, astray>>

\* spent_the_connection: whatever broke, unless it was only the log.
Ended ==
  /\ at = "told" /\ call = "prompt"
  /\ outcome' = "none"
  /\ \/ /\ outcome = "ok"
        /\ at' = "ready" /\ call' = "none"
        /\ UNCHANGED <<nextId, garble, wire, session, log>>
     \/ /\ outcome = "unrecorded"
        /\ at' = "ready" /\ call' = "none"
        /\ Noted(Line(TurnLost(outcome), turns))
        /\ UNCHANGED <<nextId, garble, wire, session>>
     \/ /\ outcome \in {"broken", "garbled", "refused"}
        /\ LetGo /\ UNCHANGED said
        /\ Noted(Line(TurnLost(outcome), turns))
  /\ UNCHANGED <<recorded, turns, astray>>

-----------------------------------------------------------------------------
(* The other end of the pipe.                                              *)

Write(line) == /\ alive /\ Len(inbox) < MaxUnread
               /\ inbox' = Append(inbox, line)

\* Something else in the container writes to the adapter's stdout.  Nothing
\* bounds how often.
Garbled == /\ Write(Line("garble", 0))
           /\ UNCHANGED <<at, call, outcome, nextId, garble, due, owing,
                          alive, replaying, said, mind, turns, log, astray>>

\* Of its own accord: updates of a turn it is at, or between turns; a replay
\* it has not finished; requests; other sessions' traffic; blank lines.
Volunteered ==
  {Line("blank", 0), Line("foreign", 0), Line("update", 0)}
    \cup {Line("update", d.turn) : d \in {e \in due : e.method = "prompt"}}
    \cup (IF replaying THEN {Line("replay", 0)} ELSE {})

Say ==
  /\ said < MaxSaid /\ said' = said + 1
  /\ \/ /\ \E line \in Volunteered : Write(line)
        /\ UNCHANGED owing
     \/ /\ due # {}
        /\ \E kind \in {"ask", "request"}, id \in Ids \ owing :
              Write(Line(kind, id)) /\ owing' = owing \cup {id}
  /\ UNCHANGED <<at, call, outcome, nextId, garble, due, alive, replaying,
                 mind, turns, log, astray>>

\* A load that is refused is not replayed; one that is granted may go on
\* being.
Answer ==
  /\ \E d \in due, kind \in {"answer", "refusal"} :
        /\ Write(Line(kind, d.id)) /\ due' = due \ {d}
        /\ replaying' = (replaying /\ ~(d.method = "load" /\ kind = "refusal"))
  /\ UNCHANGED <<at, call, outcome, nextId, garble, owing, alive, said, mind,
                 turns, log, astray>>

Replayed == /\ replaying /\ replaying' = FALSE
            /\ UNCHANGED <<at, call, outcome, nextId, garble, inbox, due,
                           owing, alive, said, mind, turns, log, astray>>

Die == /\ MayFail("die") /\ alive /\ alive' = FALSE
       /\ UNCHANGED <<at, call, outcome, nextId, garble, inbox, due, owing,
                      replaying, said, mind, turns, log, astray>>

\* A core that starts again holds no connection.
Crash == /\ MayFail("crash") /\ at # "off"
         /\ LetGo
         /\ outcome' = "none"
         /\ astray' = astray \cup (IF at = "tell" THEN {"untold"} ELSE {})
         /\ UNCHANGED <<said, recorded, turns, log>>

\* A client that goes away drops the handler at its await: a wake takes its
\* connection along, a turn leaves it held with whatever is still in the pipe.
HangUp ==
  /\ MayFail("hangup") /\ at \in {"send", "wait", "drain"}
  /\ IF call = "prompt"
       THEN /\ at' = "ready" /\ call' = "none"
            /\ astray' = astray \cup {"dropped"}
            /\ UNCHANGED <<nextId, garble, inbox, due, owing, alive,
                           replaying, session>>
       ELSE LetGo /\ UNCHANGED astray
  /\ UNCHANGED <<outcome, said, recorded, turns, log>>

-----------------------------------------------------------------------------
Client == \/ Send \/ ReadPast \/ ReadGarble \/ ReadOwn \/ ReadAnswer
          \/ Silence \/ DrainRead \/ DrainQuiet \/ DrainClosed
          \/ Greeted \/ Climb \/ RecordSession \/ TellReset
          \/ TakeTurn \/ Ended

Environment == \/ Garbled \/ Say \/ Answer \/ Replayed \/ Die
               \/ HangUp \/ Crash

Idle == at \in {"off", "ready"} /\ UNCHANGED vars

Next == Client \/ DrainLimit \/ Wake \/ Prompt \/ Environment \/ Idle

Spec == Init /\ [][Next]_vars

\* The client goes on while it has a line to read or a patience to run out,
\* and the limit on a replay is a timer of its own.  Nothing is asked of the
\* adapter, nor of what garbles its stream.
FairSpec == Spec /\ WF_vars(Client) /\ WF_vars(DrainLimit)

-----------------------------------------------------------------------------
Unread(kinds) == {i \in DOMAIN inbox : inbox[i].kind \in kinds}

\* A call ends on the adapter's answer to that very call, though the adapter
\* numbers its own requests with the same ids (answer_to).
EndsOnItsOwnAnswer ==
  at = "told" /\ outcome \in {"ok", "refused"} =>
     /\ ~\E d \in due : d.id = nextId - 1
     /\ ~\E i \in DOMAIN inbox : IsAnswer(inbox[i], nextId - 1)

\* Between turns the adapter waits for nothing it has said to be answered
\* ("or the adapter waits on us for the rest of the turn", owed), unless a
\* turn was given up on in the middle of hearing it.
NothingLeftOwed ==
  at = "ready" /\ astray \cap {"unrecorded", "dropped"} = {} =>
     \A id \in owing : \E i \in Unread({"ask", "request"}) : inbox[i].n = id

\* Between turns nothing of a finished turn or of a replay is left for the
\* next turn to take for its own (load, spent_the_connection), unless the
\* replay outlived the client's patience with it.
NothingLeftBehind ==
  at = "ready" =>
     /\ astray \cap {"unrecorded", "dropped"} = {} =>
           due = {} /\ \A i \in Unread({"update"}) : inbox[i].n = 0
     /\ "replay" \notin astray => Unread({"replay"}) = {}

LastPrompt(i) ==
  LET before == {j \in 1..i : log[j].kind = "prompt"}
  IN  IF before = {} THEN 0
      ELSE log[CHOOSE j \in before : \A k \in before : k <= j].n

\* The log is the conversation: an update stands under the prompt it is about,
\* no update comes before its prompt, no replay is written down twice (ADR-0007
\* rule 3), and after a turn whose end was told as the end of its connection,
\* nothing of that turn is heard any more (connection_dropped: "a clean thing
\* to put again"; turn_unrecorded promises no such thing).
LogIsTheConversation ==
  \A i \in DOMAIN log :
     /\ log[i].kind \in {"dropped", "corrupted"} =>
           \A j \in i..Len(log) :
              log[j].kind = "update" /\ log[j].n > 0 => log[j].n > log[i].n
     /\ log[i].kind = "update" /\ log[i].n > 0 =>
           \/ LastPrompt(i) = log[i].n
           \/ /\ astray \cap {"unrecorded", "dropped"} # {}
              /\ LastPrompt(i) > log[i].n
     /\ log[i].kind = "replay" => "replay" \in astray

\* No turn is taken over a session younger than what stands above it unless
\* the log says so in between ("Whatever the waking cost the chat is in its
\* log by the time a prompt goes out", woken).
ForgettingIsTold ==
  "untold" \notin astray =>
     \A i \in DOMAIN log : log[i].kind = "prompt" /\ log[i].mind > 0 =>
        \E j \in (log[i].mind + 1)..(i - 1) : log[j].kind = "reset"

\* A wake and a turn end, however long the stream is garbled and however much
\* is replayed (GARBLE_TOLERANCE, REPLAY_LIMIT; issue #65): the adapter says
\* only so much of its own accord, the garble has no end.
CallsEnd == at \notin {"off", "ready"} ~> at \in {"off", "ready"}

=============================================================================
