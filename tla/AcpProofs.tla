----------------------------- MODULE AcpProofs -----------------------------
(***************************************************************************)
(* Proofs about one chat's conversation with its adapter (Acp.tla), for    *)
(* any tolerance, any number of turns, any length of the pipe and any set  *)
(* of faults: every invariant the runs check of it.                        *)
(*                                                                         *)
(* The invariant says of a number who it may still belong to (OnceEach):   *)
(* a call, or one answer in the pipe, and never both; whose the lines in   *)
(* the pipe are (Current, Replaying); what the adapter's requests wait for *)
(* (Owed); and, of the log, what may still be added to it (Conv, Forget).  *)
(***************************************************************************)
EXTENDS Acp, WellFoundedInduction, TLAPS

\* Types.
Places == {"off", "send", "wait", "drain", "told", "record", "tell", "say",
           "ready"}
Outcomes == {"none", "ok", "refused", "broken", "garbled", "unrecorded"}
InKinds == {"blank", "garble", "update", "replay", "foreign", "ask", "request",
            "answer", "refusal"}
LogKinds == {"dropped", "corrupted", "abandoned", "unwoken", "reset", "update",
             "replay", "ask"}
Lines == [kind : InKinds, n : Nat]
Entries == [kind : LogKinds, n : Nat] \cup [kind : {"prompt"}, n : Nat, mind : Nat]
Dues == [id : Nat, method : Methods, turn : Nat]

TypeOK ==
  /\ at \in Places /\ call \in Methods \cup {"none"} /\ outcome \in Outcomes
  /\ nextId \in Nat \ {0} /\ garble \in Nat
  /\ inbox \in Seq(Lines) /\ due \subseteq Dues /\ owing \subseteq Nat
  /\ alive \in BOOLEAN /\ replaying \in BOOLEAN
  /\ session \in Nat /\ recorded \in Nat /\ turns \in Nat /\ said \in Nat
  /\ log \in Seq(Entries)

\* A call is in hand where one is, and what it came to where it is told.
Ctl ==
  /\ at \in {"off", "ready", "say", "record", "tell"} <=> call = "none"
  /\ at = "drain" => call = "load"
  /\ at = "told" <=> outcome # "none"
  /\ outcome = "unrecorded" => call = "prompt"

\* A call that got its answer.
Through == at = "told" /\ outcome \in {"ok", "refused"}
\* A call that waits, or broke waiting.
Going == at = "wait" \/ (at = "told" /\ outcome \in {"broken", "garbled"})
\* A turn was given up on in the middle of hearing it.
Exempt == astray \cap {"unrecorded", "dropped"} # {}
Answers == Unread({"answer", "refusal"})

\* A number is in one place: a call not answered, or one answer unread.
Numbered ==
  /\ \A d \in due : d.id \in 1..(nextId - 1)
  /\ \A d, e \in due : d.id = e.id => d = e
  /\ \A i \in Answers : inbox[i].n < nextId /\ \A d \in due : d.id # inbox[i].n
  /\ \A i, j \in Answers : inbox[i].n = inbox[j].n => i = j
\* A call that was answered is in neither.
Spent ==
  at = "drain" \/ Through =>
    /\ \A d \in due : d.id # nextId - 1
    /\ \A i \in Answers : inbox[i].n # nextId - 1
\* The number last given is that of the call that waits.
OfThisCall ==
  at = "wait" =>
    \A d \in due : d.id = nextId - 1 => d.method = call /\ d.turn = turns

OnceEach == Numbered /\ Spent /\ OfThisCall

\* Updates of a turn.
Updates == {i \in Unread({"update"}) : inbox[i].n > 0}

\* Whoever was not given up on in the middle has only the call in hand due, and
\* the pipe holds updates of its turn only, ahead of its answer.
DueNow ==
  \A d \in due : d.id = nextId - 1 /\ Going /\ d.turn = turns /\ d.method = call
HeardNow ==
  \A i \in Updates :
     /\ inbox[i].n = turns /\ call = "prompt" /\ Going
     /\ due # {} \/ \E j \in Answers : j > i /\ inbox[j].n = nextId - 1

Current == Exempt \/ (DueNow /\ HeardNow)

\* A load under way, or broken.
Loading ==
  /\ call = "load"
  /\ at \in {"wait", "drain"} \/ (at = "told" /\ outcome \in {"broken", "garbled"})
Replays == Unread({"replay"})

\* A load is due while it is waited for, and nothing replays outside of one.
LoadDue ==
  \A d \in due : d.method = "load" => call = "load" /\ d.id = nextId - 1 /\ Going
NoReplay == ~replaying /\ Replays = {}
\* A load that is refused has said all of its replay.
RefusedLast ==
  call = "load" /\ at = "wait" =>
    \A i \in Answers :
       inbox[i].kind = "refusal" /\ inbox[i].n = nextId - 1 =>
         ~replaying /\ \A j \in Replays : j < i

\* A replay is in the pipe only under its load, or the patience with it ended.
Replaying == LoadDue /\ ("replay" \in astray \/ Loading \/ NoReplay) /\ RefusedLast

\* A request of the adapter's that is not answered is still to be read.
Owed ==
  \/ Exempt
  \/ at = "told" /\ outcome = "broken"
  \/ \A id \in owing : \E i \in Unread({"ask", "request"}) : inbox[i].n = id

\* Turns whose end was told as the end of their connection.
Lost == {i \in DOMAIN log : log[i].kind \in {"dropped", "corrupted"}}

\* Nothing is about a turn that was not put.
Bounded == /\ \A i \in Updates : inbox[i].n <= turns
           /\ \A d \in due : d.turn <= turns
\* Nothing of a lost turn can still be heard.
LostIsOver ==
  \A i \in Lost : /\ log[i].n <= turns
                  /\ at \notin {"off", "ready"} => log[i].n < turns
                  /\ \A k \in Updates : inbox[k].n > log[i].n
                  /\ \A d \in due : d.method = "prompt" => d.turn > log[i].n
\* While a turn is heard its prompt is the last in the log.
UnderThePrompt ==
  call = "prompt" /\ at \in {"send", "wait"} => LastPrompt(Len(log)) = turns

\* The log is the conversation so far, and stays it.
Conv == LogIsTheConversation /\ Bounded /\ LostIsOver /\ UnderThePrompt

\* A reset stands in the log above a session that began at m.
ToldOf(m) == \E j \in (m + 1)..Len(log) : log[j].kind = "reset"

\* The session in hand is one the chat may be prompted over.
Young ==
  /\ session > 0 /\ at \notin {"record", "tell"}
  /\ ~(at = "told" /\ call = "open" /\ outcome = "ok")
\* Where the sessions began is a place in the log.
Marked == /\ session <= Len(log) /\ recorded <= Len(log)
          /\ at = "tell" => recorded = session
\* What was forgotten is told of, of the session in hand and the recorded one.
Told == /\ ForgettingIsTold
        /\ recorded > 0 /\ at # "tell" => ToldOf(recorded)
        /\ Young => ToldOf(session)

Forget == Marked /\ ("untold" \in astray \/ Told)

\* The inductive invariant.
Inv == TypeOK /\ Ctl /\ OnceEach /\ Current /\ Replaying /\ Owed /\ Conv /\ Forget

-----------------------------------------------------------------------------
\* What is left of a sequence whose head was taken.
LEMMA TailIs ==
  ASSUME NEW S, NEW s \in Seq(S), s # <<>>
  PROVE  /\ Tail(s) \in Seq(S) /\ Len(s) > 0 /\ Head(s) = s[1] /\ Head(s) \in S
         /\ 1 \in DOMAIN s
         /\ DOMAIN Tail(s) = 1..(Len(s) - 1)
         /\ \A i \in DOMAIN Tail(s) : i + 1 \in DOMAIN s /\ Tail(s)[i] = s[i + 1]
         /\ \A i \in DOMAIN s : i # 1 => i - 1 \in DOMAIN Tail(s) /\ Tail(s)[i - 1] = s[i]
<1>1. Len(s) \in Nat /\ Len(s) > 0 /\ DOMAIN s = 1..Len(s)
  OBVIOUS
<1>2. Tail(s) \in Seq(S) /\ Len(Tail(s)) = Len(s) - 1 /\ Head(s) = s[1]
  OBVIOUS
<1>3. DOMAIN Tail(s) = 1..(Len(s) - 1)
  BY <1>2
<1>4. \A i \in 1..(Len(s) - 1) : Tail(s)[i] = s[i + 1]
  BY <1>1
<1>5. s[1] \in S
  BY <1>1
<1>6. ASSUME NEW i \in DOMAIN s, i # 1 PROVE i - 1 \in DOMAIN Tail(s) /\ Tail(s)[i - 1] = s[i]
  <2>1. i \in Nat /\ i - 1 \in 1..(Len(s) - 1) /\ (i - 1) + 1 = i
    BY <1>1, <1>6
  <2> QED BY <2>1, <1>3, <1>4
<1> QED BY <1>1, <1>2, <1>3, <1>4, <1>5, <1>6

\* A sequence with one more element.
LEMMA AppendIs ==
  ASSUME NEW S, NEW s \in Seq(S), NEW e \in S
  PROVE  /\ Append(s, e) \in Seq(S) /\ Len(s) \in Nat
         /\ Len(Append(s, e)) = Len(s) + 1
         /\ DOMAIN s = 1..Len(s) /\ DOMAIN Append(s, e) = 1..(Len(s) + 1)
         /\ DOMAIN Append(s, e) = DOMAIN s \cup {Len(s) + 1}
         /\ Append(s, e)[Len(s) + 1] = e
         /\ \A i \in DOMAIN s : Append(s, e)[i] = s[i]
<1>1. /\ Append(s, e) \in Seq(S) /\ Len(s) \in Nat /\ Len(Append(s, e)) = Len(s) + 1
      /\ DOMAIN s = 1..Len(s) /\ DOMAIN Append(s, e) = 1..(Len(s) + 1)
  OBVIOUS
<1>2. 1..(Len(s) + 1) = 1..Len(s) \cup {Len(s) + 1}
  BY <1>1
<1> QED BY <1>1, <1>2

-----------------------------------------------------------------------------
\* A line the adapter writes, or an entry the core does.
LEMMA LineTyped ==
  ASSUME NEW k, NEW n \in Nat
  PROVE  /\ k \in InKinds => Line(k, n) \in Lines
         /\ k \in LogKinds => Line(k, n) \in Entries
         /\ Line(k, n).kind = k /\ Line(k, n).n = n
  BY DEF Line, Lines, Entries

\* A line worth recording is an entry as it stands.
LEMMA KeptTyped ==
  ASSUME NEW line \in Lines, line.kind \in LogKinds
  PROVE  line \in Entries
<1>1. line = [kind |-> line.kind, n |-> line.n] /\ line.n \in Nat
  BY DEF Lines
<1> QED BY <1>1 DEF Entries

\* Every step keeps the types.
LEMMA TypeStep ==
  ASSUME TypeOK, Ctl, [Next]_vars
  PROVE  TypeOK'
<1> USE AcpOK
<1> USE DEF TypeOK, Ctl, Places, Outcomes
<1>t. \A S : <<>> \in Seq(S)
  OBVIOUS
<1>a. ASSUME inbox # <<>> PROVE Tail(inbox) \in Seq(Lines) /\ Head(inbox) \in Lines
  BY <1>a, TailIs
<1>b. \A line \in Lines : Append(inbox, line) \in Seq(Lines)
  BY AppendIs
<1>c. \A e \in Entries : Append(log, e) \in Seq(Entries)
  BY AppendIs
<1>l. Len(log) \in Nat
  OBVIOUS
<1>d. ASSUME NEW k \in LogKinds, NEW n \in Nat, Noted(Line(k, n)) PROVE log' \in Seq(Entries)
  BY <1>d, <1>c, LineTyped DEF Noted, Appended
<1>e. ASSUME LetGo PROVE /\ at' \in Places /\ call' \in Methods \cup {"none"}
                         /\ nextId' \in Nat \ {0} /\ garble' \in Nat
                         /\ inbox' \in Seq(Lines) /\ due' \subseteq Dues
                         /\ owing' \subseteq Nat
                         /\ alive' \in BOOLEAN /\ replaying' \in BOOLEAN
                         /\ session' \in Nat
  <2>1. inbox' \in Seq(Lines)
    BY <1>e, <1>t DEF LetGo
  <2>2. /\ due' \subseteq Dues /\ owing' \subseteq Nat /\ alive' \in BOOLEAN
        /\ replaying' \in BOOLEAN
    BY <1>e DEF LetGo
  <2> QED BY <1>e, <2>1, <2>2 DEF LetGo
<1>f. ASSUME Unwoken PROVE TypeOK'
  <2>1. log' \in Seq(Entries)
    BY <1>f, <1>d DEF Unwoken, LogKinds
  <2> QED BY <1>f, <1>e, <2>1 DEF Unwoken
<1>1. CASE Send
  <2>1. [id |-> nextId, method |-> call, turn |-> turns] \in Dues \/ call = "none"
    BY DEF Dues
  <2>2. call # "none"
    BY <1>1 DEF Send
  <2>3. due' \subseteq Dues
    BY <1>1, <2>1, <2>2 DEF Send
  <2> QED BY <1>1, <2>3 DEF Send, mind, Tell
<1>2. CASE ReadPast
  BY <1>2, <1>a DEF ReadPast, Take, mind
<1>3. CASE ReadGarble
  BY <1>3, <1>a DEF ReadGarble, Take, mind, Tell
<1>4. CASE ReadOwn
  <2>1. owing' \subseteq Nat
    BY <1>4 DEF ReadOwn, Answered
  <2>2. log' \in Seq(Entries)
    <3>1. ASSUME IsWorthRecording(Head(inbox)) PROVE Append(log, Head(inbox)) \in Seq(Entries)
      BY <1>4, <3>1, <1>a, <1>c, KeptTyped DEF ReadOwn, IsWorthRecording, LogKinds
    <3> QED BY <1>4, <3>1 DEF ReadOwn, Appended
  <2>3. inbox' \in Seq(Lines)
    BY <1>4, <1>a DEF ReadOwn, Take
  <2> HIDE <1>a, <1>b, <1>c, <1>d, <1>e, <1>f
  <2> QED BY <1>4, <2>1, <2>2, <2>3 DEF ReadOwn, Tell, mind
<1>5. CASE ReadAnswer
  BY <1>5, <1>a, <1>l DEF ReadAnswer, Take, mind, Tell
<1>6. CASE Silence
  BY <1>6 DEF Silence, Tell, wire, mind
<1>7. CASE DrainRead
  BY <1>7, <1>a DEF DrainRead, Take, mind, Tell, Answered
<1>8. CASE DrainQuiet
  BY <1>8 DEF DrainQuiet, LeaveReplay, Tell, wire, mind
<1>9. CASE DrainClosed
  BY <1>9 DEF DrainClosed, Tell, wire, mind
<1>10. CASE Greeted
  <2>1. CASE Unwoken
    BY <2>1, <1>f
  <2> QED BY <1>10, <2>1 DEF Greeted, Quiet, wire, Methods, Rungs
<1>11. CASE Climb
  <2>1. CASE Unwoken
    BY <2>1, <1>f
  <2> QED BY <1>11, <2>1 DEF Climb, Quiet, wire, mind, Methods
<1>12. CASE RecordSession
  <2>1. CASE Unwoken
    BY <2>1, <1>f
  <2> QED BY <1>12, <2>1 DEF RecordSession, wire
<1>13. CASE TellReset
  BY <1>13, <1>c, LineTyped DEF TellReset, wire, mind, Appended, LogKinds
<1>14. CASE TakeTurn
  <2>1. [kind |-> "prompt", n |-> turns, mind |-> session] \in Entries
    BY DEF Entries
  <2> QED BY <1>14, <1>c, <2>1 DEF TakeTurn, wire, mind, Appended, Tell, Methods
<1>15. CASE Ended
  <2>1. log' \in Seq(Entries)
    <3>1. TurnLost(outcome) \in LogKinds
      BY DEF TurnLost, LogKinds
    <3> QED BY <1>15, <3>1, <1>d DEF Ended
  <2> QED BY <1>15, <1>e, <2>1 DEF Ended, wire
<1>16. CASE DrainLimit
  BY <1>16 DEF DrainLimit, LeaveReplay, Tell, wire, mind
<1>17. CASE Wake
  <2>1. log' \in Seq(Entries)
    BY <1>17, <1>d DEF Wake, LogKinds
  <2>2. at' \in Places /\ call' \in Methods \cup {"none"} /\ alive' \in BOOLEAN
    BY <1>17 DEF Wake, Methods
  <2>3. turns' \in Nat
    BY <1>17 DEF Wake
  <2> QED BY <1>17, <2>1, <2>2, <2>3 DEF Wake, mind
<1>18. CASE Prompt
  BY <1>18 DEF Prompt, wire, mind
<1>19. CASE Garbled
  <2>1. Line("garble", 0) \in Lines
    BY LineTyped DEF InKinds
  <2> QED BY <1>19, <1>b, <2>1 DEF Garbled, Write, mind
<1>20. CASE Say
  <2>1. inbox' \in Seq(Lines)
    <3>1. \A line \in Volunteered : line \in Lines
      BY LineTyped DEF Volunteered, InKinds, Dues
    <3>2. \A kind \in {"ask", "request"}, id \in Ids : Line(kind, id) \in Lines
      BY LineTyped DEF InKinds
    <3> QED BY <1>20, <3>1, <3>2, <1>b DEF Say, Write
  <2>2. owing' \subseteq Nat
    BY <1>20 DEF Say
  <2> QED BY <1>20, <2>1, <2>2 DEF Say, mind
<1>21. CASE Answer
  <2>1. inbox' \in Seq(Lines)
    BY <1>21, <1>b, LineTyped DEF Answer, Write, InKinds, Dues
  <2> QED BY <1>21, <2>1 DEF Answer, mind
<1>22. CASE Replayed
  BY <1>22 DEF Replayed, mind
<1>23. CASE Die
  BY <1>23 DEF Die, mind
<1>24. CASE HangUp
  BY <1>24, <1>e DEF HangUp
<1>25. CASE Crash
  BY <1>25, <1>e DEF Crash
<1>26. CASE UNCHANGED vars
  BY <1>26 DEF vars, wire, mind
<1> QED
  BY <1>1, <1>2, <1>3, <1>4, <1>5, <1>6, <1>7, <1>8, <1>9, <1>10, <1>11, <1>12,
     <1>13, <1>14,
     <1>15, <1>16, <1>17, <1>18, <1>19, <1>20, <1>21, <1>22, <1>23, <1>24, <1>25, <1>26
     DEF Next, Client, Environment, Idle

-----------------------------------------------------------------------------
(* Where the client is.                                                    *)

\* Every step keeps the client's control.
LEMMA CtlStep ==
  ASSUME TypeOK, Ctl, [Next]_vars
  PROVE  Ctl'
<1> USE DEF TypeOK, Ctl, Places, Outcomes
<1>a. ASSUME Unwoken PROVE Ctl'
  BY <1>a DEF Unwoken, LetGo
<1>b. ASSUME LetGo, outcome' = "none" PROVE Ctl'
  BY <1>b DEF LetGo
<1>1. CASE Send
  BY <1>1 DEF Send, Tell
<1>2. CASE ReadGarble
  BY <1>2 DEF ReadGarble, Tell
<1>3. CASE ReadOwn
  BY <1>3 DEF ReadOwn, Tell
<1>4. CASE ReadAnswer
  BY <1>4 DEF ReadAnswer, Tell
<1>5. CASE Silence \/ DrainQuiet \/ DrainClosed \/ DrainLimit
  BY <1>5 DEF Silence, DrainQuiet, DrainClosed, DrainLimit, LeaveReplay, Tell
<1>6. CASE DrainRead
  BY <1>6 DEF DrainRead, Tell
<1>7. CASE Greeted
  BY <1>7, <1>a DEF Greeted
<1>8. CASE Climb
  BY <1>8, <1>a DEF Climb, Rungs
<1>9. CASE RecordSession
  BY <1>9, <1>a DEF RecordSession
<1>10. CASE TellReset
  BY <1>10 DEF TellReset
<1>11. CASE TakeTurn
  BY <1>11 DEF TakeTurn, Tell
<1>12. CASE Ended
  BY <1>12, <1>b DEF Ended
<1>13. CASE Wake
  BY <1>13 DEF Wake
<1>14. CASE Prompt
  BY <1>14 DEF Prompt
<1>15. CASE HangUp
  <2>1. outcome' = "none"
    BY <1>15 DEF HangUp
  <2> QED BY <1>15, <2>1, <1>b DEF HangUp
<1>16. CASE Crash
  BY <1>16, <1>b DEF Crash
<1>17. CASE ReadPast \/ Garbled \/ Say \/ Answer \/ Replayed \/ Die \/ UNCHANGED vars
  BY <1>17 DEF ReadPast, Garbled, Say, Answer, Replayed, Die, vars
<1> QED
  BY <1>1, <1>2, <1>3, <1>4, <1>5, <1>6, <1>7, <1>8, <1>9, <1>10, <1>11, <1>12,
     <1>13, <1>14,
     <1>15, <1>16, <1>17 DEF Next, Client, Environment, Idle

-----------------------------------------------------------------------------
(* What the pipe holds after a line was taken from it, or put into it.      *)

\* Unread lines of some kinds, when the first is taken.
LEMMA Taken ==
  ASSUME TypeOK, inbox # <<>>, Take, NEW K
  PROVE  /\ Head(inbox) = inbox[1] /\ 1 \in DOMAIN inbox /\ inbox[1] \in Lines
         /\ \A i \in Unread(K)' : /\ i \in Nat /\ i + 1 \in Unread(K)
                                  /\ i + 1 # 1 /\ inbox'[i] = inbox[i + 1]
         /\ \A i \in Unread(K) : i # 1 => /\ i \in Nat /\ i - 1 \in Unread(K)'
                                          /\ inbox'[i - 1] = inbox[i]
<1>0. inbox \in Seq(Lines) /\ inbox' = Tail(inbox)
  BY DEF TypeOK, Take
<1>1. /\ Head(inbox) = inbox[1] /\ Head(inbox) \in Lines /\ 1 \in DOMAIN inbox
      /\ DOMAIN inbox' = 1..(Len(inbox) - 1) /\ Len(inbox) > 0
      /\ \A i \in DOMAIN inbox' : i + 1 \in DOMAIN inbox /\ inbox'[i] = inbox[i + 1]
      /\ \A i \in DOMAIN inbox : i # 1 => i - 1 \in DOMAIN inbox' /\ inbox'[i - 1] = inbox[i]
  BY <1>0, TailIs
<1>2. Len(inbox) \in Nat /\ DOMAIN inbox = 1..Len(inbox)
  BY <1>0
<1>3. ASSUME NEW i \in Unread(K)' PROVE /\ i \in Nat /\ i + 1 \in Unread(K)
                                        /\ i + 1 # 1 /\ inbox'[i] = inbox[i + 1]
  <2>1. i \in DOMAIN inbox' /\ inbox'[i].kind \in K
    BY <1>3 DEF Unread
  <2>2. i + 1 \in DOMAIN inbox /\ inbox'[i] = inbox[i + 1] /\ i \in Nat /\ i + 1 # 1
    BY <2>1, <1>1, <1>2
  <2> QED BY <2>1, <2>2 DEF Unread
<1>4. ASSUME NEW i \in Unread(K), i # 1
      PROVE i \in Nat /\ i - 1 \in Unread(K)' /\ inbox'[i - 1] = inbox[i]
  <2>1. i \in DOMAIN inbox /\ inbox[i].kind \in K
    BY <1>4 DEF Unread
  <2>2. i - 1 \in DOMAIN inbox' /\ inbox'[i - 1] = inbox[i]
    BY <2>1, <1>1, <1>4
  <2>3. i \in Nat
    BY <2>1, <1>2
  <2> QED BY <2>1, <2>2, <2>3 DEF Unread
<1> QED BY <1>1, <1>3, <1>4

\* Unread lines of some kinds, when one is written.
LEMMA Written ==
  ASSUME TypeOK, NEW line \in Lines, Write(line), NEW K
  PROVE  LET n == Len(inbox) + 1
         IN  /\ n \in Nat /\ n \notin DOMAIN inbox /\ \A i \in DOMAIN inbox : i \in Nat /\ i < n
             /\ inbox'[n] = line
             /\ DOMAIN inbox' = DOMAIN inbox \cup {n}
             /\ \A i \in DOMAIN inbox : inbox'[i] = inbox[i]
             /\ Unread(K)' = Unread(K) \cup (IF line.kind \in K THEN {n} ELSE {})
<1> DEFINE n == Len(inbox) + 1
<1>0. inbox \in Seq(Lines) /\ inbox' = Append(inbox, line)
  BY DEF TypeOK, Write
<1>1. /\ Len(inbox) \in Nat /\ DOMAIN inbox = 1..Len(inbox)
      /\ DOMAIN inbox' = DOMAIN inbox \cup {n} /\ inbox'[n] = line
      /\ \A i \in DOMAIN inbox : inbox'[i] = inbox[i]
  BY <1>0, AppendIs
<1>2. /\ n \in Nat /\ n \notin DOMAIN inbox
      /\ \A i \in DOMAIN inbox : i \in Nat /\ i < n
  BY <1>1
<1> HIDE DEF n
<1>3. Unread(K)' = Unread(K) \cup (IF line.kind \in K THEN {n} ELSE {})
  BY <1>1, <1>2 DEF Unread
<1> QED BY <1>1, <1>2, <1>3 DEF n

\* An empty pipe holds none.
LEMMA Emptied ==
  ASSUME inbox' = <<>>, NEW K
  PROVE  Unread(K)' = {}
BY DEF Unread

\* What the pipe holds.
LEMMA LinesTyped ==
  ASSUME TypeOK
  PROVE  \A i \in DOMAIN inbox : i \in Nat /\ inbox[i] \in Lines /\ inbox[i].n \in Nat
<1>1. inbox \in Seq(Lines)
  BY DEF TypeOK
<1>2. \A i \in DOMAIN inbox : i \in Nat /\ inbox[i] \in Lines
  BY <1>1
<1> QED BY <1>2 DEF Lines

\* What the adapter may say of its own accord.
LEMMA VolunteeredTyped ==
  ASSUME TypeOK, NEW line \in Volunteered
  PROVE  /\ line \in Lines /\ line.kind \in {"blank", "foreign", "update", "replay"}
         /\ line.kind = "replay" => replaying
         /\ line.kind = "update" =>
              line.n = 0 \/ \E d \in due : d.method = "prompt" /\ line.n = d.turn
<1>1. \A d \in due : d.turn \in Nat
  BY DEF TypeOK, Dues
<1>2. CASE line \in {Line("blank", 0), Line("foreign", 0), Line("update", 0)}
  BY <1>2, LineTyped DEF InKinds
<1>3. CASE \E d \in due : d.method = "prompt" /\ line = Line("update", d.turn)
  BY <1>1, <1>3, LineTyped DEF InKinds
<1>4. CASE replaying /\ line = Line("replay", 0)
  BY <1>4, LineTyped DEF InKinds
<1> QED BY <1>2, <1>3, <1>4 DEF Volunteered

-----------------------------------------------------------------------------
(* Each call is answered once.                                             *)

\* Taking a line puts no number in two places.
LEMMA NumberedTake ==
  ASSUME TypeOK, Numbered, inbox # <<>>, Take, due' = due, nextId' = nextId
  PROVE  /\ Numbered'
         /\ \A i \in Answers' : i + 1 \in Answers /\ i + 1 # 1 /\ i \in Nat /\ inbox'[i] = inbox[i + 1]
<1>1. \A i \in Answers' : i \in Nat /\ i + 1 \in Answers /\ i + 1 # 1 /\ inbox'[i] = inbox[i + 1]
  BY Taken DEF Answers
<1>2. ASSUME NEW i \in Answers', NEW j \in Answers', inbox'[i].n = inbox'[j].n PROVE i = j
  <2>1. i + 1 = j + 1 /\ i \in Nat /\ j \in Nat
    BY <1>1, <1>2 DEF Numbered
  <2> QED BY <2>1
<1>3. \A i \in Answers' : inbox'[i].n < nextId /\ \A d \in due : d.id # inbox'[i].n
  BY <1>1 DEF Numbered
<1> QED BY <1>1, <1>2, <1>3 DEF Numbered

\* Nor does a line that is no answer.
LEMMA NumberedWrite ==
  ASSUME TypeOK, Numbered, NEW line \in Lines, Write(line), nextId' = nextId,
         line.kind \notin {"answer", "refusal"}, due' = due
  PROVE  Numbered' /\ Answers' = Answers /\ \A i \in Answers : inbox'[i] = inbox[i]
<1>0. Answers' = Answers \cup (IF line.kind \in {"answer", "refusal"} THEN {Len(inbox) + 1} ELSE {})
  BY Written DEF Answers
<1>1. Answers' = Answers
  BY <1>0
<1>2. \A i \in Answers : inbox'[i] = inbox[i]
  BY Written DEF Answers, Unread
<1> QED BY <1>1, <1>2 DEF Numbered

\* Nor does letting go of the pipe.
LEMMA NumberedGone ==
  ASSUME inbox' = <<>>, due' = {}
  PROVE  Numbered' /\ Answers' = {}
<1>1. Answers' = {}
  BY Emptied DEF Answers
<1> QED BY <1>1 DEF Numbered

\* Every step keeps each number in one place.
LEMMA OnceEachStep ==
  ASSUME TypeOK, TypeOK', Ctl, OnceEach, [Next]_vars
  PROVE  OnceEach'
<1> USE DEF OnceEach
<1>n. nextId \in Nat /\ nextId # 0
  BY DEF TypeOK
<1>u. ASSUME UNCHANGED <<due, inbox, nextId>>
      PROVE  Numbered' /\ Answers' = Answers
  <2>1. inbox' = inbox /\ due' = due /\ nextId' = nextId
    BY <1>u
  <2>2. Answers' = Answers
    BY <2>1 DEF Answers, Unread
  <2> QED BY <2>1, <2>2 DEF Numbered
<1>g. ASSUME LetGo, outcome' = "none" PROVE OnceEach'
  <2>1. Numbered' /\ ~Through' /\ at' = "off"
    BY <1>g, NumberedGone DEF LetGo, Through
  <2> QED BY <2>1 DEF Spent, OfThisCall
<1>f. ASSUME Unwoken PROVE OnceEach'
  BY <1>f, <1>g DEF Unwoken
<1>k. ASSUME inbox # <<>>, Take, due' = due, nextId' = nextId, at' = at, outcome' = outcome,
             call' = call, turns' = turns
      PROVE  OnceEach'
  <2>1. /\ Numbered'
        /\ \A i \in Answers' : i + 1 \in Answers /\ inbox'[i] = inbox[i + 1]
    BY <1>k, NumberedTake
  <2>2. Spent'
    BY <1>k, <2>1 DEF Spent, Through
  <2> QED BY <1>k, <2>1, <2>2 DEF OfThisCall
<1>o. ASSUME inbox # <<>>, Take, due' = due, nextId' = nextId,
             at' = "told", outcome' \notin {"ok", "refused"}
      PROVE  OnceEach'
  <2>1. Numbered'
    BY <1>o, NumberedTake
  <2> QED BY <1>o, <2>1 DEF Spent, OfThisCall, Through
<1>1. CASE Send
  <2> DEFINE d0 == [id |-> nextId, method |-> call, turn |-> turns]
  <2>1. /\ inbox' = inbox /\ nextId' = nextId + 1 /\ Answers' = Answers
        /\ turns' = turns /\ call' = call
    BY <1>1 DEF Send, Answers, Unread
  <2>2. CASE due' = due /\ at' = "told" /\ outcome' = "broken"
    <3>1. Numbered'
      <4>1. \A d \in due : d.id \in Nat /\ d.id < nextId
        BY <1>n DEF Numbered
      <4>2. \A i \in Answers : inbox[i].n < nextId /\ inbox[i].n \in Nat
        BY LinesTyped DEF Numbered, Answers, Unread
      <4> QED BY <1>n, <2>1, <2>2, <4>1, <4>2 DEF Numbered
    <3> QED BY <3>1, <2>2 DEF Spent, OfThisCall, Through
  <2>3. CASE due' = due \cup {d0} /\ at' = "wait"
    <3> HIDE DEF d0
    <3>0. d0.id = nextId /\ d0.method = call /\ d0.turn = turns
      BY DEF d0
    <3>1. \A d \in due : d.id \in Nat /\ d.id < nextId
      BY <1>n DEF Numbered, TypeOK
    <3>2. \A i \in Answers : inbox[i].n < nextId /\ inbox[i].n \in Nat
      BY LinesTyped DEF Numbered, Answers, Unread
    <3>3. Numbered'
      <4>1. \A d \in due' : d.id \in 1..(nextId' - 1)
        BY <1>n, <2>1, <2>3, <3>0, <3>1 DEF Numbered
      <4>2. \A d, e \in due' : d.id = e.id => d = e
        BY <1>n, <2>1, <2>3, <3>0, <3>1 DEF Numbered
      <4>3. \A i \in Answers' : inbox'[i].n < nextId' /\ \A d \in due' : d.id # inbox'[i].n
        BY <1>n, <2>1, <2>3, <3>0, <3>2 DEF Numbered
      <4> QED BY <2>1, <4>1, <4>2, <4>3 DEF Numbered
    <3>4. OfThisCall'
      BY <1>n, <2>1, <2>3, <3>0, <3>1 DEF OfThisCall
    <3> QED BY <2>3, <3>3, <3>4 DEF Spent, Through
  <2> QED BY <1>1, <2>2, <2>3 DEF Send, Tell
<1>2. CASE ReadPast
  BY <1>2, <1>k DEF ReadPast, mind
<1>3. CASE ReadGarble
  BY <1>3, <1>k, <1>o DEF ReadGarble, mind, Tell
<1>4. CASE ReadOwn
  <2>1. CASE UNCHANGED <<at, outcome>>
    BY <1>4, <2>1, <1>k DEF ReadOwn, mind
  <2> QED BY <1>4, <2>1, <1>o DEF ReadOwn, mind, Tell
<1>5. CASE ReadAnswer
  <2>1. /\ inbox # <<>> /\ Take /\ due' = due /\ nextId' = nextId
        /\ at' \in {"drain", "told"}
    BY <1>5 DEF ReadAnswer, Tell
  <2>2. 1 \in Answers /\ inbox[1].n = nextId - 1
    <3>1. Head(inbox) = inbox[1] /\ 1 \in DOMAIN inbox
      BY <2>1, Taken
    <3> QED BY <1>5, <3>1 DEF ReadAnswer, IsAnswer, Answers, Unread
  <2>3. /\ Numbered'
        /\ \A i \in Answers' : i + 1 \in Answers /\ i + 1 # 1 /\ inbox'[i] = inbox[i + 1]
    BY <2>1, NumberedTake
  <2>4. \A d \in due : d.id # nextId - 1
    BY <2>2 DEF Numbered
  <2>5. \A i \in Answers' : inbox'[i].n # nextId - 1
    BY <2>2, <2>3 DEF Numbered
  <2> QED BY <2>1, <2>3, <2>4, <2>5 DEF Spent, OfThisCall
<1>6. CASE Silence
  BY <1>6, <1>u DEF Silence, Tell, wire, Spent, OfThisCall, Through
<1>7. CASE DrainRead
  <2>1. CASE UNCHANGED <<at, outcome>>
    BY <1>7, <2>1, <1>k DEF DrainRead, mind
  <2> QED BY <1>7, <2>1, <1>o DEF DrainRead, mind, Tell
<1>8. CASE DrainQuiet \/ DrainLimit \/ DrainClosed
  <2>1. at = "drain" /\ at' = "told" /\ UNCHANGED <<due, inbox, nextId>>
    BY <1>8 DEF DrainQuiet, DrainLimit, DrainClosed, LeaveReplay, Tell, wire
  <2> QED BY <2>1, <1>u DEF Spent, OfThisCall
<1>9. CASE Greeted
  <2>1. CASE Unwoken
    BY <2>1, <1>f
  <2> QED BY <1>9, <2>1, <1>u DEF Greeted, Quiet, wire, Spent, OfThisCall, Through
<1>10. CASE Climb
  <2>1. CASE Unwoken
    BY <2>1, <1>f
  <2> QED BY <1>10, <2>1, <1>u DEF Climb, Quiet, wire, Spent, OfThisCall, Through
<1>11. CASE RecordSession
  <2>1. CASE Unwoken
    BY <2>1, <1>f
  <2> QED BY <1>11, <2>1, <1>u DEF RecordSession, wire, Spent, OfThisCall, Through
<1>12. CASE TellReset \/ Prompt \/ TakeTurn
  BY <1>12, <1>u DEF TellReset, Prompt, TakeTurn, Tell, wire, Spent, OfThisCall,
     Through
<1>13. CASE Ended
  <2>1. CASE LetGo
    BY <2>1, <1>13, <1>g DEF Ended
  <2> QED BY <1>13, <2>1, <1>u DEF Ended, wire, Spent, OfThisCall, Through
<1>14. CASE Wake
  BY <1>14, <1>u DEF Wake, Spent, OfThisCall, Through
<1>15. CASE Garbled \/ Say
  <2>1. PICK line \in Lines : Write(line) /\ line.kind \notin {"answer", "refusal"}
    <3>1. Garbled => Line("garble", 0) \in Lines /\ Write(Line("garble", 0))
      BY LineTyped DEF Garbled, InKinds
    <3>2. \A line \in Volunteered : line \in Lines /\ line.kind \notin {"answer", "refusal"}
      BY VolunteeredTyped
    <3>3. \A k \in {"ask", "request"}, id \in Ids : Line(k, id) \in Lines /\ Line(k, id).kind = k
      BY LineTyped, AcpOK DEF InKinds
    <3> QED BY <1>15, <3>1, <3>2, <3>3, LineTyped DEF Say
  <2>2. UNCHANGED <<due, nextId, at, outcome, call, turns>>
    BY <1>15 DEF Garbled, Say
  <2>3. Numbered' /\ Answers' = Answers /\ \A i \in Answers : inbox'[i] = inbox[i]
    BY <2>1, <2>2, NumberedWrite
  <2> QED BY <2>2, <2>3 DEF Spent, OfThisCall, Through
<1>16. CASE Answer
  <2>1. PICK d \in due, kind \in {"answer", "refusal"} :
           Write(Line(kind, d.id)) /\ due' = due \ {d}
    BY <1>16 DEF Answer
  <2> DEFINE n == Len(inbox) + 1
  <2>2. d.id \in Nat /\ d.id < nextId
    BY <1>n, <2>1 DEF Numbered, TypeOK, Dues
  <2>3. /\ Line(kind, d.id) \in Lines /\ Line(kind, d.id).kind = kind
        /\ Line(kind, d.id).n = d.id
    BY <2>2, LineTyped DEF InKinds
  <2>4. /\ n \notin DOMAIN inbox /\ inbox'[n] = Line(kind, d.id)
        /\ \A i \in DOMAIN inbox : inbox'[i] = inbox[i]
        /\ Answers' = Answers \cup {n}
    BY <2>1, <2>3, Written DEF Answers
  <2> HIDE DEF n
  <2>5. \A i \in Answers : inbox'[i] = inbox[i] /\ i # n
    BY <2>4 DEF Answers, Unread
  <2>6. inbox'[n].n = d.id
    BY <2>3, <2>4
  <2>7. nextId' = nextId /\ UNCHANGED <<at, outcome, call, turns>>
    BY <1>16 DEF Answer
  <2>8. Numbered'
    <3>1. \A i \in Answers' : inbox'[i].n < nextId' /\ \A e \in due' : e.id # inbox'[i].n
      BY <2>1, <2>2, <2>4, <2>5, <2>6, <2>7 DEF Numbered
    <3>2. \A i, j \in Answers' : inbox'[i].n = inbox'[j].n => i = j
      BY <2>1, <2>2, <2>4, <2>5, <2>6, <2>7 DEF Numbered
    <3> QED BY <2>1, <2>7, <3>1, <3>2 DEF Numbered
  <2> QED BY <2>1, <2>4, <2>5, <2>6, <2>7, <2>8 DEF Spent, OfThisCall, Through
<1>17. CASE Replayed \/ Die \/ UNCHANGED vars
  BY <1>17, <1>u DEF Replayed, Die, vars, wire, Spent, OfThisCall, Through
<1>18. CASE HangUp
  <2>1. CASE LetGo
    <3>1. outcome' = "none"
      BY <1>18 DEF HangUp, Ctl
    <3> QED BY <2>1, <3>1, <1>g
  <2> QED BY <1>18, <2>1, <1>u DEF HangUp, Spent, OfThisCall, Through
<1>19. CASE Crash
  BY <1>19, <1>g DEF Crash
<1> QED
  BY <1>1, <1>2, <1>3, <1>4, <1>5, <1>6, <1>7, <1>8, <1>9, <1>10, <1>11, <1>12,
     <1>13, <1>14,
     <1>15, <1>16, <1>17, <1>18, <1>19 DEF Next, Client, Environment, Idle

-----------------------------------------------------------------------------
(* What is under way belongs to the call in hand.                          *)

\* What has come apart stays so.
LEMMA AstrayGrows ==
  ASSUME [Next]_vars
  PROVE  astray \subseteq astray'
<1>1. CASE Unwoken
  BY <1>1 DEF Unwoken
<1>2. CASE Client
  BY <1>1, <1>2
     DEF Client, Send, ReadPast, ReadGarble, ReadOwn, ReadAnswer, Silence, DrainRead, DrainQuiet,
         LeaveReplay, DrainClosed, Greeted, Climb, RecordSession, TellReset, TakeTurn, Ended
<1>3. CASE DrainLimit \/ Wake \/ Prompt \/ Environment \/ UNCHANGED vars
  BY <1>3
     DEF DrainLimit, LeaveReplay, Wake, Prompt, Environment, Garbled, Say, Answer, Replayed, Die,
         HangUp, Crash, vars
<1> QED BY <1>2, <1>3 DEF Next, Idle

\* A line nobody asked for is no answer; a replay is one under way, an update
\* is of a turn that is due.
LEMMA SaidOnly ==
  ASSUME TypeOK, Garbled \/ Say
  PROVE  \E line \in Lines :
           /\ Write(line)
           /\ line.kind \in {"garble", "blank", "foreign", "update", "replay", "ask", "request"}
           /\ line.kind = "replay" => replaying
           /\ line.kind = "update" =>
                line.n = 0 \/ \E d \in due : d.method = "prompt" /\ line.n = d.turn
           /\ owing' \subseteq owing \cup (IF line.kind \in {"ask", "request"} THEN {line.n} ELSE {})
<1>1. CASE Garbled
  <2>1. /\ Line("garble", 0) \in Lines /\ Line("garble", 0).kind = "garble"
        /\ Write(Line("garble", 0)) /\ owing' = owing
    BY <1>1, LineTyped DEF Garbled, InKinds
  <2> QED BY <2>1
<1>2. CASE Say
  <2>1. CASE owing' = owing /\ \E line \in Volunteered : Write(line)
    <3>1. PICK line \in Volunteered : Write(line)
      BY <2>1
    <3> QED BY <2>1, <3>1, VolunteeredTyped
  <2>2. CASE \E kind \in {"ask", "request"}, id \in Ids \ owing :
                Write(Line(kind, id)) /\ owing' = owing \cup {id}
    <3>1. PICK kind \in {"ask", "request"}, id \in Ids \ owing :
             Write(Line(kind, id)) /\ owing' = owing \cup {id}
      BY <2>2
    <3>2. /\ Line(kind, id) \in Lines /\ Line(kind, id).kind = kind
          /\ Line(kind, id).n = id
      BY LineTyped, AcpOK DEF InKinds
    <3> QED BY <3>1, <3>2
  <2> QED BY <1>2, <2>1, <2>2 DEF Say
<1> QED BY <1>1, <1>2

\* Updates, when a line is taken.
LEMMA UpdatesTake ==
  ASSUME TypeOK, inbox # <<>>, Take
  PROVE  \A i \in Updates' : i \in Nat /\ i + 1 \in Updates /\ inbox'[i] = inbox[i + 1]
<1>1. \A i \in Unread({"update"})' :
         i \in Nat /\ i + 1 \in Unread({"update"}) /\ inbox'[i] = inbox[i + 1]
  BY Taken
<1> QED BY <1>1 DEF Updates

\* Updates, when a line is written.
LEMMA UpdatesWrite ==
  ASSUME TypeOK, NEW line \in Lines, Write(line)
  PROVE  LET n == Len(inbox) + 1
         IN  /\ n \notin Updates /\ \A i \in Updates : i \in Nat /\ i < n /\ inbox'[i] = inbox[i]
             /\ inbox'[n] = line
             /\ Updates' = Updates \cup (IF line.kind = "update" /\ line.n > 0 THEN {n} ELSE {})
<1> DEFINE n == Len(inbox) + 1
<1>1. /\ n \in Nat /\ n \notin DOMAIN inbox
      /\ \A i \in DOMAIN inbox : i \in Nat /\ i < n
      /\ inbox'[n] = line
      /\ \A i \in DOMAIN inbox : inbox'[i] = inbox[i]
      /\ Unread({"update"})' = Unread({"update"}) \cup (IF line.kind \in {"update"} THEN {n} ELSE {})
  BY Written
<1> HIDE DEF n
<1>2. \A i \in Unread({"update"}) : i \in DOMAIN inbox
  BY DEF Unread
<1>3. Updates' = Updates \cup (IF line.kind = "update" /\ line.n > 0 THEN {n} ELSE {})
  BY <1>1, <1>2 DEF Updates
<1> QED BY <1>1, <1>2, <1>3 DEF n, Updates

\* Every step keeps what is under way with the call in hand.
LEMMA CurrentStep ==
  ASSUME TypeOK, TypeOK', Ctl, OnceEach, Current, [Next]_vars
  PROVE  Current'
<1>0. CASE Exempt
  BY <1>0, AstrayGrows DEF Current, Exempt
<1> SUFFICES ASSUME ~Exempt PROVE Current'
  BY <1>0
<1> USE DEF Current
<1>n. nextId \in Nat
  BY DEF TypeOK
<1>s. ASSUME ~Going PROVE due = {} /\ Updates = {}
  BY <1>s DEF DueNow, HeardNow
<1>i. ASSUME due' = {}, Updates' = {} PROVE Current'
  BY <1>i DEF DueNow, HeardNow
<1>q. ASSUME ~Going, due' = due, inbox' = inbox PROVE Current'
  <2>1. Updates' = Updates
    BY <1>q DEF Updates, Unread
  <2> QED BY <1>q, <1>s, <1>i, <2>1
<1>g. ASSUME LetGo PROVE Current'
  <2>1. Updates' = {} /\ due' = {}
    BY <1>g, Emptied DEF LetGo, Updates
  <2> QED BY <2>1, <1>i
<1>f. ASSUME Unwoken PROVE Current'
  BY <1>f, <1>g DEF Unwoken
<1>u. ASSUME UNCHANGED <<inbox, due, nextId, turns, call>>, Going => Going' PROVE Current'
  <2>1. Updates' = Updates /\ Answers' = Answers
    BY <1>u DEF Updates, Answers, Unread
  <2> QED BY <1>u, <2>1 DEF DueNow, HeardNow
<1>k. ASSUME inbox # <<>>, Take, UNCHANGED <<due, nextId, turns, call>>, Going => Going',
             Head(inbox).kind \in {"answer", "refusal"} => Head(inbox).n # nextId - 1
      PROVE  Current'
  <2>1. DueNow'
    BY <1>k DEF DueNow
  <2>2. ASSUME NEW i \in Updates' PROVE
               /\ inbox'[i].n = turns /\ call = "prompt" /\ Going
               /\ due # {} \/ \E j \in Answers' : j > i /\ inbox'[j].n = nextId - 1
    <3>1. i \in Nat /\ i + 1 \in Updates /\ inbox'[i] = inbox[i + 1]
      BY <1>k, UpdatesTake
    <3>2. ASSUME NEW j \in Answers, j > i + 1, inbox[j].n = nextId - 1
          PROVE  \E m \in Answers' : m > i /\ inbox'[m].n = nextId - 1
      <4>1. j # 1 => /\ j \in Nat /\ j - 1 \in Answers' /\ inbox'[j - 1] = inbox[j]
        BY <1>k, Taken DEF Answers
      <4>2. j \in Nat /\ j # 1
        BY <3>1, <3>2, LinesTyped DEF Answers, Unread
      <4>3. j - 1 > i
        BY <3>1, <3>2, <4>2
      <4> QED BY <3>2, <4>1, <4>2, <4>3
    <3> QED BY <3>1, <3>2 DEF HeardNow
  <2> QED BY <1>k, <2>1, <2>2 DEF HeardNow
<1>1. CASE Send
  <2>1. due = {} /\ Updates = {}
    BY <1>1, <1>s DEF Send, Going
  <2>2. Updates' = {}
    BY <1>1, <2>1 DEF Send, Updates, Unread
  <2>3. CASE due' = due
    BY <2>1, <2>2, <2>3, <1>i
  <2>4. CASE at' = "wait" /\ due' = {[id |-> nextId, method |-> call, turn |-> turns]}
    <3>1. DueNow'
      BY <1>1, <2>4, <1>n DEF DueNow, Send, Going
    <3> QED BY <2>2, <3>1 DEF HeardNow
  <2> QED BY <1>1, <2>1, <2>3, <2>4 DEF Send
<1>2. CASE ReadPast
  <2>1. /\ UNCHANGED <<due, nextId, turns, call>> /\ inbox # <<>> /\ Take
        /\ (Going => Going')
    BY <1>2 DEF ReadPast, Going
  <2>2. Head(inbox).kind \in {"answer", "refusal"} => Head(inbox).n # nextId - 1
    BY <1>2 DEF ReadPast, IsAnswer
  <2> QED BY <2>1, <2>2, <1>k
<1>3. CASE ReadGarble
  <2>1. /\ UNCHANGED <<due, nextId, turns, call>> /\ inbox # <<>> /\ Take
        /\ (Going => Going')
    BY <1>3 DEF ReadGarble, Going, Tell
  <2> QED BY <2>1, <1>3, <1>k DEF ReadGarble
<1>4. CASE ReadOwn
  <2>1. CASE astray' = astray \cup {"unrecorded"}
    BY <2>1 DEF Exempt
  <2>2. CASE UNCHANGED <<at, outcome>> \/ Tell("broken")
    <3>1. /\ UNCHANGED <<due, nextId, turns, call>> /\ inbox # <<>> /\ Take
          /\ (Going => Going')
      BY <1>4, <2>2 DEF ReadOwn, Going, Tell
    <3> QED BY <3>1, <1>4, <1>k DEF ReadOwn, HasMethod
  <2> QED BY <1>4, <2>1, <2>2 DEF ReadOwn
<1>5. CASE ReadAnswer
  <2>1. 1 \in Answers /\ inbox[1].n = nextId - 1
    <3>1. Head(inbox) = inbox[1] /\ 1 \in DOMAIN inbox
      BY <1>5, Taken DEF ReadAnswer
    <3> QED BY <1>5, <3>1 DEF ReadAnswer, IsAnswer, Answers, Unread
  <2>2. due = {}
    BY <2>1 DEF DueNow, OnceEach, Numbered
  <2>3. ASSUME NEW i \in Updates' PROVE FALSE
    <3>1. i \in Nat /\ i + 1 \in Updates
      BY <1>5, UpdatesTake DEF ReadAnswer
    <3>2. PICK j \in Answers : j > i + 1 /\ inbox[j].n = nextId - 1
      BY <2>2, <3>1 DEF HeardNow
    <3>3. j = 1
      BY <2>1, <3>2 DEF OnceEach, Numbered
    <3> QED BY <3>1, <3>2, <3>3
  <2>4. due' = {} /\ Updates' = {}
    BY <1>5, <2>2, <2>3 DEF ReadAnswer
  <2> QED BY <2>4, <1>i
<1>6. CASE Silence
  <2>1. UNCHANGED <<inbox, due, nextId, turns, call>> /\ (Going => Going')
    BY <1>6 DEF Silence, Tell, wire, Going
  <2> QED BY <2>1, <1>u
<1>7. CASE DrainRead
  <2>1. ~Going /\ inbox # <<>> /\ Take /\ due' = due
    BY <1>7 DEF DrainRead, Going
  <2>2. Updates' = {} /\ due' = {}
    BY <2>1, <1>s, UpdatesTake
  <2> QED BY <2>2, <1>i
<1>8. CASE DrainQuiet \/ DrainLimit \/ DrainClosed
  <2>1. ~Going /\ inbox' = inbox /\ due' = due
    BY <1>8 DEF DrainQuiet, DrainLimit, DrainClosed, LeaveReplay, Tell, wire, Going
  <2> QED BY <2>1, <1>q
<1>9. CASE Greeted
  <2>1. CASE Unwoken
    BY <2>1, <1>f
  <2>2. CASE outcome = "ok" /\ Quiet
    <3>1. ~Going /\ inbox' = inbox /\ due' = due
      BY <1>9, <2>2 DEF Greeted, Quiet, wire, Going
    <3> QED BY <3>1, <1>q
  <2> QED BY <1>9, <2>1, <2>2 DEF Greeted
<1>10. CASE Climb
  <2>1. CASE Unwoken
    BY <2>1, <1>f
  <2>2. CASE Quiet /\ After(call, outcome) # "giveUp"
    <3>1. outcome \notin {"broken", "garbled"}
      BY <2>2 DEF After
    <3>2. ~Going /\ inbox' = inbox /\ due' = due
      BY <1>10, <2>2, <3>1 DEF Climb, Quiet, wire, Going
    <3> QED BY <3>2, <1>q
  <2> QED BY <1>10, <2>1, <2>2 DEF Climb, Rungs
<1>11. CASE RecordSession
  <2>1. CASE Unwoken
    BY <2>1, <1>f
  <2>2. CASE inbox' = inbox /\ due' = due
    BY <1>11, <2>2, <1>q DEF RecordSession, Going
  <2> QED BY <1>11, <2>1, <2>2 DEF RecordSession, wire
<1>12. CASE TellReset \/ Prompt \/ TakeTurn \/ Wake
  <2>1. ~Going /\ inbox' = inbox /\ due' = due
    BY <1>12 DEF TellReset, Prompt, TakeTurn, Wake, wire, Going
  <2> QED BY <2>1, <1>q
<1>13. CASE Ended
  <2>1. CASE LetGo
    BY <2>1, <1>g
  <2>2. CASE outcome \in {"ok", "unrecorded"}
    <3>1. ~Going /\ (LetGo \/ (inbox' = inbox /\ due' = due))
      BY <1>13, <2>2 DEF Ended, wire, Going
    <3> QED BY <3>1, <1>q, <1>g
  <2> QED BY <1>13, <2>1, <2>2 DEF Ended
<1>14. CASE Garbled \/ Say
  <2>1. PICK line \in Lines :
           /\ Write(line) /\ line.kind \notin {"answer", "refusal"}
           /\ line.kind = "update" =>
                line.n = 0 \/ \E d \in due : d.method = "prompt" /\ line.n = d.turn
    BY <1>14, SaidOnly
  <2>2. UNCHANGED <<due, nextId, at, outcome, call, turns>>
    BY <1>14 DEF Garbled, Say
  <2>3. Answers' = Answers /\ \A i \in Answers : inbox'[i] = inbox[i]
    BY <2>1, <2>2, NumberedWrite DEF OnceEach
  <2>4. DueNow'
    BY <2>2 DEF DueNow, Going
  <2> DEFINE n == Len(inbox) + 1
  <2>5. /\ \A i \in Updates : inbox'[i] = inbox[i]
        /\ inbox'[n] = line
        /\ Updates' = Updates \cup (IF line.kind = "update" /\ line.n > 0 THEN {n} ELSE {})
    BY <2>1, UpdatesWrite
  <2> HIDE DEF n
  <2>6. ASSUME NEW i \in Updates
        PROVE  /\ inbox'[i].n = turns /\ call = "prompt" /\ Going
               /\ due # {} \/ \E j \in Answers' : j > i /\ inbox'[j].n = nextId - 1
    BY <2>3, <2>5 DEF HeardNow
  <2>7. ASSUME line.kind = "update", line.n > 0
        PROVE  inbox'[n].n = turns /\ call = "prompt" /\ Going /\ due # {}
    <3>1. PICK d \in due : d.method = "prompt" /\ line.n = d.turn
      BY <2>1, <2>7
    <3> QED BY <2>5, <3>1 DEF DueNow
  <2>8. HeardNow'
    BY <2>2, <2>5, <2>6, <2>7 DEF HeardNow, Going
  <2> QED BY <2>4, <2>8
<1>15. CASE Answer
  <2>1. PICK d \in due, kind \in {"answer", "refusal"} :
           Write(Line(kind, d.id)) /\ due' = due \ {d}
    BY <1>15 DEF Answer
  <2>2. UNCHANGED <<nextId, at, outcome, call, turns>>
    BY <1>15 DEF Answer
  <2>3. /\ Line(kind, d.id) \in Lines /\ Line(kind, d.id).kind = kind
        /\ Line(kind, d.id).n = nextId - 1
    BY LineTyped DEF InKinds, TypeOK, Dues, DueNow
  <2>4. DueNow'
    BY <2>1, <2>2 DEF DueNow, Going
  <2> DEFINE n == Len(inbox) + 1
  <2>5. /\ \A i \in Updates : i < n /\ inbox'[i] = inbox[i]
        /\ inbox'[n] = Line(kind, d.id)
        /\ Updates' = Updates
    BY <2>1, <2>3, UpdatesWrite
  <2>6. Answers' = Answers \cup {n}
    BY <2>1, <2>3, Written DEF Answers
  <2> HIDE DEF n
  <2>7. HeardNow'
    BY <2>2, <2>3, <2>5, <2>6 DEF HeardNow, Going
  <2> QED BY <2>4, <2>7
<1>16. CASE Replayed \/ Die \/ UNCHANGED vars
  <2>1. UNCHANGED <<inbox, due, nextId, turns, call, at, outcome>>
    BY <1>16 DEF Replayed, Die, vars, wire
  <2> QED BY <2>1, <1>u DEF Going
<1>17. CASE HangUp
  <2>1. CASE LetGo
    BY <2>1, <1>g
  <2> QED BY <1>17, <2>1 DEF HangUp, Exempt
<1>18. CASE Crash
  BY <1>18, <1>g DEF Crash
<1> QED
  BY <1>1, <1>2, <1>3, <1>4, <1>5, <1>6, <1>7, <1>8, <1>9, <1>10, <1>11, <1>12,
     <1>13, <1>14,
     <1>15, <1>16, <1>17, <1>18 DEF Next, Client, Environment, Idle

-----------------------------------------------------------------------------
(* A replay is the load's.                                                 *)

\* Every step keeps a replay with its load.
LEMMA ReplayingStep ==
  ASSUME TypeOK, TypeOK', Ctl, OnceEach, Replaying, [Next]_vars
  PROVE  Replaying'
<1> USE DEF Replaying
<1>n. nextId \in Nat
  BY DEF TypeOK
<1>a. "replay" \in astray => "replay" \in astray'
  BY AstrayGrows
<1>r. ASSUME inbox' = inbox PROVE Answers' = Answers /\ Replays' = Replays
  BY <1>r DEF Answers, Replays, Unread
<1>g. ASSUME LetGo PROVE Replaying'
  <2>1. Replays' = {} /\ due' = {} /\ ~replaying' /\ at' = "off"
    BY <1>g, Emptied DEF LetGo, Replays
  <2> QED BY <2>1 DEF LoadDue, NoReplay, RefusedLast
<1>f. ASSUME Unwoken PROVE Replaying'
  BY <1>f, <1>g DEF Unwoken
\* Nothing of the pipe moves, outside of a load.
<1>q. ASSUME ~Loading, inbox' = inbox, due' = due, replaying' = replaying, at' # "wait"
      PROVE  Replaying'
  <2>1. LoadDue'
    BY <1>q DEF LoadDue, Loading, Going
  <2>2. "replay" \in astray' \/ NoReplay'
    BY <1>q, <1>r, <1>a DEF NoReplay
  <2> QED BY <1>q, <2>1, <2>2 DEF RefusedLast
\* A line is read, and the call goes on or breaks.
<1>k. ASSUME inbox # <<>>, Take, UNCHANGED <<due, nextId, call, replaying>>,
             Going => Going', Loading => Loading', at' = "wait" => at = "wait"
      PROVE  Replaying'
  <2>1. LoadDue'
    BY <1>k DEF LoadDue
  <2>2. \A i \in Replays' : i \in Nat /\ i + 1 \in Replays
    BY <1>k, Taken DEF Replays
  <2>3. \A i \in Answers' : i \in Nat /\ i + 1 \in Answers /\ inbox'[i] = inbox[i + 1]
    BY <1>k, Taken DEF Answers
  <2>4. "replay" \in astray' \/ Loading' \/ NoReplay'
    BY <1>k, <1>a, <2>2 DEF NoReplay
  <2>5. ASSUME call = "load", at = "wait", NEW i \in Answers', inbox'[i].kind = "refusal",
               inbox'[i].n = nextId - 1
        PROVE  ~replaying /\ \A j \in Replays' : j < i
    <3>1. ~replaying /\ \A j \in Replays : j < i + 1
      BY <2>3, <2>5 DEF RefusedLast
    <3>2. ASSUME NEW j \in Replays' PROVE j < i
      <4>1. j + 1 < i + 1 /\ j \in Nat /\ i \in Nat
        BY <2>2, <2>3, <3>1
      <4> QED BY <4>1
    <3> QED BY <3>1, <3>2
  <2>6. RefusedLast'
    BY <1>k, <2>5 DEF RefusedLast
  <2> QED BY <2>1, <2>4, <2>6
<1>1. CASE Send
  <2>1. inbox' = inbox /\ Answers' = Answers /\ Replays' = Replays /\ call' = call
        /\ nextId' = nextId + 1 /\ at = "send"
    BY <1>1, <1>r DEF Send
  <2>2. CASE due' = due /\ replaying' = replaying /\ at' = "told"
    BY <2>1, <2>2, <1>q DEF Loading
  <2>3. CASE /\ due' = due \cup {[id |-> nextId, method |-> call, turn |-> turns]}
             /\ replaying' = (replaying \/ call = "load") /\ at' = "wait"
    <3>1. LoadDue'
      BY <1>n, <2>1, <2>3 DEF LoadDue, Going
    <3>2. "replay" \in astray' \/ Loading' \/ NoReplay'
      BY <1>a, <2>1, <2>3 DEF NoReplay, Loading
    <3>3. \A i \in Answers : inbox[i].n < nextId
      BY DEF OnceEach, Numbered
    <3>4. RefusedLast'
      BY <1>n, <2>1, <3>3 DEF RefusedLast
    <3> QED BY <3>1, <3>2, <3>4
  <2> QED BY <1>1, <2>2, <2>3 DEF Send, Tell
<1>2. CASE ReadPast \/ ReadGarble
  BY <1>2, <1>k DEF ReadPast, ReadGarble, Tell, Going, Loading
<1>3. CASE ReadOwn
  <2>1. CASE UNCHANGED <<at, outcome>> \/ Tell("broken")
    BY <1>3, <2>1, <1>k DEF ReadOwn, Tell, Going, Loading
  <2>2. CASE call = "prompt" /\ Tell("unrecorded")
    <3>1. /\ inbox # <<>> /\ Take /\ UNCHANGED <<due, nextId, call, replaying>>
          /\ ~Loading /\ at' = "told"
      BY <1>3, <2>2 DEF ReadOwn, Tell, Loading
    <3>2. LoadDue' /\ RefusedLast'
      BY <2>2, <3>1 DEF LoadDue, RefusedLast
    <3>3. \A i \in Replays' : i + 1 \in Replays
      BY <3>1, Taken DEF Replays
    <3> QED BY <3>1, <3>2, <3>3, <1>a DEF NoReplay
  <2> QED BY <1>3, <2>1, <2>2 DEF ReadOwn
<1>4. CASE ReadAnswer
  <2>1. /\ inbox # <<>> /\ Take /\ UNCHANGED <<due, nextId, call, replaying>>
        /\ at = "wait" /\ at' \in {"told", "drain"}
    BY <1>4 DEF ReadAnswer, Tell
  <2>2. 1 \in Answers /\ inbox[1].n = nextId - 1 /\ Head(inbox) = inbox[1]
    <3>1. Head(inbox) = inbox[1] /\ 1 \in DOMAIN inbox
      BY <2>1, Taken
    <3> QED BY <1>4, <3>1 DEF ReadAnswer, IsAnswer, Answers, Unread
  <2>3. LoadDue'
    BY <2>1, <2>2 DEF LoadDue, OnceEach, Numbered
  <2>4. \A i \in Replays' : i \in Nat /\ i + 1 \in Replays
    BY <2>1, Taken DEF Replays
  <2>5. CASE call # "load"
    BY <2>1, <2>3, <2>4, <2>5, <1>a DEF NoReplay, Loading, RefusedLast
  <2>6. CASE call = "load" /\ at' = "drain"
    BY <2>1, <2>3, <2>6 DEF Loading, RefusedLast
  <2>7. CASE call = "load" /\ Head(inbox).kind = "refusal"
    <3>1. ~replaying /\ \A j \in Replays : j < 1
      BY <2>1, <2>2, <2>7 DEF RefusedLast
    <3>2. NoReplay'
      BY <2>1, <2>4, <3>1 DEF NoReplay
    <3> QED BY <2>1, <2>3, <3>2 DEF RefusedLast
  <2> QED BY <1>4, <2>5, <2>6, <2>7 DEF ReadAnswer
<1>5. CASE Silence
  <2>1. /\ UNCHANGED <<inbox, due, replaying, nextId, call>> /\ at' = "told"
        /\ outcome' = "broken"
        /\ at = "wait"
    BY <1>5 DEF Silence, Tell, wire
  <2>2. LoadDue'
    BY <2>1 DEF LoadDue, Going
  <2>3. "replay" \in astray' \/ Loading' \/ NoReplay'
    BY <2>1, <1>a, <1>r DEF Loading, NoReplay
  <2> QED BY <2>1, <2>2, <2>3 DEF RefusedLast
<1>6. CASE DrainRead
  BY <1>6, <1>k DEF DrainRead, Tell, Going, Loading, Ctl
<1>7. CASE DrainQuiet \/ DrainLimit
  <2>1. /\ UNCHANGED <<inbox, due, replaying, nextId, call>> /\ at' = "told"
        /\ at = "drain"
        /\ astray' = astray \cup (IF replaying \/ inbox # <<>> THEN {"replay"} ELSE {})
    BY <1>7 DEF DrainQuiet, DrainLimit, LeaveReplay, Tell, wire
  <2>2. LoadDue'
    BY <2>1 DEF LoadDue, OnceEach, Spent
  <2>3. CASE replaying \/ inbox # <<>>
    BY <2>1, <2>2, <2>3 DEF RefusedLast
  <2>4. CASE ~replaying /\ inbox = <<>>
    <3>1. Replays' = {}
      BY <2>1, <2>4, Emptied DEF Replays
    <3> QED BY <2>1, <2>2, <2>4, <3>1 DEF RefusedLast, NoReplay
  <2> QED BY <2>3, <2>4
<1>8. CASE DrainClosed
  <2>1. /\ UNCHANGED <<inbox, due, replaying, nextId, call>> /\ at' = "told"
        /\ outcome' = "broken"
        /\ at = "drain"
    BY <1>8 DEF DrainClosed, Tell, wire
  <2> QED BY <2>1 DEF LoadDue, OnceEach, Spent, Loading, RefusedLast, Ctl
<1>9. CASE Greeted
  <2>1. CASE Unwoken
    BY <2>1, <1>f
  <2> QED BY <1>9, <2>1, <1>q DEF Greeted, Quiet, wire, Loading
<1>10. CASE Climb
  <2>1. CASE Unwoken
    BY <2>1, <1>f
  <2>2. CASE Quiet /\ After(call, outcome) # "giveUp" /\ at' # "wait"
    <3>1. outcome \notin {"broken", "garbled"}
      BY <2>2 DEF After
    <3> QED BY <1>10, <2>2, <3>1, <1>q DEF Climb, Quiet, wire, Loading
  <2> QED BY <1>10, <2>1, <2>2 DEF Climb, Rungs
<1>11. CASE RecordSession
  <2>1. CASE Unwoken
    BY <2>1, <1>f
  <2> QED BY <1>11, <2>1, <1>q DEF RecordSession, wire, Loading
<1>12. CASE TellReset \/ Prompt \/ TakeTurn \/ Wake
  BY <1>12, <1>q DEF TellReset, Prompt, TakeTurn, Wake, Tell, wire, Loading
<1>13. CASE Ended
  <2>1. CASE LetGo
    BY <2>1, <1>g
  <2> QED BY <1>13, <2>1, <1>q DEF Ended, wire, Loading
<1>14. CASE Garbled \/ Say
  <2>1. PICK line \in Lines :
           /\ Write(line) /\ line.kind \notin {"answer", "refusal"}
           /\ line.kind = "replay" => replaying
    BY <1>14, SaidOnly
  <2>2. UNCHANGED <<due, nextId, at, outcome, call, turns, replaying>>
    BY <1>14 DEF Garbled, Say
  <2>3. Answers' = Answers /\ \A i \in Answers : inbox'[i] = inbox[i]
    BY <2>1, <2>2, NumberedWrite DEF OnceEach
  <2>4. Replays' = Replays \cup (IF line.kind \in {"replay"} THEN {Len(inbox) + 1} ELSE {})
    BY <2>1, Written DEF Replays
  <2>5. ~replaying => Replays' = Replays
    BY <2>1, <2>4
  <2> QED BY <2>2, <2>3, <2>5, <1>a DEF LoadDue, Going, Loading, NoReplay, RefusedLast
<1>15. CASE Answer
  <2>1. PICK d \in due, kind \in {"answer", "refusal"} :
           /\ Write(Line(kind, d.id)) /\ due' = due \ {d}
           /\ replaying' = (replaying /\ ~(d.method = "load" /\ kind = "refusal"))
    BY <1>15 DEF Answer
  <2>2. UNCHANGED <<nextId, at, outcome, call, turns>>
    BY <1>15 DEF Answer
  <2>3. /\ Line(kind, d.id) \in Lines /\ Line(kind, d.id).kind = kind
        /\ Line(kind, d.id).n = d.id
    BY LineTyped DEF InKinds, TypeOK, Dues
  <2> DEFINE n == Len(inbox) + 1
  <2>4. Replays' = Replays \cup (IF kind \in {"replay"} THEN {n} ELSE {})
    BY <2>1, <2>3, Written DEF Replays
  <2>5. Replays' = Replays
    BY <2>4
  <2>6. /\ inbox'[n] = Line(kind, d.id)
        /\ \A i \in DOMAIN inbox : i < n /\ inbox'[i] = inbox[i]
        /\ Answers' = Answers \cup {n}
    BY <2>1, <2>3, Written DEF Answers
  <2> HIDE DEF n
  <2>7. ASSUME call = "load", at = "wait", NEW i \in Answers', inbox'[i].kind = "refusal",
               inbox'[i].n = nextId - 1
        PROVE  ~replaying' /\ \A j \in Replays' : j < i
    <3>1. CASE i = n
      <4>1. d.method = "load" /\ kind = "refusal"
        BY <2>3, <2>6, <2>7, <3>1 DEF OnceEach, OfThisCall
      <4>2. \A j \in Replays : j < n
        BY <2>6 DEF Replays, Unread
      <4> QED BY <2>1, <2>5, <3>1, <4>1, <4>2
    <3>2. CASE i \in Answers
      <4>1. inbox'[i] = inbox[i]
        BY <2>6, <3>2 DEF Answers, Unread
      <4> QED BY <2>1, <2>5, <2>7, <3>2, <4>1 DEF RefusedLast
    <3> QED BY <2>6, <3>1, <3>2
  <2>8. RefusedLast'
    BY <2>2, <2>7 DEF RefusedLast
  <2>9. LoadDue'
    BY <2>1, <2>2 DEF LoadDue, Going
  <2> QED BY <2>1, <2>2, <2>5, <2>8, <2>9, <1>a DEF Loading, NoReplay
<1>16. CASE Replayed \/ Die \/ UNCHANGED vars
  <2>1. /\ UNCHANGED <<inbox, due, nextId, turns, call, at, outcome>>
        /\ (replaying' => replaying)
    BY <1>16 DEF Replayed, Die, vars, wire
  <2> QED BY <2>1, <1>r, <1>a DEF Going, LoadDue, Loading, NoReplay, RefusedLast
<1>17. CASE HangUp
  <2>1. CASE LetGo
    BY <2>1, <1>g
  <2> QED BY <1>17, <2>1, <1>q DEF HangUp, Loading
<1>18. CASE Crash
  BY <1>18, <1>g DEF Crash
<1> QED
  BY <1>1, <1>2, <1>3, <1>4, <1>5, <1>6, <1>7, <1>8, <1>9, <1>10, <1>11, <1>12,
     <1>13, <1>14,
     <1>15, <1>16, <1>17, <1>18 DEF Next, Client, Environment, Idle

-----------------------------------------------------------------------------
(* What the adapter asked is answered, or is still to be read.             *)

\* Every step keeps what is owed readable.
LEMMA OwedStep ==
  ASSUME TypeOK, TypeOK', Ctl, Owed, [Next]_vars
  PROVE  Owed'
<1> USE DEF Owed
<1>0. CASE Exempt
  BY <1>0, AstrayGrows DEF Exempt
<1> SUFFICES ASSUME ~Exempt PROVE Owed'
  BY <1>0
<1>g. ASSUME LetGo PROVE Owed'
  BY <1>g DEF LetGo
<1>f. ASSUME Unwoken PROVE Owed'
  BY <1>f, <1>g DEF Unwoken
<1>b. ASSUME at' = "told", outcome' = "broken" PROVE Owed'
  BY <1>b
<1>u. ASSUME ~(at = "told" /\ outcome = "broken"), inbox' = inbox, owing' = owing PROVE Owed'
  BY <1>u DEF Unread
\* A line is read; if it is a request, it is answered.
<1>k. ASSUME inbox # <<>>, Take, ~(at = "told" /\ outcome = "broken"),
             \/ owing' = Answered(Head(inbox))
             \/ owing' = owing /\ Head(inbox).kind \notin {"ask", "request"}
      PROVE  Owed'
  <2>1. /\ Head(inbox) = inbox[1]
        /\ \A i \in Unread({"ask", "request"}) :
              i # 1 => i - 1 \in Unread({"ask", "request"})' /\ inbox'[i - 1] = inbox[i]
    BY <1>k, Taken
  <2>2. ASSUME NEW id \in owing' PROVE \E i \in Unread({"ask", "request"})' : inbox'[i].n = id
    <3>1. /\ id \in owing
          /\ (Head(inbox).kind \in {"ask", "request"} => Head(inbox).n # id)
      BY <1>k DEF Answered
    <3>2. PICK i \in Unread({"ask", "request"}) : inbox[i].n = id
      BY <1>k, <3>1
    <3>3. i # 1
      BY <2>1, <3>1, <3>2 DEF Unread
    <3> QED BY <2>1, <3>2, <3>3
  <2> QED BY <2>2
<1>1. CASE Send
  BY <1>1, <1>u, <1>b DEF Send, Tell
<1>2. CASE ReadPast
  <2>1. Head(inbox).kind \notin {"ask", "request"}
    BY <1>2 DEF ReadPast, HasMethod
  <2> QED BY <1>2, <2>1, <1>k DEF ReadPast
<1>3. CASE ReadGarble
  BY <1>3, <1>k DEF ReadGarble
<1>4. CASE ReadOwn
  <2>1. CASE astray' = astray \cup {"unrecorded"}
    BY <2>1 DEF Exempt
  <2> QED BY <1>4, <2>1, <1>k, <1>b DEF ReadOwn, Tell
<1>5. CASE ReadAnswer
  BY <1>5, <1>k DEF ReadAnswer, IsAnswer
<1>6. CASE Silence \/ DrainClosed
  BY <1>6, <1>b DEF Silence, DrainClosed, Tell
<1>7. CASE DrainRead
  BY <1>7, <1>k, <1>b DEF DrainRead, Tell
<1>8. CASE DrainQuiet \/ DrainLimit
  BY <1>8, <1>u DEF DrainQuiet, DrainLimit, LeaveReplay, wire
<1>9. CASE Greeted
  BY <1>9, <1>f, <1>u DEF Greeted, Quiet, wire
<1>10. CASE Climb
  <2>1. CASE Unwoken
    BY <2>1, <1>f
  <2>2. CASE Quiet /\ After(call, outcome) # "giveUp"
    <3>1. outcome # "broken"
      BY <2>2 DEF After
    <3> QED BY <2>2, <3>1, <1>u DEF Quiet, wire
  <2> QED BY <1>10, <2>1, <2>2 DEF Climb, Rungs
<1>11. CASE RecordSession
  BY <1>11, <1>f, <1>u DEF RecordSession, wire
<1>12. CASE TellReset \/ Prompt \/ TakeTurn \/ Wake
  BY <1>12, <1>u DEF TellReset, Prompt, TakeTurn, Wake, wire
<1>13. CASE Ended
  BY <1>13, <1>g, <1>u DEF Ended, wire
<1>14. CASE Garbled \/ Say
  <2>0. CASE at = "told" /\ outcome = "broken"
    BY <1>14, <2>0, <1>b DEF Garbled, Say
  <2> SUFFICES ASSUME ~(at = "told" /\ outcome = "broken") PROVE Owed'
    BY <2>0
  <2>1. PICK line \in Lines :
           /\ Write(line)
           /\ owing' \subseteq owing \cup (IF line.kind \in {"ask", "request"} THEN {line.n} ELSE {})
    BY <1>14, SaidOnly
  <2> DEFINE n == Len(inbox) + 1
  <2>2. /\ inbox'[n] = line
        /\ \A i \in DOMAIN inbox : inbox'[i] = inbox[i]
        /\ Unread({"ask", "request"})' =
             Unread({"ask", "request"}) \cup (IF line.kind \in {"ask", "request"} THEN {n} ELSE {})
    BY <2>1, Written
  <2> HIDE DEF n
  <2>3. \A i \in Unread({"ask", "request"}) : inbox'[i] = inbox[i]
    BY <2>2 DEF Unread
  <2>4. \A id \in owing' : \E i \in Unread({"ask", "request"})' : inbox'[i].n = id
    BY <2>1, <2>2, <2>3
  <2> QED BY <2>4
<1>15. CASE Answer
  <2>0. CASE at = "told" /\ outcome = "broken"
    BY <1>15, <2>0, <1>b DEF Answer
  <2> SUFFICES ASSUME ~(at = "told" /\ outcome = "broken") PROVE Owed'
    BY <2>0
  <2>1. PICK d \in due, kind \in {"answer", "refusal"} :
           Write(Line(kind, d.id)) /\ owing' = owing
    BY <1>15 DEF Answer
  <2>2. Line(kind, d.id) \in Lines /\ Line(kind, d.id).kind = kind
    BY LineTyped DEF InKinds, TypeOK, Dues
  <2>3. /\ \A i \in DOMAIN inbox : inbox'[i] = inbox[i]
        /\ Unread({"ask", "request"})' =
             Unread({"ask", "request"}) \cup (IF kind \in {"ask", "request"} THEN {Len(inbox) + 1} ELSE {})
    BY <2>1, <2>2, Written
  <2>4. \A i \in Unread({"ask", "request"}) : inbox'[i] = inbox[i]
    BY <2>3 DEF Unread
  <2>5. \A id \in owing' : \E i \in Unread({"ask", "request"})' : inbox'[i].n = id
    BY <2>1, <2>3, <2>4
  <2> QED BY <2>5
<1>16. CASE Replayed \/ Die \/ UNCHANGED vars
  <2>1. UNCHANGED <<inbox, owing, at, outcome>>
    BY <1>16 DEF Replayed, Die, vars, wire
  <2> QED BY <2>1, <1>u, <1>b
<1>17. CASE HangUp
  BY <1>17, <1>g DEF HangUp, Exempt
<1>18. CASE Crash
  BY <1>18, <1>g DEF Crash
<1> QED
  BY <1>1, <1>2, <1>3, <1>4, <1>5, <1>6, <1>7, <1>8, <1>9, <1>10, <1>11, <1>12,
     <1>13, <1>14,
     <1>15, <1>16, <1>17, <1>18 DEF Next, Client, Environment, Idle

-----------------------------------------------------------------------------
(* The prompt an entry of the log stands under.                            *)

\* The prompt that place i of a log stands under.
LastOf(s, i) ==
  LET before == {j \in 1..i : s[j].kind = "prompt"}
  IN  IF before = {} THEN 0
      ELSE s[CHOOSE j \in before : \A k \in before : k <= j].n

\* LastPrompt is that of the log.
LEMMA LastOfLog == /\ \A i : LastPrompt(i) = LastOf(log, i)
                   /\ \A i : LastPrompt(i)' = LastOf(log', i)
                   /\ LastPrompt(Len(log))' = LastOf(log', Len(log'))
BY DEF LastPrompt, LastOf

\* A set of numbers has a least one.
LEMMA LeastNumber ==
  ASSUME NEW S \in SUBSET Nat, S # {}
  PROVE  \E n \in S : \A m \in S : n <= m
<1>1. PICK n \in S : \A m \in S : <<m, n>> \notin OpToRel(<, Nat)
  BY NatLessThanWellFounded, WFMin
<1>2. \A m \in S : ~(m < n)
  BY <1>1 DEF OpToRel
<1>3. ASSUME NEW m \in S PROVE n <= m
  <2>1. m \in Nat /\ n \in Nat
    OBVIOUS
  <2> QED BY <1>2, <2>1
<1> QED BY <1>3

\* A set of places has a last one, and it is the one chosen.
LEMMA LastChosen ==
  ASSUME NEW i \in Nat, NEW S \in SUBSET (1..i), S # {}
  PROVE  /\ (CHOOSE j \in S : \A k \in S : k <= j) \in S
         /\ \A k \in S : k <= (CHOOSE j \in S : \A l \in S : l <= j)
<1> DEFINE D == {i - k : k \in S}
<1>0. \A k \in S : k \in Nat /\ i - k \in Nat
  OBVIOUS
<1>1. D \in SUBSET Nat /\ D # {}
  BY <1>0
<1> HIDE DEF D
<1>2. PICK n \in D : \A m \in D : n <= m
  BY <1>1, LeastNumber
<1>3. PICK j \in S : n = i - j
  BY <1>2 DEF D
<1>4. ASSUME NEW k \in S PROVE k <= j
  <2>1. i - j <= i - k
    BY <1>2, <1>3 DEF D
  <2>2. j \in Nat /\ k \in Nat
    OBVIOUS
  <2> QED BY <2>1, <2>2
<1> QED BY <1>4

\* An entry added moves no place under another prompt.
LEMMA LastOfGrows ==
  ASSUME NEW s \in Seq(Entries), NEW e \in Entries
  PROVE  /\ \A i \in 0..Len(s) : LastOf(Append(s, e), i) = LastOf(s, i)
         /\ e.kind # "prompt" => LastOf(Append(s, e), Len(s) + 1) = LastOf(s, Len(s))
         /\ e.kind = "prompt" => LastOf(Append(s, e), Len(s) + 1) = e.n
<1> DEFINE t == Append(s, e)
           In(u, i) == {j \in 1..i : u[j].kind = "prompt"}
           Top(S) == CHOOSE j \in S : \A k \in S : k <= j
<1>0. /\ Len(s) \in Nat /\ DOMAIN s = 1..Len(s) /\ t[Len(s) + 1] = e
      /\ \A i \in 1..Len(s) : t[i] = s[i]
  BY AppendIs
<1> HIDE DEF t
<1>1. \A u, i : LastOf(u, i) = IF In(u, i) = {} THEN 0 ELSE u[Top(In(u, i))].n
  BY DEF LastOf
<1>2. ASSUME NEW i \in Nat, NEW u, In(u, i) # {}
      PROVE  Top(In(u, i)) \in In(u, i) /\ \A k \in In(u, i) : k <= Top(In(u, i))
  BY <1>2, LastChosen
<1>3. ASSUME NEW i \in 0..Len(s) PROVE LastOf(t, i) = LastOf(s, i)
  <2>1. In(t, i) = In(s, i)
    BY <1>0
  <2>2. CASE In(s, i) = {}
    BY <1>1, <2>1, <2>2
  <2>3. CASE In(s, i) # {}
    <3>1. Top(In(s, i)) \in 1..Len(s)
      <4>1. i \in Nat /\ \A j \in 1..i : j \in 1..Len(s)
        BY <1>0
      <4>2. Top(In(s, i)) \in In(s, i)
        BY <1>2, <2>3, <4>1
      <4>3. Top(In(s, i)) \in 1..i
        BY <4>2
      <4> QED BY <4>1, <4>3
    <3>2. t[Top(In(s, i))] = s[Top(In(s, i))]
      BY <1>0, <3>1
    <3> HIDE DEF In, Top
    <3> QED BY <1>1, <2>1, <2>3, <3>2
  <2> QED BY <2>2, <2>3
<1>4. ASSUME e.kind # "prompt" PROVE LastOf(t, Len(s) + 1) = LastOf(t, Len(s))
  <2>1. In(t, Len(s) + 1) = In(t, Len(s))
    BY <1>0, <1>4
  <2> HIDE DEF In, Top
  <2> QED BY <1>1, <2>1
<1>5. ASSUME e.kind = "prompt" PROVE LastOf(t, Len(s) + 1) = e.n
  <2>1. Len(s) + 1 \in In(t, Len(s) + 1) /\ Len(s) + 1 \in Nat
    BY <1>0, <1>5
  <2>2. /\ Top(In(t, Len(s) + 1)) \in In(t, Len(s) + 1)
        /\ Len(s) + 1 <= Top(In(t, Len(s) + 1))
    BY <1>2, <2>1
  <2>3. Top(In(t, Len(s) + 1)) \in 1..(Len(s) + 1)
    BY <2>2
  <2>4. Top(In(t, Len(s) + 1)) = Len(s) + 1
    BY <1>0, <2>2, <2>3
  <2> HIDE DEF In, Top
  <2> QED BY <1>0, <1>1, <2>1, <2>4
<1>6. LastOf(t, Len(s)) = LastOf(s, Len(s))
  BY <1>0, <1>3
<1> QED BY <1>3, <1>4, <1>5, <1>6 DEF t

-----------------------------------------------------------------------------
(* The log is the conversation.                                            *)

\* An entry is added to the log: what is true of it.
Fits(e) ==
  /\ e.kind = "update" /\ e.n > 0 =>
       /\ \A i \in Lost : log[i].n < e.n
       /\ \/ LastPrompt(Len(log)) = e.n
          \/ Exempt /\ LastPrompt(Len(log)) > e.n
  /\ e.kind = "replay" => "replay" \in astray

\* A log that was not written to is the conversation it was.
LEMMA LogUnchanged ==
  ASSUME log' = log, astray \subseteq astray'
  PROVE  /\ LogIsTheConversation => LogIsTheConversation'
         /\ LastPrompt(Len(log))' = LastPrompt(Len(log)) /\ Lost' = Lost
<1>1. \A i : LastPrompt(i)' = LastPrompt(i)
  BY LastOfLog
<1>2. LastPrompt(Len(log))' = LastPrompt(Len(log))
  BY DEF LastPrompt
<1>3. Lost' = Lost
  BY DEF Lost
<1>4. LogIsTheConversation => LogIsTheConversation'
  BY <1>1 DEF LogIsTheConversation
<1> QED BY <1>2, <1>3, <1>4

\* A log that an entry was added to which fits is the conversation.
LEMMA LogAppended ==
  ASSUME TypeOK, LogIsTheConversation, astray \subseteq astray',
         NEW e \in Entries, Fits(e), log' = Append(log, e)
  PROVE  /\ LogIsTheConversation'
         /\ LastPrompt(Len(log))' = IF e.kind = "prompt" THEN e.n ELSE LastPrompt(Len(log))
         /\ Lost' = Lost \cup (IF e.kind \in {"dropped", "corrupted"} THEN {Len(log) + 1} ELSE {})
         /\ \A i \in Lost : log'[i] = log[i]
         /\ log'[Len(log) + 1] = e
<1>0. log \in Seq(Entries)
  BY DEF TypeOK
<1>n. PICK n \in Nat : n = Len(log) + 1
  BY <1>0
<1>1. /\ Len(log) \in Nat /\ Len(log') = n /\ DOMAIN log = 1..Len(log)
      /\ DOMAIN log' = DOMAIN log \cup {n} /\ log'[n] = e
      /\ \A i \in DOMAIN log : log'[i] = log[i]
  BY <1>0, <1>n, AppendIs
<1>2. /\ \A i \in DOMAIN log : LastPrompt(i)' = LastPrompt(i)
      /\ LastPrompt(n)' = IF e.kind = "prompt" THEN e.n ELSE LastPrompt(Len(log))
  <2>1. /\ \A i \in 0..Len(log) : LastOf(log', i) = LastOf(log, i)
        /\ LastOf(log', n) = IF e.kind = "prompt" THEN e.n ELSE LastOf(log, Len(log))
    BY <1>0, <1>n, LastOfGrows
  <2>2. \A i \in DOMAIN log : i \in 0..Len(log)
    BY <1>1
  <2> QED BY <2>1, <2>2, LastOfLog
<1>3. LastPrompt(Len(log))' = LastPrompt(n)'
  BY <1>1, LastOfLog
<1>4. n \in Nat /\ \A i \in DOMAIN log : i < n /\ i \in Nat
  BY <1>1, <1>n
<1>5. Lost' = Lost \cup (IF e.kind \in {"dropped", "corrupted"} THEN {n} ELSE {})
  BY <1>1, <1>4 DEF Lost
<1>6. \A i \in Lost : log'[i] = log[i] /\ i \in DOMAIN log
  BY <1>1 DEF Lost
<1>7. ASSUME NEW i \in DOMAIN log', log'[i].kind \in {"dropped", "corrupted"},
             NEW j \in i..Len(log'), log'[j].kind = "update" /\ log'[j].n > 0
      PROVE  log'[j].n > log'[i].n
  <2>1. i \in Nat /\ j \in Nat /\ i <= j /\ j <= n /\ j \in 1..n
    BY <1>1, <1>4, <1>7
  <2>2. i # n
    <3> SUFFICES ASSUME i = n PROVE FALSE
      OBVIOUS
    <3>1. j = n
      BY <2>1, <1>4
    <3> QED BY <3>1, <1>7
  <2>3. i \in Lost /\ log'[i] = log[i] /\ i \in DOMAIN log
    BY <1>1, <1>7, <2>2 DEF Lost
  <2>4. CASE j = n
    <3>1. log[i].n < e.n
      BY <1>1, <1>7, <2>3, <2>4 DEF Fits
    <3>2. e.n \in Nat /\ log[i].n \in Nat
      BY <1>0, <2>3 DEF Entries
    <3> QED BY <1>1, <2>3, <2>4, <3>1, <3>2
  <2>5. CASE j # n
    <3>1. j \in DOMAIN log /\ j \in i..Len(log)
      BY <1>1, <2>1, <2>5, <1>4, <1>n
    <3> QED BY <1>1, <1>7, <2>3, <3>1 DEF LogIsTheConversation
  <2> QED BY <2>4, <2>5
<1>8. ASSUME NEW i \in DOMAIN log', log'[i].kind = "update", log'[i].n > 0
      PROVE  \/ LastPrompt(i)' = log'[i].n
             \/ /\ astray' \cap {"unrecorded", "dropped"} # {}
                /\ LastPrompt(i)' > log'[i].n
  <2>1. CASE i = n
    <3>1. LastPrompt(i)' = LastPrompt(Len(log)) /\ log'[i] = e
      BY <1>1, <1>2, <1>8, <2>1
    <3> QED BY <1>8, <2>1, <3>1 DEF Fits, Exempt
  <2>2. CASE i \in DOMAIN log
    <3>1. LastPrompt(i)' = LastPrompt(i) /\ log'[i] = log[i]
      BY <1>1, <1>2, <2>2
    <3> QED BY <1>8, <2>2, <3>1 DEF LogIsTheConversation
  <2> QED BY <1>1, <2>1, <2>2
<1>9. ASSUME NEW i \in DOMAIN log', log'[i].kind = "replay" PROVE "replay" \in astray'
  BY <1>1, <1>9 DEF Fits, LogIsTheConversation
<1>10. LogIsTheConversation'
  BY <1>7, <1>8, <1>9 DEF LogIsTheConversation
<1> QED BY <1>1, <1>2, <1>3, <1>5, <1>6, <1>10, <1>n

\* What a step that puts no prompt into the log leaves alone.
Grown ==
  \/ log' = log
  \/ \E e \in Entries :
        /\ log' = Append(log, e) /\ Fits(e) /\ e.kind # "prompt"
        /\ e.kind \in {"dropped", "corrupted"} =>
             e.n = turns /\ Updates' = {} /\ due' = {} /\ at' \in {"off", "ready"}
Heard ==
  \A k \in Updates' :
     \/ \E m \in Updates : inbox'[k].n = inbox[m].n
     \/ \E d \in due : d.method = "prompt" /\ inbox'[k].n = d.turn

\* Such a step keeps the log and what may be added to it.
LEMMA ConvKept ==
  ASSUME TypeOK, Conv, astray \subseteq astray', Grown, Heard,
         turns' = turns \/ turns' = turns + 1,
         at' \notin {"off", "ready"} => at \notin {"off", "ready"} \/ turns' = turns + 1,
         \A d \in due' : d \in due \/ (d.turn = turns /\ at \notin {"off", "ready"}),
         call' = "prompt" /\ at' \in {"send", "wait"} =>
            call = "prompt" /\ at \in {"send", "wait"} /\ turns' = turns
  PROVE  Conv'
<1>t. turns \in Nat /\ turns' \in Nat /\ turns <= turns'
  BY DEF TypeOK
<1>d. \A d \in due : d.turn \in Nat /\ d.turn <= turns
  BY DEF TypeOK, Dues, Conv, Bounded
<1>u. \A m \in Updates : inbox[m].n \in Nat /\ inbox[m].n <= turns
  BY LinesTyped DEF Conv, Bounded, Updates, Unread
<1>k. \A k \in Updates' : inbox'[k].n \in Nat /\ inbox'[k].n <= turns
  BY <1>d, <1>u DEF Heard
<1>b. Bounded'
  BY <1>t, <1>d, <1>k DEF Bounded
<1>l. \A i \in Lost : log[i].n \in Nat
  <2>1. \A i \in Lost : log[i] \in Entries
    BY DEF TypeOK, Lost
  <2> QED BY <2>1 DEF Entries
\* What is over is over after the step.
<1>o. ASSUME NEW i \in Lost
      PROVE  /\ log[i].n <= turns'
             /\ at' \notin {"off", "ready"} => log[i].n < turns'
             /\ \A k \in Updates' : inbox'[k].n > log[i].n
             /\ \A d \in due' : d.method = "prompt" => d.turn > log[i].n
  <2>1. /\ log[i].n <= turns /\ log[i].n \in Nat
        /\ at \notin {"off", "ready"} => log[i].n < turns
        /\ \A k \in Updates : inbox[k].n > log[i].n
        /\ \A d \in due : d.method = "prompt" => d.turn > log[i].n
    BY <1>l DEF Conv, LostIsOver
  <2>2. \A k \in Updates' : inbox'[k].n > log[i].n
    BY <2>1 DEF Heard
  <2>3. \A d \in due' : d.method = "prompt" => d.turn > log[i].n
    BY <1>t, <2>1
  <2> QED BY <1>t, <2>1, <2>2, <2>3
<1>1. CASE log' = log
  <2>1. /\ LogIsTheConversation' /\ LastPrompt(Len(log))' = LastPrompt(Len(log))
        /\ Lost' = Lost
    BY <1>1, LogUnchanged DEF Conv
  <2>2. LostIsOver'
    BY <1>1, <1>o, <2>1 DEF LostIsOver
  <2>3. UnderThePrompt'
    BY <2>1 DEF UnderThePrompt, Conv
  <2> QED BY <1>b, <2>1, <2>2, <2>3 DEF Conv
<1>2. CASE log' # log
  <2>1. PICK e \in Entries :
           /\ log' = Append(log, e) /\ Fits(e) /\ e.kind # "prompt"
           /\ e.kind \in {"dropped", "corrupted"} =>
                /\ e.n = turns /\ Updates' = {} /\ due' = {}
                /\ at' \in {"off", "ready"}
    BY <1>2 DEF Grown
  <2>2. /\ LogIsTheConversation'
        /\ LastPrompt(Len(log))' = LastPrompt(Len(log))
        /\ Lost' = Lost \cup (IF e.kind \in {"dropped", "corrupted"} THEN {Len(log) + 1} ELSE {})
        /\ \A i \in Lost : log'[i] = log[i]
        /\ log'[Len(log) + 1] = e
    BY <2>1, LogAppended DEF Conv
  <2>3. ASSUME NEW i \in Lost'
        PROVE  /\ log'[i].n <= turns'
               /\ at' \notin {"off", "ready"} => log'[i].n < turns'
               /\ \A k \in Updates' : inbox'[k].n > log'[i].n
               /\ \A d \in due' : d.method = "prompt" => d.turn > log'[i].n
    <3>1. CASE i \in Lost
      BY <1>o, <2>2, <3>1
    <3>2. CASE i \notin Lost
      <4>1. e.kind \in {"dropped", "corrupted"} /\ log'[i] = e
        BY <2>2, <2>3, <3>2
      <4> QED BY <1>t, <2>1, <4>1
    <3> QED BY <3>1, <3>2
  <2>4. LostIsOver'
    BY <2>3 DEF LostIsOver
  <2>5. UnderThePrompt'
    BY <2>2 DEF UnderThePrompt, Conv
  <2> QED BY <1>b, <2>2, <2>4, <2>5 DEF Conv
<1> QED BY <1>1, <1>2

\* A line of the core's own is such a step.
LEMMA NotedGrown ==
  ASSUME TypeOK, NEW k \in LogKinds, k \notin {"update", "replay"}, NEW n \in Nat, Noted(Line(k, n)),
         k \in {"dropped", "corrupted"} =>
            n = turns /\ Updates' = {} /\ due' = {} /\ at' \in {"off", "ready"}
  PROVE  Grown
<1>1. Line(k, n) \in Entries /\ Line(k, n).kind = k /\ Line(k, n).n = n
  BY LineTyped
<1>2. Fits(Line(k, n)) /\ k # "prompt"
  BY <1>1 DEF Fits, LogKinds
<1> QED BY <1>1, <1>2 DEF Noted, Appended, Grown

\* Every step keeps the log the conversation.
LEMMA ConvStep ==
  ASSUME TypeOK, TypeOK', Ctl, Current, Replaying, Conv, [Next]_vars
  PROVE  Conv'
<1>a. astray \subseteq astray'
  BY AstrayGrows
<1>t. turns \in Nat
  BY DEF TypeOK
<1>e. ASSUME inbox' = <<>> PROVE Updates' = {} /\ Heard
  BY <1>e, Emptied DEF Updates, Heard
<1>k. ASSUME inbox # <<>>, Take PROVE Heard
  BY <1>k, UpdatesTake DEF Heard
<1>h. ASSUME inbox' = inbox PROVE Heard
  <2>1. Updates' = Updates
    BY <1>h DEF Updates, Unread
  <2> QED BY <1>h, <2>1 DEF Heard
<1>s. log' = log => Grown
  BY DEF Grown
<1>g. ASSUME LetGo, Grown, turns' = turns PROVE Conv'
  BY <1>a, <1>e, <1>g, ConvKept DEF LetGo
<1>f. ASSUME Unwoken PROVE Conv'
  <2>1. Grown
    BY <1>f, <1>t, NotedGrown DEF Unwoken, LogKinds
  <2> QED BY <1>f, <1>g, <2>1 DEF Unwoken
\* Nothing is put into the pipe or into the log.
<1>q. ASSUME Heard, log' = log, turns' = turns, due' \subseteq due,
             at' \notin {"off", "ready"} => at \notin {"off", "ready"},
             call' = "prompt" /\ at' \in {"send", "wait"} => call = "prompt" /\ at \in {"send", "wait"}
      PROVE  Conv'
  BY <1>a, <1>s, <1>q, ConvKept
<1>1. CASE Send
  <2>1. /\ Heard /\ Grown /\ turns' = turns /\ at = "send" /\ call' = call
        /\ \A d \in due' : d \in due \/ d.turn = turns
    BY <1>1, <1>h, <1>s DEF Send
  <2> QED BY <1>a, <2>1, ConvKept
<1>2. CASE ReadPast \/ ReadGarble \/ ReadAnswer \/ DrainRead
  <2>1. /\ inbox # <<>> /\ Take /\ log' = log /\ turns' = turns
        /\ due' \subseteq due /\ call' = call
        /\ at \in {"wait", "drain"} /\ (at' = at \/ at' \in {"told", "drain"})
    BY <1>2 DEF ReadPast, ReadGarble, ReadAnswer, DrainRead, Tell
  <2> QED BY <1>k, <1>q, <2>1
<1>3. CASE ReadOwn
  <2>1. /\ inbox # <<>> /\ Take /\ turns' = turns /\ due' = due /\ call' = call
        /\ at = "wait" /\ at' \in {"wait", "told"}
    BY <1>3 DEF ReadOwn, Tell
  <2>2. CASE log' = log
    BY <1>k, <1>q, <2>1, <2>2
  <2>3. CASE call = "prompt" /\ IsWorthRecording(Head(inbox)) /\ Appended(Head(inbox))
    <3> DEFINE e == Head(inbox)
    <3>1. /\ e = inbox[1] /\ 1 \in DOMAIN inbox /\ e \in Lines
      BY <2>1, Taken
    <3>2. e \in Entries /\ e.kind \notin {"prompt", "dropped", "corrupted"}
      BY <2>3, <3>1, KeptTyped DEF IsWorthRecording, LogKinds
    <3>3. LastPrompt(Len(log)) = turns
      BY <2>1, <2>3 DEF Conv, UnderThePrompt
    <3>4. ASSUME e.kind = "update", e.n > 0
          PROVE  /\ \A i \in Lost : log[i].n < e.n
                 /\ \/ LastPrompt(Len(log)) = e.n
                    \/ Exempt /\ LastPrompt(Len(log)) > e.n
      <4>1. 1 \in Updates
        BY <3>1, <3>4 DEF Updates, Unread
      <4>2. \A i \in Lost : log[i].n < e.n
        <5>1. ASSUME NEW i \in Lost PROVE e.n > log[i].n
          BY <3>1, <4>1 DEF Conv, LostIsOver
        <5>2. e.n \in Nat
          BY <3>1 DEF Lines
        <5>3. \A i \in Lost : log[i].n \in Nat
          <6>1. \A i \in Lost : log[i] \in Entries
            BY DEF TypeOK, Lost
          <6> QED BY <6>1 DEF Entries
        <5> QED BY <5>1, <5>2, <5>3
      <4>3. e.n <= turns /\ e.n \in Nat
        BY <3>1, <4>1 DEF Conv, Bounded, Lines
      <4>4. ~Exempt => e.n = turns
        BY <3>1, <4>1 DEF Current, HeardNow
      <4> QED BY <1>t, <3>3, <4>2, <4>3, <4>4
    <3>5. ASSUME e.kind = "replay" PROVE "replay" \in astray
      <4>1. 1 \in Replays
        BY <3>1, <3>5 DEF Replays, Unread
      <4>2. ~Loading
        BY <2>3 DEF Loading
      <4> QED BY <4>1, <4>2 DEF Replaying, NoReplay
    <3>6. Fits(e)
      BY <3>4, <3>5 DEF Fits
    <3> HIDE DEF e
    <3>7. log' = Append(log, e)
      BY <2>3 DEF Appended, e
    <3>8. Grown
      BY <3>2, <3>6, <3>7 DEF Grown
    <3> QED BY <1>a, <1>k, <2>1, <3>8, ConvKept
  <2> QED BY <1>3, <2>2, <2>3 DEF ReadOwn
<1>4. CASE Silence \/ DrainQuiet \/ DrainLimit \/ DrainClosed
  <2>1. /\ inbox' = inbox /\ log' = log /\ turns' = turns /\ due' = due
        /\ at \in {"wait", "drain"}
        /\ at' = "told"
    BY <1>4 DEF Silence, DrainQuiet, DrainLimit, DrainClosed, LeaveReplay, Tell,
       wire
  <2> QED BY <1>h, <1>q, <2>1
<1>5. CASE Greeted
  <2>1. CASE Unwoken
    BY <2>1, <1>f
  <2> QED BY <1>5, <2>1, <1>h, <1>q DEF Greeted, Quiet, wire
<1>6. CASE Climb
  <2>1. CASE Unwoken
    BY <2>1, <1>f
  <2> QED BY <1>6, <2>1, <1>h, <1>q DEF Climb, Quiet, wire, Rungs
<1>7. CASE RecordSession
  <2>1. CASE Unwoken
    BY <2>1, <1>f
  <2> QED BY <1>7, <2>1, <1>h, <1>q DEF RecordSession, wire
<1>8. CASE TellReset
  <2>1. Noted(Line("reset", 0))
    BY <1>8 DEF TellReset, Noted
  <2>2. Grown
    BY <2>1, NotedGrown DEF LogKinds
  <2>3. Heard /\ turns' = turns /\ due' = due /\ at = "tell" /\ at' = "say"
    BY <1>8, <1>h DEF TellReset, wire
  <2> QED BY <1>a, <2>2, <2>3, ConvKept
<1>9. CASE TakeTurn
  <2>1. CASE log' = log /\ at' = "told"
    BY <1>9, <2>1, <1>h, <1>q DEF TakeTurn, wire
  <2>2. CASE Appended([kind |-> "prompt", n |-> turns, mind |-> session]) /\ at' = "send"
    <3> DEFINE e == [kind |-> "prompt", n |-> turns, mind |-> session]
    <3>1. e \in Entries /\ e.kind = "prompt" /\ e.n = turns /\ Fits(e)
      BY DEF Entries, TypeOK, Fits
    <3> HIDE DEF e
    <3>2. log' = Append(log, e)
      BY <2>2 DEF Appended, e
    <3>3. /\ LogIsTheConversation' /\ LastPrompt(Len(log))' = turns
          /\ Lost' = Lost /\ \A i \in Lost : log'[i] = log[i]
      BY <1>a, <3>1, <3>2, LogAppended DEF Conv
    <3>4. /\ inbox' = inbox /\ due' = due /\ turns' = turns /\ at = "say"
          /\ call' = "prompt"
      BY <1>9 DEF TakeTurn, wire
    <3>5. Updates' = Updates
      BY <3>4 DEF Updates, Unread
    <3>6. Bounded' /\ LostIsOver'
      BY <3>3, <3>4, <3>5 DEF Conv, Bounded, LostIsOver
    <3>7. UnderThePrompt'
      BY <3>3, <3>4 DEF UnderThePrompt
    <3> QED BY <3>3, <3>6, <3>7 DEF Conv
  <2> QED BY <1>9, <2>1, <2>2 DEF TakeTurn, Tell
<1>10. CASE Ended
  <2>1. TurnLost(outcome) \in LogKinds \ {"update", "replay"}
        /\ (outcome = "unrecorded" => TurnLost(outcome) = "abandoned")
    BY DEF TurnLost, LogKinds
  <2>2. CASE LetGo /\ Noted(Line(TurnLost(outcome), turns)) /\ turns' = turns
    <3>1. Grown
      BY <1>t, <1>e, <2>1, <2>2, NotedGrown DEF LetGo
    <3> QED BY <1>g, <2>2, <3>1
  <2>3. CASE outcome = "ok" /\ UNCHANGED <<wire, log, turns>> /\ at' = "ready"
    BY <1>h, <1>q, <2>3 DEF wire
  <2>4. CASE /\ outcome = "unrecorded" /\ Noted(Line(TurnLost(outcome), turns))
             /\ UNCHANGED <<wire, turns>> /\ at' = "ready"
    <3>1. Grown
      BY <1>t, <2>1, <2>4, NotedGrown DEF LogKinds
    <3> QED BY <1>a, <1>h, <2>4, <3>1, ConvKept DEF wire
  <2> QED BY <1>10, <2>2, <2>3, <2>4 DEF Ended
<1>11. CASE Wake
  <2>1. turns' = turns + 1 /\ call' # "prompt" /\ inbox' = inbox /\ due' = due
    BY <1>11 DEF Wake, Ctl
  <2>2. Grown
    <3>1. CASE log' = log
      BY <3>1, <1>s
    <3>2. CASE Noted(Line("unwoken", turns'))
      BY <1>t, <2>1, <3>2, NotedGrown DEF LogKinds
    <3> QED BY <1>11, <3>1, <3>2 DEF Wake
  <2> QED BY <1>a, <1>h, <2>1, <2>2, ConvKept
<1>12. CASE Prompt
  <2>1. /\ turns' = turns + 1 /\ call' # "prompt" /\ inbox' = inbox /\ due' = due
        /\ log' = log
    BY <1>12 DEF Prompt, wire, Ctl
  <2> QED BY <1>a, <1>h, <1>s, <2>1, ConvKept
<1>13. CASE Garbled \/ Say
  <2>1. PICK line \in Lines :
           /\ Write(line)
           /\ line.kind = "update" =>
                line.n = 0 \/ \E d \in due : d.method = "prompt" /\ line.n = d.turn
    BY <1>13, SaidOnly
  <2> DEFINE n == Len(inbox) + 1
  <2>2. /\ \A i \in Updates : inbox'[i] = inbox[i]
        /\ inbox'[n] = line
        /\ Updates' = Updates \cup (IF line.kind = "update" /\ line.n > 0 THEN {n} ELSE {})
    BY <2>1, UpdatesWrite
  <2> HIDE DEF n
  <2>3. Heard
    BY <2>1, <2>2 DEF Heard
  <2>4. UNCHANGED <<due, log, turns, at, call>>
    BY <1>13 DEF Garbled, Say
  <2> QED BY <1>q, <2>3, <2>4
<1>14. CASE Answer
  <2>1. PICK d \in due, kind \in {"answer", "refusal"} : Write(Line(kind, d.id))
    BY <1>14 DEF Answer
  <2>2. Line(kind, d.id) \in Lines /\ Line(kind, d.id).kind = kind
    BY LineTyped DEF InKinds, TypeOK, Dues
  <2>3. Updates' = Updates /\ \A i \in Updates : inbox'[i] = inbox[i]
    BY <2>1, <2>2, UpdatesWrite
  <2>4. Heard /\ due' \subseteq due /\ UNCHANGED <<log, turns, at, call>>
    BY <1>14, <2>3 DEF Heard, Answer
  <2> QED BY <1>q, <2>4
<1>15. CASE Replayed \/ Die \/ UNCHANGED vars
  <2>1. UNCHANGED <<inbox, due, log, turns, at, call>>
    BY <1>15 DEF Replayed, Die, vars, wire
  <2> QED BY <1>h, <1>q, <2>1
<1>16. CASE HangUp
  <2>1. CASE LetGo
    BY <1>16, <1>s, <1>g, <2>1 DEF HangUp
  <2> QED BY <1>16, <1>h, <1>q, <2>1 DEF HangUp
<1>17. CASE Crash
  BY <1>17, <1>s, <1>g DEF Crash
<1> QED
  BY <1>1, <1>2, <1>3, <1>4, <1>5, <1>6, <1>7, <1>8, <1>9, <1>10, <1>11, <1>12,
     <1>13, <1>14,
     <1>15, <1>16, <1>17 DEF Next, Client, Environment, Idle

-----------------------------------------------------------------------------
(* What the waking cost the chat is in its log.                            *)

\* The log was added to, if at all at its end, and a prompt only by TakeTurn.
Longer ==
  /\ Len(log) <= Len(log')
  /\ \A i \in DOMAIN log : i \in DOMAIN log' /\ log'[i] = log[i]
  /\ \A i \in DOMAIN log' \ DOMAIN log :
        /\ i = Len(log) + 1
        /\ log'[i].kind = "prompt" => call' = "prompt" /\ at = "say" /\ log'[i].mind = session

\* The log's places.
LEMMA LogTyped == ASSUME TypeOK PROVE Len(log) \in Nat /\ DOMAIN log = 1..Len(log)
<1>1. log \in Seq(Entries)
  BY DEF TypeOK
<1> QED BY <1>1

\* An entry makes the log longer.
LEMMA LongerBy ==
  ASSUME TypeOK, NEW e \in Entries, log' = Append(log, e),
         e.kind = "prompt" => call' = "prompt" /\ at = "say" /\ e.mind = session
  PROVE  Longer /\ Len(log') = Len(log) + 1 /\ log'[Len(log) + 1] = e
<1>0. log \in Seq(Entries)
  BY DEF TypeOK
<1>1. /\ Len(log) \in Nat /\ Len(log') = Len(log) + 1 /\ DOMAIN log = 1..Len(log)
      /\ DOMAIN log' = DOMAIN log \cup {Len(log) + 1} /\ log'[Len(log) + 1] = e
      /\ \A i \in DOMAIN log : log'[i] = log[i]
  BY <1>0, AppendIs
<1> QED BY <1>1 DEF Longer

\* So does a line of the core's own.
LEMMA NotedLonger ==
  ASSUME TypeOK, NEW k \in LogKinds, NEW n \in Nat, Noted(Line(k, n))
  PROVE  Longer
<1>1. Line(k, n) \in Entries /\ Line(k, n).kind = k /\ k # "prompt"
  BY LineTyped DEF LogKinds
<1>2. CASE log' = log
  BY <1>2, LogTyped DEF Longer
<1> QED BY <1>1, <1>2, LongerBy DEF Noted, Appended

\* What was told stays told.
LEMMA StillTold ==
  ASSUME TypeOK, TypeOK', Longer, NEW m \in Nat, ToldOf(m)
  PROVE  ToldOf(m)'
<1>1. PICK j \in (m + 1)..Len(log) : log[j].kind = "reset"
  BY DEF ToldOf
<1>2. Len(log) \in Nat /\ Len(log') \in Nat /\ DOMAIN log = 1..Len(log)
  BY LogTyped DEF TypeOK
<1>3. j \in DOMAIN log /\ j \in (m + 1)..Len(log')
  BY <1>1, <1>2 DEF Longer
<1> QED BY <1>1, <1>3 DEF Longer, ToldOf

\* A log that grows tells what it told.
LEMMA StillForgettingIsTold ==
  ASSUME TypeOK, TypeOK', Longer, Told, "untold" \notin astray
  PROVE  ForgettingIsTold'
<1>1. /\ Len(log) \in Nat /\ Len(log') \in Nat /\ DOMAIN log = 1..Len(log)
      /\ DOMAIN log' = 1..Len(log') /\ session \in Nat
  BY LogTyped DEF TypeOK
<1>2. ASSUME NEW i \in DOMAIN log', log'[i].kind = "prompt", log'[i].mind > 0
      PROVE  \E j \in (log'[i].mind + 1)..(i - 1) : log'[j].kind = "reset"
  <2>1. CASE i \in DOMAIN log
    <3>1. PICK j \in (log[i].mind + 1)..(i - 1) : log[j].kind = "reset"
      BY <1>2, <2>1 DEF Longer, Told, ForgettingIsTold
    <3>2. log[i].mind \in Nat
      <4>1. log[i] \in Entries /\ log[i].kind = "prompt"
        BY <1>2, <2>1 DEF TypeOK, Longer
      <4> QED BY <4>1 DEF Entries, LogKinds
    <3>3. j \in DOMAIN log
      BY <1>1, <2>1, <3>1, <3>2
    <3> QED BY <2>1, <3>1, <3>3 DEF Longer
  <2>2. CASE i \notin DOMAIN log
    <3>1. i = Len(log) + 1 /\ at = "say" /\ log'[i].mind = session
      BY <1>2, <2>2 DEF Longer
    <3>2. PICK j \in (session + 1)..Len(log) : log[j].kind = "reset"
      BY <1>1, <1>2, <3>1 DEF Told, Young, ToldOf
    <3>3. j \in DOMAIN log /\ i - 1 = Len(log)
      BY <1>1, <3>1, <3>2
    <3> QED BY <3>1, <3>2, <3>3 DEF Longer
  <2> QED BY <2>1, <2>2
<1> QED BY <1>2 DEF ForgettingIsTold

\* Every step keeps what was forgotten told of.
LEMMA ForgetStep ==
  ASSUME TypeOK, TypeOK', Ctl, Ctl', Forget, [Next]_vars
  PROVE  Forget'
<1> USE DEF Forget
<1>a. astray \subseteq astray'
  BY AstrayGrows
<1>t. turns \in Nat /\ session \in Nat /\ recorded \in Nat /\ Len(log) \in Nat
  BY LogTyped DEF TypeOK
<1>s. log' = log => Longer
  BY LogTyped DEF Longer
<1>c. ASSUME Longer PROVE Len(log') \in Nat /\ Len(log) <= Len(log')
  BY <1>c, LogTyped DEF Longer, TypeOK
\* The marks stay where they are, or the session's is let go.
<1>q. ASSUME Longer, recorded' = recorded, session' \in {session, 0, recorded},
             at # "tell", at' # "tell", Young' => Young \/ session' = recorded
      PROVE  Forget'
  <2>1. Marked'
    BY <1>t, <1>c, <1>q DEF Marked
  <2>2. ASSUME "untold" \notin astray PROVE Told'
    <3>1. ForgettingIsTold'
      BY <1>q, <2>2, StillForgettingIsTold
    <3>2. recorded > 0 => ToldOf(recorded)'
      BY <1>t, <1>q, <2>2, StillTold DEF Told
    <3>3. \A m \in Nat : ToldOf(m) => ToldOf(m)'
      BY <1>q, StillTold
    <3>4. CASE session' = session
      <4>1. Young' => ToldOf(session)
        <5>1. Young \/ (session' = recorded /\ session > 0) \/ ~Young'
          BY <1>q, <3>4 DEF Young
        <5> QED BY <1>q, <2>2, <3>4, <5>1 DEF Told
      <4>2. Young' => ToldOf(session)'
        BY <1>t, <3>3, <3>4, <4>1
      <4> QED BY <1>q, <3>1, <3>2, <4>2 DEF Told
    <3>5. CASE session' = recorded
      <4>1. Young' => recorded > 0
        BY <3>5 DEF Young
      <4>2. Young' => ToldOf(session)'
        BY <1>q, <3>2, <3>5, <4>1
      <4> QED BY <1>q, <3>1, <3>2, <4>2 DEF Told
    <3>6. CASE session' = 0
      <4>1. ~Young'
        BY <3>6 DEF Young
      <4> QED BY <1>q, <3>1, <3>2, <4>1 DEF Told
    <3> QED BY <1>q, <3>4, <3>5, <3>6
  <2> QED BY <1>a, <2>1, <2>2
<1>g. ASSUME LetGo, Longer, recorded' = recorded, at # "tell" PROVE Forget'
  BY <1>g, <1>q DEF LetGo, Young
<1>f. ASSUME Unwoken, at # "tell" PROVE Forget'
  <2>1. Longer
    BY <1>f, <1>t, NotedLonger DEF Unwoken, LogKinds
  <2> QED BY <1>f, <1>g, <2>1 DEF Unwoken
<1>1. CASE ReadOwn
  <2>1. Longer
    <3>1. CASE Appended(Head(inbox)) /\ IsWorthRecording(Head(inbox))
      <4>1. Head(inbox) \in Entries /\ Head(inbox).kind # "prompt"
        BY <1>1, <3>1, Taken, KeptTyped DEF ReadOwn, IsWorthRecording, LogKinds
      <4> QED BY <3>1, <4>1, LongerBy DEF Appended
    <3> QED BY <1>1, <3>1, <1>s DEF ReadOwn
  <2>2. /\ UNCHANGED <<recorded, session, call>> /\ at = "wait"
        /\ at' \in {"wait", "told"}
        /\ call # "none" /\ outcome = "none" /\ outcome' # "ok"
    BY <1>1 DEF ReadOwn, Tell, mind, Ctl
  <2> QED BY <1>q, <2>1, <2>2 DEF Young
<1>2. CASE ReadAnswer
  <2>1. /\ log' = log /\ recorded' = recorded /\ at = "wait"
        /\ at' \in {"told", "drain"} /\ call' = call
    BY <1>2 DEF ReadAnswer, Tell
  <2>2. CASE session' = session
    BY <1>q, <1>s, <2>1, <2>2 DEF Young
  <2>3. CASE session' = Len(log) /\ call = "open" /\ at' = "told" /\ outcome' = "ok"
    <3>1. Marked'
      BY <1>t, <2>1, <2>3 DEF Marked
    <3>2. "untold" \notin astray => ForgettingIsTold' /\ (recorded > 0 => ToldOf(recorded)')
      BY <1>t, <1>s, <2>1, StillForgettingIsTold, StillTold DEF Told
    <3> QED BY <1>a, <2>1, <2>3, <3>1, <3>2 DEF Told, Young
  <2> QED BY <1>2, <2>2, <2>3 DEF ReadAnswer, Tell
<1>3. CASE Send \/ ReadPast \/ ReadGarble \/ Silence \/ DrainRead \/ DrainQuiet \/ DrainLimit
             \/ DrainClosed \/ Prompt
  <2>1. /\ UNCHANGED <<log, session, recorded>>
        /\ at \in {"send", "wait", "drain", "ready"} /\ at' # "tell"
    BY <1>3 DEF Send, ReadPast, ReadGarble, Silence, DrainRead, DrainQuiet,
       DrainLimit, DrainClosed,
                LeaveReplay, Prompt, Tell, wire, mind
  <2> QED BY <1>q, <1>s, <2>1 DEF Young
<1>4. CASE Greeted
  <2>1. CASE Unwoken
    BY <1>4, <2>1, <1>f DEF Greeted
  <2> QED BY <1>4, <2>1, <1>q, <1>s DEF Greeted
<1>5. CASE Climb
  <2>1. CASE Unwoken
    BY <1>5, <2>1, <1>f DEF Climb
  <2>2. CASE UNCHANGED <<mind, log>> /\ After(call, outcome) # "giveUp"
    <3>1. at' = "record" \/ Young
          \/ session = 0 
      <4>1. CASE call = "open" /\ outcome = "ok"
        <5>1. After(call, outcome) = "promptWithoutMemory"
          BY <4>1 DEF After
        <5> QED BY <1>5, <2>2, <5>1 DEF Climb, Rungs
      <4>2. CASE ~(call = "open" /\ outcome = "ok")
        BY <1>5, <1>t, <4>2 DEF Climb, Young
      <4> QED BY <4>1, <4>2
    <3>2. UNCHANGED <<session, recorded, log>> /\ at = "told" /\ at' # "tell"
      BY <1>5, <2>2 DEF Climb, Rungs, mind, After
    <3> QED BY <1>q, <1>s, <3>1, <3>2 DEF Young
  <2> QED BY <1>5, <2>1, <2>2 DEF Climb, Rungs
<1>6. CASE RecordSession
  <2>1. CASE Unwoken
    BY <1>6, <2>1, <1>f DEF RecordSession
  <2>2. CASE recorded' = session /\ at' = "tell" /\ UNCHANGED <<session, log>>
    <3>1. Marked'
      BY <2>2 DEF Marked
    <3>2. "untold" \notin astray => ForgettingIsTold'
      BY <1>s, <2>2, StillForgettingIsTold
    <3> QED BY <1>a, <2>2, <3>1, <3>2 DEF Told, Young
  <2> QED BY <1>6, <2>1, <2>2 DEF RecordSession
<1>7. CASE TellReset
  <2>1. /\ at = "tell" /\ at' = "say" /\ UNCHANGED <<session, recorded>>
        /\ recorded = session
    BY <1>7 DEF TellReset, mind, Marked
  <2>2. CASE Appended(Line("reset", 0))
    <3>1. Line("reset", 0) \in Entries /\ Line("reset", 0).kind = "reset"
      BY LineTyped DEF LogKinds
    <3>2. Longer /\ Len(log') = Len(log) + 1 /\ log'[Len(log) + 1].kind = "reset"
      BY <2>2, <3>1, LongerBy DEF Appended
    <3>3. Marked'
      BY <1>t, <2>1, <3>2 DEF Marked
    <3>4. Len(log) + 1 \in (session + 1)..Len(log')
      BY <1>t, <3>2 DEF Marked
    <3>5. ToldOf(session)' /\ ToldOf(recorded)'
      BY <2>1, <3>2, <3>4 DEF ToldOf
    <3>6. "untold" \notin astray => ForgettingIsTold'
      BY <3>2, StillForgettingIsTold
    <3> QED BY <1>a, <3>3, <3>5, <3>6 DEF Told
  <2>3. CASE log' = log /\ "untold" \in astray'
    BY <2>1, <2>3 DEF Marked
  <2> QED BY <1>7, <2>2, <2>3 DEF TellReset
<1>8. CASE TakeTurn
  <2>1. Longer
    <3>1. CASE Appended([kind |-> "prompt", n |-> turns, mind |-> session])
      <4> DEFINE e == [kind |-> "prompt", n |-> turns, mind |-> session]
      <4>1. e \in Entries /\ e.mind = session
        BY <1>t DEF Entries
      <4>2. log' = Append(log, e) /\ call' = "prompt" /\ at = "say"
        BY <1>8, <3>1 DEF Appended, TakeTurn
      <4> HIDE DEF e
      <4> QED BY <4>1, <4>2, LongerBy
    <3> QED BY <1>8, <3>1, <1>s DEF TakeTurn
  <2>2. UNCHANGED <<session, recorded>> /\ at = "say" /\ at' \in {"send", "told"}
    BY <1>8 DEF TakeTurn, Tell, mind
  <2> QED BY <1>q, <2>1, <2>2 DEF Young
<1>9. CASE Ended
  <2>1. TurnLost(outcome) \in LogKinds
    BY DEF TurnLost, LogKinds
  <2>2. Longer
    BY <1>9, <1>s, <1>t, <2>1, NotedLonger DEF Ended
  <2>3. CASE LetGo
    BY <1>9, <1>g, <2>2, <2>3 DEF Ended
  <2>4. CASE session' = session /\ at' = "ready"
    BY <1>9, <1>q, <2>2, <2>4 DEF Ended, Young
  <2> QED BY <1>9, <2>3, <2>4 DEF Ended
<1>10. CASE Wake
  <2>1. Longer
    <3>1. CASE Noted(Line("unwoken", turns'))
      <4>1. turns' \in Nat
        BY DEF TypeOK
      <4> QED BY <3>1, <4>1, NotedLonger DEF LogKinds
    <3> QED BY <1>10, <3>1, <1>s DEF Wake
  <2> QED BY <1>10, <1>q, <2>1 DEF Wake, mind, Young
<1>11. CASE Garbled \/ Say \/ Answer \/ Replayed \/ Die \/ UNCHANGED vars
  <2>1. UNCHANGED <<log, session, recorded, at, call, outcome>>
    BY <1>11 DEF Garbled, Say, Answer, Replayed, Die, vars, mind
  <2>2. Longer /\ (Young' <=> Young)
    BY <1>s, <2>1 DEF Young
  <2>3. CASE at # "tell"
    BY <1>q, <2>1, <2>2, <2>3
  <2>4. CASE at = "tell"
    <3>1. "untold" \notin astray => ForgettingIsTold'
      BY <2>2, StillForgettingIsTold
    <3> QED BY <1>a, <2>1, <2>4, <3>1 DEF Marked, Told, Young
  <2> QED BY <2>3, <2>4
<1>12. CASE HangUp
  <2>1. CASE LetGo
    BY <1>12, <1>g, <1>s, <2>1 DEF HangUp
  <2> QED BY <1>12, <1>q, <1>s, <2>1 DEF HangUp, Young
<1>13. CASE Crash
  <2>1. CASE at = "tell"
    <3>1. /\ "untold" \in astray' /\ log' = log /\ recorded' = recorded
          /\ session' = 0 /\ at' = "off"
      BY <1>13, <2>1 DEF Crash, LetGo
    <3> QED BY <1>t, <3>1 DEF Marked
  <2> QED BY <1>13, <1>g, <1>s, <2>1 DEF Crash
<1> QED
  BY <1>1, <1>2, <1>3, <1>4, <1>5, <1>6, <1>7, <1>8, <1>9, <1>10, <1>11, <1>12,
     <1>13
     DEF Next, Client, Environment, Idle

-----------------------------------------------------------------------------
\* A core that starts holds no connection.
LEMMA InitInv == Init => Inv
<1> SUFFICES ASSUME Init PROVE Inv
  OBVIOUS
<1>1. DOMAIN inbox = {} /\ DOMAIN log = {} /\ Len(log) = 0
      /\ inbox \in Seq(Lines) /\ log \in Seq(Entries)
  BY DEF Init
<1>2. Updates = {} /\ Answers = {} /\ Replays = {} /\ Lost = {}
  BY <1>1 DEF Updates, Answers, Replays, Lost, Unread
<1>3. TypeOK /\ Ctl
  <2>1. due \subseteq Dues /\ owing \subseteq Nat
    BY DEF Init
  <2>2. Ctl
    BY DEF Init, Ctl
  <2>3. at \in Places /\ call \in Methods \cup {"none"} /\ outcome \in Outcomes
    BY DEF Init, Places, Outcomes
  <2>4. /\ nextId \in Nat \ {0} /\ garble \in Nat
        /\ session \in Nat /\ recorded \in Nat /\ turns \in Nat /\ said \in Nat
    BY DEF Init
  <2>5. alive \in BOOLEAN /\ replaying \in BOOLEAN
    BY DEF Init
  <2> QED BY <1>1, <2>1, <2>2, <2>3, <2>4, <2>5 DEF TypeOK
<1>4. OnceEach /\ Current /\ Replaying /\ Owed
  BY <1>2 DEF Init, OnceEach, Numbered, Spent, OfThisCall, Through, Current, DueNow,
     HeardNow,
              Replaying, LoadDue, NoReplay, RefusedLast, Owed
<1>5. Conv
  BY <1>1, <1>2 DEF Init, Conv, LogIsTheConversation, Bounded, LostIsOver,
     UnderThePrompt
<1>6. Forget
  BY <1>1 DEF Init, Forget, Marked, Told, Young, ForgettingIsTold
<1> QED BY <1>3, <1>4, <1>5, <1>6 DEF Inv

\* Every step keeps the invariant.
LEMMA StepInv == Inv /\ [Next]_vars => Inv'
<1> SUFFICES ASSUME Inv, [Next]_vars PROVE Inv'
  OBVIOUS
<1>1. TypeOK /\ Ctl /\ OnceEach /\ Current /\ Replaying /\ Owed /\ Conv /\ Forget
  BY DEF Inv
<1>2. TypeOK' /\ Ctl'
  BY <1>1, TypeStep, CtlStep
<1>3. OnceEach' /\ Current' /\ Replaying' /\ Owed'
  BY <1>1, <1>2, OnceEachStep, CurrentStep, ReplayingStep, OwedStep
<1>4. Conv' /\ Forget'
  BY <1>1, <1>2, ConvStep, ForgetStep
<1> QED BY <1>2, <1>3, <1>4 DEF Inv

\* Whatever the adapter says, and whatever breaks, a conversation is as the
\* invariant says.
THEOREM ConversationInvariant == Spec => []Inv
<1>1. Init => Inv
  BY InitInv
<1>2. Inv /\ [Next]_vars => Inv'
  BY StepInv
<1> QED BY <1>1, <1>2, PTL DEF Spec

\* A call ends on the adapter's answer to that very call, whatever numbers the
\* adapter gives its own requests (answer_to).
THEOREM OwnAnswer == Spec => []EndsOnItsOwnAnswer
<1>1. Inv => EndsOnItsOwnAnswer
  <2> SUFFICES ASSUME Inv, Through PROVE /\ ~\E d \in due : d.id = nextId - 1
                                         /\ ~\E i \in DOMAIN inbox : IsAnswer(inbox[i], nextId - 1)
    BY DEF EndsOnItsOwnAnswer, Through
  <2>1. \A d \in due : d.id # nextId - 1
    BY DEF Inv, OnceEach, Spent
  <2>2. \A i \in Answers : inbox[i].n # nextId - 1
    BY DEF Inv, OnceEach, Spent
  <2> QED BY <2>1, <2>2 DEF IsAnswer, Answers, Unread
<1> QED BY <1>1, ConversationInvariant, PTL

\* Between turns the adapter waits for nothing it has said to be answered, but
\* for a turn given up on in the middle of hearing it (owed).
THEOREM NothingOwed == Spec => []NothingLeftOwed
<1>1. Inv => NothingLeftOwed
  BY DEF Inv, Owed, Exempt, NothingLeftOwed
<1> QED BY <1>1, ConversationInvariant, PTL

\* Between turns nothing of a finished turn or replay is left for the next turn
\* to take for its own, but for those given up on (load, spent_the_connection).
THEOREM NothingBehind == Spec => []NothingLeftBehind
<1>1. Inv => NothingLeftBehind
  <2> SUFFICES ASSUME Inv, at = "ready" PROVE NothingLeftBehind
    BY DEF NothingLeftBehind
  <2>1. ASSUME ~Exempt PROVE due = {} /\ \A i \in Unread({"update"}) : inbox[i].n = 0
    <3>1. ~Going
      BY DEF Going
    <3>2. due = {} /\ Updates = {}
      BY <2>1, <3>1 DEF Inv, Current, DueNow, HeardNow
    <3>3. \A i \in Unread({"update"}) : inbox[i].n \in Nat
      BY LinesTyped DEF Inv, Unread
    <3> QED BY <3>2, <3>3 DEF Updates
  <2>2. "replay" \in astray \/ Unread({"replay"}) = {}
    BY DEF Inv, Replaying, Loading, NoReplay, Replays
  <2> QED BY <2>1, <2>2 DEF NothingLeftBehind, Exempt
<1> QED BY <1>1, ConversationInvariant, PTL

\* The log is the conversation: updates under their prompt, no replay twice,
\* nothing of a turn after its connection was told to be gone (ADR-0007).
THEOREM LogIsTold == Spec => []LogIsTheConversation
<1>1. Inv => LogIsTheConversation
  BY DEF Inv, Conv
<1> QED BY <1>1, ConversationInvariant, PTL

\* No turn is taken over a session younger than what stands above it unless the
\* log says so in between (woken).
THEOREM ForgettingTold == Spec => []ForgettingIsTold
<1>1. Inv => ForgettingIsTold
  BY DEF Inv, Forget, Told, ForgettingIsTold
<1> QED BY <1>1, ConversationInvariant, PTL

=============================================================================
