------------------------------ MODULE EventLog ------------------------------
(***************************************************************************)
(* One chat's events.jsonl: the appends of whoever writes into it, each of *)
(* two writes and under no lock (ChatStore::append_event: a turn being     *)
(* recorded, and the notes of requests that are turned away meanwhile),    *)
(* and a page that reads it, whole or from a cursor (chat_view,            *)
(* chat_events, event_log, hot_log).                                       *)
(***************************************************************************)
EXTENDS Transcript, FiniteSets

CONSTANTS Writers,    \* tasks that append to the log
          Payloads,   \* what an agent or the core may have to say
          MaxEvents,  \* bound: lines begun
          Faults      \* what may happen: "full", "crash"

\* Whatever is said is an event of a shape that entry tells apart.
PayloadsOK == Payloads \subseteq Events

VARIABLES file,     \* what stands on each line, the last one not yet ended
          begun,    \* how many lines were begun
          pen,      \* per writer: "up", or "down" between its two writes
          settled,  \* the page: the events its history was drawn from
          hot,      \* the page: the events its polled tail was drawn from
          cuts      \* auxiliary: how a line may have lost its end

vars == <<file, begun, pen, settled, hot, cuts>>

Torn == Plain("torn")     \* part of an event

Init == /\ file = << <<>> >> /\ begun = 0 /\ pen = [w \in Writers |-> "up"]
        /\ settled = <<>> /\ hot = <<>> /\ cuts = {}

-----------------------------------------------------------------------------
(* read_events: every line one event, or the log is refused.  A last line  *)
(* is one even without its end.                                            *)

Sound(line) == Len(line) = 1 /\ line[1] # Torn

Readable ==
  \A i \in DOMAIN file : Sound(file[i]) \/ (i = Len(file) /\ file[i] = <<>>)

Lines == [i \in 1..(IF Last(file) = <<>> THEN Len(file) - 1 ELSE Len(file)) |->
            file[i][1]]

-----------------------------------------------------------------------------
(* append_event: the line, then its newline.                               *)

Down == {w \in Writers : pen[w] = "down"}

\* Whatever is written stands where the file ends.
Write(piece) ==
  /\ begun < MaxEvents /\ begun' = begun + 1
  /\ file' = [file EXCEPT ![Len(file)] = Append(@, piece)]

WriteLine(w) ==
  /\ pen[w] = "up"
  /\ \E event \in Payloads : Write(event)
  /\ pen' = [pen EXCEPT ![w] = "down"]
  /\ cuts' = cuts \cup (IF Down # {} THEN {"overlap"} ELSE {})
  /\ UNCHANGED <<settled, hot>>

\* Slip: a line is left to the next one to end.
WriteEndNever(w) ==
  /\ pen[w] = "down"
  /\ pen' = [pen EXCEPT ![w] = "up"]
  /\ UNCHANGED <<file, begun, settled, hot, cuts>>

WriteEnd(w) ==
  /\ pen[w] = "down"
  /\ file' = Append(file, <<>>)
  /\ pen' = [pen EXCEPT ![w] = "up"]
  /\ UNCHANGED <<begun, settled, hot, cuts>>

\* A dataset that fills up takes part of a line, or a line and not its end;
\* the append fails either way, and what it wrote stays.
Full(w) ==
  /\ "full" \in Faults
  /\ \/ pen[w] = "up" /\ Write(Torn) /\ UNCHANGED pen
     \/ /\ pen[w] = "down"
        /\ pen' = [pen EXCEPT ![w] = "up"] /\ UNCHANGED <<file, begun>>
  /\ cuts' = cuts \cup {"full"}
  /\ UNCHANGED <<settled, hot>>

Crash == /\ "crash" \in Faults /\ Down # {}
         /\ pen' = [w \in Writers |-> "up"]
         /\ cuts' = cuts \cup {"crash"}
         /\ UNCHANGED <<file, begun, settled, hot>>

-----------------------------------------------------------------------------
(* The page.  A log that does not read is answered with what broke, and    *)
(* the page keeps what it shows.                                           *)

\* The page as it loads, the resync, and the answer to a prompt: all of the
\* log is history, and the tail is empty from there.
Resync == /\ Readable
          /\ settled' = Lines /\ hot' = <<>>
          /\ UNCHANGED <<file, begun, pen, cuts>>

\* Slip: a poll starts where the last one ended.
PollOnward == /\ Readable
              /\ hot' = SubSeq(Lines, Len(settled) + Len(hot) + 1, Len(Lines))
              /\ UNCHANGED <<file, begun, pen, settled, cuts>>

\* The tail, from the end of the history again.
Poll == /\ Readable
        /\ hot' = SubSeq(Lines, Len(settled) + 1, Len(Lines))
        /\ UNCHANGED <<file, begun, pen, settled, cuts>>

Refused == ~Readable /\ UNCHANGED vars

Next == \/ \E w \in Writers : WriteLine(w) \/ WriteEnd(w) \/ Full(w)
        \/ Crash \/ Resync \/ Poll \/ Refused

Spec == Init /\ [][Next]_vars

-----------------------------------------------------------------------------
\* A log reads back (read_events refuses it whole otherwise, and nothing
\* repairs it) unless two appends ran at once, the core died between the two
\* writes of one, or the dataset ran full.  And what stands on the page is the
\* log as far as it was read, though it was drawn in two halves: every voice's
\* words, every notice, and the latest of every tool call ("a chat reads the
\* same on load as it does while it streams", ui/chat.rs).
PageReadsTheLog ==
  LET shown == Blocks(settled) \o Blocks(hot)
  IN  /\ cuts = {} => Readable
      /\ Readable => IsPrefix(settled \o hot, Lines)
      /\ SameReading(Blocks(settled), settled)
      /\ SameReading(shown, settled \o hot)

\* A message is on the page whole, named and set back as its voice is.
OnThePage(block, html) ==
  /\ SaidIn(html) = SaidOf(block.text)
  /\ {j \in DOMAIN html : html[j].named}
       = IF ReadingOf(block).label THEN {1} ELSE {}
  /\ \A j \in DOMAIN html : html[j].dim <=> block.voice # "agent"

AllSaid(block) == OnThePage(block, SaidHtml(block.text, ReadingOf(block)))

\* Every line of a message that says something is in one of its elements, in
\* order, whichever of them are fenced, listed or still open; and whoever spoke
\* is named as the message opens and nowhere else (passages, said_html: "a
\* message of nothing but code still opens with who is speaking").
NothingUnsaid ==
  \A i \in DOMAIN Blocks(settled) :
     IsMessage(Blocks(settled)[i]) => AllSaid(Blocks(settled)[i])

\* A passage that is over does not change while the message streams on: only
\* the last one grows.  What was read as code stays code.
WhatIsReadStays ==
  \A i \in DOMAIN Blocks(settled) :
     LET text == Blocks(settled)[i].text
     IN  \A n \in 1..Len(text) :
            IsPrefix(Front(Passages(SubSeq(text, 1, n))), Passages(text))

=============================================================================
