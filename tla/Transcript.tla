----------------------------- MODULE Transcript -----------------------------
(***************************************************************************)
(* How a chat's log is read (src/ui/chat.rs): a run of chunks is one       *)
(* message, a tool call is one line however many updates it took, and the  *)
(* words of a message are paragraphs, lists and fenced code.               *)
(*                                                                         *)
(* An event is kept as far as entry tells events apart; a chunk says one   *)
(* line, and of a line only what passages asks of it is kept.              *)
(***************************************************************************)
EXTENDS Naturals, Sequences, SequencesExt

None == "none"

Voices == {"user", "agent", "thought"}
LineKinds == {"words", "item", "blank", "fence", "opening"}
EventKinds == {"turn", "chunk", "notice", "tool", "unknown"}

Event(kind, voice, text, id, title, status) ==
  [kind |-> kind, voice |-> voice, text |-> text,
   id |-> id, title |-> title, status |-> status]

Plain(kind) == Event(kind, None, <<>>, None, None, None)
Chunk(voice, text) == Event("chunk", voice, text, None, None, None)
Tool(id, title, status) == Event("tool", None, <<>>, id, title, status)

\* Only a chunk has a voice of its own.
Events ==
  {e \in [kind : EventKinds, voice : Voices \cup {None}, text : Seq(LineKinds),
          id : STRING, title : STRING, status : STRING] :
     e.kind = "chunk" <=> e.voice # None}

\* entry: what a log line is read as.  A chunk that carries no words is
\* bookkeeping, a shape this build does not know an aside.
Entry(event) ==
  CASE event.kind = "chunk" /\ event.text = <<>> -> "bookkeeping"
    [] event.kind = "unknown" -> "aside"
    [] OTHER -> event.kind

-----------------------------------------------------------------------------
(* blocks, join, amend.                                                    *)

\* A chunk continues the run that is the last block, if it is its voice's.
Join(blocks, chunk) ==
  IF /\ blocks # <<>>
     /\ Last(blocks).kind = "chunk" /\ Last(blocks).voice = chunk.voice
    THEN [blocks EXCEPT ![Len(blocks)].text = @ \o chunk.text]
    ELSE Append(blocks, chunk)

OrElse(later, shown) == IF later = None THEN shown ELSE later

\* A tool call keeps the line it first took; a call without an id is nobody
\* else's line, and a field left out is not a field cleared.
Amend(blocks, call) ==
  LET shown == {i \in DOMAIN blocks : /\ blocks[i].kind = "tool"
                                      /\ blocks[i].id # None
                                      /\ blocks[i].id = call.id}
  IN  IF shown = {} THEN Append(blocks, call)
      ELSE [blocks EXCEPT
              ![Max(shown)].title = OrElse(call.title, @),
              ![Max(shown)].status = OrElse(call.status, @)]

Add(blocks, event) ==
  CASE Entry(event) = "bookkeeping" -> blocks
    [] Entry(event) = "chunk" -> Join(blocks, event)
    [] Entry(event) = "tool" -> Amend(blocks, event)
    [] OTHER -> Append(blocks, event)

Blocks(events) == FoldLeft(Add, <<>>, events)

-----------------------------------------------------------------------------
(* passages, read_prose.                                                   *)

Passage(kind, lines) == [kind |-> kind, lines |-> lines]

\* push_read: a run of lines stands as a passage only if it says something.
PushRead(read, said, listing) ==
  IF \A i \in DOMAIN said : said[i] = "blank" THEN read
  ELSE Append(read, Passage(IF listing THEN "list" ELSE "prose", said))

ReadLine(r, line) ==
  LET item == line = "item"
  IN  IF item # r.listing
        THEN [read |-> PushRead(r.read, r.said, r.listing),
              said |-> <<line>>, listing |-> item]
        ELSE [r EXCEPT !.said = Append(@, line)]

Reader == [read |-> <<>>, said |-> <<>>, listing |-> FALSE]

ReadLines(prose) == FoldLeft(ReadLine, Reader, prose)

ReadProse(prose) ==
  LET r == ReadLines(prose) IN PushRead(r.read, r.said, r.listing)

\* Slip: a fence in the middle of a message takes the prose before it along.
TakeLineDropping(p, line) ==
  IF p.fenced
    THEN IF line = "fence"
           THEN [p EXCEPT !.passages = Append(@, Passage("code", p.code)),
                          !.fenced = FALSE, !.code = <<>>]
           ELSE [p EXCEPT !.code = Append(@, line)]
    ELSE IF line \in {"fence", "opening"}
           THEN [p EXCEPT !.prose = <<>>, !.fenced = TRUE]
           ELSE [p EXCEPT !.prose = Append(@, line)]

\* A bare fence closes a block; a fence with a word after it only opens one.
TakeLine(p, line) ==
  IF p.fenced
    THEN IF line = "fence"
           THEN [p EXCEPT !.passages = Append(@, Passage("code", p.code)),
                          !.fenced = FALSE, !.code = <<>>]
           ELSE [p EXCEPT !.code = Append(@, line)]
    ELSE IF line \in {"fence", "opening"}
           THEN [p EXCEPT !.passages = @ \o ReadProse(p.prose),
                          !.prose = <<>>, !.fenced = TRUE]
           ELSE [p EXCEPT !.prose = Append(@, line)]

Unread == [passages |-> <<>>, prose |-> <<>>, fenced |-> FALSE, code |-> <<>>]

TakeLines(text) == FoldLeft(TakeLine, Unread, text)

\* Slip: a fence is code once it is closed.
PassagesWhenClosed(text) ==
  LET p == TakeLines(text)
      read == p.passages \o ReadProse(p.prose \o p.code)
  IN  IF read = <<>> THEN <<Passage("prose", text)>> ELSE read

\* A fence left open is read to the end: its close has not arrived yet.
Passages(text) ==
  LET p == TakeLines(text)
      read == p.passages \o (IF p.fenced THEN <<Passage("code", p.code)>>
                             ELSE ReadProse(p.prose))
  IN  IF read = <<>> THEN <<Passage("prose", text)>> ELSE read

-----------------------------------------------------------------------------
(* said_html: a message as the elements the page is made of.               *)

\* How a voice reads: the element its prose sits in, whether it stands back,
\* and whether it is named.
Reading(tag, setBack, label) == [tag |-> tag, setBack |-> setBack, label |-> label]

IsMessage(block) == block.kind \in {"turn", "chunk", "notice"}

ReadingOf(block) ==
  CASE block.kind = "turn" \/ block.voice = "user" -> Reading("p", TRUE, TRUE)
    [] block.voice = "agent" -> Reading("p", FALSE, FALSE)
    [] block.voice = "thought" -> Reading("p", TRUE, FALSE)
    [] block.kind = "notice" -> Reading("blockquote", TRUE, FALSE)

\* A list and code are elements of their own, never inside a paragraph.
Element(passage, reading) ==
  [tag |-> CASE passage.kind = "prose" -> reading.tag
             [] passage.kind = "list" -> "ul"
             [] passage.kind = "code" -> "pre",
   dim |-> reading.setBack, named |-> FALSE, lines |-> passage.lines]

\* A message that opens with a list or code is named on an empty paragraph.
Opened(read, reading) ==
  IF reading.label /\ Head(read).kind # "prose"
    THEN <<Passage("prose", <<>>)>> \o read ELSE read

\* The label goes on the first words of the message.
Elements(read, reading) ==
  LET prose == {i \in DOMAIN read : read[i].kind = "prose"}
  IN  [i \in DOMAIN read |->
         [Element(read[i], reading) EXCEPT
            !.named = reading.label /\ i \in prose /\ \A j \in prose : i <= j]]

SaidHtml(said, reading) == Elements(Opened(Passages(said), reading), reading)

-----------------------------------------------------------------------------
(* What a reading must come to, without building it.                       *)

Said(line) == line \in {"words", "item"}

\* The lines that say something, of a text and of a page.
SaidBy(line) == IF Said(line) THEN <<line>> ELSE <<>>
SaidOf(lines) == FlattenSeq([i \in DOMAIN lines |-> SaidBy(lines[i])])
SaidIn(html) == FlattenSeq([j \in DOMAIN html |-> SaidOf(html[j].lines)])

SpokenBy(event, voice) ==
  IF event.kind = "chunk" /\ event.voice = voice THEN event.text ELSE <<>>

Spoken(events, voice) ==
  FlattenSeq([i \in DOMAIN events |-> SpokenBy(events[i], voice)])

\* The last word on each field of a tool call.
Latest(events, id, field) ==
  LET said == {i \in DOMAIN events : /\ events[i].kind = "tool"
                                     /\ events[i].id = id
                                     /\ events[i][field] # None}
  IN  IF said = {} THEN None ELSE events[Max(said)][field]

\* The lines that are neither chunks nor tools nor bookkeeping, in order.
RestBy(event) ==
  IF Entry(event) \in {"chunk", "tool", "bookkeeping"} THEN <<>> ELSE <<event>>

Rest(events) == FlattenSeq([i \in DOMAIN events |-> RestBy(events[i])])

SameReading(blocks, events) ==
  /\ \A voice \in Voices : Spoken(blocks, voice) = Spoken(events, voice)
  /\ Rest(blocks) = Rest(events)
  /\ \A i \in DOMAIN events : events[i].kind = "tool" /\ events[i].id # None =>
        \A field \in {"title", "status"} :
           Latest(blocks, events[i].id, field)
             = Latest(events, events[i].id, field)

=============================================================================
