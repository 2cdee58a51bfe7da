----------------------------- MODULE PageProofs -----------------------------
(***************************************************************************)
(* Proofs about what a page shows: what it reads off a chat's log          *)
(* (EventLog.tla, Transcript.tla), for any writers, any payloads and a log *)
(* of any length; and the list of chats (Survey.tla), for any chats and    *)
(* any moves of theirs.                                                    *)
(***************************************************************************)
EXTENDS EventLog, Survey, SequenceTheorems, TLAPS

\* blocks, read_prose and passages are folds.
BlocksAre == INSTANCE Folding WITH Base <- <<>>, Step <- Add
ProseIs == INSTANCE Folding WITH Base <- Reader, Step <- ReadLine
TextIs == INSTANCE Folding WITH Base <- Unread, Step <- TakeLine

LEMMA BlocksFold == ASSUME NEW s PROVE Blocks(s) = BlocksAre!Fold(s)
BY DEF Blocks, BlocksAre!Fold, FoldLeft, MapThenFoldSet, Max,
       BlocksAre!FoldLeft, BlocksAre!MapThenFoldSet, BlocksAre!Max

LEMMA ProseFold == ASSUME NEW s PROVE ReadLines(s) = ProseIs!Fold(s)
BY DEF ReadLines, ProseIs!Fold, FoldLeft, MapThenFoldSet, Max,
       ProseIs!FoldLeft, ProseIs!MapThenFoldSet, ProseIs!Max

LEMMA TextFold == ASSUME NEW s PROVE TakeLines(s) = TextIs!Fold(s)
BY DEF TakeLines, TextIs!Fold, FoldLeft, MapThenFoldSet, Max,
       TextIs!FoldLeft, TextIs!MapThenFoldSet, TextIs!Max

\* Nothing is no block, and one event more is added to the blocks before it;
\* likewise for the lines of prose and of a message.
LEMMA BlocksStep ==
  /\ Blocks(<<>>) = <<>>
  /\ \A S : \A s \in Seq(S), x \in S : Blocks(Append(s, x)) = Add(Blocks(s), x)
BY BlocksFold, BlocksAre!FoldEmpty, BlocksAre!FoldAppend

LEMMA ProseStep ==
  /\ ReadLines(<<>>) = Reader
  /\ \A S : \A s \in Seq(S), x \in S : ReadLines(Append(s, x)) = ReadLine(ReadLines(s), x)
BY ProseFold, ProseIs!FoldEmpty, ProseIs!FoldAppend

LEMMA TextStep ==
  /\ TakeLines(<<>>) = Unread
  /\ \A S : \A s \in Seq(S), x \in S : TakeLines(Append(s, x)) = TakeLine(TakeLines(s), x)
BY TextFold, TextIs!FoldEmpty, TextIs!FoldAppend

-----------------------------------------------------------------------------
(* Sequences of sequences, put in one.                                     *)

LEMMA Flat == ASSUME NEW ss PROVE FlattenSeq(ss) = BlocksAre!FlattenSeq(ss)
BY DEF FlattenSeq, BlocksAre!FlattenSeq

LEMMA FlattenStep ==
  /\ FlattenSeq(<<>>) = <<>>
  /\ \A E : \A ss \in Seq(Seq(E)), s \in Seq(E) :
        FlattenSeq(Append(ss, s)) = FlattenSeq(ss) \o s
BY Flat, BlocksAre!FlattenStep

LEMMA FlattenType ==
  ASSUME NEW E, NEW ss \in Seq(Seq(E)) PROVE FlattenSeq(ss) \in Seq(E)
BY Flat, BlocksAre!FlattenType

LEMMA FlattenConcat ==
  ASSUME NEW E, NEW ss \in Seq(Seq(E)), NEW tt \in Seq(Seq(E))
  PROVE  FlattenSeq(ss \o tt) = FlattenSeq(ss) \o FlattenSeq(tt)
BY Flat, BlocksAre!FlattenConcat

\* The greatest index is one of them.
LEMMA MaxIs ==
  ASSUME NEW n \in Nat, NEW s \in SUBSET (1..n), s # {}
  PROVE  Max(s) \in s
BY BlocksAre!MaxIsIn DEF Max, BlocksAre!Max

LEMMA MaxLast ==
  ASSUME NEW n \in Nat, NEW s \in SUBSET (1..(n + 1)), n + 1 \in s
  PROVE  Max(s) = n + 1
BY BlocksAre!MaxOfInterval DEF Max, BlocksAre!Max

LEMMA MaxOfOne == ASSUME NEW n \in Nat PROVE Max({n}) = n
BY DEF Max

-----------------------------------------------------------------------------
(* What is spoken, and the rest, of one more event and of two logs.        *)

\* What one event says has a type.
LEMMA ByTypes ==
  ASSUME NEW e \in Events, NEW voice
  PROVE  SpokenBy(e, voice) \in Seq(LineKinds) /\ RestBy(e) \in Seq(Events)
<1>1. e.text \in Seq(LineKinds)
  BY DEF Events
<1>2. <<e>> \in Seq(Events)
  OBVIOUS
<1>3. RestBy(e) \in {<<>>, <<e>>}
  BY Zenon DEF RestBy
<1>4. SpokenBy(e, voice) \in {<<>>, e.text}
  BY Zenon DEF SpokenBy
<1> QED BY <1>1, <1>2, <1>3, <1>4, EmptySeq

LEMMA SpokenTypes ==
  ASSUME NEW voice, NEW es \in Seq(Events)
  PROVE  [i \in DOMAIN es |-> SpokenBy(es[i], voice)] \in Seq(Seq(LineKinds))
<1>1. \A i \in DOMAIN es : SpokenBy(es[i], voice) \in Seq(LineKinds)
  BY ByTypes, ElementOfSeq
<1> HIDE DEF SpokenBy
<1> QED BY <1>1

LEMMA RestTypes ==
  ASSUME NEW es \in Seq(Events)
  PROVE  [i \in DOMAIN es |-> RestBy(es[i])] \in Seq(Seq(Events))
<1>1. \A i \in DOMAIN es : RestBy(es[i]) \in Seq(Events)
  BY ByTypes, ElementOfSeq
<1> QED BY <1>1

LEMMA SpokenStep ==
  ASSUME NEW voice, NEW es \in Seq(Events), NEW e \in Events
  PROVE  /\ Spoken(Append(es, e), voice) = Spoken(es, voice) \o SpokenBy(e, voice)
         /\ Spoken(es, voice) \in Seq(LineKinds)
<1>1. [i \in DOMAIN Append(es, e) |-> SpokenBy(Append(es, e)[i], voice)]
        = Append([i \in DOMAIN es |-> SpokenBy(es[i], voice)], SpokenBy(e, voice))
  OBVIOUS
<1> QED BY <1>1, SpokenTypes, ByTypes, FlattenStep, FlattenType DEF Spoken

LEMMA RestStep ==
  ASSUME NEW es \in Seq(Events), NEW e \in Events
  PROVE  /\ Rest(Append(es, e)) = Rest(es) \o RestBy(e)
         /\ Rest(es) \in Seq(Events)
<1>1. [i \in DOMAIN Append(es, e) |-> RestBy(Append(es, e)[i])]
        = Append([i \in DOMAIN es |-> RestBy(es[i])], RestBy(e))
  OBVIOUS
<1> QED BY <1>1, RestTypes, ByTypes, FlattenStep, FlattenType DEF Rest

LEMMA SpokenConcat ==
  ASSUME NEW voice, NEW es \in Seq(Events), NEW fs \in Seq(Events)
  PROVE  Spoken(es \o fs, voice) = Spoken(es, voice) \o Spoken(fs, voice)
<1> DEFINE each(s) == [i \in DOMAIN s |-> SpokenBy(s[i], voice)]
           all == es \o fs
<1>1. DOMAIN all = 1..(Len(es) + Len(fs)) /\ DOMAIN es = 1..Len(es) /\ DOMAIN fs = 1..Len(fs)
      /\ all \in Seq(Events) /\ Len(es) \in Nat /\ Len(fs) \in Nat
      /\ \A i \in 1..(Len(es) + Len(fs)) :
            all[i] = IF i <= Len(es) THEN es[i] ELSE fs[i - Len(es)]
  BY ConcatProperties, LenProperties
<1>2. each(es) \in Seq(Seq(LineKinds)) /\ each(fs) \in Seq(Seq(LineKinds))
      /\ each(all) \in Seq(Seq(LineKinds))
  BY <1>1, SpokenTypes
<1>3. Len(each(es)) = Len(es) /\ Len(each(fs)) = Len(fs)
      /\ Len(each(all)) = Len(es) + Len(fs)
  BY <1>1, <1>2, LenProperties
<1>4. \A i \in 1..(Len(es) + Len(fs)) : each(all)[i] = (each(es) \o each(fs))[i]
  BY <1>1, <1>2, <1>3, ConcatProperties
<1>5. each(all) = each(es) \o each(fs)
  <2> DEFINE both == each(es) \o each(fs)
  <2> HIDE DEF each, all
  <2>1. both \in Seq(Seq(LineKinds)) /\ Len(both) = Len(es) + Len(fs)
    <3>1. Len(both) = Len(each(es)) + Len(each(fs)) /\ both \in Seq(Seq(LineKinds))
      BY ONLY <1>2, ConcatProperties, Zenon
    <3> QED BY <1>3, <3>1
  <2>2. \A i \in 1..Len(each(all)) : each(all)[i] = both[i]
    BY <1>3, <1>4
  <2> HIDE DEF both
  <2>3. each(all) = both
    BY <1>2, <1>3, <2>1, <2>2, SeqEqual
  <2> QED BY <2>3 DEF both
<1>6. FlattenSeq(each(all)) = FlattenSeq(each(es)) \o FlattenSeq(each(fs))
  <2> HIDE DEF each, all
  <2> QED BY <1>2, <1>5, FlattenConcat
<1> QED BY <1>6 DEF Spoken

LEMMA RestConcat ==
  ASSUME NEW es \in Seq(Events), NEW fs \in Seq(Events)
  PROVE  Rest(es \o fs) = Rest(es) \o Rest(fs)
<1> DEFINE each(s) == [i \in DOMAIN s |-> RestBy(s[i])]
           all == es \o fs
<1>1. DOMAIN all = 1..(Len(es) + Len(fs)) /\ DOMAIN es = 1..Len(es) /\ DOMAIN fs = 1..Len(fs)
      /\ all \in Seq(Events) /\ Len(es) \in Nat /\ Len(fs) \in Nat
      /\ \A i \in 1..(Len(es) + Len(fs)) :
            all[i] = IF i <= Len(es) THEN es[i] ELSE fs[i - Len(es)]
  BY ConcatProperties, LenProperties
<1>2. each(es) \in Seq(Seq(Events)) /\ each(fs) \in Seq(Seq(Events))
      /\ each(all) \in Seq(Seq(Events))
  BY <1>1, RestTypes
<1>3. Len(each(es)) = Len(es) /\ Len(each(fs)) = Len(fs)
      /\ Len(each(all)) = Len(es) + Len(fs)
  BY <1>1, <1>2, LenProperties
<1>4. \A i \in 1..(Len(es) + Len(fs)) : each(all)[i] = (each(es) \o each(fs))[i]
  BY <1>1, <1>2, <1>3, ConcatProperties
<1>5. each(all) = each(es) \o each(fs)
  <2> DEFINE both == each(es) \o each(fs)
  <2> HIDE DEF each, all
  <2>1. both \in Seq(Seq(Events)) /\ Len(both) = Len(es) + Len(fs)
    <3>1. Len(both) = Len(each(es)) + Len(each(fs)) /\ both \in Seq(Seq(Events))
      BY ONLY <1>2, ConcatProperties, Zenon
    <3> QED BY <1>3, <3>1
  <2>2. \A i \in 1..Len(each(all)) : each(all)[i] = both[i]
    BY <1>3, <1>4
  <2> HIDE DEF both
  <2>3. each(all) = both
    BY <1>2, <1>3, <2>1, <2>2, SeqEqual
  <2> QED BY <2>3 DEF both
<1>6. FlattenSeq(each(all)) = FlattenSeq(each(es)) \o FlattenSeq(each(fs))
  <2> HIDE DEF each, all
  <2> QED BY <1>2, <1>5, FlattenConcat
<1> QED BY <1>6 DEF Rest

-----------------------------------------------------------------------------
(* The last word on a tool call.                                           *)

Fields == {"title", "status"}

\* The indices that have a word on one.
Words(events, id, field) ==
  {i \in DOMAIN events : /\ events[i].kind = "tool"
                         /\ events[i].id = id
                         /\ events[i][field] # None}

LEMMA LatestIs ==
  ASSUME NEW es, NEW id, NEW field
  PROVE  Latest(es, id, field) = IF Words(es, id, field) = {} THEN None
                                 ELSE es[Max(Words(es, id, field))][field]
BY DEF Latest, Words

LEMMA LatestStep ==
  ASSUME NEW es \in Seq(Events), NEW e \in Events, NEW id, NEW field \in Fields
  PROVE  Latest(Append(es, e), id, field)
           = IF e.kind = "tool" /\ e.id = id /\ e[field] # None
               THEN e[field] ELSE Latest(es, id, field)
<1> DEFINE n == Len(es)
           all == Append(es, e)
           was == Words(es, id, field)
           now == Words(all, id, field)
<1>1. n \in Nat /\ DOMAIN es = 1..n /\ DOMAIN all = 1..(n + 1) /\ all[n + 1] = e
      /\ \A i \in 1..n : all[i] = es[i]
  BY AppendProperties, LenProperties
<1> HIDE DEF n, all
<1>2. was \in SUBSET (1..n) /\ now \in SUBSET (1..(n + 1))
  BY <1>1 DEF Words
<1>3. now = was \cup (IF e.kind = "tool" /\ e.id = id /\ e[field] # None
                        THEN {n + 1} ELSE {})
  BY <1>1 DEF Words
<1> HIDE DEF was, now
<1>4. CASE e.kind = "tool" /\ e.id = id /\ e[field] # None
  <2>1. now # {} /\ Max(now) = n + 1
    BY <1>1, <1>2, <1>3, <1>4, MaxLast
  <2>2. Latest(all, id, field) = e[field]
    BY <1>1, <2>1, LatestIs DEF now
  <2> QED BY <1>4, <2>2 DEF all
<1>5. CASE ~ (e.kind = "tool" /\ e.id = id /\ e[field] # None)
  <2>1. now = was
    BY <1>3, <1>5
  <2>2. was # {} => Max(was) \in 1..n
    BY <1>1, <1>2, MaxIs
  <2>3. Latest(all, id, field) = Latest(es, id, field)
    BY <1>1, <2>1, <2>2, LatestIs DEF was, now
  <2> QED BY <1>5, <2>3 DEF all
<1> QED BY <1>4, <1>5

\* What is the same of every tool call is the same of its last word.
LEMMA LatestSame ==
  ASSUME NEW es \in Seq(Events), NEW fs \in Seq(Events), Len(es) = Len(fs),
         NEW id, NEW field \in Fields,
         \A i \in 1..Len(es) :
            /\ es[i].kind = "tool" /\ es[i].id = id <=> fs[i].kind = "tool" /\ fs[i].id = id
            /\ es[i].kind = "tool" /\ es[i].id = id => es[i][field] = fs[i][field]
  PROVE  Latest(es, id, field) = Latest(fs, id, field)
<1> DEFINE was == Words(es, id, field)
           now == Words(fs, id, field)
<1>1. was \in SUBSET (1..Len(es)) /\ now = was /\ Len(es) \in Nat
  BY LenProperties DEF Words
<1>2. was # {} => Max(was) \in was
  BY <1>1, MaxIs
<1>3. \A i \in was : es[i][field] = fs[i][field]
  BY DEF Words
<1> QED BY <1>1, <1>2, <1>3, LatestIs

\* The only line of a call has the last word on it.
LEMMA LatestOfOne ==
  ASSUME NEW es \in Seq(Events), NEW id, NEW field \in Fields, NEW i \in 1..Len(es),
         es[i].kind = "tool" /\ es[i].id = id,
         \A j \in 1..Len(es) : es[j].kind = "tool" /\ es[j].id = id => j = i
  PROVE  Latest(es, id, field) = es[i][field]
<1>1. CASE es[i][field] = None
  <2>1. Words(es, id, field) = {}
    BY <1>1, LenProperties DEF Words
  <2> QED BY <1>1, <2>1, LatestIs
<1>2. CASE es[i][field] # None
  <2>1. Words(es, id, field) = {i}
    BY <1>2, LenProperties DEF Words
  <2>2. i \in Nat
    BY LenProperties
  <2> QED BY <2>1, <2>2, MaxOfOne, LatestIs
<1> QED BY <1>1, <1>2

\* Two logs read one after the other: the second has the last word, if it has
\* one.
LEMMA LatestConcat ==
  ASSUME NEW es \in Seq(Events), NEW fs \in Seq(Events), NEW id, NEW field \in Fields
  PROVE  Latest(es \o fs, id, field)
           = IF Latest(fs, id, field) = None THEN Latest(es, id, field)
             ELSE Latest(fs, id, field)
<1> DEFINE Joined(s) == Latest(es \o s, id, field)
                          = IF Latest(s, id, field) = None THEN Latest(es, id, field)
                            ELSE Latest(s, id, field)
           T == {s \in Seq(Events) : Joined(s)}
<1>1. <<>> \in T
  <2>1. es \o <<>> = es
    BY ConcatEmptySeq
  <2>2. Latest(<<>>, id, field) = None
    <3>1. Words(<<>>, id, field) = {}
      BY DEF Words
    <3> QED BY <3>1, LatestIs
  <2> QED BY <2>1, <2>2, EmptySeq
<1>2. ASSUME NEW s \in Seq(Events), NEW e \in Events, s \in T PROVE Append(s, e) \in T
  <2>1. es \o Append(s, e) = Append(es \o s, e) /\ es \o s \in Seq(Events)
    BY ConcatProperties
  <2>2. Latest(Append(s, e), id, field)
          = IF e.kind = "tool" /\ e.id = id /\ e[field] # None
              THEN e[field] ELSE Latest(s, id, field)
    BY LatestStep
  <2>3. Latest(es \o Append(s, e), id, field)
          = IF e.kind = "tool" /\ e.id = id /\ e[field] # None
              THEN e[field] ELSE Latest(es \o s, id, field)
    <3> DEFINE a == es \o s
    <3> HIDE DEF a
    <3>1. Latest(Append(a, e), id, field)
            = IF e.kind = "tool" /\ e.id = id /\ e[field] # None
                THEN e[field] ELSE Latest(a, id, field)
      BY <2>1, LatestStep DEF a
    <3> QED BY <2>1, <3>1 DEF a
  <2>4. Joined(Append(s, e))
    BY <1>2, <2>2, <2>3
  <2>5. Append(s, e) \in Seq(Events)
    BY AppendProperties
  <2> QED BY <2>4, <2>5
<1> HIDE DEF T
<1>3. \A s \in Seq(Events) : s \in T
  BY <1>1, <1>2, BlocksAre!SeqInduct
<1> QED BY <1>3 DEF T

-----------------------------------------------------------------------------
(* The blocks of a log are read as the log.                                *)

\* A tool call has one line.
Alone(blocks) ==
  \A i, j \in DOMAIN blocks :
     /\ blocks[i].kind = "tool" /\ blocks[i].id # None
     /\ blocks[j].kind = "tool" /\ blocks[j].id = blocks[i].id
     => i = j

\* The blocks with an event added say what it says on top of what they said.
Adds(next, blocks, e) ==
  /\ next \in Seq(Events) /\ Alone(next)
  /\ \A voice \in Voices :
        Spoken(next, voice) = Spoken(blocks, voice) \o SpokenBy(e, voice)
  /\ Rest(next) = Rest(blocks) \o RestBy(e)
  /\ \A id, field : id # None /\ field \in Fields =>
        Latest(next, id, field)
          = IF e.kind = "tool" /\ e.id = id /\ e[field] # None
              THEN e[field] ELSE Latest(blocks, id, field)

LEMMA AppendAdds ==
  ASSUME NEW blocks \in Seq(Events), Alone(blocks), NEW e \in Events,
         \/ e.kind # "tool"
         \/ e.id = None
         \/ \A i \in DOMAIN blocks : ~ (blocks[i].kind = "tool" /\ blocks[i].id = e.id)
  PROVE  Adds(Append(blocks, e), blocks, e)
<1> DEFINE n == Len(blocks)
           next == Append(blocks, e)
<1>1. n \in Nat /\ DOMAIN blocks = 1..n /\ DOMAIN next = 1..(n + 1) /\ next[n + 1] = e
      /\ next \in Seq(Events) /\ \A i \in 1..n : next[i] = blocks[i]
  BY AppendProperties, LenProperties
<1>2. Alone(next)
  <2> HIDE DEF n, next
  <2> QED BY <1>1 DEF Alone
<1> QED BY <1>1, <1>2, SpokenStep, RestStep, LatestStep DEF Adds

\* A chunk that carries no words.
LEMMA NothingAdds ==
  ASSUME NEW blocks \in Seq(Events), Alone(blocks), NEW e \in Events,
         e.kind = "chunk", e.text = <<>>
  PROVE  Adds(blocks, blocks, e)
<1>1. RestBy(e) = <<>>
  BY DEF RestBy, Entry
<1>2. \A voice : SpokenBy(e, voice) = <<>>
  BY DEF SpokenBy
<1>3. Rest(blocks) \in Seq(Events) /\ \A voice : Spoken(blocks, voice) \in Seq(LineKinds)
  BY SpokenStep, RestStep
<1>4. Rest(blocks) \o <<>> = Rest(blocks)
  BY <1>3
<1>5. \A voice : Spoken(blocks, voice) \o <<>> = Spoken(blocks, voice)
  BY <1>3
<1> QED BY <1>1, <1>2, <1>4, <1>5 DEF Adds

\* A chunk continues the run that is the last block.
LEMMA JoinAdds ==
  ASSUME NEW blocks \in Seq(Events), Alone(blocks), NEW e \in Events,
         Entry(e) = "chunk"
  PROVE  Adds(Join(blocks, e), blocks, e)
<1>0. e.kind = "chunk" /\ e.text \in Seq(LineKinds)
  BY DEF Entry, Events, EventKinds
<1>1. CASE ~ (/\ blocks # <<>>
              /\ Last(blocks).kind = "chunk" /\ Last(blocks).voice = e.voice)
  BY <1>0, <1>1, AppendAdds DEF Join
<1>2. CASE /\ blocks # <<>>
           /\ Last(blocks).kind = "chunk" /\ Last(blocks).voice = e.voice
  <2>1. PICK f \in Seq(Events), l \in Events : blocks = Append(f, l)
    BY <1>2, SequenceEmptyOrAppend
  <2> DEFINE n == Len(f)
             m == [l EXCEPT !.text = @ \o e.text]
             next == Append(f, m)
  <2>2. n \in Nat /\ Len(blocks) = n + 1 /\ blocks[n + 1] = l
        /\ \A i \in 1..n : blocks[i] = f[i]
    BY <2>1
  <2>3. l.kind = "chunk" /\ l.voice = e.voice /\ l.text \in Seq(LineKinds)
    BY <1>2, <2>2 DEF Last, Events
  <2>4. l.text \o e.text \in Seq(LineKinds)
    BY <1>0, <2>3
  <2>5. m \in Events /\ m.kind = "chunk" /\ m.voice = l.voice /\ m.text = l.text \o e.text
    BY <2>3, <2>4 DEF Events
  <2>6. Join(blocks, e) = [blocks EXCEPT ![n + 1].text = @ \o e.text]
    BY <1>2, <2>2 DEF Join
  <2>7. Join(blocks, e) = [blocks EXCEPT ![n + 1] = m]
    BY <2>2, <2>6
  <2>8. next \in Seq(Events) /\ Len(next) = n + 1 /\ next[n + 1] = m
        /\ \A i \in 1..n : next[i] = f[i]
    BY <2>2, <2>5, AppendProperties
  <2>9. Join(blocks, e) = next
    <3> HIDE DEF n, m
    <3> HIDE DEF next
    <3>1. n + 1 \in 1..Len(blocks)
      BY <2>2
    <3> DEFINE joined == [blocks EXCEPT ![n + 1] = m]
    <3>2. joined \in Seq(Events) /\ Len(joined) = n + 1
          /\ \A i \in 1..(n + 1) : joined[i] = IF i = n + 1 THEN m ELSE blocks[i]
      BY <2>2, <2>5, <3>1, ExceptSeq
    <3> HIDE DEF joined
    <3>3. \A i \in 1..(n + 1) : joined[i] = next[i]
      BY <2>2, <2>8, <3>2
    <3>4. joined = next
      BY <2>8, <3>2, <3>3, SeqEqual
    <3> QED BY <2>7, <3>4 DEF joined
  <2> HIDE DEF n, m, next
  <2>10. Alone(next)
    <3>1. DOMAIN blocks = 1..(n + 1) /\ DOMAIN next = 1..(n + 1)
      BY <2>2, <2>8, LenProperties
    <3> QED BY <2>2, <2>3, <2>5, <2>8, <3>1 DEF Alone
  <2>11. ASSUME NEW voice \in Voices
         PROVE  Spoken(next, voice) = Spoken(blocks, voice) \o SpokenBy(e, voice)
    <3>1. Spoken(blocks, voice) = Spoken(f, voice) \o SpokenBy(l, voice)
          /\ Spoken(f, voice) \in Seq(LineKinds)
      BY <2>1, SpokenStep
    <3>2. Spoken(next, voice) = Spoken(f, voice) \o SpokenBy(m, voice)
      BY <2>5, SpokenStep DEF next
    <3>3. SpokenBy(m, voice) = SpokenBy(l, voice) \o SpokenBy(e, voice)
      <4>1. CASE voice = e.voice
        BY <1>0, <2>3, <2>5, <4>1 DEF SpokenBy
      <4>2. CASE voice # e.voice
        <5>1. SpokenBy(m, voice) = <<>> /\ SpokenBy(l, voice) = <<>>
              /\ SpokenBy(e, voice) = <<>>
          BY <2>3, <2>5, <4>2 DEF SpokenBy
        <5> QED BY <5>1
      <4> QED BY <4>1, <4>2
    <3>4. SpokenBy(l, voice) \in Seq(LineKinds) /\ SpokenBy(e, voice) \in Seq(LineKinds)
      BY ByTypes
    <3> QED BY <3>1, <3>2, <3>3, <3>4, ConcatAssociative
  <2>12. Rest(next) = Rest(blocks) \o RestBy(e)
    <3>1. Rest(blocks) = Rest(f) \o RestBy(l) /\ Rest(f) \in Seq(Events)
      BY <2>1, RestStep
    <3>2. Rest(next) = Rest(f) \o RestBy(m)
      BY <2>5, RestStep DEF next
    <3>3. RestBy(m) = <<>> /\ RestBy(l) = <<>> /\ RestBy(e) = <<>>
      BY <1>0, <2>3, <2>5 DEF RestBy, Entry
    <3>4. Rest(f) \o <<>> = Rest(f)
      BY <3>1
    <3> QED BY <3>1, <3>2, <3>3, <3>4
  <2>13. ASSUME NEW id, NEW field \in Fields
         PROVE  Latest(next, id, field) = Latest(blocks, id, field)
    <3>1. Latest(blocks, id, field) = Latest(f, id, field)
      BY <2>1, <2>3, LatestStep
    <3>2. Latest(next, id, field) = Latest(f, id, field)
      BY <2>5, <2>3, LatestStep DEF next
    <3> QED BY <3>1, <3>2
  <2> QED BY <1>0, <2>8, <2>9, <2>10, <2>11, <2>12, <2>13 DEF Adds
<1> QED BY <1>1, <1>2

\* A call keeps its line.
LEMMA AmendAdds ==
  ASSUME NEW blocks \in Seq(Events), Alone(blocks), NEW e \in Events, e.kind = "tool"
  PROVE  Adds(Amend(blocks, e), blocks, e)
<1> DEFINE lines == {i \in DOMAIN blocks : /\ blocks[i].kind = "tool"
                                           /\ blocks[i].id # None
                                           /\ blocks[i].id = e.id}
           n == Len(blocks)
           i == Max(lines)
           line == [blocks[i] EXCEPT !.title = OrElse(e.title, @),
                                     !.status = OrElse(e.status, @)]
           next == Amend(blocks, e)
<1>1. n \in Nat /\ DOMAIN blocks = 1..n /\ \A j \in 1..n : blocks[j] \in Events
  BY LenProperties, ElementOfSeq
<1>2. CASE lines = {}
  BY <1>2, AppendAdds DEF Amend
<1>3. CASE lines # {}
  <2>1. i \in lines
    <3>1. lines \in SUBSET (1..n)
      BY <1>1
    <3> HIDE DEF lines, n
    <3> QED BY <1>1, <1>3, <3>1, MaxIs
  <2>2. i \in 1..n /\ blocks[i] \in Events /\ blocks[i].kind = "tool"
        /\ blocks[i].id # None /\ blocks[i].id = e.id
    BY <1>1, <2>1
  <2>3. OrElse(e.title, blocks[i].title) \in STRING
        /\ OrElse(e.status, blocks[i].status) \in STRING
    BY <2>2 DEF OrElse, Events
  <2>4. line \in Events /\ line.kind = "tool" /\ line.id = blocks[i].id
        /\ \A field \in Fields : line[field] = OrElse(e[field], blocks[i][field])
    BY <2>2, <2>3 DEF Events, Fields
  <2>5. next = [blocks EXCEPT ![i].title = OrElse(e.title, @),
                              ![i].status = OrElse(e.status, @)]
    BY <1>3 DEF Amend
  <2>6. next = [blocks EXCEPT ![i] = line]
    BY <1>1, <2>2, <2>5
  <2> HIDE DEF i, line, next, lines, n
  <2>7. next \in Seq(Events) /\ Len(next) = n /\ next[i] = line
        /\ \A j \in 1..n : j # i => next[j] = blocks[j]
    BY <1>1, <2>2, <2>4, <2>6, ExceptSeq DEF n
  <2>8. \A j \in 1..n : blocks[j].kind = "tool" /\ blocks[j].id = e.id => j = i
    BY <1>1, <2>2 DEF Alone
  <2>9. \A j \in 1..n : next[j].kind = blocks[j].kind /\ next[j].id = blocks[j].id
    BY <2>2, <2>4, <2>7
  <2>10. DOMAIN next = 1..n
    BY <2>7, LenProperties
  <2>11. Alone(next)
    BY <1>1, <2>9, <2>10 DEF Alone
  <2>12. ASSUME NEW voice
         PROVE  Spoken(next, voice) = Spoken(blocks, voice) \o SpokenBy(e, voice)
    <3>1. \A j \in 1..n : SpokenBy(next[j], voice) = SpokenBy(blocks[j], voice)
      BY <2>2, <2>4, <2>7 DEF SpokenBy
    <3>2. Spoken(next, voice) = Spoken(blocks, voice)
      <4>1. [j \in 1..n |-> SpokenBy(next[j], voice)]
              = [j \in 1..n |-> SpokenBy(blocks[j], voice)]
        BY <3>1
      <4> QED BY <1>1, <2>10, <4>1 DEF Spoken
    <3>3. SpokenBy(e, voice) = <<>>
      BY DEF SpokenBy
    <3>4. Spoken(blocks, voice) \o <<>> = Spoken(blocks, voice)
      BY SpokenStep
    <3> QED BY <3>2, <3>3, <3>4
  <2>13. Rest(next) = Rest(blocks) \o RestBy(e)
    <3>1. \A j \in 1..n : RestBy(next[j]) = RestBy(blocks[j])
      BY <2>2, <2>4, <2>7 DEF RestBy, Entry
    <3>2. Rest(next) = Rest(blocks)
      <4>1. [j \in 1..n |-> RestBy(next[j])] = [j \in 1..n |-> RestBy(blocks[j])]
        BY <3>1
      <4> QED BY <1>1, <2>10, <4>1 DEF Rest
    <3>3. RestBy(e) = <<>>
      BY DEF RestBy, Entry
    <3>4. Rest(blocks) \o <<>> = Rest(blocks)
      BY RestStep
    <3> QED BY <3>2, <3>3, <3>4
  <2>14. ASSUME NEW id, NEW field \in Fields, id # None
         PROVE  Latest(next, id, field)
                  = IF e.kind = "tool" /\ e.id = id /\ e[field] # None
                      THEN e[field] ELSE Latest(blocks, id, field)
    <3>1. CASE e.id = id
      <4>1. Latest(next, id, field) = line[field]
        BY <2>2, <2>4, <2>7, <2>8, <2>9, <3>1, LatestOfOne
      <4>2. Latest(blocks, id, field) = blocks[i][field]
        BY <2>2, <2>8, <3>1, LatestOfOne DEF n
      <4> QED BY <2>4, <3>1, <4>1, <4>2 DEF OrElse
    <3>2. CASE e.id # id
      <4>1. Len(next) = Len(blocks)
        BY <2>7 DEF n
      <4>2. \A j \in 1..Len(blocks) :
               next[j].kind = "tool" /\ next[j].id = id => next[j][field] = blocks[j][field]
        BY <2>2, <2>4, <2>7, <3>2 DEF n
      <4>3. Latest(next, id, field) = Latest(blocks, id, field)
        BY <2>7, <2>9, <4>1, <4>2, LatestSame DEF n
      <4> QED BY <3>2, <4>3
    <3> QED BY <3>1, <3>2
  <2> QED BY <2>7, <2>11, <2>12, <2>13, <2>14 DEF Adds, next
<1> QED BY <1>2, <1>3

LEMMA AddAdds ==
  ASSUME NEW blocks \in Seq(Events), Alone(blocks), NEW e \in Events
  PROVE  Adds(Add(blocks, e), blocks, e)
<1>1. CASE Entry(e) = "bookkeeping"
  <2>1. e.kind = "chunk" /\ e.text = <<>>
    BY <1>1 DEF Entry, Events, EventKinds
  <2> QED BY <1>1, <2>1, NothingAdds DEF Add
<1>2. CASE Entry(e) = "chunk"
  BY <1>2, JoinAdds DEF Add
<1>3. CASE Entry(e) = "tool"
  <2>1. e.kind = "tool"
    BY <1>3 DEF Entry
  <2> QED BY <1>3, <2>1, AmendAdds DEF Add
<1>4. CASE Entry(e) \notin {"bookkeeping", "chunk", "tool"}
  <2>1. e.kind # "tool"
    BY <1>4 DEF Entry
  <2>2. Add(blocks, e) = Append(blocks, e)
    BY <1>4 DEF Add
  <2> QED BY <2>1, <2>2, AppendAdds
<1> QED BY <1>1, <1>2, <1>3, <1>4

\* A log's blocks are read as the log is: all that is said, all that is left,
\* and the last word on every tool call.
Reads(blocks, events) ==
  /\ blocks \in Seq(Events) /\ Alone(blocks)
  /\ \A voice \in Voices : Spoken(blocks, voice) = Spoken(events, voice)
  /\ Rest(blocks) = Rest(events)
  /\ \A id, field : id # None /\ field \in Fields =>
        Latest(blocks, id, field) = Latest(events, id, field)

LEMMA BlocksRead == ASSUME NEW events \in Seq(Events) PROVE Reads(Blocks(events), events)
<1> DEFINE T == {s \in Seq(Events) : Reads(Blocks(s), s)}
<1>1. <<>> \in T
  <2>1. Blocks(<<>>) = <<>> /\ <<>> \in Seq(Events)
    BY BlocksStep, EmptySeq
  <2>2. Alone(<<>>)
    BY DEF Alone
  <2> QED BY <2>1, <2>2 DEF Reads
<1>2. ASSUME NEW s \in Seq(Events), NEW e \in Events, s \in T PROVE Append(s, e) \in T
  <2>1. Blocks(Append(s, e)) = Add(Blocks(s), e)
    BY BlocksStep
  <2>2. Adds(Add(Blocks(s), e), Blocks(s), e)
    BY <1>2, AddAdds DEF Reads
  <2>3. Reads(Blocks(Append(s, e)), Append(s, e))
    <3> DEFINE was == Blocks(s)
               now == Blocks(Append(s, e))
    <3>1. Adds(now, was, e) /\ Reads(was, s)
      BY <1>2, <2>1, <2>2
    <3> HIDE DEF was, now
    <3>2. \A voice \in Voices : Spoken(now, voice) = Spoken(Append(s, e), voice)
      BY <3>1, SpokenStep DEF Reads, Adds
    <3>3. Rest(now) = Rest(Append(s, e))
      BY <3>1, RestStep DEF Reads, Adds
    <3>4. \A id, field : id # None /\ field \in Fields =>
             Latest(now, id, field) = Latest(Append(s, e), id, field)
      BY <3>1, LatestStep DEF Reads, Adds
    <3>5. Reads(now, Append(s, e))
      BY <3>1, <3>2, <3>3, <3>4 DEF Reads, Adds
    <3> QED BY <3>5 DEF now
  <2> QED BY <2>3, AppendProperties
<1> HIDE DEF T
<1>3. \A s \in Seq(Events) : s \in T
  BY <1>1, <1>2, BlocksAre!SeqInduct
<1> QED BY <1>3 DEF T

LEMMA BlocksAreEvents ==
  ASSUME NEW events \in Seq(Events)
  PROVE  /\ Blocks(events) \in Seq(Events)
         /\ \A i \in DOMAIN Blocks(events) :
               Blocks(events)[i] \in Events /\ Blocks(events)[i].text \in Seq(LineKinds)
<1> DEFINE bs == Blocks(events)
<1>1. bs \in Seq(Events)
  BY BlocksRead DEF Reads
<1> HIDE DEF bs
<1>2. \A i \in DOMAIN bs : bs[i] \in Events
  BY <1>1, ElementOfSeq, LenProperties
<1>3. \A e \in Events : e.text \in Seq(LineKinds)
  BY DEF Events
<1> QED BY <1>1, <1>2, <1>3 DEF bs

\* And so are two halves of one log, read apart.
LEMMA HalvesRead ==
  ASSUME NEW es \in Seq(Events), NEW fs \in Seq(Events)
  PROVE  /\ SameReading(Blocks(es), es)
         /\ SameReading(Blocks(es) \o Blocks(fs), es \o fs)
<1> DEFINE a == Blocks(es)
           b == Blocks(fs)
<1>1. Reads(a, es) /\ Reads(b, fs)
  BY BlocksRead
<1> HIDE DEF a, b
<1>2. a \in Seq(Events) /\ b \in Seq(Events)
  BY <1>1 DEF Reads
<1>3. es \o fs \in Seq(Events)
  BY ConcatProperties
<1>4. SameReading(a, es)
  BY <1>1 DEF SameReading, Reads, Fields
<1>5. \A voice \in Voices : Spoken(a \o b, voice) = Spoken(es \o fs, voice)
  <2> SUFFICES ASSUME NEW voice \in Voices
               PROVE  Spoken(a \o b, voice) = Spoken(es \o fs, voice)
    OBVIOUS
  <2>1. Spoken(a \o b, voice) = Spoken(a, voice) \o Spoken(b, voice)
    BY <1>2, SpokenConcat
  <2>2. Spoken(es \o fs, voice) = Spoken(es, voice) \o Spoken(fs, voice)
    BY SpokenConcat
  <2> QED BY <1>1, <2>1, <2>2 DEF Reads
<1>6. Rest(a \o b) = Rest(es \o fs)
  <2>1. Rest(a \o b) = Rest(a) \o Rest(b)
    BY <1>2, RestConcat
  <2>2. Rest(es \o fs) = Rest(es) \o Rest(fs)
    BY RestConcat
  <2> QED BY <1>1, <2>1, <2>2 DEF Reads
<1>7. ASSUME NEW id, NEW field \in Fields, id # None
      PROVE  Latest(a \o b, id, field) = Latest(es \o fs, id, field)
  <2>1. Latest(a, id, field) = Latest(es, id, field)
        /\ Latest(b, id, field) = Latest(fs, id, field)
    BY <1>1, <1>7 DEF Reads
  <2>2. Latest(a \o b, id, field)
          = IF Latest(b, id, field) = None THEN Latest(a, id, field) ELSE Latest(b, id, field)
    BY <1>2, LatestConcat
  <2>3. Latest(es \o fs, id, field)
          = IF Latest(fs, id, field) = None THEN Latest(es, id, field) ELSE Latest(fs, id, field)
    BY LatestConcat
  <2> QED BY <2>1, <2>2, <2>3
<1>8. SameReading(a \o b, es \o fs)
  BY <1>5, <1>6, <1>7 DEF SameReading, Fields
<1> QED BY <1>4, <1>8 DEF a, b

-----------------------------------------------------------------------------
(* The log as it is written.                                               *)

LEMMA PrefixIs ==
  ASSUME NEW S, NEW s \in Seq(S), NEW t \in Seq(S)
  PROVE  IsPrefix(s, t) <=> Len(s) <= Len(t) /\ \A i \in 1..Len(s) : s[i] = t[i]
<1> DEFINE n == Len(s)
<1>1. n \in Nat /\ Len(t) \in Nat
  BY LenProperties
<1>2. SubSeq(s, 1, n) = s
  BY SubSeqFull
<1>3. ASSUME n <= Len(t)
      PROVE  /\ SubSeq(t, 1, n) \in Seq(S) /\ Len(SubSeq(t, 1, n)) = n
             /\ \A i \in 1..n : SubSeq(t, 1, n)[i] = t[i]
  <2>1. \A i \in 1..n : t[i] \in S
    BY <1>1, <1>3, ElementOfSeq
  <2> QED BY <1>1, <2>1, SubSeqProperties
<1>4. ASSUME IsPrefix(s, t) PROVE n <= Len(t) /\ \A i \in 1..n : s[i] = t[i]
  <2>1. n <= Len(t) /\ s = SubSeq(t, 1, n)
    BY <1>2, <1>4 DEF IsPrefix
  <2> QED BY <1>3, <2>1
<1>5. ASSUME n <= Len(t), \A i \in 1..n : s[i] = t[i] PROVE IsPrefix(s, t)
  <2>1. s = SubSeq(t, 1, n)
    BY <1>1, <1>3, <1>5, SeqEqual
  <2> QED BY <1>2, <1>5, <2>1 DEF IsPrefix
<1> QED BY <1>4, <1>5

\* A log as it stands, whether it reads back, and what it reads as.
Pieces == Events \cup {Torn}
Files == {f \in Seq(Seq(Pieces)) : f # <<>>}

ReadableIn(f) == \A i \in DOMAIN f : Sound(f[i]) \/ (i = Len(f) /\ f[i] = <<>>)
LinesIn(f) == [i \in 1..(IF Last(f) = <<>> THEN Len(f) - 1 ELSE Len(f)) |-> f[i][1]]

LEMMA TornIsNone == Torn \notin Events
BY DEF Torn, Plain, Event, Events, EventKinds

LEMMA FilesAre ==
  ASSUME NEW f \in Files
  PROVE  /\ Len(f) \in Nat /\ Len(f) # 0 /\ DOMAIN f = 1..Len(f)
         /\ f[Len(f)] = Last(f) /\ \A i \in 1..Len(f) : f[i] \in Seq(Pieces)
BY LenProperties, EmptySeq, ElementOfSeq DEF Files, Last

\* What reads back is whole events.
LEMMA LinesAre ==
  ASSUME NEW f \in Files, ReadableIn(f)
  PROVE  /\ LinesIn(f) \in Seq(Events)
         /\ Len(LinesIn(f)) = IF Last(f) = <<>> THEN Len(f) - 1 ELSE Len(f)
         /\ \A i \in 1..Len(LinesIn(f)) : LinesIn(f)[i] = f[i][1]
<1> DEFINE n == Len(f)
           m == IF Last(f) = <<>> THEN n - 1 ELSE n
<1>1. m \in Nat
  BY FilesAre
<1>2. ASSUME NEW i \in 1..m PROVE f[i][1] \in Events
  <2>1. Sound(f[i])
    BY <1>2, FilesAre DEF ReadableIn
  <2>2. f[i] \in Seq(Pieces) /\ 1 \in 1..Len(f[i])
    BY <1>2, <2>1, FilesAre DEF Sound
  <2>3. f[i][1] \in Pieces
    BY <2>2, ElementOfSeq
  <2> QED BY <2>1, <2>3 DEF Sound, Pieces
<1>3. LinesIn(f) = [i \in 1..m |-> f[i][1]]
  BY DEF LinesIn
<1> HIDE DEF m
<1>4. LinesIn(f) \in Seq(Events) /\ Len(LinesIn(f)) = m
  BY <1>1, <1>2, <1>3
<1> QED BY <1>3, <1>4 DEF m

\* A log that reads back did so before it grew, and begins as it did.
Grows(f, g) ==
  ReadableIn(g) => /\ ReadableIn(f) /\ Len(LinesIn(f)) <= Len(LinesIn(g))
                   /\ \A i \in 1..Len(LinesIn(f)) : LinesIn(g)[i] = LinesIn(f)[i]

\* A sequence whose last element is another one, and one that has one more.
LEMMA LastSet ==
  ASSUME NEW S, NEW s \in Seq(S), s # <<>>, NEW x \in S
  PROVE  \A t : t = [s EXCEPT ![Len(s)] = x] =>
         /\ t \in Seq(S) /\ t # <<>> /\ Len(t) = Len(s) /\ t[Len(s)] = x
         /\ \A i \in 1..(Len(s) - 1) : t[i] = s[i]
<1> SUFFICES ASSUME NEW t, t = [s EXCEPT ![Len(s)] = x]
             PROVE  /\ t \in Seq(S) /\ t # <<>> /\ Len(t) = Len(s) /\ t[Len(s)] = x
                    /\ \A i \in 1..(Len(s) - 1) : t[i] = s[i]
  OBVIOUS
<1>1. PICK n \in Nat : n = Len(s) /\ n # 0
  BY EmptySeq, LenProperties
<1>2. n \in 1..n
  BY <1>1
<1>3. t \in Seq(S) /\ Len(t) = n /\ \A i \in 1..n : t[i] = IF i = n THEN x ELSE s[i]
  BY <1>1, <1>2, ExceptSeq
<1>4. t # <<>>
  BY ONLY <1>1, <1>3, EmptySeq, Zenon
<1>5. t[n] = x /\ \A i \in 1..(n - 1) : t[i] = s[i]
  BY ONLY <1>1, <1>2, <1>3
<1> QED BY ONLY <1>1, <1>3, <1>4, <1>5

LEMMA LastAdded ==
  ASSUME NEW S, NEW s \in Seq(S), NEW x \in S, NEW t, t = Append(s, x)
  PROVE  /\ t \in Seq(S) /\ t # <<>> /\ Len(t) = Len(s) + 1 /\ t[Len(s) + 1] = x
         /\ \A i \in 1..Len(s) : t[i] = s[i]
BY AppendProperties

\* A log that a piece was written to, where it ended.
Wrote(f, g, piece) ==
  /\ g \in Files /\ Len(g) = Len(f) /\ Last(g) = Append(Last(f), piece)
  /\ \A i \in 1..(Len(f) - 1) : g[i] = f[i]
  /\ Grows(f, g)

LEMMA PieceGrows ==
  ASSUME NEW f \in Files, NEW piece \in Pieces, NEW g,
         g = [f EXCEPT ![Len(f)] = Append(@, piece)]
  PROVE  Wrote(f, g, piece)
<1> DEFINE grown == Append(Last(f), piece)
<1>0. PICK n \in Nat : n = Len(f) /\ n # 0
  BY FilesAre
<1>1. n \in Nat /\ n # 0 /\ DOMAIN f = 1..n /\ f[n] = Last(f) /\ f[n] \in Seq(Pieces)
      /\ Last(f) \in Seq(Pieces)
  BY <1>0, FilesAre
<1>2. f \in Seq(Seq(Pieces)) /\ f # <<>>
  BY DEF Files
<1>3. grown \in Seq(Pieces) /\ grown # <<>> /\ Len(grown) = Len(Last(f)) + 1
      /\ Len(Last(f)) \in Nat
  BY <1>1, LastAdded, LenProperties
<1>4. g = [f EXCEPT ![Len(f)] = grown]
  BY <1>0, <1>1
<1> HIDE DEF grown
<1>5. g \in Seq(Seq(Pieces)) /\ g # <<>> /\ Len(g) = n /\ g[n] = grown
      /\ \A i \in 1..(n - 1) : g[i] = f[i]
  <2> DEFINE E == Seq(Pieces)
  <2>1. f \in Seq(E) /\ grown \in E
    BY <1>2, <1>3
  <2> HIDE DEF E
  <2>2. g \in Seq(E) /\ g # <<>> /\ Len(g) = n /\ g[n] = grown
        /\ \A i \in 1..(n - 1) : g[i] = f[i]
    <3>1. Len(f) = n /\ f # <<>>
      BY <1>0, <1>2
    <3>2. g \in Seq(E) /\ g # <<>> /\ Len(g) = Len(f) /\ g[Len(f)] = grown
          /\ \A i \in 1..(Len(f) - 1) : g[i] = f[i]
      BY ONLY <3>1, <1>4, <2>1, LastSet
    <3> QED BY ONLY <3>1, <3>2
  <2> QED BY ONLY <2>2 DEF E
<1>6. g \in Files
  BY <1>5 DEF Files
<1>7. Last(g) = grown /\ DOMAIN g = 1..n
  BY <1>5, <1>6, FilesAre
<1>8. ASSUME ReadableIn(g)
      PROVE  /\ ReadableIn(f) /\ Len(LinesIn(f)) <= Len(LinesIn(g))
             /\ \A i \in 1..Len(LinesIn(f)) : LinesIn(g)[i] = LinesIn(f)[i]
  <2>1. n \in 1..n /\ g[n] = grown
    BY <1>1, <1>5
  <2>2. Sound(grown)
    BY <1>3, <1>7, <1>8, <2>1 DEF ReadableIn
  <2>3. Last(f) = <<>>
    <3>1. Len(Last(f)) = 0
      <4>1. Len(grown) = Len(Last(f)) + 1 /\ Len(Last(f)) \in Nat
        BY ONLY <1>3
      <4>2. Len(grown) = 1
        BY ONLY <2>2 DEF Sound
      <4>3. \A k, l : k \in Nat /\ l = k + 1 /\ l = 1 => k = 0
        OBVIOUS
      <4> QED BY ONLY <4>1, <4>2, <4>3, Zenon
    <3> QED BY <1>1, <3>1, EmptySeq
  <2>4. \A i \in 1..(n - 1) : Sound(f[i])
    <3>1. SUFFICES ASSUME NEW i \in 1..(n - 1) PROVE Sound(f[i])
      OBVIOUS
    <3>2. i \in 1..n /\ i # Len(g) /\ g[i] = f[i]
      BY <1>1, <1>5
    <3> QED BY <1>7, <1>8, <3>2 DEF ReadableIn
  <2>5. ReadableIn(f)
    <3>1. SUFFICES ASSUME NEW i \in 1..n
                   PROVE  Sound(f[i]) \/ (i = n /\ f[i] = <<>>)
      BY <1>0, <1>1 DEF ReadableIn
    <3>2. i = n \/ i \in 1..(n - 1)
      BY <1>1
    <3> QED BY <1>1, <2>3, <2>4, <3>2
  <2>6. Len(LinesIn(f)) = n - 1 /\ \A i \in 1..Len(LinesIn(f)) : LinesIn(f)[i] = f[i][1]
    BY <1>0, <2>3, <2>5, LinesAre
  <2>7. Len(LinesIn(g)) = n /\ \A i \in 1..Len(LinesIn(g)) : LinesIn(g)[i] = g[i][1]
    BY <1>3, <1>5, <1>6, <1>7, <1>8, LinesAre
  <2>8. \A i \in 1..(n - 1) : g[i] = f[i] /\ i \in 1..n
    BY <1>1, <1>5
  <2> QED BY ONLY <1>1, <2>5, <2>6, <2>7, <2>8
<1> QED BY ONLY <1>0, <1>5, <1>6, <1>7, <1>8 DEF Grows, Wrote, grown

LEMMA EndGrows ==
  ASSUME NEW f \in Files, NEW g, g = Append(f, <<>>)
  PROVE  g \in Files /\ Len(g) = Len(f) + 1 /\ Last(g) = <<>>
         /\ (\A i \in 1..Len(f) : g[i] = f[i]) /\ Grows(f, g)
<1>0. PICK n \in Nat : n = Len(f) /\ n # 0
  BY FilesAre
<1>1. n \in Nat /\ n # 0 /\ DOMAIN f = 1..n /\ f[n] = Last(f)
  BY <1>0, FilesAre
<1>2. g \in Seq(Seq(Pieces)) /\ g # <<>> /\ Len(g) = n + 1 /\ g[n + 1] = <<>>
      /\ \A i \in 1..n : g[i] = f[i]
  <2> DEFINE E == Seq(Pieces)
  <2>1. f \in Seq(E) /\ <<>> \in E
    BY EmptySeq DEF Files
  <2> HIDE DEF E
  <2>2. g \in Seq(E) /\ g # <<>> /\ Len(g) = n + 1 /\ g[n + 1] = <<>>
        /\ \A i \in 1..n : g[i] = f[i]
    BY <1>0, <2>1, LastAdded
  <2> QED BY <2>2 DEF E
<1>3. g \in Files
  BY <1>2 DEF Files
<1>4. Last(g) = <<>> /\ DOMAIN g = 1..(n + 1)
  BY <1>2, <1>3, FilesAre
<1>5. ASSUME ReadableIn(g)
      PROVE  /\ ReadableIn(f) /\ Len(LinesIn(f)) <= Len(LinesIn(g))
             /\ \A i \in 1..Len(LinesIn(f)) : LinesIn(g)[i] = LinesIn(f)[i]
  <2>1. \A i \in 1..n : Sound(f[i])
    <3>1. SUFFICES ASSUME NEW i \in 1..n PROVE Sound(f[i])
      OBVIOUS
    <3>2. i \in 1..(n + 1) /\ i # Len(g) /\ g[i] = f[i]
      BY <1>1, <1>2
    <3> QED BY <1>4, <1>5, <3>2 DEF ReadableIn
  <2>2. ReadableIn(f)
    BY <1>0, <1>1, <2>1 DEF ReadableIn
  <2>3. Last(f) # <<>>
    <3>1. Sound(Last(f))
      BY <1>1, <2>1
    <3> QED BY <3>1 DEF Sound
  <2>4. Len(LinesIn(f)) = n /\ \A i \in 1..Len(LinesIn(f)) : LinesIn(f)[i] = f[i][1]
    BY <1>0, <2>2, <2>3, LinesAre
  <2>5. Len(LinesIn(g)) = n /\ \A i \in 1..Len(LinesIn(g)) : LinesIn(g)[i] = g[i][1]
    <3>1. (n + 1) - 1 = n
      BY <1>1
    <3> QED BY <1>2, <1>3, <1>4, <1>5, <3>1, LinesAre
  <2>6. n \in Nat /\ \A i \in 1..n : g[i] = f[i]
    BY ONLY <1>1, <1>2
  <2> QED BY ONLY <2>2, <2>4, <2>5, <2>6
<1> QED BY ONLY <1>0, <1>2, <1>3, <1>4, <1>5 DEF Grows

-----------------------------------------------------------------------------
(* The invariant of the log.                                               *)

LogTypes ==
  /\ file \in Files /\ pen \in [Writers -> {"up", "down"}]
  /\ settled \in Seq(Events) /\ hot \in Seq(Events)

\* Until a line loses its end, one writer at a time is at the file, and every
\* line but the one it is at has its end.
Unbroken ==
  cuts = {} =>
    /\ \A i \in 1..(Len(file) - 1) : Sound(file[i])
    /\ Down = {} => Last(file) = <<>>
    /\ Down # {} => Sound(Last(file))
    /\ \A v, w \in Down : v = w

\* The page shows what the log begins with.
Shows(f) ==
  ReadableIn(f) => /\ Len(settled \o hot) <= Len(LinesIn(f))
                   /\ \A i \in 1..Len(settled \o hot) :
                         (settled \o hot)[i] = LinesIn(f)[i]

LogInv == LogTypes /\ Unbroken /\ Shows(file)

LEMMA LogIs == (Readable <=> ReadableIn(file)) /\ Lines = LinesIn(file)
BY DEF Readable, ReadableIn, Lines, LinesIn

LEMMA ShowsMore ==
  ASSUME LogTypes, Shows(file), NEW g \in Files, Grows(file, g) PROVE Shows(g)
<1> DEFINE all == settled \o hot
<1>1. Len(all) \in Nat
  BY ConcatProperties, LenProperties DEF LogTypes
<1>2. ASSUME ReadableIn(g)
      PROVE  Len(all) <= Len(LinesIn(g)) /\ \A i \in 1..Len(all) : all[i] = LinesIn(g)[i]
  <2>1. ReadableIn(file) /\ Len(LinesIn(file)) \in Nat /\ Len(LinesIn(g)) \in Nat
    BY <1>2, LinesAre, LenProperties DEF LogTypes, Grows
  <2>2. /\ Len(LinesIn(file)) <= Len(LinesIn(g))
        /\ \A i \in 1..Len(LinesIn(file)) : LinesIn(g)[i] = LinesIn(file)[i]
    BY <1>2 DEF Grows
  <2>3. Len(all) <= Len(LinesIn(file)) /\ \A i \in 1..Len(all) : all[i] = LinesIn(file)[i]
    BY <2>1 DEF Shows
  <2> HIDE DEF all
  <2> QED BY <1>1, <2>1, <2>2, <2>3
<1> QED BY <1>2 DEF Shows

LEMMA LogInitInv == ASSUME Init PROVE LogInv
<1>1. LogTypes
  BY EmptySeq DEF Init, LogTypes, Files
<1>2. file = << <<>> >> /\ Len(file) = 1 /\ Last(file) = <<>> /\ Down = {}
  BY DEF Init, Last, Down
<1>3. Unbroken
  BY <1>2 DEF Unbroken
<1>4. settled \o hot = <<>>
  BY DEF Init
<1>5. Shows(file)
  <2>1. ReadableIn(file) => LinesIn(file) \in Seq(Events)
    BY <1>1, LinesAre DEF LogTypes
  <2> QED BY <1>4, <2>1, LenProperties DEF Shows
<1> QED BY <1>1, <1>3, <1>5 DEF LogInv

\* A step that writes: what it leaves of the page and of the file.
LEMMA LogGrowsInv ==
  ASSUME LogInv, file' \in Files, Grows(file, file'), UNCHANGED <<settled, hot>>
  PROVE  Shows(file)'
<1>1. Shows(file')
  BY ShowsMore DEF LogInv
<1> QED BY <1>1 DEF Shows

LEMMA WriteLineInv ==
  ASSUME PayloadsOK, LogInv, NEW w \in Writers, WriteLine(w) PROVE LogInv'
<1>1. PICK event \in Payloads : Write(event)
  BY DEF WriteLine
<1>2. event \in Events /\ event \in Pieces /\ event # Torn
  BY TornIsNone DEF PayloadsOK, Pieces
<1>3. /\ file' \in Files /\ Len(file') = Len(file) /\ Last(file') = Append(Last(file), event)
      /\ (\A i \in 1..(Len(file) - 1) : file'[i] = file[i]) /\ Grows(file, file')
  <2>1. file \in Files /\ file' = [file EXCEPT ![Len(file)] = Append(@, event)]
    BY <1>1 DEF Write, LogInv, LogTypes
  <2>2. event \in Pieces
    BY <1>2
  <2>3. Wrote(file, file', event)
    BY <2>1, <2>2, PieceGrows
  <2> QED BY ONLY <2>3 DEF Wrote
<1>4. LogTypes'
  BY <1>3 DEF LogTypes, LogInv, WriteLine
<1>5. Shows(file)'
  BY <1>3, LogGrowsInv DEF WriteLine
<1>6. Down' = Down \cup {w}
  BY DEF Down, WriteLine, LogInv, LogTypes
<1>7. Unbroken'
  <2> SUFFICES ASSUME cuts' = {}
               PROVE  /\ \A i \in 1..(Len(file') - 1) : Sound(file'[i])
                      /\ Sound(Last(file')) /\ \A u, v \in Down' : u = v
    BY <1>6 DEF Unbroken
  <2>1. cuts = {} /\ Down = {}
    BY DEF WriteLine
  <2>2. Last(file) = <<>> /\ \A i \in 1..(Len(file) - 1) : Sound(file[i])
    BY <2>1 DEF LogInv, Unbroken
  <2>3. Last(file') = <<event>>
    BY <1>3, <2>2
  <2> QED BY <1>2, <1>3, <1>6, <2>1, <2>2, <2>3 DEF Sound
<1> QED BY <1>4, <1>5, <1>7 DEF LogInv

LEMMA WriteEndInv == ASSUME LogInv, NEW w \in Writers, WriteEnd(w) PROVE LogInv'
<1>1. /\ file' \in Files /\ Len(file') = Len(file) + 1 /\ Last(file') = <<>>
      /\ (\A i \in 1..Len(file) : file'[i] = file[i]) /\ Grows(file, file')
  BY EndGrows DEF WriteEnd, LogInv, LogTypes
<1>2. LogTypes'
  BY <1>1 DEF LogTypes, LogInv, WriteEnd
<1>3. Shows(file)'
  BY <1>1, LogGrowsInv DEF WriteEnd
<1>4. Down' = Down \ {w} /\ w \in Down
  BY DEF Down, WriteEnd, LogInv, LogTypes
<1>5. Unbroken'
  <2> SUFFICES ASSUME cuts' = {}
               PROVE  /\ \A i \in 1..(Len(file') - 1) : Sound(file'[i])
                      /\ Down' = {}
    BY <1>1 DEF Unbroken
  <2>1. cuts = {}
    BY DEF WriteEnd
  <2>2. /\ Sound(Last(file)) /\ \A i \in 1..(Len(file) - 1) : Sound(file[i])
        /\ \A u, v \in Down : u = v
    BY <1>4, <2>1 DEF LogInv, Unbroken
  <2>3. Len(file) \in Nat /\ Len(file) # 0 /\ Last(file) = file[Len(file)]
    BY FilesAre DEF LogInv, LogTypes
  <2> QED BY <1>1, <1>4, <2>2, <2>3
<1> QED BY <1>2, <1>3, <1>5 DEF LogInv

LEMMA FullInv == ASSUME LogInv, NEW w \in Writers, Full(w) PROVE LogInv'
<1>1. Unbroken'
  BY DEF Full, Unbroken
<1>2. CASE pen[w] = "up" /\ Write(Torn) /\ UNCHANGED pen
  <2>1. file' \in Files /\ Grows(file, file')
    <3>1. Wrote(file, file', Torn)
      BY <1>2, PieceGrows DEF Write, LogInv, LogTypes, Pieces
    <3> QED BY <3>1 DEF Wrote
  <2>2. LogTypes'
    BY <1>2, <2>1 DEF LogTypes, LogInv, Full
  <2>3. Shows(file)'
    BY <2>1, LogGrowsInv DEF Full
  <2> QED BY <1>1, <2>2, <2>3 DEF LogInv
<1>3. CASE pen' = [pen EXCEPT ![w] = "up"] /\ UNCHANGED <<file, begun>>
  <2>1. LogTypes'
    BY <1>3 DEF LogTypes, LogInv, Full
  <2>2. Shows(file)'
    BY <1>3 DEF Shows, LogInv, Full
  <2> QED BY <1>1, <2>1, <2>2 DEF LogInv
<1> QED BY <1>2, <1>3 DEF Full

LEMMA LogCrashInv == ASSUME LogInv, Crash PROVE LogInv'
<1>1. Unbroken'
  BY DEF Crash, Unbroken
<1>2. LogTypes'
  BY DEF LogTypes, LogInv, Crash
<1>3. Shows(file)'
  BY DEF Shows, LogInv, Crash
<1> QED BY <1>1, <1>2, <1>3 DEF LogInv

\* What a poll draws is the log from the history's end.
LEMMA DrawInv == ASSUME LogInv, Resync \/ Poll PROVE LogInv'
<1>1. ReadableIn(file) /\ Lines = LinesIn(file) /\ LinesIn(file) \in Seq(Events)
  BY LogIs, LinesAre DEF Resync, Poll, LogInv, LogTypes
<1> DEFINE lines == LinesIn(file)
<1>2. UNCHANGED <<file, begun, pen, cuts>>
  BY DEF Resync, Poll
<1>3. settled' \in Seq(Events) /\ hot' \in Seq(Events) /\ settled' \o hot' = lines
  <2>1. CASE Resync
    BY <1>1, <2>1, EmptySeq, ConcatEmptySeq DEF Resync
  <2>2. CASE Poll
    <3> DEFINE k == Len(settled)
               n == Len(lines)
               tail == SubSeq(lines, k + 1, n)
    <3>1. k \in Nat /\ n \in Nat /\ settled \in Seq(Events) /\ hot \in Seq(Events)
      BY <1>1, LenProperties DEF LogInv, LogTypes
    <3>2. k <= n /\ \A i \in 1..k : settled[i] = lines[i]
      <4>1. Len(settled \o hot) = k + Len(hot) /\ Len(hot) \in Nat
            /\ \A i \in 1..k : (settled \o hot)[i] = settled[i]
        BY <3>1, ConcatProperties, LenProperties
      <4>2. Len(settled \o hot) <= n
            /\ \A i \in 1..Len(settled \o hot) : (settled \o hot)[i] = lines[i]
        BY <1>1 DEF LogInv, Shows
      <4> HIDE DEF k, n, lines
      <4> QED BY <3>1, <4>1, <4>2
    <3>3. hot' = tail /\ settled' = settled
      BY <1>1, <2>2 DEF Poll
    <3> HIDE DEF lines
    <3>4. \A i \in (k + 1)..n : lines[i] \in Events
      BY <1>1, <3>1, ElementOfSeq DEF lines
    <3>5. tail \in Seq(Events) /\ Len(tail) = n - k
          /\ \A i \in 1..(n - k) : tail[i] = lines[k + i]
      BY <3>1, <3>2, <3>4, SubSeqProperties
    <3> DEFINE both == settled \o tail
    <3> HIDE DEF k, n, tail
    <3>6. both \in Seq(Events) /\ Len(both) = n
          /\ \A i \in 1..n : both[i] = IF i <= k THEN settled[i] ELSE tail[i - k]
      BY <3>1, <3>2, <3>5, ConcatProperties DEF k
    <3>7. \A i \in 1..n : both[i] = lines[i]
      BY <3>1, <3>2, <3>5, <3>6
    <3>8. both = lines
      <4> HIDE DEF both
      <4> QED BY <1>1, <3>6, <3>7, SeqEqual DEF lines, n
    <3> QED BY <3>1, <3>3, <3>5, <3>8 DEF lines
  <2> QED BY <2>1, <2>2
<1>4. LogTypes'
  BY <1>2, <1>3 DEF LogTypes, LogInv
<1>5. Unbroken'
  BY <1>2 DEF Unbroken, Down, LogInv
<1>6. Shows(file)'
  <2>1. Len(settled' \o hot') = Len(lines) /\ Len(lines) \in Nat
        /\ \A i \in 1..Len(lines) : (settled' \o hot')[i] = lines[i]
    BY <1>1, <1>3, LenProperties
  <2> QED BY <1>2, <2>1 DEF Shows
<1> QED BY <1>4, <1>5, <1>6 DEF LogInv

LEMMA LogStepInv == ASSUME PayloadsOK, LogInv, [Next]_vars PROVE LogInv'
<1>1. CASE UNCHANGED vars
  <2>1. UNCHANGED <<file, begun, pen, settled, hot, cuts>>
    BY <1>1 DEF vars
  <2>2. LogTypes' /\ Unbroken' /\ Shows(file)'
    BY <2>1 DEF LogInv, LogTypes, Unbroken, Down, Shows
  <2> QED BY <2>2 DEF LogInv
<1>2. ASSUME NEW w \in Writers, WriteLine(w) PROVE LogInv'
  BY <1>2, WriteLineInv
<1>3. ASSUME NEW w \in Writers, WriteEnd(w) PROVE LogInv'
  BY <1>3, WriteEndInv
<1>4. ASSUME NEW w \in Writers, Full(w) PROVE LogInv'
  BY <1>4, FullInv
<1>5. CASE Crash
  BY <1>5, LogCrashInv
<1>6. CASE Resync \/ Poll
  BY <1>6, DrawInv
<1> QED BY <1>1, <1>2, <1>3, <1>4, <1>5, <1>6 DEF Next, Refused

\* What is written of a log, and what a page has drawn of it, for any writers.
THEOREM LogInvariant == ASSUME PayloadsOK PROVE Spec => []LogInv
<1>1. Init => LogInv
  BY LogInitInv
<1>2. LogInv /\ [Next]_vars => LogInv'
  BY LogStepInv
<1> QED BY <1>1, <1>2, PTL DEF Spec

\* A log reads back unless a line lost its end, and what a page shows of it is
\* what was said, all of it, in whichever halves it was drawn.
THEOREM ThePageReadsTheLog == ASSUME PayloadsOK PROVE Spec => []PageReadsTheLog
<1>1. LogInv => PageReadsTheLog
  <2> SUFFICES ASSUME LogInv PROVE PageReadsTheLog
    OBVIOUS
  <2>1. cuts = {} => Readable
    <3> SUFFICES ASSUME cuts = {} PROVE \A i \in DOMAIN file :
                    Sound(file[i]) \/ (i = Len(file) /\ file[i] = <<>>)
      BY DEF Readable
    <3>1. Len(file) \in Nat /\ DOMAIN file = 1..Len(file) /\ file[Len(file)] = Last(file)
      BY FilesAre DEF LogInv, LogTypes
    <3>2. /\ \A i \in 1..(Len(file) - 1) : Sound(file[i])
          /\ Sound(Last(file)) \/ Last(file) = <<>>
      BY DEF LogInv, Unbroken
    <3> QED BY <3>1, <3>2
  <2>2. Readable => IsPrefix(settled \o hot, Lines)
    <3> SUFFICES ASSUME Readable PROVE IsPrefix(settled \o hot, Lines)
      OBVIOUS
    <3>1. ReadableIn(file) /\ Lines = LinesIn(file) /\ Lines \in Seq(Events)
      BY LogIs, LinesAre DEF LogInv, LogTypes
    <3>2. settled \o hot \in Seq(Events)
      BY ConcatProperties DEF LogInv, LogTypes
    <3>3. /\ Len(settled \o hot) <= Len(Lines)
          /\ \A i \in 1..Len(settled \o hot) : (settled \o hot)[i] = Lines[i]
      BY <3>1 DEF LogInv, Shows
    <3> QED BY <3>1, <3>2, <3>3, PrefixIs
  <2>3. /\ SameReading(Blocks(settled), settled)
        /\ SameReading(Blocks(settled) \o Blocks(hot), settled \o hot)
    BY HalvesRead DEF LogInv, LogTypes
  <2> QED BY <2>1, <2>2, <2>3 DEF PageReadsTheLog
<1> QED BY <1>1, LogInvariant, PTL

-----------------------------------------------------------------------------
(* What is read of a message while it streams on.                          *)

AllPassages == [kind : {"prose", "list", "code"}, lines : Seq(LineKinds)]

Readers == [read : Seq(AllPassages), said : Seq(LineKinds), listing : BOOLEAN]
Takers == [passages : Seq(AllPassages), prose : Seq(LineKinds),
           fenced : BOOLEAN, code : Seq(LineKinds)]

LEMMA PassageIs ==
  ASSUME NEW kind \in {"prose", "list", "code"}, NEW lines \in Seq(LineKinds)
  PROVE  Passage(kind, lines) \in AllPassages
BY DEF Passage, AllPassages

\* A run of lines is one passage more, or none.
LEMMA PushAdds ==
  ASSUME NEW read \in Seq(AllPassages), NEW said \in Seq(LineKinds), NEW listing \in BOOLEAN
  PROVE  \/ PushRead(read, said, listing) = read
         \/ \E x \in AllPassages : PushRead(read, said, listing) = Append(read, x)
<1>1. (IF listing THEN "list" ELSE "prose") \in {"prose", "list", "code"}
  OBVIOUS
<1>2. Passage(IF listing THEN "list" ELSE "prose", said) \in AllPassages
  BY <1>1, PassageIs
<1> QED BY <1>2 DEF PushRead

\* A sequence that another one goes on from.
GoesOn(s, t) ==
  /\ s \in Seq(AllPassages) /\ t \in Seq(AllPassages)
  /\ \E r \in Seq(AllPassages) : t = s \o r

LEMMA GoesOnIs ==
  /\ \A s \in Seq(AllPassages) : GoesOn(s, s)
  /\ \A s \in Seq(AllPassages), x \in AllPassages : GoesOn(s, Append(s, x))
  /\ \A s, r \in Seq(AllPassages) : GoesOn(s, s \o r)
  /\ \A s, t, u : GoesOn(s, t) /\ GoesOn(t, u) => GoesOn(s, u)
  /\ \A s, t : \A r \in Seq(AllPassages) : GoesOn(s, t) => GoesOn(r \o s, r \o t)
<1> DEFINE P == AllPassages
<1> HIDE DEF P
<1>1. ASSUME NEW s \in Seq(P) PROVE s = s \o <<>> /\ <<>> \in Seq(P)
  BY ConcatEmptySeq, EmptySeq
<1>2. ASSUME NEW s \in Seq(P), NEW x \in P
      PROVE  Append(s, x) = s \o <<x>> /\ Append(s, x) \in Seq(P) /\ <<x>> \in Seq(P)
  BY AppendIsConcat, AppendProperties
<1>3. ASSUME NEW s \in Seq(P), NEW r \in Seq(P) PROVE s \o r \in Seq(P)
  BY ConcatProperties
<1>4. ASSUME NEW s \in Seq(P), NEW r \in Seq(P), NEW q \in Seq(P)
      PROVE  (s \o r) \o q = s \o (r \o q)
  BY ConcatAssociative
<1>5. ASSUME NEW s, NEW t, NEW u, GoesOn(s, t), GoesOn(t, u) PROVE GoesOn(s, u)
  <2>1. PICK r \in Seq(P) : t = s \o r
    BY <1>5 DEF GoesOn, P
  <2>2. PICK q \in Seq(P) : u = t \o q
    BY <1>5 DEF GoesOn, P
  <2>3. s \in Seq(P) /\ u \in Seq(P)
    BY <1>5 DEF GoesOn, P
  <2>4. (s \o r) \o q = s \o (r \o q) /\ r \o q \in Seq(P)
    BY <1>3, <1>4, <2>3
  <2>5. u = s \o (r \o q)
    BY ONLY <2>1, <2>2, <2>4, Zenon
  <2> QED BY <2>3, <2>4, <2>5 DEF GoesOn, P
<1>6. ASSUME NEW s, NEW t, NEW r \in Seq(P), GoesOn(s, t) PROVE GoesOn(r \o s, r \o t)
  <2>1. PICK q \in Seq(P) : t = s \o q
    BY <1>6 DEF GoesOn, P
  <2>2. s \in Seq(P) /\ t \in Seq(P)
    BY <1>6 DEF GoesOn, P
  <2>3. r \o t = (r \o s) \o q
    BY ONLY <1>4, <2>1, <2>2, Zenon
  <2>4. r \o s \in Seq(P) /\ r \o t \in Seq(P)
    BY <1>3, <2>2
  <2> QED BY <2>3, <2>4 DEF GoesOn, P
<1>7. \A s \in Seq(P) : GoesOn(s, s)
  BY <1>1 DEF GoesOn, P
<1>8. \A s \in Seq(P), x \in P : GoesOn(s, Append(s, x))
  BY <1>2 DEF GoesOn, P
<1>9. \A s, r \in Seq(P) : GoesOn(s, s \o r)
  BY <1>3 DEF GoesOn, P
<1> QED BY ONLY <1>5, <1>6, <1>7, <1>8, <1>9, Zenon DEF P

\* One line more of prose.
LEMMA ReadLineGoesOn ==
  ASSUME NEW r \in Readers, NEW line \in LineKinds
  PROVE  ReadLine(r, line) \in Readers /\ GoesOn(r.read, ReadLine(r, line).read)
<1>1. r.read \in Seq(AllPassages) /\ r.said \in Seq(LineKinds) /\ r.listing \in BOOLEAN
  BY DEF Readers
<1>2. GoesOn(r.read, r.read) /\ GoesOn(r.read, PushRead(r.read, r.said, r.listing))
  BY <1>1, PushAdds, GoesOnIs
<1>3. PushRead(r.read, r.said, r.listing) \in Seq(AllPassages)
  BY <1>2 DEF GoesOn
<1>4. Append(r.said, line) \in Seq(LineKinds) /\ <<line>> \in Seq(LineKinds)
  BY <1>1, AppendProperties
<1> HIDE DEF AllPassages, PushRead
<1> QED BY <1>1, <1>2, <1>3, <1>4 DEF ReadLine, Readers

LEMMA ReadersAre ==
  /\ ReadLines(<<>>) = Reader
  /\ \A prose \in Seq(LineKinds) : ReadLines(prose) \in Readers
  /\ \A prose \in Seq(LineKinds), line \in LineKinds :
        GoesOn(ReadLines(prose).read, ReadLines(Append(prose, line)).read)
<1> DEFINE T == {s \in Seq(LineKinds) : ReadLines(s) \in Readers}
<1>1. ReadLines(<<>>) = Reader
  BY ProseStep
<1>2. <<>> \in T
  <2>1. Reader \in Readers
    BY EmptySeq DEF Reader, Readers
  <2> QED BY <1>1, <2>1, EmptySeq
<1>3. \A s \in Seq(LineKinds), x \in LineKinds :
         ReadLines(Append(s, x)) = ReadLine(ReadLines(s), x) /\ Append(s, x) \in Seq(LineKinds)
  BY ProseStep, AppendProperties
<1>4. ASSUME NEW s \in Seq(LineKinds), NEW x \in LineKinds, s \in T PROVE Append(s, x) \in T
  BY <1>3, <1>4, ReadLineGoesOn
<1> HIDE DEF T
<1>5. \A s \in Seq(LineKinds) : s \in T
  BY <1>2, <1>4, BlocksAre!SeqInduct
<1>6. \A s \in Seq(LineKinds) : ReadLines(s) \in Readers
  BY <1>5 DEF T
<1> QED BY <1>1, <1>3, <1>6, ReadLineGoesOn

LEMMA ProseGoesOn ==
  ASSUME NEW prose \in Seq(LineKinds)
  PROVE  /\ GoesOn(ReadLines(prose).read, ReadProse(prose))
         /\ \/ ReadProse(prose) = ReadLines(prose).read
            \/ \E x \in AllPassages : ReadProse(prose) = Append(ReadLines(prose).read, x)
<1> DEFINE r == ReadLines(prose)
<1>1. r.read \in Seq(AllPassages) /\ r.said \in Seq(LineKinds) /\ r.listing \in BOOLEAN
  BY ReadersAre DEF Readers
<1>2. ReadProse(prose) = PushRead(r.read, r.said, r.listing)
  BY DEF ReadProse
<1> HIDE DEF r
<1>3. \/ ReadProse(prose) = r.read
      \/ \E x \in AllPassages : ReadProse(prose) = Append(r.read, x)
  BY <1>1, <1>2, PushAdds
<1>4. GoesOn(r.read, ReadProse(prose))
  BY <1>1, <1>3, GoesOnIs
<1> QED BY <1>3, <1>4 DEF r

\* What is read so far for good.
KeptOf(p) == p.passages \o (IF p.fenced THEN <<>> ELSE ReadLines(p.prose).read)
Kept(text) == KeptOf(TakeLines(text))

\* Prose is taken outside of a fence and code within.
Taking(p) == p \in Takers /\ (p.fenced => p.prose = <<>>) /\ (~ p.fenced => p.code = <<>>)

LEMMA TakeLineGoesOn ==
  ASSUME NEW p, Taking(p), NEW line \in LineKinds
  PROVE  Taking(TakeLine(p, line)) /\ GoesOn(KeptOf(p), KeptOf(TakeLine(p, line)))
<1> DEFINE q == TakeLine(p, line)
           P == AllPassages
<1>1. /\ p.passages \in Seq(P) /\ p.prose \in Seq(LineKinds) /\ p.code \in Seq(LineKinds)
      /\ p.fenced \in BOOLEAN /\ <<>> \in Seq(LineKinds)
  BY EmptySeq DEF Taking, Takers
<1>2. /\ Append(p.prose, line) \in Seq(LineKinds) /\ Append(p.code, line) \in Seq(LineKinds)
      /\ Passage("code", p.code) \in P
  BY <1>1, AppendProperties, PassageIs
<1>3. /\ GoesOn(ReadLines(p.prose).read, ReadProse(p.prose))
      /\ GoesOn(ReadLines(p.prose).read, ReadLines(Append(p.prose, line)).read)
  BY <1>1, ProseGoesOn, ReadersAre
<1>4. ReadProse(p.prose) \in Seq(P) /\ ReadLines(p.prose).read \in Seq(P)
      /\ ReadLines(Append(p.prose, line)).read \in Seq(P)
  BY <1>3 DEF GoesOn
<1>5. ReadLines(<<>>).read = <<>>
  BY ReadersAre DEF Reader
<1> HIDE DEF q, P
<1>6. p.passages \o ReadProse(p.prose) \in Seq(P) /\ Append(p.passages, Passage("code", p.code)) \in Seq(P)
  BY <1>1, <1>2, <1>4, ConcatProperties, AppendProperties
<1>7. \A s \in Seq(P) : s \o <<>> = s
  BY ConcatEmptySeq
<1>8. CASE p.fenced /\ line = "fence"
  <2>1. q = [p EXCEPT !.passages = Append(@, Passage("code", p.code)),
                      !.fenced = FALSE, !.code = <<>>]
    BY <1>8 DEF q, TakeLine
  <2>2. Taking(q) /\ q.passages = Append(p.passages, Passage("code", p.code))
        /\ ~ q.fenced /\ q.prose = <<>>
    BY <1>1, <1>6, <1>8, <2>1 DEF Taking, Takers, P
  <2>3. KeptOf(q) = Append(p.passages, Passage("code", p.code)) /\ KeptOf(p) = p.passages
    BY <1>1, <1>5, <1>6, <1>7, <1>8, <2>2, Zenon DEF KeptOf
  <2> QED BY <1>1, <1>2, <2>2, <2>3, GoesOnIs DEF P, q
<1>9. CASE p.fenced /\ line # "fence"
  <2>1. q = [p EXCEPT !.code = Append(@, line)]
    BY <1>9 DEF q, TakeLine
  <2>2. Taking(q) /\ q.passages = p.passages /\ q.fenced
    BY <1>1, <1>2, <1>9, <2>1 DEF Taking, Takers, P
  <2>3. KeptOf(q) = p.passages /\ KeptOf(p) = p.passages
    BY <1>1, <1>7, <1>9, <2>2, Zenon DEF KeptOf
  <2> QED BY <1>1, <2>2, <2>3, GoesOnIs DEF P, q
<1>10. CASE ~ p.fenced /\ line \in {"fence", "opening"}
  <2>1. q = [p EXCEPT !.passages = @ \o ReadProse(p.prose), !.prose = <<>>, !.fenced = TRUE]
    BY <1>10 DEF q, TakeLine
  <2>2. Taking(q) /\ q.passages = p.passages \o ReadProse(p.prose) /\ q.fenced
    BY <1>1, <1>6, <1>10, <2>1 DEF Taking, Takers, P
  <2>3. KeptOf(q) = p.passages \o ReadProse(p.prose)
        /\ KeptOf(p) = p.passages \o ReadLines(p.prose).read
    BY <1>6, <1>7, <1>10, <2>2, Zenon DEF KeptOf
  <2> QED BY <1>1, <1>3, <2>2, <2>3, GoesOnIs DEF P, q
<1>11. CASE ~ p.fenced /\ line \notin {"fence", "opening"}
  <2>1. q = [p EXCEPT !.prose = Append(@, line)]
    BY <1>11 DEF q, TakeLine
  <2>2. Taking(q) /\ q.passages = p.passages /\ ~ q.fenced /\ q.prose = Append(p.prose, line)
    BY <1>1, <1>2, <1>11, <2>1 DEF Taking, Takers, P
  <2>3. KeptOf(q) = p.passages \o ReadLines(Append(p.prose, line)).read
        /\ KeptOf(p) = p.passages \o ReadLines(p.prose).read
    BY <1>11, <2>2, Zenon DEF KeptOf
  <2> QED BY <1>1, <1>3, <2>2, <2>3, GoesOnIs DEF P, q
<1> QED BY <1>1, <1>8, <1>9, <1>10, <1>11

LEMMA TakersAre ==
  ASSUME NEW text \in Seq(LineKinds) PROVE Taking(TakeLines(text))
<1> DEFINE T == {s \in Seq(LineKinds) : Taking(TakeLines(s))}
<1>1. <<>> \in T
  <2>1. Taking(Unread)
    BY EmptySeq DEF Taking, Takers, Unread
  <2> QED BY <2>1, TextStep, EmptySeq
<1>2. ASSUME NEW s \in Seq(LineKinds), NEW x \in LineKinds, s \in T PROVE Append(s, x) \in T
  <2>1. TakeLines(Append(s, x)) = TakeLine(TakeLines(s), x)
    BY TextStep
  <2> QED BY <1>2, <2>1, TakeLineGoesOn, AppendProperties
<1> HIDE DEF T
<1>3. \A s \in Seq(LineKinds) : s \in T
  BY <1>1, <1>2, BlocksAre!SeqInduct
<1> QED BY <1>3 DEF T

LEMMA KeptGoesOn ==
  ASSUME NEW text \in Seq(LineKinds)
  PROVE  /\ Kept(text) \in Seq(AllPassages)
         /\ \A line \in LineKinds : GoesOn(Kept(text), Kept(Append(text, line)))
<1>1. Taking(TakeLines(text))
  BY TakersAre
<1>2. \A line \in LineKinds : GoesOn(Kept(text), Kept(Append(text, line)))
  BY <1>1, TextStep, TakeLineGoesOn DEF Kept
<1>3. "words" \in LineKinds
  BY DEF LineKinds
<1> QED BY <1>2, <1>3 DEF GoesOn

\* The passages of a message are what is kept of it, and one more at most.
LEMMA PassagesAre ==
  ASSUME NEW text \in Seq(LineKinds)
  PROVE  \/ Passages(text) = Kept(text)
         \/ \E x \in AllPassages : Passages(text) = Append(Kept(text), x)
<1> DEFINE p == TakeLines(text)
           P == AllPassages
           read == p.passages \o (IF p.fenced THEN <<Passage("code", p.code)>>
                                  ELSE ReadProse(p.prose))
<1>1. /\ p.passages \in Seq(P) /\ p.prose \in Seq(LineKinds) /\ p.code \in Seq(LineKinds)
      /\ p.fenced \in BOOLEAN
  BY TakersAre DEF Taking, Takers
<1>2. Passages(text) = IF read = <<>> THEN <<Passage("prose", text)>> ELSE read
  BY DEF Passages
<1>3. Kept(text) = p.passages \o (IF p.fenced THEN <<>> ELSE ReadLines(p.prose).read)
      /\ Kept(text) \in Seq(P)
  BY KeptGoesOn DEF Kept, KeptOf
<1>4. Passage("code", p.code) \in P /\ Passage("prose", text) \in P
  BY <1>1, PassageIs
<1>5. ReadLines(p.prose).read \in Seq(P)
  BY <1>1, ReadersAre DEF Readers
<1>6. \/ ReadProse(p.prose) = ReadLines(p.prose).read
      \/ \E x \in P : ReadProse(p.prose) = Append(ReadLines(p.prose).read, x)
  BY <1>1, ProseGoesOn
<1> HIDE DEF p, P
<1>7. \/ read = Kept(text)
      \/ \E x \in P : read = Append(Kept(text), x)
  <2>1. CASE p.fenced
    <3>1. Kept(text) = p.passages /\ read = p.passages \o <<Passage("code", p.code)>>
      BY <1>1, <1>3, <2>1, ConcatEmptySeq
    <3> QED BY <1>1, <1>4, <3>1, AppendIsConcat
  <2>2. CASE ~ p.fenced
    <3>1. Kept(text) = p.passages \o ReadLines(p.prose).read
          /\ read = p.passages \o ReadProse(p.prose)
      BY <1>3, <2>2
    <3>2. ASSUME NEW x \in P, ReadProse(p.prose) = Append(ReadLines(p.prose).read, x)
          PROVE  read = Append(Kept(text), x)
      <4> DEFINE r == ReadLines(p.prose).read
      <4> HIDE DEF r
      <4>1. r \in Seq(P) /\ <<x>> \in Seq(P)
        BY <1>5 DEF r
      <4>2. Append(r, x) = r \o <<x>>
        BY <4>1, AppendIsConcat
      <4>3. (p.passages \o r) \o <<x>> = p.passages \o (r \o <<x>>)
        <5>1. p.passages \in Seq(P)
          BY <1>1
        <5>2. \A a, b, c \in Seq(P) : (a \o b) \o c = a \o (b \o c)
          BY ConcatAssociative
        <5> QED BY ONLY <4>1, <5>1, <5>2, Zenon
      <4>4. Append(p.passages \o r, x) = (p.passages \o r) \o <<x>>
        <5>1. p.passages \o r \in Seq(P)
          BY <1>1, <4>1, ConcatProperties
        <5> QED BY <5>1, AppendIsConcat
      <4> QED BY ONLY <3>1, <3>2, <4>2, <4>3, <4>4, Zenon DEF r
    <3> QED BY <1>6, <3>1, <3>2
  <2> QED BY <2>1, <2>2
<1> HIDE DEF read
<1>8. CASE read = <<>>
  <2>1. Kept(text) = <<>>
    BY <1>3, <1>7, <1>8, AppendProperties
  <2>2. Passages(text) = Append(Kept(text), Passage("prose", text))
    BY <1>2, <1>8, <2>1
  <2> QED BY <1>4, <2>2 DEF P
<1>9. CASE read # <<>>
  BY <1>2, <1>7, <1>9 DEF P
<1> QED BY <1>8, <1>9

\* All but the last passage is kept, and what is kept stays.
LEMMA KeptBegins ==
  ASSUME NEW text \in Seq(LineKinds)
  PROVE  /\ Passages(text) \in Seq(AllPassages) /\ GoesOn(Kept(text), Passages(text))
         /\ GoesOn(Front(Passages(text)), Kept(text))
<1> DEFINE P == AllPassages
           k == Kept(text)
           ps == Passages(text)
<1>1. k \in Seq(P) /\ (ps = k \/ \E x \in P : ps = Append(k, x))
  BY KeptGoesOn, PassagesAre
<1> HIDE DEF k, ps
<1>2. ps \in Seq(P) /\ GoesOn(k, ps)
  <2>1. GoesOn(k, ps)
    BY ONLY <1>1, GoesOnIs, Zenon
  <2> QED BY <2>1 DEF GoesOn
<1> HIDE DEF P
<1>3. GoesOn(Front(ps), k)
  <2>1. CASE ps = k
    <3>1. CASE k = <<>>
      <4>1. Front(<<>>) = <<>>
        BY DEF Front
      <4> QED BY <1>1, <2>1, <3>1, <4>1, GoesOnIs DEF P
    <3>2. CASE k # <<>>
      <4>1. PICK f \in Seq(P), l \in P : k = Append(f, l)
        BY <1>1, <3>2, SequenceEmptyOrAppend
      <4>2. Front(k) = f
        BY <4>1 DEF Front
      <4> QED BY <2>1, <4>1, <4>2, GoesOnIs DEF P
    <3> QED BY <3>1, <3>2
  <2>2. ASSUME NEW x \in P, ps = Append(k, x) PROVE GoesOn(Front(ps), k)
    <3>1. Front(ps) = k
      BY <1>1, <2>2 DEF Front
    <3> QED BY <1>1, <3>1, GoesOnIs DEF P
  <2> QED BY <1>1, <2>1, <2>2
<1> QED BY <1>2, <1>3 DEF P, k, ps

\* As many of the first lines as there are, and of one line more.
LEMMA FirstLines ==
  ASSUME NEW S, NEW s \in Seq(S), NEW x \in S, NEW n \in 1..Len(s)
  PROVE  SubSeq(Append(s, x), 1, n) = SubSeq(s, 1, n) /\ SubSeq(s, 1, n) \in Seq(S)
OBVIOUS

LEMMA KeptStays ==
  ASSUME NEW text \in Seq(LineKinds)
  PROVE  \A n \in 1..Len(text) : GoesOn(Kept(SubSeq(text, 1, n)), Kept(text))
<1> DEFINE T == {s \in Seq(LineKinds) :
                   \A n \in 1..Len(s) : GoesOn(Kept(SubSeq(s, 1, n)), Kept(s))}
<1>1. <<>> \in T
  BY EmptySeq
<1>2. ASSUME NEW s \in Seq(LineKinds), NEW x \in LineKinds, s \in T PROVE Append(s, x) \in T
  <2> DEFINE all == Append(s, x)
  <2>1. all \in Seq(LineKinds) /\ Len(all) = Len(s) + 1 /\ Len(s) \in Nat
    BY AppendProperties, LenProperties
  <2>2. ASSUME NEW n \in 1..Len(all) PROVE GoesOn(Kept(SubSeq(all, 1, n)), Kept(all))
    <3>1. CASE n = Len(all)
      <4>1. SubSeq(all, 1, n) = all
        BY <2>1, <3>1, SubSeqFull
      <4>2. Kept(all) \in Seq(AllPassages)
        BY <2>1, KeptGoesOn
      <4> QED BY <4>1, <4>2, GoesOnIs
    <3>2. CASE n # Len(all)
      <4>1. n \in 1..Len(s)
        BY <2>1, <2>2, <3>2
      <4>2. SubSeq(all, 1, n) = SubSeq(s, 1, n)
        BY <4>1, FirstLines
      <4>3. GoesOn(Kept(SubSeq(s, 1, n)), Kept(s))
        BY <1>2, <4>1
      <4>4. GoesOn(Kept(s), Kept(all))
        BY KeptGoesOn
      <4> QED BY <4>2, <4>3, <4>4, GoesOnIs
    <3> QED BY <3>1, <3>2
  <2> QED BY <2>1, <2>2
<1> HIDE DEF T
<1>3. \A s \in Seq(LineKinds) : s \in T
  BY <1>1, <1>2, BlocksAre!SeqInduct
<1> QED BY <1>3 DEF T

\* What a message was read as, but for the last of it, is what it is read as.
LEMMA PassagesStay ==
  ASSUME NEW text \in Seq(LineKinds), NEW n \in 1..Len(text)
  PROVE  IsPrefix(Front(Passages(SubSeq(text, 1, n))), Passages(text))
<1> DEFINE part == SubSeq(text, 1, n)
           s == Front(Passages(part))
           t == Passages(text)
<1>1. part \in Seq(LineKinds)
  OBVIOUS
<1>2. GoesOn(Kept(part), Kept(text))
  BY KeptStays
<1>3. GoesOn(s, Kept(part)) /\ GoesOn(Kept(text), t)
  BY <1>1, KeptBegins
<1> HIDE DEF part, s, t
<1>4. GoesOn(s, t)
  BY <1>2, <1>3, GoesOnIs
<1> DEFINE P == AllPassages
<1>5. PICK r \in Seq(P) : t = s \o r
  BY <1>4 DEF GoesOn
<1>6. s \in Seq(P) /\ t \in Seq(P)
  BY <1>4 DEF GoesOn
<1> HIDE DEF P
<1>7. Len(s) <= Len(t) /\ \A i \in 1..Len(s) : s[i] = t[i]
  BY <1>5, <1>6, ConcatProperties, LenProperties
<1>8. IsPrefix(s, t)
  BY <1>6, <1>7, PrefixIs
<1> QED BY <1>8 DEF part, s, t

\* Only the last passage of a message changes while it streams on, however long
\* the message.
THEOREM WhatIsReadIsKept == ASSUME PayloadsOK PROVE Spec => []WhatIsReadStays
<1>1. LogInv => WhatIsReadStays
  <2> SUFFICES ASSUME LogInv, NEW i \in DOMAIN Blocks(settled),
                      NEW n \in 1..Len(Blocks(settled)[i].text)
               PROVE  IsPrefix(Front(Passages(SubSeq(Blocks(settled)[i].text, 1, n))),
                               Passages(Blocks(settled)[i].text))
    BY DEF WhatIsReadStays
  <2>1. Blocks(settled)[i].text \in Seq(LineKinds)
    BY BlocksAreEvents DEF LogInv, LogTypes
  <2> QED BY <2>1, PassagesStay
<1> QED BY <1>1, LogInvariant, PTL

-----------------------------------------------------------------------------
(* What a message says, and what its elements say.                         *)

LEMMA SaidByIs ==
  ASSUME NEW line \in LineKinds
  PROVE  SaidBy(line) \in Seq(LineKinds)
         /\ (line \notin {"words", "item"} => SaidBy(line) = <<>>)
<1>1. SaidBy(line) = IF line \in {"words", "item"} THEN <<line>> ELSE <<>>
  BY DEF SaidBy, Said
<1>2. <<line>> \in Seq(LineKinds) /\ <<>> \in Seq(LineKinds)
  BY EmptySeq
<1> QED BY <1>1, <1>2

LEMMA SaidOfStep ==
  /\ SaidOf(<<>>) = <<>>
  /\ \A s \in Seq(LineKinds) : SaidOf(s) \in Seq(LineKinds)
  /\ \A s \in Seq(LineKinds), line \in LineKinds :
        SaidOf(Append(s, line)) = SaidOf(s) \o SaidBy(line)
<1>1. ASSUME NEW s \in Seq(LineKinds)
      PROVE  [i \in DOMAIN s |-> SaidBy(s[i])] \in Seq(Seq(LineKinds))
  <2>1. \A i \in DOMAIN s : SaidBy(s[i]) \in Seq(LineKinds)
    BY SaidByIs, ElementOfSeq, LenProperties
  <2> HIDE DEF SaidBy
  <2> QED BY <2>1, LenProperties
<1>2. ASSUME NEW s \in Seq(LineKinds), NEW line \in LineKinds
      PROVE  [i \in DOMAIN Append(s, line) |-> SaidBy(Append(s, line)[i])]
               = Append([i \in DOMAIN s |-> SaidBy(s[i])], SaidBy(line))
  OBVIOUS
<1>3. SaidOf(<<>>) = <<>>
  <2>1. [i \in DOMAIN <<>> |-> SaidBy(<<>>[i])] = <<>>
    OBVIOUS
  <2> QED BY <2>1, FlattenStep DEF SaidOf
<1>4. \A s \in Seq(LineKinds) : SaidOf(s) \in Seq(LineKinds)
  BY <1>1, FlattenType DEF SaidOf
<1>5. ASSUME NEW s \in Seq(LineKinds), NEW line \in LineKinds
      PROVE  SaidOf(Append(s, line)) = SaidOf(s) \o SaidBy(line)
  BY <1>1, <1>2, SaidByIs, FlattenStep DEF SaidOf
<1> QED BY <1>3, <1>4, <1>5

LEMMA SaidOfOne == ASSUME NEW line \in LineKinds PROVE SaidOf(<<line>>) = SaidBy(line)
<1>1. <<line>> = Append(<<>>, line) /\ <<>> \in Seq(LineKinds)
  BY EmptySeq
<1>2. SaidOf(<<line>>) = <<>> \o SaidBy(line)
  BY <1>1, SaidOfStep
<1> QED BY <1>2, SaidByIs, ConcatEmptySeq

LEMMA BlankSaysNothing ==
  ASSUME NEW lines \in Seq(LineKinds), \A i \in DOMAIN lines : lines[i] = "blank"
  PROVE  SaidOf(lines) = <<>>
<1> DEFINE Blank(s) == \A i \in DOMAIN s : s[i] = "blank"
           T == {s \in Seq(LineKinds) : Blank(s) => SaidOf(s) = <<>>}
<1>1. <<>> \in T
  BY SaidOfStep, EmptySeq
<1>2. ASSUME NEW s \in Seq(LineKinds), NEW x \in LineKinds, s \in T PROVE Append(s, x) \in T
  <2> SUFFICES ASSUME Blank(Append(s, x)) PROVE SaidOf(Append(s, x)) = <<>>
    BY AppendProperties
  <2> DEFINE all == Append(s, x)
  <2>4. Len(s) \in Nat /\ DOMAIN s = 1..Len(s) /\ DOMAIN all = 1..(Len(s) + 1)
        /\ all[Len(s) + 1] = x /\ \A i \in 1..Len(s) : all[i] = s[i]
    BY AppendProperties, LenProperties
  <2>5. \A i \in DOMAIN all : all[i] = "blank"
    OBVIOUS
  <2> HIDE DEF all
  <2>1. Blank(s) /\ x = "blank"
    <3>1. Len(s) + 1 \in DOMAIN all /\ \A i \in DOMAIN s : i \in DOMAIN all
      BY <2>4
    <3> QED BY <2>4, <2>5, <3>1
  <2>2. SaidBy(x) = <<>>
    BY <2>1, SaidByIs
  <2>3. SaidOf(Append(s, x)) = SaidOf(s) \o SaidBy(x) /\ SaidOf(s) = <<>>
    BY <1>2, <2>1, SaidOfStep
  <2> QED BY <2>2, <2>3
<1> HIDE DEF T
<1>3. \A s \in Seq(LineKinds) : s \in T
  BY <1>1, <1>2, BlocksAre!SeqInduct
<1> QED BY <1>3 DEF T

LEMMA SaidInStep ==
  /\ SaidIn(<<>>) = <<>>
  /\ \A ps \in Seq(AllPassages) : SaidIn(ps) \in Seq(LineKinds)
  /\ \A ps \in Seq(AllPassages), p \in AllPassages :
        SaidIn(Append(ps, p)) = SaidIn(ps) \o SaidOf(p.lines)
<1>1. \A p \in AllPassages : SaidOf(p.lines) \in Seq(LineKinds)
  <2>1. \A p \in AllPassages : p.lines \in Seq(LineKinds)
    BY DEF AllPassages
  <2> QED BY <2>1, SaidOfStep
<1>2. ASSUME NEW ps \in Seq(AllPassages)
      PROVE  [j \in DOMAIN ps |-> SaidOf(ps[j].lines)] \in Seq(Seq(LineKinds))
  <2>1. \A j \in DOMAIN ps : SaidOf(ps[j].lines) \in Seq(LineKinds)
    BY <1>1, ElementOfSeq, LenProperties
  <2> QED BY <2>1, LenProperties
<1>3. ASSUME NEW ps \in Seq(AllPassages), NEW p \in AllPassages
      PROVE  [j \in DOMAIN Append(ps, p) |-> SaidOf(Append(ps, p)[j].lines)]
               = Append([j \in DOMAIN ps |-> SaidOf(ps[j].lines)], SaidOf(p.lines))
  <2> DEFINE P == AllPassages
  <2>1. ps \in Seq(P) /\ p \in P
    OBVIOUS
  <2> HIDE DEF P
  <2> QED BY ONLY <2>1
<1>4. SaidIn(<<>>) = <<>>
  <2>1. [j \in DOMAIN <<>> |-> SaidOf(<<>>[j].lines)] = <<>>
    OBVIOUS
  <2> QED BY <2>1, FlattenStep DEF SaidIn
<1>5. \A ps \in Seq(AllPassages) : SaidIn(ps) \in Seq(LineKinds)
  BY <1>2, FlattenType DEF SaidIn
<1>6. ASSUME NEW ps \in Seq(AllPassages), NEW p \in AllPassages
      PROVE  SaidIn(Append(ps, p)) = SaidIn(ps) \o SaidOf(p.lines)
  BY <1>1, <1>2, <1>3, FlattenStep DEF SaidIn
<1> QED BY <1>4, <1>5, <1>6

LEMMA SaidInConcat ==
  ASSUME NEW ps \in Seq(AllPassages), NEW qs \in Seq(AllPassages)
  PROVE  SaidIn(ps \o qs) = SaidIn(ps) \o SaidIn(qs)
<1> DEFINE P == AllPassages
           T == {s \in Seq(P) : SaidIn(ps \o s) = SaidIn(ps) \o SaidIn(s)}
<1> HIDE DEF P
<1>1. ps \in Seq(P) /\ qs \in Seq(P) /\ SaidIn(ps) \in Seq(LineKinds)
  BY SaidInStep DEF P
<1>2. <<>> \in T
  <2>1. ps \o <<>> = ps /\ SaidIn(ps) \o <<>> = SaidIn(ps)
    BY <1>1, ConcatEmptySeq
  <2> QED BY <2>1, SaidInStep, EmptySeq
<1>3. ASSUME NEW s \in Seq(P), NEW x \in P, s \in T PROVE Append(s, x) \in T
  <2>1. ps \o Append(s, x) = Append(ps \o s, x) /\ ps \o s \in Seq(P)
        /\ Append(s, x) \in Seq(P)
    BY <1>1, ConcatProperties, AppendProperties
  <2>2. SaidIn(Append(ps \o s, x)) = SaidIn(ps \o s) \o SaidOf(x.lines)
        /\ SaidIn(Append(s, x)) = SaidIn(s) \o SaidOf(x.lines)
    BY <2>1, SaidInStep DEF P
  <2>3. SaidOf(x.lines) \in Seq(LineKinds) /\ SaidIn(s) \in Seq(LineKinds)
    <3>1. x.lines \in Seq(LineKinds)
      BY DEF P, AllPassages
    <3> QED BY <3>1, SaidOfStep, SaidInStep DEF P
  <2>4. (SaidIn(ps) \o SaidIn(s)) \o SaidOf(x.lines)
          = SaidIn(ps) \o (SaidIn(s) \o SaidOf(x.lines))
    BY <1>1, <2>3, ConcatAssociative
  <2>5. SaidIn(ps \o s) = SaidIn(ps) \o SaidIn(s)
    BY <1>3
  <2>6. SaidIn(ps \o Append(s, x)) = SaidIn(ps) \o SaidIn(Append(s, x))
    BY ONLY <2>1, <2>2, <2>4, <2>5, Zenon
  <2> QED BY <2>1, <2>6
<1> HIDE DEF T
<1>4. \A s \in Seq(P) : s \in T
  BY <1>2, <1>3, BlocksAre!SeqInduct
<1> QED BY <1>1, <1>4 DEF T

\* A run of lines says what it says, whether it is a passage or only blank.
LEMMA PushSays ==
  ASSUME NEW read \in Seq(AllPassages), NEW said \in Seq(LineKinds), NEW listing \in BOOLEAN
  PROVE  SaidIn(PushRead(read, said, listing)) = SaidIn(read) \o SaidOf(said)
<1>1. SaidIn(read) \in Seq(LineKinds) /\ SaidOf(said) \in Seq(LineKinds)
  BY SaidInStep, SaidOfStep
<1>2. CASE \A i \in DOMAIN said : said[i] = "blank"
  <2>1. SaidOf(said) = <<>>
    BY <1>2, BlankSaysNothing
  <2>2. PushRead(read, said, listing) = read
    BY <1>2 DEF PushRead
  <2> QED BY <1>1, <2>1, <2>2, ConcatEmptySeq
<1>3. CASE ~ \A i \in DOMAIN said : said[i] = "blank"
  <2> DEFINE x == Passage(IF listing THEN "list" ELSE "prose", said)
  <2>1. PushRead(read, said, listing) = Append(read, x)
    BY <1>3 DEF PushRead
  <2>2. x.lines = said
    BY DEF Passage
  <2>3. x \in AllPassages
    <3>1. (IF listing THEN "list" ELSE "prose") \in {"prose", "list", "code"}
      OBVIOUS
    <3> QED BY <3>1, PassageIs
  <2> HIDE DEF x
  <2> QED BY <2>1, <2>2, <2>3, SaidInStep
<1> QED BY <1>2, <1>3

\* What is read of prose, and what is yet to be.
ReadSays(r) == SaidIn(r.read) \o SaidOf(r.said)

LEMMA ReadLineSays ==
  ASSUME NEW r \in Readers, NEW line \in LineKinds
  PROVE  ReadSays(ReadLine(r, line)) = ReadSays(r) \o SaidBy(line)
<1> DEFINE q == ReadLine(r, line)
<1>1. r.read \in Seq(AllPassages) /\ r.said \in Seq(LineKinds) /\ r.listing \in BOOLEAN
  BY DEF Readers
<1>2. /\ SaidIn(r.read) \in Seq(LineKinds) /\ SaidOf(r.said) \in Seq(LineKinds)
      /\ SaidBy(line) \in Seq(LineKinds)
  BY <1>1, SaidInStep, SaidOfStep, SaidByIs
<1>3. CASE (line = "item") # r.listing
  <2>1. q.read = PushRead(r.read, r.said, r.listing) /\ q.said = <<line>>
    BY <1>3 DEF ReadLine
  <2> HIDE DEF q
  <2>2. SaidIn(q.read) = SaidIn(r.read) \o SaidOf(r.said)
    BY <1>1, <2>1, PushSays
  <2>3. SaidOf(q.said) = SaidBy(line)
    BY <2>1, SaidOfOne
  <2> QED BY <2>2, <2>3 DEF q, ReadSays
<1>4. CASE ~ ((line = "item") # r.listing)
  <2>1. q.read = r.read /\ q.said = Append(r.said, line)
    BY <1>4 DEF ReadLine, Readers
  <2> HIDE DEF q
  <2>2. SaidOf(q.said) = SaidOf(r.said) \o SaidBy(line)
    BY <1>1, <2>1, SaidOfStep
  <2>3. SaidIn(r.read) \o (SaidOf(r.said) \o SaidBy(line))
          = (SaidIn(r.read) \o SaidOf(r.said)) \o SaidBy(line)
    BY <1>2, ConcatAssociative
  <2> QED BY <2>1, <2>2, <2>3 DEF q, ReadSays
<1> QED BY <1>3, <1>4

LEMMA ProseSays ==
  ASSUME NEW prose \in Seq(LineKinds) PROVE SaidIn(ReadProse(prose)) = SaidOf(prose)
<1> DEFINE T == {s \in Seq(LineKinds) : ReadSays(ReadLines(s)) = SaidOf(s)}
<1>1. <<>> \in T
  <2>1. SaidIn(Reader.read) = <<>> /\ SaidOf(Reader.said) = <<>>
    BY SaidInStep, SaidOfStep DEF Reader
  <2>2. <<>> \o <<>> = <<>>
    OBVIOUS
  <2> QED BY <2>1, <2>2, ReadersAre, SaidOfStep, EmptySeq DEF ReadSays
<1>2. ASSUME NEW s \in Seq(LineKinds), NEW x \in LineKinds, s \in T PROVE Append(s, x) \in T
  <2>1. ReadLines(Append(s, x)) = ReadLine(ReadLines(s), x) /\ ReadLines(s) \in Readers
    BY ProseStep, ReadersAre
  <2>2. ReadSays(ReadLine(ReadLines(s), x)) = ReadSays(ReadLines(s)) \o SaidBy(x)
    BY <2>1, ReadLineSays
  <2>3. SaidOf(Append(s, x)) = SaidOf(s) \o SaidBy(x) /\ Append(s, x) \in Seq(LineKinds)
    BY SaidOfStep, AppendProperties
  <2> QED BY <1>2, <2>1, <2>2, <2>3
<1> HIDE DEF T
<1>3. \A s \in Seq(LineKinds) : s \in T
  BY <1>1, <1>2, BlocksAre!SeqInduct
<1> DEFINE r == ReadLines(prose)
<1>4. ReadSays(r) = SaidOf(prose)
  BY <1>3 DEF T
<1>5. r.read \in Seq(AllPassages) /\ r.said \in Seq(LineKinds) /\ r.listing \in BOOLEAN
  BY ReadersAre DEF Readers
<1>6. ReadProse(prose) = PushRead(r.read, r.said, r.listing)
  BY DEF ReadProse
<1> HIDE DEF r
<1> QED BY <1>4, <1>5, <1>6, PushSays DEF ReadSays

\* What is taken of a message.
TakenSays(p) == SaidIn(p.passages) \o (SaidOf(p.prose) \o SaidOf(p.code))

LEMMA TakeLineSays ==
  ASSUME NEW p, Taking(p), NEW line \in LineKinds
  PROVE  TakenSays(TakeLine(p, line)) = TakenSays(p) \o SaidBy(line)
<1> DEFINE q == TakeLine(p, line)
           L == Seq(LineKinds)
           a == SaidIn(p.passages)
           b == SaidOf(p.prose)
           c == SaidOf(p.code)
           d == SaidBy(line)
<1>1. /\ p \in Takers /\ p.passages \in Seq(AllPassages) /\ p.prose \in Seq(LineKinds)
      /\ p.code \in Seq(LineKinds) /\ p.fenced \in BOOLEAN
      /\ (p.fenced => p.prose = <<>>) /\ (~ p.fenced => p.code = <<>>)
  BY DEF Taking, Takers
<1>2. a \in Seq(LineKinds) /\ b \in Seq(LineKinds) /\ c \in Seq(LineKinds)
      /\ d \in Seq(LineKinds)
  BY <1>1, SaidInStep, SaidOfStep, SaidByIs
<1>3. (p.fenced => b = <<>>) /\ (~ p.fenced => c = <<>>)
      /\ (line \in {"fence", "opening"} => d = <<>>)
  BY <1>1, SaidOfStep, SaidByIs
<1>4. /\ SaidOf(Append(p.prose, line)) = b \o d /\ SaidOf(Append(p.code, line)) = c \o d
      /\ SaidOf(<<>>) = <<>>
  BY <1>1, SaidOfStep
<1>5. SaidIn(Append(p.passages, Passage("code", p.code))) = a \o c
  <2>1. Passage("code", p.code) \in AllPassages
    BY <1>1, PassageIs
  <2>2. Passage("code", p.code).lines = p.code
    BY DEF Passage
  <2> QED BY <1>1, <2>1, <2>2, SaidInStep
<1>6. SaidIn(p.passages \o ReadProse(p.prose)) = a \o b
  <2>1. ReadProse(p.prose) \in Seq(AllPassages)
    BY <1>1, ProseGoesOn DEF GoesOn
  <2> QED BY <1>1, <2>1, SaidInConcat, ProseSays
<1>7. TakenSays(p) = a \o (b \o c)
  BY DEF TakenSays
<1> HIDE DEF q, a, b, c, d
<1>8. /\ \A u \in Seq(LineKinds) : u \o <<>> = u /\ <<>> \o u = u
      /\ \A u, v \in Seq(LineKinds) : u \o v \in Seq(LineKinds)
      /\ \A u, v, w \in Seq(LineKinds) : (u \o v) \o w = u \o (v \o w)
      /\ a \in Seq(LineKinds) /\ b \in Seq(LineKinds) /\ c \in Seq(LineKinds)
      /\ d \in Seq(LineKinds) /\ <<>> \in Seq(LineKinds)
  <2>1. \A u \in Seq(LineKinds) : u \o <<>> = u /\ <<>> \o u = u
    BY ConcatEmptySeq
  <2>2. \A u, v \in Seq(LineKinds) : u \o v \in Seq(LineKinds)
    BY ConcatProperties
  <2>3. \A u, v, w \in Seq(LineKinds) : (u \o v) \o w = u \o (v \o w)
    BY ConcatAssociative
  <2> QED BY <1>2, <2>1, <2>2, <2>3, EmptySeq
<1>9. CASE p.fenced /\ line = "fence"
  <2>1. q.passages = Append(p.passages, Passage("code", p.code)) /\ q.prose = p.prose
        /\ q.code = <<>>
    BY <1>1, <1>9 DEF q, TakeLine, Takers
  <2>2. TakenSays(q) = (a \o c) \o (b \o <<>>)
    BY <1>4, <1>5, <2>1, Zenon DEF TakenSays, b
  <2>3. b = <<>> /\ d = <<>>
    BY <1>3, <1>9
  <2>6. <<>> \o <<>> = <<>> /\ (a \o c) \o <<>> = a \o c /\ <<>> \o c = c
    <3>1. a \o c \in Seq(LineKinds)
      BY ONLY <1>8, Zenon
    <3> QED BY ONLY <1>8, <3>1, Zenon
  <2>4. TakenSays(q) = a \o c
    BY ONLY <2>2, <2>3, <2>6, Zenon
  <2>5. TakenSays(p) \o d = a \o c
    BY ONLY <1>7, <2>3, <2>6, Zenon
  <2> QED BY ONLY <1>8, <2>4, <2>5, Zenon DEF q, d
<1>10. CASE p.fenced /\ line # "fence"
  <2>1. q.passages = p.passages /\ q.prose = p.prose /\ q.code = Append(p.code, line)
    BY <1>1, <1>10 DEF q, TakeLine, Takers
  <2>2. TakenSays(q) = a \o (b \o (c \o d))
    BY <1>4, <2>1, Zenon DEF TakenSays, a, b
  <2>3. b = <<>>
    BY <1>3, <1>10
  <2>4. TakenSays(q) = a \o (c \o d)
    BY ONLY <1>8, <2>2, <2>3, Zenon
  <2>5. TakenSays(p) \o d = (a \o c) \o d
    BY ONLY <1>7, <1>8, <2>3, Zenon
  <2> QED BY ONLY <1>8, <2>4, <2>5, Zenon DEF q, d
<1>11. CASE ~ p.fenced /\ line \in {"fence", "opening"}
  <2>1. q.passages = p.passages \o ReadProse(p.prose) /\ q.prose = <<>> /\ q.code = p.code
    BY <1>1, <1>11 DEF q, TakeLine, Takers
  <2>2. TakenSays(q) = (a \o b) \o (<<>> \o c)
    BY <1>4, <1>6, <2>1, Zenon DEF TakenSays, c
  <2>3. c = <<>> /\ d = <<>>
    BY <1>3, <1>11
  <2>6. <<>> \o <<>> = <<>> /\ (a \o b) \o <<>> = a \o b /\ b \o <<>> = b
    <3>1. a \o b \in Seq(LineKinds)
      BY ONLY <1>8, Zenon
    <3> QED BY ONLY <1>8, <3>1, Zenon
  <2>4. TakenSays(q) = a \o b
    BY ONLY <2>2, <2>3, <2>6, Zenon
  <2>5. TakenSays(p) \o d = a \o b
    BY ONLY <1>7, <2>3, <2>6, Zenon
  <2> QED BY ONLY <1>8, <2>4, <2>5, Zenon DEF q, d
<1>12. CASE ~ p.fenced /\ line \notin {"fence", "opening"}
  <2>1. q.passages = p.passages /\ q.prose = Append(p.prose, line) /\ q.code = p.code
    BY <1>1, <1>12 DEF q, TakeLine, Takers
  <2>2. TakenSays(q) = a \o ((b \o d) \o c)
    BY <1>4, <2>1, Zenon DEF TakenSays, a, c
  <2>3. c = <<>>
    BY <1>3, <1>12
  <2>4. TakenSays(q) = a \o (b \o d)
    BY ONLY <1>8, <2>2, <2>3, Zenon
  <2>5. TakenSays(p) \o d = (a \o b) \o d
    BY ONLY <1>7, <1>8, <2>3, Zenon
  <2> QED BY ONLY <1>8, <2>4, <2>5, Zenon DEF q, d
<1> QED BY <1>1, <1>9, <1>10, <1>11, <1>12 DEF d

LEMMA TextSays ==
  ASSUME NEW text \in Seq(LineKinds) PROVE TakenSays(TakeLines(text)) = SaidOf(text)
<1> DEFINE T == {s \in Seq(LineKinds) : TakenSays(TakeLines(s)) = SaidOf(s)}
<1>1. <<>> \in T
  <2>1. SaidIn(Unread.passages) = <<>> /\ SaidOf(Unread.prose) = <<>>
        /\ SaidOf(Unread.code) = <<>>
    BY SaidInStep, SaidOfStep DEF Unread
  <2>2. <<>> \o (<<>> \o <<>>) = <<>>
    OBVIOUS
  <2> QED BY <2>1, <2>2, TextStep, SaidOfStep, EmptySeq DEF TakenSays
<1>2. ASSUME NEW s \in Seq(LineKinds), NEW x \in LineKinds, s \in T PROVE Append(s, x) \in T
  <2>1. TakeLines(Append(s, x)) = TakeLine(TakeLines(s), x) /\ Taking(TakeLines(s))
    BY TextStep, TakersAre
  <2>2. TakenSays(TakeLine(TakeLines(s), x)) = TakenSays(TakeLines(s)) \o SaidBy(x)
    BY <2>1, TakeLineSays
  <2>3. SaidOf(Append(s, x)) = SaidOf(s) \o SaidBy(x) /\ Append(s, x) \in Seq(LineKinds)
    BY SaidOfStep, AppendProperties
  <2> QED BY <1>2, <2>1, <2>2, <2>3
<1> HIDE DEF T
<1>3. \A s \in Seq(LineKinds) : s \in T
  BY <1>1, <1>2, BlocksAre!SeqInduct
<1> QED BY <1>3 DEF T

LEMMA PassagesSay ==
  ASSUME NEW text \in Seq(LineKinds)
  PROVE  SaidIn(Passages(text)) = SaidOf(text) /\ Passages(text) # <<>>
<1> DEFINE p == TakeLines(text)
           more == IF p.fenced THEN <<Passage("code", p.code)>> ELSE ReadProse(p.prose)
           read == p.passages \o more
           whole == Passage("prose", text)
<1>1. /\ p.passages \in Seq(AllPassages) /\ p.prose \in Seq(LineKinds)
      /\ p.code \in Seq(LineKinds) /\ p.fenced \in BOOLEAN
      /\ (p.fenced => p.prose = <<>>) /\ (~ p.fenced => p.code = <<>>)
  BY TakersAre DEF Taking, Takers
<1>2. Passages(text) = IF read = <<>> THEN <<whole>> ELSE read
  BY DEF Passages
<1>3. ASSUME NEW lines \in Seq(LineKinds), NEW kind \in {"prose", "list", "code"}
      PROVE  /\ <<Passage(kind, lines)>> \in Seq(AllPassages)
             /\ SaidIn(<<Passage(kind, lines)>>) = SaidOf(lines)
  <2> DEFINE x == Passage(kind, lines)
  <2>1. x \in AllPassages /\ x.lines = lines
    BY PassageIs DEF Passage
  <2> HIDE DEF x
  <2>2. <<x>> = Append(<<>>, x) /\ <<>> \in Seq(AllPassages) /\ <<x>> \in Seq(AllPassages)
    BY <2>1, EmptySeq
  <2>3. SaidIn(<<x>>) = <<>> \o SaidOf(lines)
    BY <2>1, <2>2, SaidInStep
  <2>4. <<>> \o SaidOf(lines) = SaidOf(lines)
    BY SaidOfStep, ConcatEmptySeq
  <2> QED BY <2>2, <2>3, <2>4 DEF x
<1>4. more \in Seq(AllPassages) /\ SaidIn(more) = SaidOf(p.prose) \o SaidOf(p.code)
  <2>1. CASE p.fenced
    <3>1. more = <<Passage("code", p.code)>> /\ SaidOf(p.prose) = <<>>
      BY <1>1, <2>1, SaidOfStep
    <3>2. <<>> \o SaidOf(p.code) = SaidOf(p.code)
      BY <1>1, SaidOfStep, ConcatEmptySeq
    <3> HIDE DEF more, p
    <3> QED BY <1>1, <1>3, <3>1, <3>2
  <2>2. CASE ~ p.fenced
    <3>1. more = ReadProse(p.prose) /\ SaidOf(p.code) = <<>>
      BY <1>1, <2>2, SaidOfStep
    <3>2. SaidOf(p.prose) \o <<>> = SaidOf(p.prose)
      BY <1>1, SaidOfStep, ConcatEmptySeq
    <3>3. ReadProse(p.prose) \in Seq(AllPassages)
      BY <1>1, ProseGoesOn DEF GoesOn
    <3> HIDE DEF more, p
    <3> QED BY <1>1, <3>1, <3>2, <3>3, ProseSays
  <2> QED BY <2>1, <2>2
<1>5. TakenSays(p) = SaidOf(text)
  BY TextSays
<1> HIDE DEF p, more
<1>6. SaidIn(read) = SaidOf(text)
  BY <1>1, <1>4, <1>5, SaidInConcat DEF TakenSays
<1>7. SaidIn(<<whole>>) = SaidOf(text)
  BY <1>3
<1>8. <<whole>> # <<>>
  OBVIOUS
<1> HIDE DEF read, whole
<1> QED BY <1>2, <1>6, <1>7, <1>8

\* The elements of a message say what its passages do, stand back as its voice
\* does, and only the first of them is named.
LEMMA HtmlSays ==
  ASSUME NEW text \in Seq(LineKinds), NEW reading, reading.label \in BOOLEAN
  PROVE  LET html == SaidHtml(text, reading)
         IN  /\ SaidIn(html) = SaidOf(text)
             /\ {j \in DOMAIN html : html[j].named} = IF reading.label THEN {1} ELSE {}
             /\ \A j \in DOMAIN html : html[j].dim = reading.setBack
<1> DEFINE P == AllPassages
           ps == Passages(text)
           none == Passage("prose", <<>>)
           os == Opened(ps, reading)
           html == SaidHtml(text, reading)
           prose == {i \in DOMAIN os : os[i].kind = "prose"}
<1>1. ps \in Seq(P) /\ ps # <<>> /\ SaidIn(ps) = SaidOf(text)
      /\ SaidOf(text) \in Seq(LineKinds)
  BY PassagesSay, KeptBegins, SaidOfStep
<1>2. none \in P /\ none.kind = "prose" /\ none.lines = <<>> /\ <<none>> \in Seq(P)
  <2>1. none \in P
    BY PassageIs, EmptySeq
  <2>2. none.kind = "prose" /\ none.lines = <<>>
    BY DEF Passage
  <2> HIDE DEF P, none
  <2> QED BY <2>1, <2>2
<1> HIDE DEF P, ps, none
<1>3. os = IF reading.label /\ Head(ps).kind # "prose" THEN <<none>> \o ps ELSE ps
  BY DEF Opened, none
<1>4. SaidIn(<<none>> \o ps) = SaidIn(ps)
  <2>1. <<none>> = Append(<<>>, none) /\ <<>> \in Seq(P)
    BY <1>2, EmptySeq
  <2>2. SaidIn(<<none>>) = <<>> \o <<>>
    BY <1>2, <2>1, SaidInStep, SaidOfStep DEF P
  <2>3. SaidIn(<<none>> \o ps) = SaidIn(<<none>>) \o SaidIn(ps)
    BY <1>1, <1>2, SaidInConcat DEF P
  <2>4. <<>> \o <<>> = <<>> /\ <<>> \o SaidIn(ps) = SaidIn(ps)
    BY <1>1, ConcatEmptySeq
  <2> QED BY <2>2, <2>3, <2>4
<1>5. /\ os \in Seq(P) /\ SaidIn(os) = SaidOf(text) /\ Len(os) \in Nat /\ Len(os) # 0
      /\ (reading.label => os[1].kind = "prose")
  <2>1. CASE reading.label /\ Head(ps).kind # "prose"
    <3>1. os = <<none>> \o ps
      BY <1>3, <2>1
    <3>2. os \in Seq(P) /\ Len(os) = 1 + Len(ps) /\ os[1] = none /\ Len(ps) \in Nat
      BY <1>1, <1>2, <3>1
    <3> QED BY <1>1, <1>2, <1>4, <3>1, <3>2
  <2>2. CASE ~ (reading.label /\ Head(ps).kind # "prose")
    <3>1. os = ps
      BY <1>3, <2>2
    <3>2. Head(ps) = ps[1] /\ Len(ps) \in Nat /\ Len(ps) # 0
      BY <1>1, EmptySeq, LenProperties DEF Head
    <3> QED BY <1>1, <2>2, <3>1, <3>2
  <2> QED BY <2>1, <2>2
<1> HIDE DEF os
<1>6. html = [i \in DOMAIN os |->
                [Element(os[i], reading) EXCEPT
                   !.named = reading.label /\ i \in prose /\ \A j \in prose : i <= j]]
  BY DEF SaidHtml, Elements, os, ps
<1> HIDE DEF html
<1>7. /\ DOMAIN html = DOMAIN os
      /\ \A i \in DOMAIN os :
            /\ html[i].lines = os[i].lines /\ html[i].dim = reading.setBack
            /\ html[i].named = (reading.label /\ i \in prose /\ \A j \in prose : i <= j)
  BY <1>6 DEF Element
<1>8. SaidIn(html) = SaidIn(os)
  <2>1. [j \in DOMAIN html |-> SaidOf(html[j].lines)]
          = [j \in DOMAIN os |-> SaidOf(os[j].lines)]
    BY <1>7
  <2> QED BY <2>1 DEF SaidIn
<1>9. {j \in DOMAIN html : html[j].named} = IF reading.label THEN {1} ELSE {}
  <2>1. DOMAIN os = 1..Len(os) /\ 1 \in DOMAIN os
    BY <1>5, LenProperties
  <2>2. reading.label => 1 \in prose
    BY <1>5, <2>1
  <2>3. prose \in SUBSET (1..Len(os))
    BY <2>1
  <2> HIDE DEF prose
  <2>4. ASSUME reading.label, NEW i \in DOMAIN os
        PROVE  (i \in prose /\ \A j \in prose : i <= j) <=> i = 1
    BY <1>5, <2>1, <2>2, <2>3, <2>4
  <2> QED BY <1>7, <2>1, <2>4
<1> QED BY <1>5, <1>7, <1>8, <1>9 DEF html

LEMMA ReadingIs ==
  ASSUME NEW block \in Events, IsMessage(block)
  PROVE  /\ ReadingOf(block).label \in BOOLEAN
         /\ ReadingOf(block).setBack = (block.voice # "agent")
<1>1. block.voice \in {"user", "agent", "thought", "none"}
      /\ (block.kind = "chunk" <=> block.voice # "none")
      /\ block.kind \in {"turn", "chunk", "notice"}
  BY DEF Events, Voices, None, IsMessage
<1>2. CASE block.kind = "turn" \/ block.voice = "user"
  BY <1>1, <1>2 DEF ReadingOf, Reading
<1>3. CASE block.kind # "turn" /\ block.voice = "agent"
  BY <1>1, <1>3 DEF ReadingOf, Reading
<1>4. CASE block.kind # "turn" /\ block.voice = "thought"
  BY <1>1, <1>4 DEF ReadingOf, Reading
<1>5. CASE block.kind = "notice" /\ block.voice = "none"
  BY <1>1, <1>5 DEF ReadingOf, Reading
<1> QED BY <1>1, <1>2, <1>3, <1>4, <1>5

\* Every message is on the page whole, and whoever spoke is named once, as it
\* opens.
THEOREM EverythingIsSaid == ASSUME PayloadsOK PROVE Spec => []NothingUnsaid
<1>1. LogInv => NothingUnsaid
  <2> SUFFICES ASSUME LogInv, NEW i \in DOMAIN Blocks(settled), IsMessage(Blocks(settled)[i])
               PROVE  AllSaid(Blocks(settled)[i])
    BY DEF NothingUnsaid
  <2> DEFINE block == Blocks(settled)[i]
  <2>1. block \in Events /\ block.text \in Seq(LineKinds) /\ IsMessage(block)
    BY BlocksAreEvents DEF LogInv, LogTypes
  <2> HIDE DEF block
  <2>2. ReadingOf(block).label \in BOOLEAN
        /\ ReadingOf(block).setBack = (block.voice # "agent")
    BY <2>1, ReadingIs
  <2>3. AllSaid(block)
    <3> DEFINE reading == ReadingOf(block)
               html == SaidHtml(block.text, reading)
    <3>1. /\ SaidIn(html) = SaidOf(block.text)
          /\ {j \in DOMAIN html : html[j].named} = IF reading.label THEN {1} ELSE {}
          /\ \A j \in DOMAIN html : html[j].dim = reading.setBack
      <4> HIDE DEF reading
      <4> QED BY <2>1, <2>2, HtmlSays DEF reading
    <3> HIDE DEF html
    <3>2. \A j \in DOMAIN html : html[j].dim <=> block.voice # "agent"
      BY <2>2, <3>1
    <3>3. OnThePage(block, html)
      BY <3>1, <3>2 DEF OnThePage
    <3> QED BY <3>3 DEF AllSaid, html
  <2> QED BY <2>3 DEF block
<1> QED BY <1>1, LogInvariant, PTL

-----------------------------------------------------------------------------
(***************************************************************************)
(* What the console shows of the chats: a heading a chat stands under was  *)
(* true of it while the page was made.                                     *)
(***************************************************************************)

Manifests == {"none", "open", "archived", "bad"}
Stages == {"idle", "listing", "scanning", "reading"}
Headings == Statuses \cup {"Open"}

\* Types, and that only a chat there is has a container or is getting one.
SurveyTypes ==
  /\ state \in [Chats -> Manifests]
  /\ boxes \subseteq Chats /\ asked \subseteq Chats
  /\ \A c \in boxes \cup asked : state[c] # "none"
  /\ pass \in [at : Stages, live : SUBSET Chats, known : BOOLEAN,
               left : SUBSET Chats, rows : SUBSET (Chats \X Statuses)]
  /\ seen \in [Chats -> SUBSET Headings] /\ revived \subseteq Chats

\* What is so while a pass runs is noted.
AllNoted == pass.at # "idle" => \A c \in Chats : Truth(c) \subseteq seen[c]

\* What the daemon said of an open chat was so when it said it, but for one
\* that has come back since: an archived one keeps its container for a while,
\* and is not told of by it.
ToldOf ==
  pass.at \in {"scanning", "reading"} /\ pass.known =>
    \A c \in Chats :
       \/ c \in revived \/ state[c] \in {"archived", "bad"}
       \/ c \in pass.live /\ "Live" \in seen[c]
       \/ c \notin pass.live /\ (state[c] = "none" \/ "Parked" \in seen[c])

\* A row is read off what was so.
RowWasTrue(c, status) ==
  /\ (IF status = "Archived" THEN "Archived" ELSE "Open") \in seen[c]
  /\ pass.known => c \in revived \/ status \in seen[c]

RowsWereTrue ==
  pass.at # "idle" => \A row \in pass.rows : RowWasTrue(row[1], row[2])

SurveyInv == SurveyTypes /\ AllNoted /\ ToldOf /\ RowsWereTrue /\ ShownWasTrue

-----------------------------------------------------------------------------
\* What a chat's truth is, by its manifest.
LEMMA TruthIs ==
  ASSUME SurveyTypes, NEW c \in Chats
  PROVE  /\ Truth(c) \subseteq Headings
         /\ state[c] = "archived" => "Archived" \in Truth(c)
         /\ state[c] = "open" => "Open" \in Truth(c)
         /\ state[c] = "open" /\ c \in boxes => "Live" \in Truth(c)
         /\ state[c] = "open" /\ c \notin boxes => "Parked" \in Truth(c)
  BY DEF Truth, Headings, Statuses, SurveyTypes, Manifests

\* Nothing is shown before the first pass.
LEMMA SurveyInitInv == ASSUME SurveyInit PROVE SurveyInv
<1>1. SurveyTypes
  BY DEF SurveyInit, SurveyTypes, Manifests, Stages, NoPass
<1>2. ShownWasTrue
  BY DEF SurveyInit, ShownWasTrue, Nothing
<1> QED BY <1>1, <1>2 DEF SurveyInv, SurveyInit, AllNoted, ToldOf, RowsWereTrue, NoPass

\* A chat's move, whatever it is.
ChatMoves(c) == \/ Create(c) \/ Spawn(c) \/ LetGo(c)
                \/ Archive(c) \/ Revive(c) \/ Garble(c)

\* A move makes true only what is noted, and a chat that comes back is counted
\* as one.
LEMMA MovesInv == ASSUME SurveyInv, NEW c \in Chats, ChatMoves(c) PROVE SurveyInv'
<1> USE DEF SurveyInv
<1>1. /\ pass.at # "idle" /\ Noted /\ UNCHANGED <<pass, shown>>
  BY DEF ChatMoves, Create, Spawn, LetGo, Archive, Revive, Garble, Moved
<1>2. /\ state' \in [Chats -> Manifests]
      /\ boxes' \subseteq Chats /\ asked' \subseteq Chats
      /\ \A d \in boxes' \cup asked' : state'[d] # "none"
      /\ revived \subseteq revived' /\ revived' \subseteq Chats
  BY SMTT(30) DEF ChatMoves, Create, Spawn, LetGo, Archive, Revive, Garble, Becomes,
     SurveyTypes, Manifests
<1>3. \A d \in Chats : Truth(d)' \subseteq Headings
  BY <1>2 DEF Truth, Headings, Statuses, Manifests
<1>4. \A d \in Chats : seen'[d] = seen[d] \cup Truth(d)'
  BY <1>1 DEF Noted
<1>5. SurveyTypes'
  <2>1. seen' \in [Chats -> SUBSET Headings]
    BY <1>1, <1>3 DEF Noted, SurveyTypes
  <2> QED BY <1>1, <1>2, <2>1 DEF SurveyTypes
<1>6. AllNoted'
  BY <1>4 DEF AllNoted
<1>7. ToldOf'
  <2> SUFFICES ASSUME pass.at \in {"scanning", "reading"}, pass.known,
                      NEW d \in Chats, d \notin revived',
                      state'[d] \notin {"archived", "bad"}
               PROVE  \/ d \in pass.live /\ "Live" \in seen'[d]
                      \/ /\ d \notin pass.live
                         /\ state'[d] = "none" \/ "Parked" \in seen'[d]
    BY <1>1 DEF ToldOf
  <2>1. state[d] \notin {"archived", "bad"} /\ d \notin revived
    BY <1>2, SMTT(30) DEF ChatMoves, Create, Spawn, LetGo, Archive, Revive, Garble, Becomes,
       SurveyTypes, Manifests
  <2>2. \/ d \in pass.live /\ "Live" \in seen[d]
        \/ d \notin pass.live /\ (state[d] = "none" \/ "Parked" \in seen[d])
    BY <2>1 DEF ToldOf
  <2>3. seen[d] \subseteq seen'[d]
    BY <1>4
  <2>4. CASE state[d] = "none" /\ state'[d] # "none"
    <3>1. state'[d] = "open" /\ d \notin boxes'
      BY <2>4, SMTT(30) DEF ChatMoves, Create, Spawn, LetGo, Archive, Revive, Garble,
         Becomes, SurveyTypes, Manifests
    <3>2. "Parked" \in Truth(d)'
      BY <3>1 DEF Truth
    <3> QED BY <1>4, <2>2, <2>3, <3>2
  <2> QED BY <2>2, <2>3, <2>4
<1>8. RowsWereTrue'
  <2>1. \A d \in Chats : seen[d] \subseteq seen'[d]
    BY <1>4
  <2> QED BY <1>1, <1>2, <2>1 DEF RowsWereTrue, RowWasTrue, SurveyTypes
<1>9. ShownWasTrue'
  BY <1>1 DEF ShownWasTrue
<1> QED BY <1>5, <1>6, <1>7, <1>8, <1>9

\* A pass begins with what is so.
LEMMA BeginInv == ASSUME SurveyInv, Begin PROVE SurveyInv'
<1> USE DEF SurveyInv
<1>1. /\ pass' = [at |-> "listing", live |-> {}, known |-> TRUE, left |-> {}, rows |-> {}]
      /\ UNCHANGED <<state, boxes, asked, shown>> /\ revived' = {}
      /\ seen' = [c \in Chats |-> Truth(c)]
  BY DEF Begin, NoPass
<1>2. \A c \in Chats : Truth(c) \subseteq Headings
  BY TruthIs
<1>3. SurveyTypes'
  BY <1>1, <1>2 DEF SurveyTypes, Stages
<1>4. AllNoted'
  BY <1>1 DEF AllNoted, Truth
<1> QED BY <1>1, <1>3, <1>4 DEF ToldOf, RowsWereTrue, ShownWasTrue

\* The containers are those of now.
LEMMA ListInv == ASSUME SurveyInv, List PROVE SurveyInv'
<1> USE DEF SurveyInv
<1>1. /\ pass.at = "listing" /\ UNCHANGED <<state, boxes, asked, shown, seen, revived, moves>>
      /\ pass'.at = "scanning" /\ pass'.left = pass.left /\ pass'.rows = pass.rows
      /\ \/ pass'.live = boxes /\ pass'.known = pass.known
         \/ pass'.live = pass.live /\ pass'.known = FALSE
  BY DEF List, SurveyTypes
<1>2. SurveyTypes'
  <2> DEFINE Passes == [at : Stages, live : SUBSET Chats, known : BOOLEAN,
                        left : SUBSET Chats, rows : SUBSET (Chats \X Statuses)]
  <2>1. pass \in Passes /\ boxes \in SUBSET Chats /\ "scanning" \in Stages
    BY DEF SurveyTypes, Stages
  <2>2. ASSUME pass' = [pass EXCEPT !.at = "scanning", !.live = boxes]
        PROVE  pass' \in Passes
    BY <2>1, <2>2
  <2>3. ASSUME pass' = [pass EXCEPT !.at = "scanning", !.known = FALSE]
        PROVE  pass' \in Passes
    BY <2>1, <2>3
  <2>4. pass' \in Passes
    BY <2>2, <2>3 DEF List
  <2> QED BY <1>1, <2>4 DEF SurveyTypes
<1>3. AllNoted'
  BY <1>1 DEF AllNoted, Truth
<1>4. ToldOf'
  <2> SUFFICES ASSUME pass'.known, NEW c \in Chats, c \notin revived,
                      state[c] \notin {"archived", "bad"}
               PROVE  \/ c \in pass'.live /\ "Live" \in seen[c]
                      \/ /\ c \notin pass'.live
                         /\ state[c] = "none" \/ "Parked" \in seen[c]
    BY <1>1 DEF ToldOf
  <2>1. pass'.live = boxes
    BY <1>1
  <2>2. Truth(c) \subseteq seen[c]
    BY <1>1 DEF AllNoted
  <2>3. c \in boxes => state[c] # "none"
    BY DEF SurveyTypes
  <2> QED BY <2>1, <2>2, <2>3, TruthIs DEF SurveyTypes, Manifests
<1>5. RowsWereTrue'
  BY <1>1 DEF RowsWereTrue, RowWasTrue
<1>6. ShownWasTrue'
  BY <1>1 DEF ShownWasTrue
<1> QED BY <1>2, <1>3, <1>4, <1>5, <1>6

\* The directory says nothing of how a chat stands.
LEMMA ScanInv == ASSUME SurveyInv, Scan PROVE SurveyInv'
<1> USE DEF SurveyInv
<1>1. /\ pass.at = "scanning" /\ UNCHANGED <<state, boxes, asked, shown, seen, revived, moves>>
      /\ pass'.at = "reading" /\ pass'.rows = pass.rows
      /\ pass'.live = pass.live /\ pass'.known = pass.known
  BY DEF Scan, SurveyTypes
<1>2. SurveyTypes'
  <2>1. PICK missed \in SUBSET Chats :
          pass' = [pass EXCEPT !.at = "reading", !.left = Chats \ missed]
    BY DEF Scan
  <2>2. Chats \ missed \in SUBSET Chats /\ "reading" \in Stages
    BY DEF Stages
  <2>3. pass' \in [at : Stages, live : SUBSET Chats, known : BOOLEAN,
                   left : SUBSET Chats, rows : SUBSET (Chats \X Statuses)]
    BY <2>1, <2>2 DEF SurveyTypes
  <2> QED BY <1>1, <2>3 DEF SurveyTypes
<1>3. AllNoted'
  BY <1>1 DEF AllNoted, Truth
<1> QED BY <1>1, <1>2, <1>3 DEF ToldOf, RowsWereTrue, RowWasTrue, ShownWasTrue

\* What is read of a chat was so.
LEMMA ReadRow ==
  ASSUME SurveyInv, pass.at = "reading", NEW c \in Chats, state[c] \in {"open", "archived"}
  PROVE  /\ RuntimeStatus(state[c], pass.live, c) \in Statuses
         /\ RowWasTrue(c, RuntimeStatus(state[c], pass.live, c))
<1> USE DEF SurveyInv
<1>1. Truth(c) \subseteq seen[c]
  BY DEF AllNoted
<1>2. CASE state[c] = "archived"
  BY <1>1, <1>2, TruthIs DEF RuntimeStatus, Statuses, RowWasTrue
<1>3. CASE state[c] = "open"
  <2>1. "Open" \in seen[c]
    BY <1>1, <1>3, TruthIs
  <2>2. RuntimeStatus(state[c], pass.live, c) = IF c \in pass.live THEN "Live" ELSE "Parked"
    BY <1>3 DEF RuntimeStatus
  <2>3. pass.known => c \in revived \/ (IF c \in pass.live THEN "Live" ELSE "Parked") \in seen[c]
    BY <1>3 DEF ToldOf
  <2> QED BY <2>1, <2>2, <2>3 DEF RowWasTrue, Statuses
<1> QED BY <1>2, <1>3

\* A row more, or none.
LEMMA ReadInv == ASSUME SurveyInv, Read PROVE SurveyInv'
<1> USE DEF SurveyInv
<1>1. PICK c \in pass.left :
        LET row == <<c, RuntimeStatus(state[c], pass.live, c)>>
        IN  CASE state[c] = "none" ->
                   pass' = [pass EXCEPT !.left = @ \ {c}] /\ UNCHANGED shown
              [] state[c] = "bad" -> pass' = NoPass /\ shown' = Broken
              [] OTHER -> /\ pass' = [pass EXCEPT !.left = @ \ {c},
                                                 !.rows = @ \cup {row}]
                          /\ UNCHANGED shown
  BY DEF Read
<1>2. /\ pass.at = "reading" /\ UNCHANGED <<state, boxes, asked, seen, revived, moves>>
      /\ c \in Chats
  BY DEF Read, SurveyTypes
<1>3. CASE state[c] = "bad"
  <2>1. pass' = NoPass /\ shown' = Broken
    BY <1>1, <1>3
  <2>2. SurveyTypes'
    BY <1>2, <2>1 DEF SurveyTypes, NoPass, Stages
  <2>3. ShownWasTrue'
    BY <2>1 DEF ShownWasTrue, Broken, Nothing
  <2> QED BY <2>1, <2>2, <2>3 DEF NoPass, AllNoted, ToldOf, RowsWereTrue
<1>4. CASE state[c] # "bad"
  <2> DEFINE status == RuntimeStatus(state[c], pass.live, c)
  <2>1. \/ pass' = [pass EXCEPT !.left = @ \ {c}]
        \/ /\ state[c] \in {"open", "archived"}
           /\ pass' = [pass EXCEPT !.left = @ \ {c}, !.rows = @ \cup {<<c, status>>}]
    BY <1>1, <1>2, <1>4 DEF SurveyTypes, Manifests
  <2>a. shown' = shown
    BY <1>1, <1>4
  <2>2. state[c] \in {"open", "archived"} => status \in Statuses /\ RowWasTrue(c, status)
    BY <1>2, ReadRow
  <2> HIDE DEF status
  <2>b. /\ pass'.at = "reading" /\ pass'.live = pass.live /\ pass'.known = pass.known
        /\ \/ pass'.rows = pass.rows
           \/ /\ state[c] \in {"open", "archived"}
              /\ pass'.rows = pass.rows \cup {<<c, status>>}
    BY <1>2, <2>1 DEF SurveyTypes
  <2>3. SurveyTypes'
    <3>1. state[c] \in {"open", "archived"} => <<c, status>> \in Chats \X Statuses
      BY <1>2, <2>2
    <3>2. pass' \in [at : Stages, live : SUBSET Chats, known : BOOLEAN,
                     left : SUBSET Chats, rows : SUBSET (Chats \X Statuses)]
      <4>1. CASE pass' = [pass EXCEPT !.left = @ \ {c}]
        BY <4>1 DEF SurveyTypes
      <4>2. CASE /\ state[c] \in {"open", "archived"}
                 /\ pass' = [pass EXCEPT !.left = @ \ {c},
                                         !.rows = @ \cup {<<c, status>>}]
        <5>1. pass.rows \cup {<<c, status>>} \in SUBSET (Chats \X Statuses)
          BY <3>1, <4>2 DEF SurveyTypes
        <5>2. pass.left \ {c} \in SUBSET Chats
          BY DEF SurveyTypes
        <5> QED BY <4>2, <5>1, <5>2 DEF SurveyTypes
      <4> QED BY <2>1, <4>1, <4>2
    <3> QED BY <1>2, <3>2 DEF SurveyTypes
  <2>4. RowsWereTrue'
    BY <1>2, <2>b, <2>2 DEF RowsWereTrue, RowWasTrue
  <2>5. AllNoted' /\ ToldOf' /\ ShownWasTrue'
    BY <1>2, <2>a, <2>b DEF AllNoted, Truth, ToldOf, ShownWasTrue
  <2> QED BY <2>3, <2>4, <2>5
<1> QED BY <1>3, <1>4

\* The page is the rows, under the headings there were answers for.
LEMMA ShowInv == ASSUME SurveyInv, Show PROVE SurveyInv'
<1> USE DEF SurveyInv
<1>1. /\ pass.at = "reading" /\ pass' = NoPass /\ UNCHANGED <<state, boxes, asked, seen, revived>>
      /\ shown' = StatusOf(pass.rows, pass.known)
  BY DEF Show
<1>2. SurveyTypes'
  BY <1>1 DEF SurveyTypes, NoPass, Stages
<1>3. \A row \in pass.rows : RowWasTrue(row[1], row[2]) /\ row[1] \in Chats
  BY <1>1 DEF RowsWereTrue, SurveyTypes
<1>4. ASSUME NEW h \in shown'.headings PROVE h[2] \in revived \/ h[1] \in seen[h[2]]
  <2>1. h \in ChatList(pass.rows, pass.known)
    BY <1>1 DEF StatusOf
  <2>2. CASE pass.known
    <3>1. PICK status \in Statuses, row \in pass.rows : row[2] = status /\ h = <<status, row[1]>>
      BY <2>1, <2>2 DEF ChatList, GroupedList, Under
    <3> QED BY <1>3, <2>2, <3>1 DEF RowWasTrue
  <2>3. CASE ~pass.known
    <3>1. \/ \E row \in pass.rows : row[2] = "Archived" /\ h = <<"Archived", row[1]>>
          \/ \E row \in pass.rows : row[2] # "Archived" /\ h = <<"Open", row[1]>>
      BY <2>1, <2>3 DEF ChatList, UngroupedList, Under
    <3> QED BY <1>3, <3>1 DEF RowWasTrue
  <2> QED BY <2>2, <2>3
<1>5. ASSUME NEW c \in shown'.pool PROVE c \in revived \/ "Live" \in seen[c]
  <2>1. pass.known /\ \E row \in pass.rows : row[2] = "Live" /\ c = row[1]
    BY <1>1 DEF StatusOf
  <2> QED BY <1>3, <2>1 DEF RowWasTrue
<1>6. ShownWasTrue'
  BY <1>1, <1>4, <1>5 DEF ShownWasTrue
<1> QED BY <1>1, <1>2, <1>6 DEF NoPass, AllNoted, ToldOf, RowsWereTrue

\* What a pass has been told, and what it has read, was so while it ran.
THEOREM SurveyInvariant == SurveySpec => []SurveyInv
<1>1. SurveyInit => SurveyInv
  BY SurveyInitInv
<1>2. SurveyInv /\ [SurveyNext]_surveyVars => SurveyInv'
  <2> SUFFICES ASSUME SurveyInv, [SurveyNext]_surveyVars PROVE SurveyInv' OBVIOUS
  <2>1. CASE UNCHANGED surveyVars
    BY <2>1 DEF surveyVars, SurveyInv, SurveyTypes, AllNoted, Truth, ToldOf, RowsWereTrue,
       RowWasTrue, ShownWasTrue
  <2> QED BY <2>1, MovesInv, BeginInv, ListInv, ScanInv, ReadInv, ShowInv
          DEF SurveyNext, ChatMoves
<1> QED BY <1>1, <1>2, PTL DEF SurveySpec

\* A chat is shown under a heading that was true of it while the page was made.
THEOREM ShownIsTrue == SurveySpec => []ShownWasTrue
<1>1. SurveyInv => ShownWasTrue
  BY DEF SurveyInv
<1> QED BY <1>1, SurveyInvariant, PTL

=============================================================================
