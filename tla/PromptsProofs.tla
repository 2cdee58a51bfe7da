---------------------------- MODULE PromptsProofs ----------------------------
(***************************************************************************)
(* A core that serves prompts keeps its trees and its pool, for every      *)
(* dataset, any number of requests and connections, and every warm pool.   *)
(***************************************************************************)
EXTENDS ChatsProofs, FiniteSetTheorems, WellFoundedInduction

-----------------------------------------------------------------------------
(***************************************************************************)
(* The chats and their trees.  What is proved here is of a core that       *)
(* serves prompts: an archive and a creation move a manifest in ways of    *)
(* their own. OpenMeansTree is kept because a manifest only ever turns     *)
(* open under a request that has a whole tree (Cloned), which needs to     *)
(* know that every other writer of a manifest works on a chat that is open *)
(* already (Placing), and that the only sweep is the first one, with       *)
(* nobody served (Serving).                                                *)
(***************************************************************************)

\* The chat is open on disk.
Open(c) == manifest[c].state = "open"

\* Every request is a prompt.
PromptsOnly ==
  \A p \in Requests : pc[p] \in PromptPcs \cup CapPcs \cup {"new", "done"}

\* Nobody is served before the first sweep is over (serve.rs).
BootAlone ==
  pc[Boot] # "done" => \A p \in Requests : pc[p] \in {"new", "done"}

\* Where there is no manifest no session is recorded.
AbsentIsBlank ==
  \A c \in Chats : manifest[c].state = "absent" => ~manifest[c].session

\* Only an open chat holds a connection.
HeldIsOpen == \A c \in Chats : held[c] # None => Open(c)

\* A wake of a chat it found open, or has opened.
WarmPcs   == {"w_tree", "w_house", "w_spawn", "w_climb", "w_record"}

\* Where a request counts on its chat being open ...
OpenPcs   == WarmPcs \cup {"w_hold", "handover", "unclaim", "lock",
                           "turn", "answer", "touch_read", "touch_write"}

\* ... and where on its being archived still.
RevivePcs == {"w_revive", "w_clone", "w_cloning", "w_wipe", "w_open"}

\* Whoever counts on an open chat has one.
WorksOnOpen == \A p \in Requests : pc[p] \in OpenPcs => Open(chat[p])

\* A copy of a manifest that will be written back is of an open chat.
SeenOpen == \A p \in Requests :
  pc[p] \in WarmPcs \cup {"touch_write"} => seen[p].state = "open"

\* A chat under revival is archived until its tree is there.
RevivesArchived == \A p \in Requests :
  pc[p] \in RevivePcs => manifest[chat[p]].state = "archived"

\* A revival opens a chat whose tree is whole.
Cloned == \A p \in Requests : pc[p] = "w_open" => workspace[chat[p]] = "tree"

\* The first sweep picks trees of chats that are not open.
SweepPicks == pc[Boot] # "done" => \A c \in victims[Boot] : ~Open(c)

\* Who is at work.
Serving == PromptsOnly /\ BootAlone

\* Which chat each request is at work on.
Placing == WorksOnOpen /\ SeenOpen /\ RevivesArchived /\ HeldIsOpen /\ AbsentIsBlank

\* Three steps write a manifest: the opening of a revived chat, the record of
\* a new session, and the touch.
LEMMA ManifestKept ==
  ASSUME Typed, PromptsOnly, [Next]_vars,
         ~\E p \in Procs : ReviveOpen(p) \/ WakeRecord(p) \/ TouchWrite(p)
  PROVE  manifest' = manifest
<1>1. \A p \in Procs : pc[p] \notin ArchivePcs \cup CreatePcs
  BY DEF PromptsOnly, Typed, BootOnlySweeps, ArchivePcs, GatePcs, CreatePcs,
     SweepPcs, PromptPcs, WakePcs, TurnPcs, CapPcs, Procs
<1>2. CASE \E p \in Procs : WakeStep(p) \/ TurnStep(p) \/ TurnEnd(p)
  BY <1>2, SMTT(30) DEF WakeStep, WakeClaim, WakeRead, WakeTree, ReviveCheck,
     CloneStart, CloneEnd, Wipe, House, WakeSpawn, Climb, WakeRelease,
     WakeForget, WakeHold, WakeDrop, TurnStep, Of, TurnLock, Unclaim, TurnSend,
     EndForget, TouchRead, TurnEnd, disk
<1>3. CASE \E p \in Procs : ArchiveStep(p) \/ CreateStep(p)
  BY <1>1, <1>3, SMTT(30) DEF ArchivePcs, GatePcs, CreatePcs, ArchiveStep,
     ArchiveClaim, ArchiveRead, ArchiveOf, ArchiveLock, Push, ArchiveWrite,
     ArchiveRelease, ArchiveForget, ArchiveRemove, ArchiveUnlock, ArchiveDrop,
     CreateStep, NewTree, Publish, CheckOut, NewSpawn, OpenSession,
     RecordSession, NewHold, NewTeardown
<1>4. CASE \E p \in Procs : SweepStep(p) \/ CapStep(p)
  BY <1>4, SMTT(30) DEF SweepStep, SweepScan, SweepLive, SweepList,
     SweepClaimed, SweepRemove, SweepOver, CapStep, CapScan, CapLive, CapBusy,
     CapWeigh, CapPark, CapForget, CapEnd, disk
<1>7. CASE (\E p \in Requests : Hangup(p)) \/ Crash
  BY <1>7 DEF Hangup, Crash, disk
<1>8. CASE \E p \in Requests, d \in Chats :
             BeginPrompt(p, d) \/ BeginArchive(p, d) \/ BeginCreate(p, d)
  BY <1>8 DEF BeginPrompt, BeginArchive, BeginCreate, Begin, disk
<1>9. CASE \E d \in Chats : AgentWrites(d) \/ StrayEnds(d) \/ ContainerExits(d)
  BY <1>9 DEF AgentWrites, StrayEnds, ContainerExits, disk
<1>10. CASE UNCHANGED vars
  BY <1>10 DEF vars, disk
<1> QED BY <1>2, <1>3, <1>4, <1>7, <1>8, <1>9, <1>10 DEF Next, Handler, Idle

\* Each of them writes the manifest of its own chat, as an open one.
LEMMA ManifestMoves ==
  ASSUME Typed, PromptsOnly, SeenOpen, [Next]_vars, NEW c \in Chats
  PROVE  \/ manifest'[c] = manifest[c]
         \/ /\ manifest'[c].state = "open"
            /\ \E p \in Requests :
                 chat[p] = c /\ (ReviveOpen(p) \/ WakeRecord(p) \/ TouchWrite(p))
<1>1. CASE ~\E p \in Procs : ReviveOpen(p) \/ WakeRecord(p) \/ TouchWrite(p)
  BY <1>1, ManifestKept
<1>2. ASSUME NEW p \in Procs, ReviveOpen(p) \/ WakeRecord(p) \/ TouchWrite(p)
      PROVE  \/ manifest'[c] = manifest[c]
             \/ /\ manifest'[c].state = "open"
                /\ chat[p] = c
  <2>1. /\ manifest \in [Chats -> Manifests] /\ clock \in Nat
        /\ seen[p] \in Manifests
        /\ p \in Requests
    BY <1>2 DEF Typed, TypeOK, DiskOK, LocalsOK, BootOnlySweeps, SweepPcs,
       Procs, ReviveOpen, WakeRecord, TouchWrite
  <2>2. /\ [seen[p] EXCEPT !.state = "open"].state = "open"
        /\ [seen[p] EXCEPT !.session = TRUE].state = seen[p].state
        /\ [seen[p] EXCEPT !.active = clock + 1].state = seen[p].state
    BY <2>1 DEF Manifests
  <2>3. CASE manifest' = manifest
    BY <2>3
  <2>4. ASSUME manifest' # manifest
        PROVE  \E m : manifest' = [manifest EXCEPT ![chat[p]] = m] /\ m.state = "open"
    <3>1. CASE ReviveOpen(p)
      BY <2>2, <2>4, <3>1 DEF ReviveOpen
    <3>2. CASE WakeRecord(p)
      BY <2>1, <2>2, <2>4, <3>2 DEF WakeRecord, SeenOpen, WarmPcs
    <3>3. CASE TouchWrite(p)
      BY <2>1, <2>2, <2>4, <3>3 DEF TouchWrite, SeenOpen, WarmPcs
    <3> QED BY <1>2, <3>1, <3>2, <3>3
  <2> QED BY <2>1, <2>3, <2>4
<1>3. \A p \in Procs : ReviveOpen(p) \/ WakeRecord(p) \/ TouchWrite(p) => p \in Requests
  BY DEF Typed, BootOnlySweeps, SweepPcs, Procs, ReviveOpen, WakeRecord,
     TouchWrite
<1> QED BY <1>1, <1>2, <1>3

\* An open chat stays open where nothing archives it.
LEMMA OpenStays ==
  ASSUME Typed, PromptsOnly, SeenOpen, [Next]_vars, NEW c \in Chats, Open(c)
  PROVE  Open(c)'
BY ManifestMoves DEF Open

\* A handler that moves is that of a prompt, or the first sweep.
LEMMA WhoMoves ==
  ASSUME Typed, Serving, NEW p \in Procs, Handler(p) \/ CapStep(p)
  PROVE  \/ /\ p \in Requests /\ pc[Boot] = "done"
            /\ WakeStep(p) \/ TurnStep(p) \/ TurnEnd(p) \/ CapStep(p)
         \/ p = Boot /\ pc[Boot] # "done" /\ SweepStep(p)
<1>1. CASE SweepStep(p)
  BY <1>1, ConstantsOK, SMTT(30) DEF Serving, PromptsOnly, Procs, PromptPcs,
     WakePcs, TurnPcs, CapPcs, SweepStep, SweepScan, SweepLive, SweepList,
     SweepClaimed, SweepRemove, SweepOver
<1>2. CASE ArchiveStep(p) \/ CreateStep(p)
  <2>1. pc[p] \notin ArchivePcs \cup CreatePcs
    BY DEF Serving, PromptsOnly, Typed, BootOnlySweeps, ArchivePcs, GatePcs,
       CreatePcs, SweepPcs, PromptPcs, WakePcs, TurnPcs, CapPcs, Procs
  <2> QED
    BY <1>2, <2>1, SMTT(30) DEF ArchivePcs, GatePcs, CreatePcs, ArchiveStep,
       ArchiveClaim, ArchiveRead, ArchiveOf, ArchiveLock, Push, ArchiveWrite,
       ArchiveRelease, ArchiveForget, ArchiveRemove, ArchiveUnlock,
       ArchiveDrop, CreateStep, NewTree, Publish, CheckOut, NewSpawn,
       OpenSession, RecordSession, NewHold, NewTeardown
<1>3. CASE WakeStep(p) \/ TurnStep(p) \/ TurnEnd(p) \/ CapStep(p)
  <2>1. pc[p] \notin SweepPcs \cup {"new", "done"}
    BY <1>3, SMTT(30) DEF SweepPcs, WakeStep, WakeClaim, WakeRead, WakeTree,
       ReviveCheck, CloneStart, CloneEnd, Wipe, ReviveOpen, House, WakeSpawn,
       Climb, WakeRelease, WakeForget, WakeRecord, WakeHold, WakeDrop,
       TurnStep, Of, TurnLock, Unclaim, TurnSend, EndForget, TouchRead,
       TouchWrite, TurnEnd, CapStep, CapScan, CapLive, CapBusy, CapWeigh,
       CapPark, CapForget, CapEnd
  <2> QED BY <1>3, <2>1 DEF Typed, BootOnlySweeps, Serving, BootAlone, Procs
<1> QED BY <1>1, <1>2, <1>3 DEF Handler

\* A step of a prompt moves that request alone, and on through its handler.
LEMMA PromptMoves ==
  ASSUME Typed, Serving, NEW p \in Requests,
         WakeStep(p) \/ TurnStep(p) \/ TurnEnd(p) \/ CapStep(p)
  PROVE  /\ \A q \in Procs : q # p => pc'[q] = pc[q]
         /\ pc'[p] \in PromptPcs \cup CapPcs \cup {"done"}
<1>1. pc \in [Procs -> Pcs] /\ pc[p] \in PromptPcs \cup CapPcs \cup {"new", "done"}
  BY DEF Typed, TypeOK, Serving, PromptsOnly
<1>2. CASE WakeStep(p)
  BY <1>1, <1>2, SMTT(30) DEF Procs, PromptPcs, WakePcs, TurnPcs, CapPcs,
     WakeStep, WakeClaim, WakeRead, WakeTree, ReviveCheck, CloneStart,
     CloneEnd, Wipe, ReviveOpen, House, WakeSpawn, Climb, WakeRelease,
     WakeForget, WakeRecord, WakeHold, WakeDrop, Goto
<1>3. CASE TurnStep(p) \/ TurnEnd(p)
  BY <1>1, <1>3, SMTT(30) DEF Procs, PromptPcs, WakePcs, TurnPcs, CapPcs,
     TurnStep, Of, TurnLock, Unclaim, TurnSend, EndForget, TouchRead,
     TouchWrite, TurnEnd, LetGo, Goto
<1>4. CASE CapStep(p)
  BY <1>1, <1>4, SMTT(30) DEF Procs, PromptPcs, WakePcs, TurnPcs, CapPcs,
     CapStep, CapScan, CapLive, CapBusy, CapWeigh, CapPark, CapForget, CapEnd,
     Done, Goto
<1> QED BY <1>2, <1>3, <1>4

\* A step of the first sweep moves no request, and touches nothing a request
\* has in hand but trees.
LEMMA SweepMoves ==
  ASSUME Typed, SweepStep(Boot)
  PROVE  /\ \A q \in Procs : q # Boot => pc'[q] = pc[q]
         /\ UNCHANGED <<manifest, held, container, claims, chat, conn, seen, spawned, parking, scan, busy>>
  BY SMTT(30) DEF Typed, TypeOK, Procs, SweepStep, SweepScan, SweepLive,
     SweepList, SweepClaimed, SweepRemove, SweepOver, SweepEnd, Goto, disk,
     plane, pipes, gates, locals, weighed

\* Every step keeps who is at work.
LEMMA NextServing ==
  ASSUME Ops \subseteq {"prompt"}, Typed, Serving, [Next]_vars
  PROVE  Serving'
<1>1. CASE \E p \in Procs : Handler(p) \/ CapStep(p)
  <2> PICK p \in Procs : Handler(p) \/ CapStep(p)
    BY <1>1
  <2>1. CASE p \in Requests /\ pc[Boot] = "done" /\ (WakeStep(p) \/ TurnStep(p) \/ TurnEnd(p) \/ CapStep(p))
    BY <2>1, PromptMoves, ConstantsOK DEF Serving, PromptsOnly, BootAlone,
       Procs
  <2>2. CASE p = Boot /\ pc[Boot] # "done" /\ SweepStep(p)
    BY <2>2, SweepMoves, ConstantsOK DEF Serving, PromptsOnly, BootAlone, Procs
  <2> QED BY <2>1, <2>2, WhoMoves
<1>2. CASE \E p \in Requests : Hangup(p)
  BY <1>2, ConstantsOK DEF Typed, TypeOK, Hangup, Done, Goto, Serving,
     PromptsOnly, BootAlone, Procs
<1>3. CASE \E p \in Requests, c \in Chats :
             BeginPrompt(p, c) \/ BeginArchive(p, c) \/ BeginCreate(p, c)
  <2>1. PICK p \in Requests, c \in Chats : BeginPrompt(p, c)
    BY <1>3 DEF BeginCreate, BeginArchive, Begin
  <2> QED
    BY <2>1, ConstantsOK DEF Typed, TypeOK, BeginPrompt, Begin, Goto, Serving,
       PromptsOnly, BootAlone, Procs, PromptPcs
<1>4. CASE \E c \in Chats : AgentWrites(c) \/ StrayEnds(c) \/ ContainerExits(c)
  BY <1>4 DEF AgentWrites, StrayEnds, ContainerExits, Serving, PromptsOnly,
     BootAlone
<1>5. CASE Crash
  BY <1>5, ConstantsOK DEF Crash, Serving, PromptsOnly, BootAlone, Procs
<1>6. CASE UNCHANGED vars
  BY <1>6 DEF vars, Serving, PromptsOnly, BootAlone
<1> QED BY <1>1, <1>2, <1>3, <1>4, <1>5, <1>6 DEF Next, Idle

\* What the other requests have in hand is as it was.
LEMMA OthersStay ==
  ASSUME Typed, Serving, NEW p \in Requests,
         WakeStep(p) \/ TurnStep(p) \/ TurnEnd(p) \/ CapStep(p)
  PROVE  \A q \in Procs : q # p => /\ pc'[q] = pc[q] /\ chat'[q] = chat[q]
                                   /\ seen'[q] = seen[q] /\ victims'[q] = victims[q]
<1>1. /\ chat \in [Procs -> Chats \cup {None}] /\ seen \in [Procs -> Manifests]
      /\ victims \in [Procs -> SUBSET Chats]
  BY DEF Typed, TypeOK, LocalsOK
<1>0. \A q \in Procs : q # p => pc'[q] = pc[q]
  BY PromptMoves
<1>2. CASE WakeStep(p)
  BY <1>0, <1>1, <1>2, SMTT(30) DEF WakeStep, WakeClaim, WakeRead, WakeTree,
     ReviveCheck, CloneStart, CloneEnd, Wipe, ReviveOpen, House, WakeSpawn,
     Climb, WakeRelease, WakeForget, WakeRecord, WakeHold, WakeDrop, locals
<1>3. CASE TurnStep(p) \/ TurnEnd(p)
  BY <1>0, <1>1, <1>3, SMTT(30) DEF TurnStep, Of, TurnLock, Unclaim, TurnSend,
     EndForget, TouchRead, TouchWrite, TurnEnd, LetGo, locals
<1>4. CASE CapStep(p)
  BY <1>0, <1>1, <1>4, SMTT(30) DEF CapStep, CapScan, CapLive, CapBusy,
     CapWeigh, CapPark, CapForget, CapEnd, Done, locals
<1> QED BY <1>2, <1>3, <1>4

\* A wake goes on to where it counts on an open chat only with one.
LEMMA WakeKeepsOpen ==
  ASSUME Typed, Serving, Placing, [Next]_vars, NEW p \in Requests, WakeStep(p)
  PROVE  pc'[p] \in OpenPcs => chat'[p] = chat[p] /\ manifest'[chat[p]].state = "open"
<1>1. /\ manifest \in [Chats -> Manifests] /\ pc \in [Procs -> Pcs] /\ p \in Procs
      /\ chat[p] \in Chats \cup {None}
      /\ pc[p] # "new" /\ pc[p] # "done" => chat[p] \in Chats
      /\ seen[p] \in Manifests
  BY DEF Typed, TypeOK, DiskOK, AtWork, LocalsOK, Procs
<1>2. \A c \in Chats : manifest[c].state = "open" => manifest'[c].state = "open"
  BY ManifestMoves DEF Placing, Serving
<1>3. CASE WakeRead(p)
  BY <1>1, <1>2, <1>3 DEF WakeRead, Placing, AbsentIsBlank, OpenPcs, WarmPcs,
     Goto, Open, Manifests
<1>4. CASE ReviveOpen(p)
  <2>1. [seen[p] EXCEPT !.state = "open"].state = "open"
    BY <1>1 DEF Manifests
  <2> QED
    BY <1>1, <1>4, <2>1 DEF ReviveOpen, OpenPcs, WarmPcs, Goto, Open
<1>5. CASE ~WakeRead(p) /\ ~ReviveOpen(p)
  <2>1. pc'[p] \in OpenPcs => pc[p] \in OpenPcs /\ chat'[p] = chat[p]
    BY <1>1, <1>5, SMTT(30) DEF OpenPcs, WarmPcs, Goto, WakeStep, WakeClaim,
       WakeTree, ReviveCheck, CloneStart, CloneEnd, Wipe, House, WakeSpawn,
       Climb, WakeRelease, WakeForget, WakeRecord, WakeHold, WakeDrop, locals
  <2> QED BY <1>1, <1>2, <2>1 DEF Placing, WorksOnOpen, OpenPcs, WarmPcs, Open
<1> QED BY <1>3, <1>4, <1>5

\* So does a turn: a connection that is held is held for an open chat.
LEMMA TurnKeepsOpen ==
  ASSUME Typed, Serving, Placing, [Next]_vars, NEW p \in Requests,
         TurnStep(p) \/ TurnEnd(p) \/ CapStep(p)
  PROVE  pc'[p] \in OpenPcs => chat'[p] = chat[p] /\ manifest'[chat[p]].state = "open"
<1>1. /\ pc \in [Procs -> Pcs] /\ p \in Procs
      /\ pc[p] # "new" /\ pc[p] # "done" => chat[p] \in Chats
  BY DEF Typed, TypeOK, AtWork, Procs
<1>2. \A c \in Chats : manifest[c].state = "open" => manifest'[c].state = "open"
  BY ManifestMoves DEF Placing, Serving
<1>3. CASE Of(p)
  BY <1>1, <1>2, <1>3 DEF Of, Placing, HeldIsOpen, OpenPcs, WarmPcs, Goto, Open
<1>4. CASE ~Of(p)
  <2>1. pc'[p] \in OpenPcs => pc[p] \in OpenPcs /\ chat'[p] = chat[p]
    BY <1>1, <1>4, SMTT(30) DEF OpenPcs, WarmPcs, Goto, TurnStep, TurnLock,
       Unclaim, TurnSend, EndForget, TouchRead, TouchWrite, TurnEnd, LetGo,
       CapStep, CapScan, CapLive, CapBusy, CapWeigh, CapPark, CapForget,
       CapEnd, Done, locals
  <2> QED BY <1>1, <1>2, <2>1 DEF Placing, WorksOnOpen, OpenPcs, WarmPcs, Open
<1> QED BY <1>3, <1>4

\* A copy that will be written back was read from an open chat.
LEMMA PromptKeepsSeen ==
  ASSUME Typed, Serving, Placing, NEW p \in Requests,
         WakeStep(p) \/ TurnStep(p) \/ TurnEnd(p) \/ CapStep(p)
  PROVE  pc'[p] \in WarmPcs \cup {"touch_write"} => seen'[p].state = "open"
<1>1. /\ manifest \in [Chats -> Manifests] /\ pc \in [Procs -> Pcs] /\ p \in Procs
      /\ pc[p] # "new" /\ pc[p] # "done" => chat[p] \in Chats
      /\ seen \in [Procs -> Manifests]
  BY DEF Typed, TypeOK, DiskOK, AtWork, LocalsOK, Procs
<1>2. CASE WakeRead(p)
  BY <1>1, <1>2 DEF WakeRead, Placing, AbsentIsBlank, WarmPcs, Goto, Manifests
<1>3. CASE ReviveOpen(p)
  <2>1. [seen[p] EXCEPT !.state = "open"].state = "open"
    BY <1>1 DEF Manifests
  <2> QED BY <1>1, <1>3, <2>1 DEF ReviveOpen, WarmPcs, Goto
<1>4. CASE TouchRead(p)
  BY <1>1, <1>4 DEF TouchRead, Placing, WorksOnOpen, Open, OpenPcs, WarmPcs,
     Goto
<1>5. CASE ~WakeRead(p) /\ ~ReviveOpen(p) /\ ~TouchRead(p)
  <2>1. pc'[p] \in WarmPcs \cup {"touch_write"} =>
          pc[p] \in WarmPcs \cup {"touch_write"} /\ seen'[p] = seen[p]
    BY <1>1, <1>5, SMTT(30) DEF WarmPcs, Goto, WakeStep, WakeClaim, WakeTree,
       ReviveCheck, CloneStart, CloneEnd, Wipe, House, WakeSpawn, Climb,
       WakeRelease, WakeForget, WakeRecord, WakeHold, WakeDrop, TurnStep, Of,
       TurnLock, Unclaim, TurnSend, EndForget, TouchWrite, TurnEnd, LetGo,
       CapStep, CapScan, CapLive, CapBusy, CapWeigh, CapPark, CapForget,
       CapEnd, Done, locals
  <2> QED BY <2>1 DEF Placing, SeenOpen
<1> QED BY <1>2, <1>3, <1>4, <1>5

\* Nobody opens a chat under revival but its reviver: the claim again.
LEMMA PromptKeepsArchived ==
  ASSUME Typed, Guarded, Serving, Placing, [Next]_vars, NEW p \in Requests,
         WakeStep(p) \/ TurnStep(p) \/ TurnEnd(p) \/ CapStep(p),
         NEW q \in Requests, pc'[q] \in RevivePcs
  PROVE  chat'[q] = chat[q] /\ manifest'[chat[q]].state = "archived"
<1>1. /\ manifest \in [Chats -> Manifests] /\ pc \in [Procs -> Pcs]
      /\ p \in Procs /\ q \in Procs
      /\ pc[p] # "new" /\ pc[p] # "done" => chat[p] \in Chats
      /\ pc[q] # "new" /\ pc[q] # "done" => chat[q] \in Chats
      /\ seen \in [Procs -> Manifests]
  BY DEF Typed, TypeOK, DiskOK, AtWork, LocalsOK, Procs
<1>2. CASE WakeRead(p) /\ q = p
  BY <1>1, <1>2 DEF WakeRead, RevivePcs, Goto, disk, Manifests
<1>3. CASE ~(WakeRead(p) /\ q = p)
  <2>1. pc[q] \in RevivePcs /\ chat'[q] = chat[q]
    <3>1. CASE q = p
      BY <1>1, <1>3, <3>1, SMTT(30) DEF RevivePcs, Goto, WakeStep, WakeClaim,
         WakeTree, ReviveCheck, CloneStart, CloneEnd, Wipe, ReviveOpen, House,
         WakeSpawn, Climb, WakeRelease, WakeForget, WakeRecord, WakeHold,
         WakeDrop, TurnStep, Of, TurnLock, Unclaim, TurnSend, EndForget,
         TouchRead, TouchWrite, TurnEnd, LetGo, CapStep, CapScan, CapLive,
         CapBusy, CapWeigh, CapPark, CapForget, CapEnd, Done, locals
    <3>2. CASE q # p
      BY <1>1, <3>2, OthersStay
    <3> QED BY <3>1, <3>2
  <2>2. manifest[chat[q]].state = "archived" /\ chat[q] \in Chats
    BY <1>1, <2>1 DEF Placing, RevivesArchived, RevivePcs
  <2>3. CASE manifest'[chat[q]] = manifest[chat[q]]
    BY <2>1, <2>2, <2>3
  <2>4. CASE manifest'[chat[q]] # manifest[chat[q]]
    <3>1. PICK r \in Requests :
            chat[r] = chat[q] /\ (ReviveOpen(r) \/ WakeRecord(r) \/ TouchWrite(r))
      BY <2>2, <2>4, ManifestMoves DEF Placing, Serving
    <3>2. pc[r] = "w_open" /\ ReviveOpen(r)
      BY <2>2, <3>1 DEF Placing, WorksOnOpen, OpenPcs, WarmPcs, Open,
         ReviveOpen, WakeRecord, TouchWrite
    <3>3. HoldsClaim(r) /\ HoldsClaim(q)
      BY <2>1, <3>2, ConstantsOK DEF HoldsClaim, ClaimPcs, WakePcs, RevivePcs
    <3>4. r = q
      BY <1>1, <3>1, <3>3 DEF Guarded, OneClaimant, Procs
    <3> QED
      BY <1>1, <3>2, <3>4 DEF ReviveOpen, Goto, RevivePcs
  <2> QED BY <2>3, <2>4
<1> QED BY <1>2, <1>3

\* What goes on around the handlers.
Around == \E c \in Chats : AgentWrites(c) \/ StrayEnds(c) \/ ContainerExits(c)

\* A step of a prompt, from the call to the end of the capping.
PromptStep(p) == WakeStep(p) \/ TurnStep(p) \/ TurnEnd(p) \/ CapStep(p)

\* All a core that serves prompts may do.
LEMMA Moves ==
  ASSUME Ops \subseteq {"prompt"}, Typed, Serving, [Next]_vars
  PROVE  \/ \E p \in Requests : pc[Boot] = "done" /\ PromptStep(p)
         \/ pc[Boot] # "done" /\ SweepStep(Boot)
         \/ \E p \in Requests : Hangup(p)
         \/ \E p \in Requests, c \in Chats : BeginPrompt(p, c)
         \/ Around
         \/ Crash
         \/ UNCHANGED vars
<1>1. CASE \E p \in Procs : Handler(p) \/ CapStep(p)
  BY <1>1, WhoMoves DEF PromptStep
<1>2. CASE \E p \in Requests, c \in Chats :
             BeginPrompt(p, c) \/ BeginArchive(p, c) \/ BeginCreate(p, c)
  BY <1>2 DEF BeginCreate, BeginArchive, Begin
<1> QED BY <1>1, <1>2 DEF Next, Idle, Around

\* A connection is held only for an open chat.
LEMMA PromptHolds ==
  ASSUME Typed, Serving, Placing, NEW p \in Requests, PromptStep(p),
         NEW c \in Chats,
         held'[c] # None
  PROVE  held[c] # None \/ Open(c)
<1>1. /\ pc \in [Procs -> Pcs] /\ p \in Procs /\ held \in [Chats -> Conns \cup {None}]
  BY DEF Typed, TypeOK, PipesOK, Procs
<1>2. CASE WakeHold(p)
  BY <1>1, <1>2 DEF WakeHold, Placing, WorksOnOpen, OpenPcs
<1>3. CASE ~WakeHold(p)
  BY <1>1, <1>3, SMTT(30) DEF PromptStep, WakeStep, WakeClaim, WakeRead,
     WakeTree, ReviveCheck, CloneStart, CloneEnd, Wipe, ReviveOpen, House,
     WakeSpawn, Climb, WakeRelease, WakeForget, WakeRecord, WakeDrop, TurnStep,
     Of, TurnLock, Unclaim, TurnSend, EndForget, TouchRead, TouchWrite,
     TurnEnd, LetGo, CapStep, CapScan, CapLive, CapBusy, CapWeigh, CapPark,
     CapForget, CapEnd, Forget, pipes
<1> QED BY <1>2, <1>3

\* Every step keeps which chat each request is at work on.
LEMMA NextPlaced ==
  ASSUME Ops \subseteq {"prompt"}, Typed, Guarded, Serving, Placing,
         [Next]_vars
  PROVE  Placing'
<1>1. AbsentIsBlank'
  BY ManifestMoves DEF Placing, AbsentIsBlank, Serving
<1>2. \A c \in Chats : Open(c) => Open(c)'
  BY OpenStays DEF Placing, Serving
<1>3. HeldIsOpen'
  <2> SUFFICES ASSUME NEW c \in Chats, held'[c] # None PROVE Open(c)'
    BY DEF HeldIsOpen
  <2>1. held[c] # None \/ Open(c)
    <3>1. CASE \E p \in Requests : PromptStep(p)
      BY <3>1, PromptHolds
    <3>2. CASE ~(\E p \in Requests : PromptStep(p)) /\ ~Crash
      BY <3>2, Moves, SweepMoves DEF Hangup, BeginPrompt, Begin, Around,
         AgentWrites, StrayEnds, ContainerExits, pipes, vars
    <3>3. CASE Crash
      BY <3>3 DEF Crash
    <3> QED BY <3>1, <3>2, <3>3
  <2> QED BY <1>2, <2>1 DEF Placing, HeldIsOpen
<1>4. (WorksOnOpen /\ SeenOpen /\ RevivesArchived)'
  <2>1. CASE \E p \in Requests : PromptStep(p)
    <3> PICK p \in Requests : PromptStep(p)
      BY <2>1
    <3>1. \A q \in Procs : q # p => pc'[q] = pc[q] /\ chat'[q] = chat[q] /\ seen'[q] = seen[q]
      BY OthersStay DEF PromptStep
    <3>2. pc'[p] \in OpenPcs => chat'[p] = chat[p] /\ manifest'[chat[p]].state = "open"
      BY WakeKeepsOpen, TurnKeepsOpen DEF PromptStep
    <3>3. \A q \in Requests : pc[q] \in OpenPcs => chat[q] \in Chats
      BY DEF Typed, AtWork, OpenPcs, WarmPcs
    <3>4. WorksOnOpen'
      BY <1>2, <3>1, <3>2, <3>3 DEF Placing, WorksOnOpen, Open, Procs
    <3>5. SeenOpen'
      BY <3>1, PromptKeepsSeen DEF Placing, SeenOpen, Procs, PromptStep
    <3>6. RevivesArchived'
      BY PromptKeepsArchived DEF PromptStep, RevivesArchived
    <3> QED BY <3>4, <3>5, <3>6
  <2>2. CASE SweepStep(Boot)
    BY <2>2, SweepMoves, ConstantsOK DEF Placing, WorksOnOpen, SeenOpen,
       RevivesArchived, Open, Procs
  <2>3. CASE \E p \in Requests : Hangup(p)
    BY <2>3 DEF Hangup, Done, Goto, disk, Placing, WorksOnOpen, SeenOpen,
       RevivesArchived, Open, Procs, Typed, TypeOK, LocalsOK, OpenPcs, WarmPcs,
       RevivePcs
  <2>4. CASE \E p \in Requests, c \in Chats : BeginPrompt(p, c)
    BY <2>4 DEF BeginPrompt, Begin, Goto, disk, Placing, WorksOnOpen, SeenOpen,
       RevivesArchived, Open, Procs, Typed, TypeOK, LocalsOK, OpenPcs, WarmPcs,
       RevivePcs
  <2>5. CASE Around
    BY <2>5 DEF Around, AgentWrites, StrayEnds, ContainerExits, disk, locals,
       Placing, WorksOnOpen, SeenOpen, RevivesArchived, Open
  <2>6. CASE Crash
    <3>1. \A q \in Requests : pc'[q] \in {"new", "done"}
      BY <2>6, ConstantsOK DEF Crash, Procs
    <3> QED BY <3>1 DEF WorksOnOpen, SeenOpen, RevivesArchived, OpenPcs,
       WarmPcs, RevivePcs
  <2>7. CASE UNCHANGED vars
    BY <2>7 DEF vars, disk, locals, Placing, WorksOnOpen, SeenOpen,
       RevivesArchived, Open
  <2> QED BY <2>1, <2>2, <2>3, <2>4, <2>5, <2>6, <2>7, Moves
<1> QED BY <1>1, <1>3, <1>4 DEF Placing

\* A tree is moved by the revival of its chat, and by the first sweep.
LEMMA TreeMoves ==
  ASSUME Ops \subseteq {"prompt"}, Typed, Serving, [Next]_vars, NEW c \in Chats
  PROVE  \/ workspace'[c] = workspace[c]
         \/ \E p \in Requests : chat[p] = c /\ (CloneStart(p) \/ CloneEnd(p) \/ Wipe(p))
         \/ SweepRemove(Boot) /\ c \in victims[Boot] /\ pc[Boot] # "done"
<1>0. workspace \in [Chats -> {"none", "half", "tree"}] /\ \A p \in Requests : p \in Procs
  BY DEF Typed, TypeOK, DiskOK, Procs
<1>1. ASSUME NEW p \in Requests, PromptStep(p)
      PROVE  \/ workspace'[c] = workspace[c]
             \/ chat[p] = c /\ (CloneStart(p) \/ CloneEnd(p) \/ Wipe(p))
  <2>1. CASE CloneStart(p) \/ CloneEnd(p) \/ Wipe(p)
    BY <1>0, <2>1 DEF CloneStart, CloneEnd, Wipe, RemoveTree, RemoveTreeFails
  <2>2. CASE ~(CloneStart(p) \/ CloneEnd(p) \/ Wipe(p))
    BY <1>1, <2>2, SMTT(30) DEF PromptStep, WakeStep, WakeClaim, WakeRead,
       WakeTree, ReviveCheck, ReviveOpen, House, WakeSpawn, Climb, WakeRelease,
       WakeForget, WakeRecord, WakeHold, WakeDrop, TurnStep, Of, TurnLock,
       Unclaim, TurnSend, EndForget, TouchRead, TouchWrite, TurnEnd, LetGo,
       CapStep, CapScan, CapLive, CapBusy, CapWeigh, CapPark, CapForget,
       CapEnd, disk
  <2> QED BY <2>1, <2>2
<1>2. CASE SweepStep(Boot)
  <2>1. CASE SweepRemove(Boot)
    BY <1>0, <2>1 DEF SweepRemove, RemoveTree, RemoveTreeFails
  <2>2. CASE ~SweepRemove(Boot)
    BY <1>2, <2>2 DEF SweepStep, SweepScan, SweepLive, SweepList, SweepClaimed,
       SweepOver, SweepEnd, disk
  <2> QED BY <2>1, <2>2
<1>3. CASE ~(\E p \in Requests : PromptStep(p)) /\ ~SweepStep(Boot)
  BY <1>3, Moves DEF Hangup, BeginPrompt, Begin, Around, AgentWrites,
     StrayEnds, ContainerExits, Crash, disk, vars
<1>4. CASE pc[Boot] = "done" /\ SweepRemove(Boot)
  BY <1>4 DEF SweepRemove
<1> QED BY <1>1, <1>2, <1>3, <1>4

\* What the trees are.
Grown == Cloned /\ SweepPicks /\ OpenMeansTree

\* The invariant of a core that serves prompts.
Planted == Typed /\ Guarded /\ Serving /\ Placing /\ Grown

\* Only the one request that holds the chat's claim is at work on its tree.
LEMMA OneReviver ==
  ASSUME Typed, Guarded, NEW p \in Requests, NEW q \in Requests,
         pc[p] \in RevivePcs, pc[q] \in RevivePcs, chat[p] = chat[q]
  PROVE  p = q
<1>1. HoldsClaim(p) /\ HoldsClaim(q)
  BY ConstantsOK DEF HoldsClaim, ClaimPcs, WakePcs, RevivePcs
<1> QED BY <1>1 DEF Guarded, OneClaimant, Procs

\* A tree that was cloned stays whole until its chat is opened.
LEMMA NextCloned ==
  ASSUME Ops \subseteq {"prompt"}, Planted, [Next]_vars
  PROVE  Cloned'
<1> USE DEF Planted
<1> SUFFICES ASSUME NEW q \in Requests, pc'[q] = "w_open"
             PROVE  workspace'[chat'[q]] = "tree"
  BY DEF Cloned
<1>1. /\ workspace \in [Chats -> {"none", "half", "tree"}] /\ pc \in [Procs -> Pcs]
      /\ q \in Procs
      /\ pc[q] # "new" /\ pc[q] # "done" => chat[q] \in Chats
  BY DEF Typed, TypeOK, DiskOK, AtWork, Procs
<1>2. CASE CloneEnd(q)
  BY <1>1, <1>2 DEF CloneEnd, Goto, locals
<1>3. CASE ~CloneEnd(q)
  <2>1. pc[q] = "w_open" /\ chat'[q] = chat[q]
    <3>1. CASE \E p \in Requests : PromptStep(p)
      <4> PICK p \in Requests : PromptStep(p)
        BY <3>1
      <4>1. CASE q = p
        BY <1>1, <1>3, <4>1, SMTT(30) DEF PromptStep, Goto, WakeStep,
           WakeClaim, WakeRead, WakeTree, ReviveCheck, CloneStart, Wipe,
           ReviveOpen, House, WakeSpawn, Climb, WakeRelease, WakeForget,
           WakeRecord, WakeHold, WakeDrop, TurnStep, Of, TurnLock, Unclaim,
           TurnSend, EndForget, TouchRead, TouchWrite, TurnEnd, LetGo, CapStep,
           CapScan, CapLive, CapBusy, CapWeigh, CapPark, CapForget, CapEnd,
           Done, locals
      <4>2. CASE q # p
        BY <1>1, <4>2, OthersStay DEF PromptStep
      <4> QED BY <4>1, <4>2
    <3>2. CASE ~\E p \in Requests : PromptStep(p)
      BY <1>1, <3>2, Moves, SweepMoves, ConstantsOK DEF Hangup, Done, Goto,
         BeginPrompt, Begin, Around, AgentWrites, StrayEnds, ContainerExits,
         Crash, locals, vars, Procs, Typed, TypeOK, LocalsOK
    <3> QED BY <3>1, <3>2
  <2>2. workspace[chat[q]] = "tree" /\ chat[q] \in Chats
    BY <1>1, <2>1 DEF Grown, Cloned
  <2>3. ~(SweepRemove(Boot) /\ pc[Boot] # "done")
    BY <2>1 DEF Serving, BootAlone
  <2>4. ASSUME NEW p \in Requests, chat[p] = chat[q],
               CloneStart(p) \/ CloneEnd(p) \/ Wipe(p)
        PROVE  FALSE
    <3>1. p = q
      BY <2>1, <2>4, OneReviver DEF RevivePcs, CloneStart, CloneEnd, Wipe
    <3> QED BY <2>1, <2>4, <3>1 DEF CloneStart, CloneEnd, Wipe
  <2> QED BY <2>1, <2>2, <2>3, <2>4, TreeMoves
<1> QED BY <1>2, <1>3

\* The trees the first sweep picked stay those of chats not open.
LEMMA NextSweepPicks ==
  ASSUME Ops \subseteq {"prompt"}, Planted, [Next]_vars
  PROVE  SweepPicks'
<1> USE DEF Planted
<1>1. victims \in [Procs -> SUBSET Chats] /\ Boot \in Procs /\ Boot \notin Requests
  BY ConstantsOK DEF Typed, TypeOK, LocalsOK, Procs
<1>2. CASE \E p \in Requests : pc[Boot] = "done" /\ PromptStep(p)
  BY <1>1, <1>2, PromptMoves DEF SweepPicks, PromptStep
<1>3. CASE SweepStep(Boot)
  <2>1. victims'[Boot] \subseteq victims[Boot] \/ SweepScan(Boot)
    BY <1>1, <1>3, SMTT(30) DEF SweepStep, SweepLive, SweepList, SweepClaimed,
       SweepRemove, SweepOver, locals
  <2>2. CASE SweepScan(Boot)
    BY <1>1, <2>2 DEF SweepScan, SweepEnd, Goto, SweepPicks, Open, disk, Typed,
       TypeOK
  <2>3. CASE victims'[Boot] \subseteq victims[Boot]
    <3>1. manifest' = manifest
      BY <1>3, SweepMoves
    <3>2. pc'[Boot] # "done" => pc[Boot] # "done"
      BY <1>3 DEF SweepStep, SweepScan, SweepLive, SweepList, SweepClaimed,
         SweepRemove, SweepOver
    <3> QED BY <2>3, <3>1, <3>2 DEF Grown, SweepPicks, Open
  <2> QED BY <2>1, <2>2, <2>3
<1>4. CASE Crash
  BY <1>1, <1>4 DEF Crash, SweepPicks
<1>5. CASE \E p \in Requests : Hangup(p)
  BY <1>1, <1>5, ConstantsOK DEF Hangup, Done, Goto, Grown, SweepPicks, Open,
     disk, Typed, TypeOK, Procs
<1>6. CASE \E p \in Requests, c \in Chats : BeginPrompt(p, c)
  BY <1>1, <1>6, ConstantsOK DEF BeginPrompt, Begin, Goto, Grown, SweepPicks,
     Open, disk, Typed, TypeOK, Procs
<1>7. CASE Around \/ UNCHANGED vars
  BY <1>7 DEF Around, AgentWrites, StrayEnds, ContainerExits, vars, disk,
     locals, Grown, SweepPicks, Open
<1> QED BY <1>2, <1>3, <1>4, <1>5, <1>6, <1>7, Moves

\* Every step leaves an open chat its tree.
LEMMA NextOpenMeansTree ==
  ASSUME Ops \subseteq {"prompt"}, Planted, [Next]_vars
  PROVE  OpenMeansTree'
<1> USE DEF Planted
<1> SUFFICES ASSUME NEW c \in Chats, manifest'[c].state = "open"
             PROVE  workspace'[c] = "tree"
  BY DEF OpenMeansTree
<1>1. CASE Open(c)
  <2>1. ~(SweepRemove(Boot) /\ c \in victims[Boot] /\ pc[Boot] # "done")
    BY <1>1 DEF Grown, SweepPicks
  <2>2. ASSUME NEW p \in Requests, chat[p] = c,
               CloneStart(p) \/ CloneEnd(p) \/ Wipe(p)
        PROVE  FALSE
    BY <1>1, <2>2 DEF Placing, RevivesArchived, RevivePcs, Open, CloneStart,
       CloneEnd, Wipe
  <2> QED BY <1>1, <2>1, <2>2, TreeMoves DEF Open, Grown, OpenMeansTree
<1>2. CASE ~Open(c)
  <2>1. PICK p \in Requests :
          chat[p] = c /\ (ReviveOpen(p) \/ WakeRecord(p) \/ TouchWrite(p))
    BY <1>2, ManifestMoves DEF Open, Placing, Serving
  <2>2. ReviveOpen(p)
    BY <1>2, <2>1 DEF Placing, WorksOnOpen, OpenPcs, WarmPcs, WakeRecord,
       TouchWrite
  <2> QED BY <2>1, <2>2 DEF ReviveOpen, Grown, Cloned
<1> QED BY <1>1, <1>2

\* All of it holds of a core that has just started, whatever the last one left.
LEMMA InitPlanted == Init => Serving /\ Placing /\ Grown
<1> SUFFICES ASSUME Init PROVE Serving /\ Placing /\ Grown
  OBVIOUS
<1>1. /\ \A p \in Requests : pc[p] = "new"
      /\ pc[Boot] = "s_scan" /\ victims[Boot] = {}
      /\ \A c \in Chats : held[c] = None
  BY ConstantsOK DEF Init, Procs
<1>2. PICK kind \in [Chats -> Kinds], stamp \in [Chats -> 1..Dawn] :
        /\ manifest = [c \in Chats |->
             IF Shapes[kind[c]].state = "absent" THEN NoManifest
             ELSE [state   |-> Shapes[kind[c]].state,
                   session |-> Shapes[kind[c]].session,
                   pushed  |-> Shapes[kind[c]].pushed,
                   active  |-> stamp[c]]]
        /\ workspace = [c \in Chats |-> Shapes[kind[c]].tree]
  BY DEF Init
<1>3. \A c \in Chats : manifest[c].state = Shapes[kind[c]].state
  BY <1>2 DEF NoManifest
<1>4. \A k \in DOMAIN Shapes : Shapes[k].state = "open" => Shapes[k].tree = "tree"
  BY DEF Shapes
<1>5. OpenMeansTree
  BY <1>2, <1>3, <1>4, ConstantsOK DEF OpenMeansTree
<1>6. AbsentIsBlank
  BY <1>2, <1>3 DEF AbsentIsBlank, NoManifest
<1> QED
  BY <1>1, <1>5, <1>6 DEF Serving, PromptsOnly, BootAlone, Placing,
     WorksOnOpen, SeenOpen, RevivesArchived, HeldIsOpen, Grown, Cloned,
     SweepPicks, OpenPcs, WarmPcs, RevivePcs

\* It is inductive.
LEMMA AlwaysPlanted ==
  ASSUME Ops \subseteq {"prompt"}
  PROVE  Spec => []Planted
<1>1. Init => Serving /\ Placing /\ Grown
  BY InitPlanted
<1>2. Planted /\ [Next]_vars => (Serving /\ Placing /\ Grown)'
  BY NextServing, NextPlaced, NextCloned, NextSweepPicks, NextOpenMeansTree DEF
     Planted, Grown
<1> QED BY <1>1, <1>2, AlwaysGuarded, PTL DEF Spec, Planted

\* An open chat has its whole tree, crashes, hang-ups and every other fault
\* included (revive: the state that claims a tree is written after the tree).
THEOREM OpenChatsHaveTheirTree ==
  ASSUME Ops \subseteq {"prompt"} PROVE Spec => []OpenMeansTree
<1>1. Planted => OpenMeansTree
  BY DEF Planted, Grown
<1> QED BY <1>1, AlwaysPlanted, PTL

-----------------------------------------------------------------------------
(***************************************************************************)
(* Chats that can be prompted again, and the pile the first sweep leaves.  *)
(* Both are of a core whose store and daemon answer and whose clients      *)
(* stay: a clone that could not be wiped, a sweep that could not read, and *)
(* a revival cut short all leave a tree behind an archived chat, and a     *)
(* chat with one is refused by every wake until the next sweep (revive).   *)
(***************************************************************************)

\* A core that serves prompts, whose store and daemon answer and whose clients
\* stay, and that found no archived chat with a live container.
SweptUp == /\ Ops \subseteq {"prompt"}
           /\ Faults \cap {"store", "plane", "hangup"} = {}
           /\ "standing" \notin Kinds

\* What was archived was pushed.
ArchivedIsPushed ==
  \A c \in Chats : manifest[c].state = "archived" => manifest[c].pushed

\* Only an open chat has a live container.
LiveIsOpen == \A c \in Chats : container[c] = "live" => Open(c)

\* The steps of a revival that has begun to write a tree.
ClonePcs == {"w_cloning", "w_wipe", "w_open"}

\* Once the core serves, a tree without an open chat is being cloned ...
PileKnown ==
  pc[Boot] = "done" =>
    \A c \in Chats : ~Open(c) /\ workspace[c] # "none" =>
      \E p \in Requests : chat[p] = c /\ pc[p] \in ClonePcs

\* ... and until then the first sweep has picked it.
PilePicked ==
  pc[Boot] \notin {"s_scan", "done"} =>
    \A c \in Chats : ~Open(c) /\ workspace[c] # "none" => c \in victims[Boot]

\* Where the trees without an open chat are.
Piled == ArchivedIsPushed /\ LiveIsOpen /\ PileKnown /\ PilePicked

\* Nothing archives a chat here.
LEMMA NextPushed ==
  ASSUME SweptUp, Planted, ArchivedIsPushed, [Next]_vars
  PROVE  ArchivedIsPushed'
BY ManifestMoves DEF SweptUp, Planted, Serving, Placing, ArchivedIsPushed

\* A container starts for an open chat only, and open chats stay open.
LEMMA NextLiveIsOpen ==
  ASSUME Planted, LiveIsOpen, [Next]_vars
  PROVE  LiveIsOpen'
<1> SUFFICES ASSUME NEW c \in Chats, container'[c] = "live" PROVE Open(c)'
  BY DEF LiveIsOpen
<1>1. NoCreation
  BY DEF Planted, Serving, PromptsOnly, NoCreation, Typed, BootOnlySweeps,
     SweepPcs, CreatePcs, PromptPcs, WakePcs, TurnPcs, CapPcs, Procs
<1>2. Open(c)
  <2>1. CASE container[c] = "live"
    BY <2>1 DEF LiveIsOpen
  <2>2. CASE container[c] # "live"
    <3>1. PICK q \in Procs : WakeSpawn(q) /\ chat[q] = c
      BY <1>1, <2>2, OnlyWakesSpawn DEF Planted
    <3>2. q \in Requests
      BY <3>1 DEF Planted, Typed, BootOnlySweeps, SweepPcs, WakeSpawn, Procs
    <3> QED BY <3>1, <3>2 DEF WakeSpawn, Planted, Placing, WorksOnOpen,
       OpenPcs, WarmPcs
  <2> QED BY <2>1, <2>2
<1> QED BY <1>2, OpenStays DEF Planted, Serving, Placing

\* A clone that failed is wiped before its claim is let go.
LEMMA NextPileKnown ==
  ASSUME SweptUp, Planted, PileKnown, PilePicked, [Next]_vars
  PROVE  PileKnown'
<1> USE DEF Planted
<1>0. ~May("store") /\ ~May("plane") /\ ~May("hangup")
  BY DEF SweptUp, May
<1>1. /\ workspace \in [Chats -> {"none", "half", "tree"}] /\ pc \in [Procs -> Pcs]
      /\ Boot \notin Requests /\ Boot \in Procs
      /\ \A q \in Requests : q \in Procs
      /\ Ops \subseteq {"prompt"}
  BY ConstantsOK DEF Typed, TypeOK, DiskOK, Procs, SweptUp
<1>2. \A c \in Chats : Open(c) => Open(c)'
  BY OpenStays DEF Placing, Serving
<1> SUFFICES ASSUME pc'[Boot] = "done", NEW c \in Chats, ~Open(c)',
                    workspace'[c] # "none"
             PROVE  \E p \in Requests : chat'[p] = c /\ pc'[p] \in ClonePcs
  BY DEF PileKnown
<1>3. ~Open(c)
  BY <1>2
<1>4. CASE \E p \in Requests : pc[Boot] = "done" /\ PromptStep(p)
  <2> PICK p \in Requests : pc[Boot] = "done" /\ PromptStep(p)
    BY <1>4
  <2>1. CASE workspace[c] # "none"
    <3>1. PICK q \in Requests : chat[q] = c /\ pc[q] \in ClonePcs
      BY <1>3, <2>1 DEF PileKnown
    <3>2. CASE q # p
      BY <1>1, <3>1, <3>2, OthersStay DEF PromptStep
    <3>3. CASE q = p
      <4>1. CloneEnd(p) \/ Wipe(p) \/ ReviveOpen(p)
        BY <3>1, <3>3, SMTT(30) DEF ClonePcs, PromptStep, WakeStep, WakeClaim,
           WakeRead, WakeTree, ReviveCheck, CloneStart, House, WakeSpawn,
           Climb, WakeRelease, WakeForget, WakeRecord, WakeHold, WakeDrop,
           TurnStep, Of, TurnLock, Unclaim, TurnSend, EndForget, TouchRead,
           TouchWrite, TurnEnd, CapStep, CapScan, CapLive, CapBusy, CapWeigh,
           CapPark, CapForget, CapEnd
      <4>2. CASE CloneEnd(p)
        BY <1>1, <3>1, <3>3, <4>2 DEF CloneEnd, Goto, ClonePcs, locals
      <4>3. CASE Wipe(p)
        BY <1>0, <1>1, <3>1, <3>3, <4>3 DEF Wipe, RemoveTree, RemoveTreeFails
      <4>4. CASE ReviveOpen(p)
        <5>1. /\ manifest \in [Chats -> Manifests] /\ seen[p] \in Manifests
          BY <1>1 DEF Typed, TypeOK, DiskOK, LocalsOK
        <5>2. [seen[p] EXCEPT !.state = "open"].state = "open"
          BY <5>1 DEF Manifests
        <5> QED BY <1>0, <3>1, <3>3, <4>4, <5>1, <5>2 DEF ReviveOpen, Open
      <4> QED BY <4>1, <4>2, <4>3, <4>4
    <3> QED BY <3>2, <3>3
  <2>2. CASE workspace[c] = "none"
    <3>1. PICK q \in Requests : chat[q] = c /\ (CloneStart(q) \/ CloneEnd(q) \/ Wipe(q))
      BY <1>1, <2>2, TreeMoves
    <3>2. CASE CloneStart(q)
      BY <1>1, <3>1, <3>2 DEF CloneStart, Goto, ClonePcs, locals
    <3>3. CASE CloneEnd(q) \/ Wipe(q)
      BY <1>1, <2>2, <3>1, <3>3 DEF CloneEnd, Wipe, RemoveTree, RemoveTreeFails
    <3> QED BY <3>1, <3>2, <3>3
  <2> QED BY <2>1, <2>2
<1>5. CASE pc[Boot] # "done" /\ SweepStep(Boot)
  <2>1. SweepOver(Boot)
    BY <1>0, <1>1, <1>5 DEF SweepStep, SweepScan, SweepLive, SweepList,
       SweepClaimed, SweepRemove, SweepEnd, Goto
  <2> QED BY <1>3, <2>1 DEF SweepOver, PilePicked, disk
<1>6. CASE \E p \in Requests, d \in Chats : BeginPrompt(p, d)
  <2> PICK p \in Requests, d \in Chats : BeginPrompt(p, d)
    BY <1>6
  <2>1. PICK q \in Requests : chat[q] = c /\ pc[q] \in ClonePcs
    BY <1>3 DEF PileKnown, BeginPrompt, Begin, disk
  <2>2. q # p
    BY <2>1 DEF BeginPrompt, Begin, ClonePcs
  <2>3. chat \in [Procs -> Chats \cup {None}]
    BY DEF Typed, TypeOK, LocalsOK
  <2>4. chat'[q] = c /\ pc'[q] = pc[q]
    BY <1>1, <2>1, <2>2, <2>3 DEF BeginPrompt, Begin, Goto
  <2> QED BY <2>1, <2>4
<1>7. CASE Around \/ UNCHANGED vars
  BY <1>3, <1>7 DEF Around, AgentWrites, StrayEnds, ContainerExits, vars, disk,
     locals, PileKnown
<1>8. CASE Crash \/ \E p \in Requests : Hangup(p)
  BY <1>0, <1>1, <1>8 DEF Crash, Hangup
<1> QED BY <1>1, <1>4, <1>5, <1>6, <1>7, <1>8, Moves

\* The sweep narrows its orphans down to what is in the pile.
LEMMA NextPilePicked ==
  ASSUME SweptUp, Planted, LiveIsOpen, PilePicked, [Next]_vars
  PROVE  PilePicked'
<1> USE DEF Planted
<1>0. ~May("store") /\ ~May("plane") /\ ~May("hangup")
  BY DEF SweptUp, May
<1>1. /\ workspace \in [Chats -> {"none", "half", "tree"}] /\ pc \in [Procs -> Pcs]
      /\ victims \in [Procs -> SUBSET Chats]
      /\ Boot \notin Requests /\ Boot \in Procs
      /\ pc[Boot] \in SweepPcs \cup {"done"}
      /\ Ops \subseteq {"prompt"}
  BY ConstantsOK DEF Typed, TypeOK, DiskOK, LocalsOK, BootOnlySweeps, Procs,
     SweptUp
<1> SUFFICES ASSUME pc'[Boot] \notin {"s_scan", "done"}, NEW c \in Chats,
                    ~Open(c)', workspace'[c] # "none"
             PROVE  c \in victims'[Boot]
  BY DEF PilePicked
<1>2. CASE pc[Boot] # "done" /\ SweepStep(Boot)
  <2>1. ~Open(c) /\ container' = container
    BY <1>2, SweepMoves DEF Open
  <2>2. workspace[c] # "none"
    BY <1>1, <1>2 DEF SweepStep, SweepScan, SweepLive, SweepList, SweepClaimed,
       SweepRemove, SweepOver, SweepEnd, RemoveTree, RemoveTreeFails, disk
  <2>3. c \notin Live
    BY <2>1 DEF LiveIsOpen, Live
  <2>4. c \notin Claimed
    <3>1. \A p \in Procs : ~HoldsClaim(p)
      BY <1>2, ConstantsOK DEF Serving, BootAlone, HoldsClaim, ClaimPcs,
         WakePcs, GatePcs, SweepPcs, Procs
    <3> QED BY <3>1 DEF Claimed, Guarded, OneClaimant
  <2>5. CASE SweepScan(Boot)
    BY <1>0, <1>1, <2>1, <2>5 DEF SweepScan, SweepEnd, Goto, Open
  <2>6. CASE SweepLive(Boot)
    BY <1>0, <1>1, <2>1, <2>2, <2>3, <2>6 DEF SweepLive, SweepEnd, Goto,
       PilePicked
  <2>7. CASE SweepList(Boot)
    BY <1>0, <1>1, <2>1, <2>2, <2>7 DEF SweepList, SweepEnd, Goto, PilePicked
  <2>8. CASE SweepClaimed(Boot)
    BY <1>0, <1>1, <2>1, <2>2, <2>4, <2>8 DEF SweepClaimed, PilePicked
  <2>9. CASE SweepRemove(Boot)
    BY <1>0, <1>1, <2>1, <2>2, <2>9 DEF SweepRemove, RemoveTree,
       RemoveTreeFails, PilePicked
  <2>10. CASE SweepOver(Boot)
    BY <1>1, <2>10 DEF SweepOver, SweepEnd, Goto
  <2> QED BY <1>2, <2>5, <2>6, <2>7, <2>8, <2>9, <2>10 DEF SweepStep
<1>3. CASE \E p \in Requests : pc[Boot] = "done" /\ PromptStep(p)
  BY <1>1, <1>3, PromptMoves DEF PromptStep
<1>4. CASE \E p \in Requests, d \in Chats : BeginPrompt(p, d)
  BY <1>1, <1>4 DEF BeginPrompt, Begin, Goto
<1>5. CASE Around \/ UNCHANGED vars
  BY <1>1, <1>5 DEF Around, AgentWrites, StrayEnds, ContainerExits, vars, disk,
     locals, PilePicked, Open
<1>6. CASE Crash \/ \E p \in Requests : Hangup(p)
  BY <1>0, <1>1, <1>6 DEF Crash, Hangup
<1> QED BY <1>1, <1>2, <1>3, <1>4, <1>5, <1>6, Moves

\* The first sweep has picked nothing yet.
LEMMA InitPiled ==
  ASSUME SweptUp
  PROVE  Init => Piled
<1> SUFFICES ASSUME Init PROVE Piled
  OBVIOUS
<1>1. pc[Boot] = "s_scan"
  BY ConstantsOK DEF Init, Procs
<1>2. PICK kind \in [Chats -> Kinds], stamp \in [Chats -> 1..Dawn] :
        /\ manifest = [c \in Chats |->
             IF Shapes[kind[c]].state = "absent" THEN NoManifest
             ELSE [state   |-> Shapes[kind[c]].state,
                   session |-> Shapes[kind[c]].session,
                   pushed  |-> Shapes[kind[c]].pushed,
                   active  |-> stamp[c]]]
        /\ container = [c \in Chats |-> Shapes[kind[c]].container]
  BY DEF Init
<1>3. \A c \in Chats : manifest[c].state = Shapes[kind[c]].state
  BY <1>2 DEF NoManifest
<1>4. \A c \in Chats : manifest[c].state = "archived" => manifest[c].pushed = Shapes[kind[c]].pushed
  BY <1>2, <1>3
<1>5. \A k \in DOMAIN Shapes : /\ Shapes[k].state = "archived" => Shapes[k].pushed
                               /\ k # "standing" /\ Shapes[k].container = "live" => Shapes[k].state = "open"
  BY DEF Shapes
<1>6. \A c \in Chats : kind[c] \in DOMAIN Shapes /\ kind[c] # "standing"
  BY ConstantsOK DEF SweptUp
<1>7. ArchivedIsPushed
  BY <1>3, <1>4, <1>5, <1>6 DEF ArchivedIsPushed
<1>8. LiveIsOpen
  BY <1>2, <1>3, <1>5, <1>6 DEF LiveIsOpen, Open
<1> QED BY <1>1, <1>7, <1>8 DEF Piled, PileKnown, PilePicked

\* It is inductive on top of Planted.
LEMMA AlwaysPiled ==
  ASSUME SweptUp
  PROVE  Spec => [](Planted /\ Piled)
<1>1. Init => Piled
  BY InitPiled
<1>2. Planted /\ Piled /\ [Next]_vars => Piled'
  BY NextPushed, NextLiveIsOpen, NextPileKnown, NextPilePicked DEF Piled
<1>3. Spec => []Planted
  BY AlwaysPlanted DEF SweptUp
<1> QED BY <1>1, <1>2, <1>3, PTL DEF Spec

\* Whenever the core serves and nobody holds the chat, the next wake finds on
\* disk what it asks for (woken, revive), crashes in the middle of a clone and
\* failing clones and adapters included.
THEOREM ChatsCanBePromptedAgain ==
  ASSUME SweptUp PROVE Spec => []CanBePromptedAgain
<1>1. ASSUME Planted, Piled PROVE CanBePromptedAgain
  <2> SUFFICES ASSUME NEW c \in Chats, pc[Boot] = "done", claims[c] = "free",
                      manifest[c].session
               PROVE  CanWake(c)
    BY DEF CanBePromptedAgain
  <2>1. manifest[c].state \in {"absent", "open", "archived"}
    BY <1>1 DEF Planted, Typed, TypeOK, DiskOK, Manifests
  <2>2. CASE Open(c)
    BY <1>1, <2>2 DEF Open, CanWake, Planted, Grown, OpenMeansTree
  <2>3. CASE ~Open(c)
    <3>1. manifest[c].state = "archived" /\ manifest[c].pushed
      BY <1>1, <2>1, <2>3 DEF Open, Planted, Placing, AbsentIsBlank, Piled,
         ArchivedIsPushed
    <3>2. ASSUME NEW p \in Requests, chat[p] = c, pc[p] \in ClonePcs
          PROVE  FALSE
      <4>1. HoldsClaim(p)
        BY <3>2, ConstantsOK DEF HoldsClaim, ClaimPcs, WakePcs, ClonePcs
      <4> QED BY <1>1, <3>2, <4>1 DEF Planted, Guarded, OneClaimant, Procs
    <3> QED BY <1>1, <2>3, <3>1, <3>2 DEF Piled, PileKnown, CanWake
  <2> QED BY <2>2, <2>3
<1> QED BY <1>1, AlwaysPiled, PTL

\* When the core begins to serve, no tree is without its open chat or a live
\* container that holds it (sweep, ADR-0002 rule 4).
THEOREM TheFirstSweepLeavesNoPile ==
  ASSUME SweptUp PROVE Spec => BootLeavesNoPile
<1>1. ASSUME Planted, Piled, (Planted /\ Piled)', [Next]_vars,
             pc[Boot] # "done", pc'[Boot] = "done",
             NEW c \in Chats, workspace'[c] # "none"
      PROVE  manifest'[c].state = "open"
  <2>1. SweepStep(Boot)
    <3>1. pc \in [Procs -> Pcs] /\ Boot \in Procs /\ Boot \notin Requests
      BY <1>1, ConstantsOK DEF Planted, Typed, TypeOK, Procs
    <3>2. ~\E p \in Requests : Hangup(p)
      BY <1>1, <3>1, ConstantsOK DEF Hangup, Done, Goto
    <3> QED
      BY <1>1, <3>1, <3>2, Moves DEF SweptUp, Planted, BeginPrompt, Begin,
         Around, AgentWrites, StrayEnds, ContainerExits, Crash, vars
  <2>2. \A p \in Requests : pc'[p] \in {"new", "done"}
    BY <1>1, <2>1, SweepMoves, ConstantsOK DEF Planted, Serving, BootAlone,
       Procs
  <2> QED BY <1>1, <2>2 DEF Piled, PileKnown, ClonePcs, Open
<1>2. Planted /\ Piled /\ (Planted /\ Piled)' /\ [Next]_vars =>
        [pc[Boot] # "done" /\ pc'[Boot] = "done" =>
           \A c \in Chats :
             workspace'[c] # "none" => manifest'[c].state = "open" \/ container'[c] = "live"]_vars
  BY <1>1
<1> QED BY <1>2, AlwaysPiled, PTL DEF Spec, BootLeavesNoPile

-----------------------------------------------------------------------------
(***************************************************************************)
(* What the pool's rule promises of any pool (src/pool.rs): a chat goes    *)
(* only if as many fresher ones stay as the cap allows, and where nobody   *)
(* is occupied and no two stamps are equal, what stays is within the cap.  *)
(***************************************************************************)

\* A set of numbers that is not empty has a least one.
LEMMA LeastNumber ==
  ASSUME NEW S \in SUBSET Nat, NEW e \in S
  PROVE  \E n \in S : \A m \in S : n <= m
<1>1. PICK n \in S : \A m \in S : <<m, n>> \notin OpToRel(<, Nat)
  BY NatLessThanWellFounded, WFMin
<1>2. \A m \in S : ~(m < n)
  BY <1>1 DEF OpToRel
<1>3. \A m \in S : m \in Nat /\ n \in Nat
  OBVIOUS
<1> QED BY <1>2, <1>3

\* The holders entitled to a container before c.
Ahead(book, live, taken, c) ==
  {d \in Holders(book, live) : Fresher(book, d, c) /\ Entitled(book, taken, d)}

\* If any chat of a pool of open ones is beyond it, as many as the cap allows
\* are not: those ahead of the freshest of the chats beyond.
LEMMA CutsOnlyTheOverflow ==
  ASSUME NEW live, IsFiniteSet(live), NEW book, NEW taken, NEW cap \in Nat,
         \A c \in live : book[c].state = "open" /\ book[c].active \in Nat,
         NEW e \in BeyondThePool(book, live, taken, cap)
  PROVE  \E kept \in SUBSET (live \ BeyondThePool(book, live, taken, cap)) :
           Cardinality(kept) >= cap
<1> DEFINE beyond == BeyondThePool(book, live, taken, cap)
           ahead(c) == Ahead(book, live, taken, c)
           ranks == {n \in Nat : \E c \in beyond : n = Cardinality(ahead(c))}
<1>1. \A c \in beyond : c \in live /\ Cardinality(ahead(c)) >= cap
  BY DEF BeyondThePool, Ahead, Holders
<1>2. \A c : ahead(c) \in SUBSET live
  BY DEF Ahead, Holders
<1>3. \A c : IsFiniteSet(ahead(c)) /\ Cardinality(ahead(c)) \in Nat
  BY <1>2, FS_Subset, FS_CardinalityType
<1>4. Cardinality(ahead(e)) \in ranks /\ ranks \in SUBSET Nat
  BY <1>3
<1> HIDE DEF ahead, ranks, beyond
<1>5. PICK n \in ranks : \A m \in ranks : n <= m
  BY <1>4, LeastNumber
<1>6. PICK c \in beyond : n = Cardinality(ahead(c))
  BY <1>5 DEF ranks
<1>7. ASSUME NEW d \in ahead(c), d \in beyond PROVE FALSE
  <2>1. /\ d \in live /\ c \in live
        /\ book[d].active > book[c].active
        /\ book[d].active \in Nat /\ book[c].active \in Nat
    BY <1>1, <1>2, <1>7 DEF ahead, Ahead, Fresher
  <2>2. ahead(d) \in SUBSET ahead(c)
    <3>1. \A f \in ahead(d) : book[f].active > book[d].active /\ book[f].active \in Nat
      BY <1>2 DEF ahead, Ahead, Fresher
    <3>2. \A f \in ahead(d) : book[f].active > book[c].active
      BY <2>1, <3>1
    <3> QED BY <3>2 DEF ahead, Ahead, Fresher
  <2>3. d \notin ahead(d)
    BY <2>1 DEF ahead, Ahead, Fresher
  <2>4. ahead(d) # ahead(c)
    BY <1>7, <2>3
  <2>5. Cardinality(ahead(d)) <= Cardinality(ahead(c)) /\ Cardinality(ahead(d)) # Cardinality(ahead(c))
    BY <1>3, <2>2, <2>4, FS_Subset
  <2>6. Cardinality(ahead(d)) \in ranks
    BY <1>3, <1>7 DEF ranks
  <2> QED BY <1>3, <1>5, <1>6, <2>5, <2>6
<1>8. ahead(c) \in SUBSET (live \ beyond)
  BY <1>2, <1>7
<1>9. Cardinality(ahead(c)) >= cap
  BY <1>1, <1>6
<1> QED BY <1>8, <1>9 DEF beyond

\* If nobody is occupied and no two stamps are equal, what is not beyond the
\* pool fits in it: all are ahead of the stalest of them.
LEMMA KeepsWithinTheCap ==
  ASSUME NEW live, IsFiniteSet(live), NEW book, NEW cap \in Nat,
         \A c \in live : book[c].state # "absent" /\ book[c].active \in Nat,
         \A c, d \in live : c # d => book[c].active # book[d].active
  PROVE  Cardinality(live \ BeyondThePool(book, live, {}, cap)) <= cap
<1> DEFINE kept == live \ BeyondThePool(book, live, {}, cap)
           ahead(c) == Ahead(book, live, {}, c)
           stamps == {n \in Nat : \E c \in kept : n = book[c].active}
<1>1. \A c \in kept : c \in live /\ book[c].state = "open" /\ ~(Cardinality(ahead(c)) >= cap)
  BY DEF BeyondThePool, Ahead, Holders
<1>2. \A c : ahead(c) \in SUBSET live
  BY DEF Ahead, Holders
<1>3. \A c : IsFiniteSet(ahead(c)) /\ Cardinality(ahead(c)) \in Nat
  BY <1>2, FS_Subset, FS_CardinalityType
<1>4. IsFiniteSet(kept) /\ Cardinality(kept) \in Nat
  BY FS_Subset, FS_CardinalityType
<1> SUFFICES ASSUME NEW e \in kept PROVE Cardinality(kept) <= cap
  BY FS_EmptySet
<1> HIDE DEF kept, ahead
<1>5. book[e].active \in stamps /\ stamps \in SUBSET Nat
  BY <1>1
<1> HIDE DEF stamps
<1>6. PICK n \in stamps : \A m \in stamps : n <= m
  BY <1>5, LeastNumber
<1>7. PICK c \in kept : n = book[c].active
  BY <1>6 DEF stamps
<1>8. kept \ {c} \in SUBSET ahead(c)
  <2> SUFFICES ASSUME NEW d \in kept, d # c PROVE d \in ahead(c)
    OBVIOUS
  <2>1. book[d].active \in Nat /\ book[c].active \in Nat /\ book[d].active # book[c].active
    BY <1>1
  <2>2. book[c].active <= book[d].active
    BY <1>6, <1>7, <2>1 DEF stamps
  <2>3. book[d].active > book[c].active
    BY <2>1, <2>2
  <2> QED BY <1>1, <2>3 DEF ahead, Ahead, Holders, Fresher, Entitled
<1>9. Cardinality(kept \ {c}) <= Cardinality(ahead(c))
  BY <1>3, <1>8, FS_Subset
<1>10. Cardinality(kept \ {c}) = Cardinality(kept) - 1
  BY <1>4, FS_RemoveElement
<1>11. ~(Cardinality(ahead(c)) >= cap)
  BY <1>1
<1> QED BY <1>3, <1>4, <1>9, <1>10, <1>11

-----------------------------------------------------------------------------
(***************************************************************************)
(* Cappings that cut no deeper than the cap.  Four readings, one after the *)
(* other, and then teardowns that weigh nothing again: the pool must not   *)
(* have shrunk since.  The victims are live until their own capping takes  *)
(* them (ListedLive), enough others stay live to fill the pool             *)
(* (KeptEnough), and no wake gives back a container that a capping counts  *)
(* on (SpawnedLive).                                                       *)
(***************************************************************************)

\* With the parking lock held ...
ParkPcs  == {"cap_live", "cap_busy", "cap_weigh", "cap_park", "cap_forget"}

\* ... with the live chats listed ...
ListPcs  == {"cap_busy", "cap_weigh", "cap_park", "cap_forget"}

\* ... with the manifests read and not weighed yet ...
WeighPcs == {"cap_live", "cap_busy", "cap_weigh"}

\* ... and with the victims chosen.
CutPcs   == {"cap_park", "cap_forget"}

\* One capping at a time has the parking lock.
OneParker == \A p \in Requests : pc[p] \in ParkPcs => parking = p

\* Only a wake that is not over has spawned a container.
SpawnedWhere ==
  \A p \in Requests :
    spawned[p] => pc[p] \in {"w_climb", "w_release", "w_forget", "w_record",
                             "w_hold", "handover", "unclaim", "w_drop"}

\* Every step keeps the parking lock exclusive.
LEMMA NextOneParker ==
  ASSUME Ops \subseteq {"prompt"}, Typed, Serving, OneParker, [Next]_vars
  PROVE  OneParker'
<1>1. /\ pc \in [Procs -> Pcs] /\ \A p \in Requests : p \in Procs
      /\ None \notin Requests
  BY ConstantsOK DEF Typed, TypeOK, Procs
<1>2. CASE \E p \in Requests : PromptStep(p)
  <2> PICK p \in Requests : PromptStep(p)
    BY <1>2
  <2>1. \A q \in Procs : q # p => pc'[q] = pc[q]
    BY PromptMoves DEF PromptStep
  <2>2. CASE CapScan(p) \/ CapLive(p) \/ CapEnd(p)
    BY <1>1, <2>1, <2>2 DEF CapScan, CapLive, CapEnd, Done, Goto, OneParker,
       ParkPcs
  <2>3. CASE ~(CapScan(p) \/ CapLive(p) \/ CapEnd(p))
    <3>1. parking' = parking
      BY <2>3, SMTT(30) DEF PromptStep, WakeStep, WakeClaim, WakeRead,
         WakeTree, ReviveCheck, CloneStart, CloneEnd, Wipe, ReviveOpen, House,
         WakeSpawn, Climb, WakeRelease, WakeForget, WakeRecord, WakeHold,
         WakeDrop, TurnStep, Of, TurnLock, Unclaim, TurnSend, EndForget,
         TouchRead, TouchWrite, TurnEnd, LetGo, CapStep, CapBusy, CapWeigh,
         CapPark, CapForget, gates
    <3>2. pc'[p] \in ParkPcs => pc[p] \in ParkPcs
      BY <1>1, <2>3, SMTT(30) DEF ParkPcs, Goto, PromptStep, WakeStep,
         WakeClaim, WakeRead, WakeTree, ReviveCheck, CloneStart, CloneEnd,
         Wipe, ReviveOpen, House, WakeSpawn, Climb, WakeRelease, WakeForget,
         WakeRecord, WakeHold, WakeDrop, TurnStep, Of, TurnLock, Unclaim,
         TurnSend, EndForget, TouchRead, TouchWrite, TurnEnd, LetGo, CapStep,
         CapBusy, CapWeigh, CapPark, CapForget
    <3> QED BY <1>1, <2>1, <3>1, <3>2 DEF OneParker
  <2> QED BY <2>2, <2>3
<1>3. CASE \E p \in Requests : Hangup(p)
  BY <1>1, <1>3 DEF Hangup, Done, Goto, OneParker, ParkPcs
<1>4. CASE SweepStep(Boot)
  BY <1>1, <1>4, SweepMoves, ConstantsOK DEF OneParker
<1>5. CASE \E p \in Requests, c \in Chats : BeginPrompt(p, c)
  BY <1>1, <1>5 DEF BeginPrompt, Begin, Goto, gates, OneParker, ParkPcs
<1>6. CASE Around \/ UNCHANGED vars
  BY <1>6 DEF Around, AgentWrites, StrayEnds, ContainerExits, vars, gates,
     OneParker
<1>7. CASE Crash
  BY <1>1, <1>7, ConstantsOK DEF Crash, OneParker, ParkPcs
<1> QED BY <1>2, <1>3, <1>4, <1>5, <1>6, <1>7, Moves

\* A wake that ends forgets that it spawned a container.
LEMMA NextSpawnedWhere ==
  ASSUME Ops \subseteq {"prompt"}, Typed, Serving, SpawnedWhere, [Next]_vars
  PROVE  SpawnedWhere'
<1>1. /\ pc \in [Procs -> Pcs] /\ \A p \in Requests : p \in Procs
      /\ spawned \in [Procs -> BOOLEAN]
  BY DEF Typed, TypeOK, LocalsOK, Procs
<1>2. CASE \E p \in Requests : PromptStep(p)
  <2> PICK p \in Requests : PromptStep(p)
    BY <1>2
  <2>1. CASE WakeStep(p)
    BY <1>1, <2>1, SMTT(30) DEF SpawnedWhere, Goto, WakeStep, WakeClaim,
       WakeRead, WakeTree, ReviveCheck, CloneStart, CloneEnd, Wipe, ReviveOpen,
       House, WakeSpawn, Climb, WakeRelease, WakeForget, WakeRecord, WakeHold,
       WakeDrop, locals
  <2>2. CASE TurnStep(p) \/ TurnEnd(p) \/ CapStep(p)
    BY <1>1, <2>2, SMTT(30) DEF SpawnedWhere, Goto, TurnStep, Of, TurnLock,
       Unclaim, TurnSend, EndForget, TouchRead, TouchWrite, TurnEnd, LetGo,
       CapStep, CapScan, CapLive, CapBusy, CapWeigh, CapPark, CapForget,
       CapEnd, Done, locals
  <2> QED BY <2>1, <2>2 DEF PromptStep
<1>3. CASE \E p \in Requests : Hangup(p)
  BY <1>1, <1>3 DEF Hangup, Done, Goto, SpawnedWhere
<1>4. CASE SweepStep(Boot)
  BY <1>1, <1>4, SweepMoves, ConstantsOK DEF SpawnedWhere
<1>5. CASE \E p \in Requests, c \in Chats : BeginPrompt(p, c)
  BY <1>1, <1>5 DEF BeginPrompt, Begin, Goto, SpawnedWhere
<1>6. CASE Around \/ UNCHANGED vars
  BY <1>6 DEF Around, AgentWrites, StrayEnds, ContainerExits, vars, locals,
     SpawnedWhere
<1>7. CASE Crash
  BY <1>1, <1>7, ConstantsOK DEF Crash, SpawnedWhere
<1> QED BY <1>2, <1>3, <1>4, <1>5, <1>6, <1>7, Moves

\* A core that serves prompts of chats that were never archived, and whose
\* containers go by a capping only: no adapter fails a climb, no container exits
\* on its own, and no call to the daemon is cut short.  (A chat revived between
\* the scan and the list of one capping is a victim it was never weighed for.)
Unreviving ==
  /\ Ops \subseteq {"prompt"}
  /\ Faults \cap {"adapter", "exit", "hangup", "crash"} = {}
  /\ \A kind \in Kinds : Shapes[kind].state # "archived"

\* No chat is archived.
NoneArchived == \A c \in Chats : manifest[c].state # "archived"

\* What a capping listed or is to park is live.
ListedLive == \A p \in Requests : pc[p] \in ListPcs => victims[p] \subseteq Live

\* A wake that spawned its container still has it, and no capping under way
\* is to park it.
SpawnedLive ==
  \A p \in Requests :
    /\ pc[p] # "w_release"
    /\ pc[p] = "w_climb" /\ spawned[p] =>
         /\ chat[p] \in Live
         /\ \A q \in Requests : pc[q] \in CutPcs => chat[p] \notin victims[q]

\* The states a capping read are those on disk still.
ScanAgrees ==
  \A p \in Requests :
    pc[p] \in WeighPcs => \A c \in Chats : scan[c].state = manifest[c].state

\* While a capping has anything left to park, as many other live containers
\* stay as the cap allows.
KeptEnough ==
  \A p \in Requests :
    pc[p] \in CutPcs /\ victims[p] # {} =>
      \E kept \in SUBSET (Live \ victims[p]) : Cardinality(kept) >= WarmPool

\* The invariant.
Uncut == Planted /\ OneParker /\ SpawnedWhere /\ NoneArchived /\ LiveIsOpen
         /\ ListedLive /\ SpawnedLive /\ ScanAgrees /\ KeptEnough

\* No chat changes its state.
LEMMA StatesStay ==
  ASSUME Planted, NoneArchived, [Next]_vars, NEW c \in Chats
  PROVE  manifest'[c].state = manifest[c].state
<1>1. CASE manifest'[c] = manifest[c]
  BY <1>1
<1>2. CASE manifest'[c] # manifest[c]
  <2>1. PICK p \in Requests : /\ chat[p] = c /\ manifest'[c].state = "open"
                              /\ ReviveOpen(p) \/ WakeRecord(p) \/ TouchWrite(p)
    BY <1>2, ManifestMoves DEF Planted, Serving, Placing
  <2>2. ~ReviveOpen(p)
    BY <2>1 DEF ReviveOpen, Planted, Placing, RevivesArchived, RevivePcs,
       NoneArchived
  <2> QED BY <2>1, <2>2 DEF Planted, Placing, WorksOnOpen, OpenPcs, WarmPcs,
     Open, WakeRecord, TouchWrite
<1> QED BY <1>1, <1>2

\* The states on disk, and so those a capping read, stay.
LEMMA NextAgrees ==
  ASSUME Unreviving, Uncut, [Next]_vars
  PROVE  NoneArchived' /\ ScanAgrees'
<1>0. \A c \in Chats : manifest'[c].state = manifest[c].state
  BY StatesStay DEF Uncut
<1>1. NoneArchived'
  BY <1>0 DEF Uncut, NoneArchived
<1>2. /\ pc \in [Procs -> Pcs] /\ \A p \in Requests : p \in Procs
      /\ Ops \subseteq {"prompt"}
  BY DEF Uncut, Planted, Typed, TypeOK, Procs, Unreviving
<1> USE DEF Uncut, Planted
<1>3. ASSUME NEW p \in Requests, PromptStep(p) PROVE ScanAgrees'
  <2>1. \A q \in Procs : q # p => pc'[q] = pc[q]
    BY <1>3, PromptMoves DEF PromptStep
  <2>2. CASE CapScan(p)
    BY <1>0, <1>2, <2>1, <2>2 DEF CapScan, Done, Goto, ScanAgrees, WeighPcs,
       OneParker, ParkPcs, disk
  <2>3. CASE CapLive(p) \/ CapWeigh(p)
    BY <1>0, <1>2, <2>1, <2>3 DEF CapLive, CapWeigh, Done, Goto, ScanAgrees,
       WeighPcs, OneParker, ParkPcs
  <2>4. CASE ~(CapScan(p) \/ CapLive(p) \/ CapWeigh(p))
    <3>1. scan' = scan
      BY <1>3, <2>4, SMTT(30) DEF PromptStep, WakeStep, WakeClaim, WakeRead,
         WakeTree, ReviveCheck, CloneStart, CloneEnd, Wipe, ReviveOpen, House,
         WakeSpawn, Climb, WakeRelease, WakeForget, WakeRecord, WakeHold,
         WakeDrop, TurnStep, Of, TurnLock, Unclaim, TurnSend, EndForget,
         TouchRead, TouchWrite, TurnEnd, LetGo, CapStep, CapBusy, CapPark,
         CapForget, CapEnd, weighed
    <3>2. pc'[p] \in WeighPcs => pc[p] \in WeighPcs
      BY <1>2, <1>3, <2>4, SMTT(30) DEF WeighPcs, Goto, PromptStep, WakeStep,
         WakeClaim, WakeRead, WakeTree, ReviveCheck, CloneStart, CloneEnd,
         Wipe, ReviveOpen, House, WakeSpawn, Climb, WakeRelease, WakeForget,
         WakeRecord, WakeHold, WakeDrop, TurnStep, Of, TurnLock, Unclaim,
         TurnSend, EndForget, TouchRead, TouchWrite, TurnEnd, LetGo, CapStep,
         CapBusy, CapPark, CapForget, CapEnd, Done
    <3> QED BY <1>0, <1>2, <2>1, <3>1, <3>2 DEF ScanAgrees
  <2> QED BY <2>2, <2>3, <2>4
<1>4. CASE SweepStep(Boot)
  BY <1>0, <1>1, <1>2, <1>4, SweepMoves, ConstantsOK DEF ScanAgrees
<1>5. CASE \E p \in Requests, c \in Chats : BeginPrompt(p, c)
  BY <1>0, <1>1, <1>2, <1>5 DEF BeginPrompt, Begin, Goto, weighed, ScanAgrees,
     WeighPcs
<1>6. CASE Around \/ UNCHANGED vars
  BY <1>0, <1>1, <1>6 DEF Around, AgentWrites, StrayEnds, ContainerExits, vars,
     weighed, ScanAgrees
<1>7. ~Crash /\ ~\E p \in Requests : Hangup(p)
  BY DEF Unreviving, Crash, Hangup, May
<1> QED BY <1>1, <1>2, <1>3, <1>4, <1>5, <1>6, <1>7, Moves

\* A container that goes is one a capping parks.
LEMMA LiveLeaves ==
  ASSUME Unreviving, Uncut, [Next]_vars, NEW c \in Chats, c \in Live,
         c \notin Live'
  PROVE  \E p \in Requests : /\ CapPark(p) /\ c \in victims[p]
                             /\ victims' = [victims EXCEPT ![p] = @ \ {c}]
<1> USE DEF Uncut, Planted
<1>1. /\ container \in [Chats -> {"none", "live", "exited"}]
      /\ Ops \subseteq {"prompt"}
  BY DEF Typed, TypeOK, PlaneOK, Unreviving
<1>2. ASSUME NEW p \in Requests, PromptStep(p)
      PROVE  CapPark(p) /\ c \in victims[p] /\ victims' = [victims EXCEPT ![p] = @ \ {c}]
  <2>1. CASE CapPark(p)
    <3> PICK v \in victims[p] : /\ victims' = [victims EXCEPT ![p] = @ \ {v}]
                                /\ TearDown(v) \/ TearDownFails(v)
      BY <2>1 DEF CapPark
    <3>1. v = c
      BY <1>1 DEF TearDown, TearDownFails, Gone, Live
    <3> QED BY <2>1, <3>1
  <2>2. CASE ~CapPark(p)
    <3>1. ~WakeRelease(p)
      BY DEF SpawnedLive, WakeRelease
    <3> QED
      BY <1>1, <1>2, <2>2, <3>1, SMTT(30) DEF PromptStep, WakeStep, WakeClaim,
         WakeRead, WakeTree, ReviveCheck, CloneStart, CloneEnd, Wipe,
         ReviveOpen, House, WakeSpawn, Spawn, SpawnFails, Climb, WakeForget,
         WakeRecord, WakeHold, WakeDrop, TurnStep, Of, TurnLock, Unclaim,
         TurnSend, EndForget, TouchRead, TouchWrite, TurnEnd, LetGo, CapStep,
         CapScan, CapLive, CapBusy, CapWeigh, CapForget, CapEnd, plane, Live
  <2> QED BY <2>1, <2>2
<1>3. CASE SweepStep(Boot)
  BY <1>3, SweepMoves DEF Live
<1>4. CASE \E p \in Requests, d \in Chats : BeginPrompt(p, d)
  BY <1>4 DEF BeginPrompt, Begin, plane, Live
<1>5. CASE Around \/ UNCHANGED vars
  <2>1. ~\E d \in Chats : ContainerExits(d)
    BY DEF ContainerExits, May, Unreviving
  <2> QED BY <1>5, <2>1 DEF Around, AgentWrites, StrayEnds, vars, plane, Live
<1>6. ~Crash /\ ~\E p \in Requests : Hangup(p)
  BY DEF Unreviving, Crash, Hangup, May
<1> QED BY <1>1, <1>2, <1>3, <1>4, <1>5, <1>6, Moves

\* How the victims of a capping come about.
LEMMA VictimsMove ==
  ASSUME Unreviving, Uncut, [Next]_vars, NEW p \in Requests, pc'[p] \in ListPcs
  PROVE  \/ CapLive(p) /\ victims'[p] = Live /\ Live' = Live /\ pc'[p] = "cap_busy"
         \/ CapWeigh(p) /\ Live' = Live /\ pc'[p] = "cap_park"
            /\ victims'[p] = BeyondThePool(scan, victims[p], busy \cup Claimed, WarmPool)
         \/ /\ pc[p] \in ListPcs /\ victims'[p] \subseteq victims[p]
            /\ pc'[p] \in CutPcs => pc[p] \in CutPcs
<1> USE DEF Uncut, Planted
<1>1. /\ pc \in [Procs -> Pcs] /\ victims \in [Procs -> SUBSET Chats]
      /\ Boot \notin Requests /\ \A q \in Requests : q \in Procs
      /\ Ops \subseteq {"prompt"}
  BY ConstantsOK DEF Typed, TypeOK, LocalsOK, Procs, Unreviving
<1>2. CASE \E q \in Requests : PromptStep(q)
  <2> PICK q \in Requests : PromptStep(q)
    BY <1>2
  <2>1. CASE q # p
    BY <1>1, <2>1, OthersStay DEF PromptStep
  <2>2. CASE q = p
    <3>1. CASE CapLive(p) \/ CapWeigh(p)
      BY <1>1, <3>1 DEF CapLive, CapWeigh, Done, Goto, ListPcs, Live, plane
    <3>2. CASE ~(CapLive(p) \/ CapWeigh(p))
      BY <1>1, <2>2, <3>2, SMTT(30) DEF ListPcs, CutPcs, Goto, PromptStep,
         WakeStep, WakeClaim, WakeRead, WakeTree, ReviveCheck, CloneStart,
         CloneEnd, Wipe, ReviveOpen, House, WakeSpawn, Climb, WakeRelease,
         WakeForget, WakeRecord, WakeHold, WakeDrop, TurnStep, Of, TurnLock,
         Unclaim, TurnSend, EndForget, TouchRead, TouchWrite, TurnEnd, LetGo,
         CapStep, CapScan, CapBusy, CapPark, CapForget, CapEnd, Done, locals
    <3> QED BY <3>1, <3>2
  <2> QED BY <2>1, <2>2
<1>3. CASE SweepStep(Boot)
  <2>1. victims'[p] = victims[p]
    BY <1>1, <1>3, SMTT(30) DEF SweepStep, SweepScan, SweepLive, SweepList,
       SweepClaimed, SweepRemove, SweepOver, locals
  <2> QED BY <1>1, <1>3, <2>1, SweepMoves
<1>4. CASE \E q \in Requests, d \in Chats : BeginPrompt(q, d)
  BY <1>1, <1>4 DEF BeginPrompt, Begin, Goto, ListPcs
<1>5. CASE Around \/ UNCHANGED vars
  BY <1>5 DEF Around, AgentWrites, StrayEnds, ContainerExits, vars, locals
<1>6. ~Crash /\ ~\E q \in Requests : Hangup(q)
  BY DEF Unreviving, Crash, Hangup, May
<1> QED BY <1>1, <1>2, <1>3, <1>4, <1>5, <1>6, Moves

\* A victim stays live until its own capping takes it.
LEMMA NextListedLive ==
  ASSUME Unreviving, Uncut, [Next]_vars
  PROVE  ListedLive'
<1> USE DEF Uncut
<1> SUFFICES ASSUME NEW p \in Requests, pc'[p] \in ListPcs,
                    NEW v \in victims'[p]
             PROVE  v \in Live'
  BY DEF ListedLive
<1>0. \A q \in Requests : q \in Procs
  BY DEF Procs
<1>1. CASE (CapLive(p) /\ victims'[p] = Live /\ Live' = Live)
  BY <1>1
<1>2. CASE CapWeigh(p) /\ Live' = Live
           /\ victims'[p] = BeyondThePool(scan, victims[p], busy \cup Claimed, WarmPool)
  BY <1>2 DEF BeyondThePool, Holders, ListedLive, CapWeigh, ListPcs
<1>3. CASE pc[p] \in ListPcs /\ victims'[p] \subseteq victims[p]
  <2>1. v \in Live /\ v \in Chats
    BY <1>3 DEF ListedLive, Live
  <2>2. ASSUME v \notin Live' PROVE FALSE
    <3>1. PICK q \in Requests : CapPark(q) /\ victims' = [victims EXCEPT ![q] = @ \ {v}]
      BY <2>1, <2>2, LiveLeaves
    <3>2. q = p
      BY <1>3, <3>1 DEF OneParker, CapPark, ParkPcs, ListPcs
    <3>3. victims \in [Procs -> SUBSET Chats]
      BY DEF Planted, Typed, TypeOK, LocalsOK
    <3> QED BY <1>0, <3>1, <3>2, <3>3
  <2> QED BY <2>2
<1> QED BY <1>1, <1>2, <1>3, VictimsMove

\* Enough stay: the pool's rule leaves them, and nothing else takes one.
LEMMA NextKeptEnough ==
  ASSUME IsFiniteSet(Chats), Unreviving, Uncut, [Next]_vars
  PROVE  KeptEnough'
<1> USE DEF Uncut
<1> SUFFICES ASSUME NEW p \in Requests, pc'[p] \in CutPcs, victims'[p] # {}
             PROVE  \E kept \in SUBSET (Live' \ victims'[p]) : Cardinality(kept) >= WarmPool
  BY DEF KeptEnough
<1>0. pc'[p] \in ListPcs
  BY DEF CutPcs, ListPcs
<1>1. CASE CapLive(p) /\ pc'[p] = "cap_busy"
  BY <1>1 DEF CutPcs
<1>2. CASE CapWeigh(p) /\ Live' = Live
           /\ victims'[p] = BeyondThePool(scan, victims[p], busy \cup Claimed, WarmPool)
  <2>1. pc[p] = "cap_weigh"
    BY <1>2 DEF CapWeigh
  <2>2. victims[p] \subseteq Live /\ Live \subseteq Chats
    BY <2>1 DEF ListedLive, ListPcs, Live
  <2>3. IsFiniteSet(victims[p])
    BY <2>2, FS_Subset
  <2>4. \A c \in victims[p] : scan[c].state = "open"
    BY <2>1, <2>2 DEF LiveIsOpen, Live, Open, ScanAgrees, WeighPcs
  <2>5. \A c \in victims[p] : scan[c].active \in Nat
    BY <2>2 DEF Planted, Typed, TypeOK, WeighedOK, Manifests
  <2>6. WarmPool \in Nat
    BY ConstantsOK
  <2>7. PICK e : e \in victims'[p]
    OBVIOUS
  <2>8. PICK kept \in SUBSET (victims[p] \ BeyondThePool(scan, victims[p], busy \cup Claimed, WarmPool)) :
          Cardinality(kept) >= WarmPool
    BY <1>2, <2>3, <2>4, <2>5, <2>6, <2>7, CutsOnlyTheOverflow
  <2> QED BY <1>2, <2>2, <2>8
<1>3. CASE pc[p] \in CutPcs /\ victims'[p] \subseteq victims[p]
  <2>1. PICK kept \in SUBSET (Live \ victims[p]) : Cardinality(kept) >= WarmPool
    BY <1>3 DEF KeptEnough
  <2>2. ASSUME NEW c \in kept, c \notin Live' PROVE FALSE
    <3>1. c \in Chats /\ c \in Live
      BY DEF Live
    <3>2. PICK q \in Requests : CapPark(q) /\ c \in victims[q]
      BY <2>2, <3>1, LiveLeaves
    <3>3. q = p
      BY <1>3, <3>2 DEF OneParker, CapPark, ParkPcs, CutPcs
    <3> QED BY <3>2, <3>3
  <2>3. kept \in SUBSET (Live' \ victims'[p])
    BY <1>3, <2>2
  <2> QED BY <2>1, <2>3
<1> QED BY <1>0, <1>1, <1>2, <1>3, VictimsMove

\* A wake that spawned its container has just done so, or had.
LEMMA ClimbMoves ==
  ASSUME Unreviving, Uncut, [Next]_vars, NEW p \in Requests,
         pc'[p] = "w_climb", spawned'[p]
  PROVE  \/ pc[p] = "w_climb" /\ spawned[p] /\ chat'[p] = chat[p]
         \/ WakeSpawn(p) /\ Spawn(chat[p]) /\ chat'[p] = chat[p]
<1> USE DEF Uncut, Planted
<1>1. /\ pc \in [Procs -> Pcs] /\ spawned \in [Procs -> BOOLEAN]
      /\ Boot \notin Requests /\ \A q \in Requests : q \in Procs
      /\ Ops \subseteq {"prompt"}
      /\ chat \in [Procs -> Chats \cup {None}]
  BY ConstantsOK DEF Typed, TypeOK, LocalsOK, Procs, Unreviving
<1>2. CASE \E q \in Requests : PromptStep(q)
  <2> PICK q \in Requests : PromptStep(q)
    BY <1>2
  <2>1. CASE q # p
    <3>1. pc'[p] = pc[p] /\ chat'[p] = chat[p]
      BY <1>1, <2>1, OthersStay DEF PromptStep
    <3>2. spawned'[p] => spawned[p]
      BY <1>1, <2>1, SMTT(30) DEF PromptStep, WakeStep, WakeClaim, WakeRead,
         WakeTree, ReviveCheck, CloneStart, CloneEnd, Wipe, ReviveOpen, House,
         WakeSpawn, Climb, WakeRelease, WakeForget, WakeRecord, WakeHold,
         WakeDrop, TurnStep, Of, TurnLock, Unclaim, TurnSend, EndForget,
         TouchRead, TouchWrite, TurnEnd, LetGo, CapStep, CapScan, CapLive,
         CapBusy, CapWeigh, CapPark, CapForget, CapEnd, Done, locals
    <3> QED BY <3>1, <3>2
  <2>2. CASE q = p
    <3>1. WakeStep(p)
      BY <1>1, <2>2, SMTT(30) DEF PromptStep, Goto, TurnStep, Of, TurnLock,
         Unclaim, TurnSend, EndForget, TouchRead, TouchWrite, TurnEnd, LetGo,
         CapStep, CapScan, CapLive, CapBusy, CapWeigh, CapPark, CapForget,
         CapEnd, Done
    <3>2. House(p) \/ WakeSpawn(p)
      BY <1>1, <3>1, SMTT(30) DEF Goto, WakeStep, WakeClaim, WakeRead,
         WakeTree, ReviveCheck, CloneStart, CloneEnd, Wipe, ReviveOpen, Climb,
         WakeRelease, WakeForget, WakeRecord, WakeHold, WakeDrop
    <3>3. CASE House(p)
      BY <3>3 DEF House, SpawnedWhere, locals
    <3>4. CASE WakeSpawn(p)
      BY <1>1, <3>4 DEF WakeSpawn, Goto
    <3> QED BY <3>2, <3>3, <3>4
  <2> QED BY <2>1, <2>2
<1>3. CASE SweepStep(Boot)
  BY <1>1, <1>3, SweepMoves
<1>4. CASE \E q \in Requests, d \in Chats : BeginPrompt(q, d)
  BY <1>1, <1>4 DEF BeginPrompt, Begin, Goto
<1>5. CASE Around \/ UNCHANGED vars
  BY <1>5 DEF Around, AgentWrites, StrayEnds, ContainerExits, vars, locals
<1>6. ~Crash /\ ~\E q \in Requests : Hangup(q)
  BY DEF Unreviving, Crash, Hangup, May
<1> QED BY <1>1, <1>2, <1>3, <1>4, <1>5, <1>6, Moves

\* The claim keeps a chat that is waking out of the victims of who weighs.
LEMMA NextSpawnedLive ==
  ASSUME Unreviving, Uncut, [Next]_vars
  PROVE  SpawnedLive'
<1> USE DEF Uncut
<1>1. /\ pc \in [Procs -> Pcs] /\ container \in [Chats -> {"none", "live", "exited"}]
      /\ Boot \notin Requests /\ \A q \in Requests : q \in Procs
      /\ Ops \subseteq {"prompt"}
  BY ConstantsOK DEF Planted, Typed, TypeOK, PlaneOK, Procs, Unreviving
<1> SUFFICES ASSUME NEW p \in Requests
             PROVE  /\ pc'[p] # "w_release"
                    /\ pc'[p] = "w_climb" /\ spawned'[p] =>
                         /\ chat'[p] \in Live'
                         /\ \A q \in Requests : pc'[q] \in CutPcs => chat'[p] \notin victims'[q]
  BY DEF SpawnedLive
<1>2. ASSUME pc'[p] = "w_release" PROVE FALSE
  <2>1. pc[p] # "w_release"
    BY DEF SpawnedLive
  <2>2. CASE \E q \in Requests : PromptStep(q)
    <3> PICK q \in Requests : PromptStep(q)
      BY <2>2
    <3>1. q = p
      BY <1>1, <1>2, <2>1, OthersStay DEF PromptStep, Planted
    <3>2. Climb(p)
      BY <1>1, <1>2, <2>1, <3>1, SMTT(30) DEF Goto, PromptStep, WakeStep,
         WakeClaim, WakeRead, WakeTree, ReviveCheck, CloneStart, CloneEnd,
         Wipe, ReviveOpen, House, WakeSpawn, WakeRelease, WakeForget,
         WakeRecord, WakeHold, WakeDrop, TurnStep, Of, TurnLock, Unclaim,
         TurnSend, EndForget, TouchRead, TouchWrite, TurnEnd, LetGo, CapStep,
         CapScan, CapLive, CapBusy, CapWeigh, CapPark, CapForget, CapEnd, Done
    <3>3. chat[p] \in Chats /\ ~May("adapter")
      BY <3>2 DEF Planted, Typed, AtWork, Climb, Unreviving, May
    <3> QED BY <1>1, <1>2, <3>2, <3>3 DEF Climb, Goto, SpawnedLive, Live
  <2>3. CASE SweepStep(Boot)
    BY <1>1, <1>2, <2>1, <2>3, SweepMoves DEF Planted
  <2>4. CASE \E q \in Requests, d \in Chats : BeginPrompt(q, d)
    BY <1>1, <1>2, <2>1, <2>4 DEF BeginPrompt, Begin, Goto
  <2>5. CASE Around \/ UNCHANGED vars
    BY <1>2, <2>1, <2>5 DEF Around, AgentWrites, StrayEnds, ContainerExits,
       vars
  <2>6. ~Crash /\ ~\E q \in Requests : Hangup(q)
    BY DEF Unreviving, Crash, Hangup, May
  <2> QED BY <1>1, <2>2, <2>3, <2>4, <2>5, <2>6, Moves DEF Planted
<1>3. ASSUME pc'[p] = "w_climb", spawned'[p]
      PROVE  /\ chat'[p] \in Live'
             /\ \A q \in Requests : pc'[q] \in CutPcs => chat'[p] \notin victims'[q]
  <2>1. CASE pc[p] = "w_climb" /\ spawned[p] /\ chat'[p] = chat[p]
    <3>1. chat[p] \in Live /\ chat[p] \in Chats
      BY <2>1 DEF SpawnedLive, Live
    <3>2. \A q \in Requests : pc[q] \in CutPcs => chat[p] \notin victims[q]
      BY <2>1 DEF SpawnedLive
    <3>3. chat[p] \in Live'
      BY <3>1, <3>2, LiveLeaves DEF CapPark, CutPcs
    <3>4. chat[p] \in Claimed
      <4>1. HoldsClaim(p)
        BY <1>1, <2>1 DEF HoldsClaim, ClaimPcs, WakePcs
      <4> QED BY <1>1, <3>1, <4>1 DEF Planted, Guarded, OneClaimant, Claimed
    <3>5. ASSUME NEW q \in Requests, pc'[q] \in CutPcs
          PROVE  chat[p] \notin victims'[q]
      <4>1. pc'[q] \in ListPcs /\ pc'[q] # "cap_busy"
        BY <3>5 DEF CutPcs, ListPcs
      <4>2. chat[p] \notin BeyondThePool(scan, victims[q], busy \cup Claimed, WarmPool)
        BY <3>4 DEF BeyondThePool
      <4> QED BY <3>2, <3>5, <4>1, <4>2, VictimsMove
    <3> QED BY <2>1, <3>3, <3>5
  <2>2. CASE WakeSpawn(p) /\ Spawn(chat[p]) /\ chat'[p] = chat[p]
    <3>1. chat[p] \in Chats /\ chat[p] \notin Live /\ chat[p] \in Live'
      BY <1>1, <2>2 DEF Planted, Typed, AtWork, WakeSpawn, Spawn, Live
    <3>2. ASSUME NEW q \in Requests, pc'[q] \in CutPcs
          PROVE  chat[p] \notin victims'[q]
      <4>1. q # p
        BY <1>1, <1>3, <3>2 DEF CutPcs
      <4>2. pc[q] = pc'[q] /\ victims'[q] = victims[q]
        BY <1>1, <2>2, <4>1, OthersStay DEF Planted, WakeStep
      <4> QED BY <3>1, <3>2, <4>2 DEF ListedLive, CutPcs, ListPcs
    <3> QED BY <2>2, <3>1, <3>2
  <2> QED BY <1>3, <2>1, <2>2, ClimbMoves
<1> QED BY <1>2, <1>3

\* Nobody has weighed anything yet.
LEMMA InitUncut ==
  ASSUME Unreviving
  PROVE  Init => OneParker /\ SpawnedWhere /\ NoneArchived /\ LiveIsOpen
                                  /\ ListedLive /\ SpawnedLive /\ ScanAgrees /\ KeptEnough
<1> SUFFICES ASSUME Init
             PROVE  OneParker /\ SpawnedWhere /\ NoneArchived /\ LiveIsOpen
                    /\ ListedLive /\ SpawnedLive /\ ScanAgrees /\ KeptEnough
  OBVIOUS
<1>1. \A p \in Requests : pc[p] = "new" /\ ~spawned[p]
  BY ConstantsOK DEF Init, Procs
<1>2. OneParker /\ SpawnedWhere /\ ListedLive /\ SpawnedLive /\ ScanAgrees /\ KeptEnough
  BY <1>1 DEF OneParker, SpawnedWhere, ListedLive, SpawnedLive, ScanAgrees,
     KeptEnough, ParkPcs, ListPcs, WeighPcs, CutPcs
<1>3. PICK kind \in [Chats -> Kinds], stamp \in [Chats -> 1..Dawn] :
        /\ manifest = [c \in Chats |->
             IF Shapes[kind[c]].state = "absent" THEN NoManifest
             ELSE [state   |-> Shapes[kind[c]].state,
                   session |-> Shapes[kind[c]].session,
                   pushed  |-> Shapes[kind[c]].pushed,
                   active  |-> stamp[c]]]
        /\ container = [c \in Chats |-> Shapes[kind[c]].container]
  BY DEF Init
<1>4. \A c \in Chats : manifest[c].state = Shapes[kind[c]].state
  BY <1>3 DEF NoManifest
<1>5. NoneArchived
  BY <1>4 DEF Unreviving, NoneArchived
<1>6. \A k \in DOMAIN Shapes : Shapes[k].container = "live" => Shapes[k].state \in {"open", "archived"}
  BY DEF Shapes
<1>7. LiveIsOpen
  BY <1>3, <1>4, <1>5, <1>6, ConstantsOK DEF NoneArchived, LiveIsOpen, Open
<1> QED BY <1>2, <1>5, <1>7

\* It is inductive on top of Planted.
LEMMA AlwaysUncut ==
  ASSUME IsFiniteSet(Chats), Unreviving PROVE Spec => []Uncut
<1>1. Init => OneParker /\ SpawnedWhere /\ NoneArchived /\ LiveIsOpen
              /\ ListedLive /\ SpawnedLive /\ ScanAgrees /\ KeptEnough
  BY InitUncut
<1>2. Uncut /\ [Next]_vars =>
        (OneParker /\ SpawnedWhere /\ NoneArchived /\ LiveIsOpen
         /\ ListedLive /\ SpawnedLive /\ ScanAgrees /\ KeptEnough)'
  <2> SUFFICES ASSUME Uncut, [Next]_vars
               PROVE  (OneParker /\ SpawnedWhere /\ NoneArchived /\ LiveIsOpen
                       /\ ListedLive /\ SpawnedLive /\ ScanAgrees /\ KeptEnough)'
    OBVIOUS
  <2>1. (OneParker /\ SpawnedWhere /\ LiveIsOpen)'
    BY NextOneParker, NextSpawnedWhere, NextLiveIsOpen DEF Uncut, Planted,
       Unreviving
  <2> QED BY <2>1, NextAgrees, NextListedLive, NextSpawnedLive, NextKeptEnough
<1>3. Spec => []Planted
  BY AlwaysPlanted DEF Unreviving
<1> QED BY <1>1, <1>2, <1>3, PTL DEF Spec, Uncut

\* A container goes only from a pool that is over its cap, however the turns,
\* wakes and cappings of any number of chats are interleaved (cap_the_pool).
THEOREM CappingsCutNoDeeper ==
  ASSUME IsFiniteSet(Chats), Unreviving PROVE Spec => NeverCutBelowTheCap
<1>1. ASSUME Uncut, [Next]_vars, NEW c \in Live, c \notin Live'
      PROVE  Cardinality(Live) > WarmPool
  <2>1. PICK p \in Requests : CapPark(p) /\ c \in victims[p]
    BY <1>1, LiveLeaves DEF Live
  <2>2. PICK kept \in SUBSET (Live \ victims[p]) : Cardinality(kept) >= WarmPool
    BY <1>1, <2>1 DEF Uncut, KeptEnough, CapPark, CutPcs
  <2>3. IsFiniteSet(Live) /\ kept \cup {c} \subseteq Live /\ c \notin kept
    BY <1>1, <2>1, FS_Subset DEF Live
  <2>4. IsFiniteSet(kept) /\ Cardinality(kept) \in Nat /\ Cardinality(Live) \in Nat
    BY <2>3, FS_Subset, FS_CardinalityType
  <2>5. Cardinality(kept \cup {c}) = Cardinality(kept) + 1
    BY <2>3, <2>4, FS_AddElement
  <2>6. Cardinality(kept \cup {c}) <= Cardinality(Live)
    BY <2>3, FS_Subset
  <2> QED BY <2>2, <2>4, <2>5, <2>6, ConstantsOK
<1>2. Uncut /\ [Next]_vars =>
        [\A c \in Live : c \notin Live' => Cardinality(Live) > WarmPool]_vars
  BY <1>1
<1> QED BY <1>2, AlwaysUncut, PTL DEF Spec, NeverCutBelowTheCap

-----------------------------------------------------------------------------
(***************************************************************************)
(* A pool that settles within its cap.  The last capping to weigh the pool *)
(* does so with every other request through (Quiet): nobody wakes a chat   *)
(* any more, nobody is occupied, and so what it leaves is within the cap.  *)
(* The weighing counts on stamps that tell any two chats apart, though the *)
(* stamps are written from copies of manifests read long before: a stamp   *)
(* on disk or in hand belongs to one chat only, and none lies in the       *)
(* future (Stamped).                                                       *)
(***************************************************************************)

\* A core that serves prompts, and at least one; every capping may read what it
\* weighs and park what it chose, and none is cut short.
Settlable ==
  /\ Ops \subseteq {"prompt"}
  /\ Faults \cap {"store", "plane", "hangup", "crash"} = {}
  /\ Requests # {}

\* The chat has a manifest.
Present(c) == manifest[c].state # "absent"

\* Where a copy of a manifest is in hand that may be written back.
SeenPcs == WarmPcs \cup RevivePcs \cup {"touch_write"}

\* The stamps of a chat: the one on disk, and those of the copies in hand.
StampsOf(c) ==
  {n \in Nat : \/ Present(c) /\ n = manifest[c].active
               \/ \E p \in Requests :
                    chat[p] = c /\ pc[p] \in SeenPcs /\ n = seen[p].active}

\* No stamp lies in the future.
Dated == \A c \in Chats : \A n \in StampsOf(c) : n <= clock

\* No two chats share a stamp.
OwnStamps == \A c, d \in Chats : c # d => StampsOf(c) \cap StampsOf(d) = {}

\* Only a chat with a manifest has a live container.
LivePresent == \A c \in Live : Present(c)

\* A capping's scan misses no chat that has a manifest ...
ScanPresent ==
  \A p \in Requests :
    pc[p] \in WeighPcs => \A c \in Chats : Present(c) => scan[c].state # "absent"

\* ... and tells any two chats apart.
ScanOwn ==
  \A p \in Requests :
    pc[p] \in WeighPcs =>
      \A c, d \in Chats :
        c # d /\ scan[c].state # "absent" /\ scan[d].state # "absent" =>
          scan[c].active # scan[d].active

\* What the weighing counts on.
Stamped == Dated /\ OwnStamps /\ LivePresent /\ ScanPresent /\ ScanOwn

\* No chat comes or goes.
LEMMA PresentStays ==
  ASSUME Planted, [Next]_vars, NEW c \in Chats
  PROVE  Present(c)' <=> Present(c)
<1>1. CASE manifest'[c] = manifest[c]
  BY <1>1 DEF Present
<1>2. CASE manifest'[c] # manifest[c]
  <2>1. PICK p \in Requests : /\ chat[p] = c /\ manifest'[c].state = "open"
                              /\ ReviveOpen(p) \/ WakeRecord(p) \/ TouchWrite(p)
    BY <1>2, ManifestMoves DEF Planted, Serving, Placing
  <2> QED
    BY <2>1 DEF Present, Planted, Placing, RevivesArchived, RevivePcs,
       WorksOnOpen, OpenPcs, WarmPcs, Open, ReviveOpen, WakeRecord, TouchWrite
<1> QED BY <1>1, <1>2

\* A prompt's copy of a manifest is of its own chat ...
LEMMA PromptSees ==
  ASSUME Planted, NEW p \in Requests, PromptStep(p), pc'[p] \in SeenPcs
  PROVE  /\ chat'[p] = chat[p]
         /\ \/ pc[p] \in SeenPcs /\ seen'[p].active = seen[p].active
            \/ seen'[p] = manifest[chat[p]] /\ Present(chat[p])
<1> USE DEF Planted
<1>1. /\ manifest \in [Chats -> Manifests] /\ pc \in [Procs -> Pcs] /\ p \in Procs
      /\ pc[p] # "new" /\ pc[p] # "done" => chat[p] \in Chats
      /\ seen \in [Procs -> Manifests]
  BY DEF Typed, TypeOK, DiskOK, AtWork, LocalsOK, Procs
<1>2. CASE WakeRead(p)
  BY <1>1, <1>2 DEF WakeRead, Placing, AbsentIsBlank, SeenPcs, WarmPcs,
     RevivePcs, Goto, Present
<1>3. CASE ReviveOpen(p)
  <2>1. [seen[p] EXCEPT !.state = "open"].active = seen[p].active
    BY <1>1 DEF Manifests
  <2>2. seen'[p] = [seen[p] EXCEPT !.state = "open"] \/ seen'[p] = seen[p]
    BY <1>1, <1>3 DEF ReviveOpen
  <2> QED BY <1>1, <1>3, <2>1, <2>2 DEF ReviveOpen, SeenPcs, RevivePcs
<1>4. CASE TouchRead(p)
  BY <1>1, <1>4 DEF TouchRead, Placing, WorksOnOpen, Open, OpenPcs, SeenPcs,
     WarmPcs, RevivePcs, Goto, Present
<1>5. CASE ~WakeRead(p) /\ ~ReviveOpen(p) /\ ~TouchRead(p)
  <2>1. pc[p] \in SeenPcs /\ seen'[p] = seen[p] /\ chat'[p] = chat[p]
    BY <1>1, <1>5, SMTT(30) DEF SeenPcs, WarmPcs, RevivePcs, Goto, PromptStep,
       WakeStep, WakeClaim, WakeTree, ReviveCheck, CloneStart, CloneEnd, Wipe,
       House, WakeSpawn, Climb, WakeRelease, WakeForget, WakeRecord, WakeHold,
       WakeDrop, TurnStep, Of, TurnLock, Unclaim, TurnSend, EndForget,
       TouchWrite, TurnEnd, LetGo, CapStep, CapScan, CapLive, CapBusy,
       CapWeigh, CapPark, CapForget, CapEnd, Done, locals
  <2> QED BY <2>1
<1> QED BY <1>2, <1>3, <1>4, <1>5

\* ... and nothing else touches it.
LEMMA SeenMoves ==
  ASSUME Settlable, Planted, [Next]_vars, NEW p \in Requests,
         pc'[p] \in SeenPcs
  PROVE  /\ chat'[p] = chat[p]
         /\ \/ pc[p] \in SeenPcs /\ seen'[p].active = seen[p].active
            \/ seen'[p] = manifest[chat[p]] /\ Present(chat[p])
<1>1. /\ pc \in [Procs -> Pcs] /\ chat \in [Procs -> Chats \cup {None}]
      /\ Boot \notin Requests /\ \A q \in Requests : q \in Procs
      /\ Ops \subseteq {"prompt"}
  BY ConstantsOK DEF Planted, Typed, TypeOK, LocalsOK, Procs, Settlable
<1>2. CASE \E q \in Requests : PromptStep(q)
  <2> PICK q \in Requests : PromptStep(q)
    BY <1>2
  <2>1. CASE q = p
    BY <2>1, PromptSees
  <2>2. CASE q # p
    BY <1>1, <2>2, OthersStay DEF PromptStep, Planted
  <2> QED BY <2>1, <2>2
<1>3. CASE SweepStep(Boot)
  BY <1>1, <1>3, SweepMoves DEF Planted
<1>4. CASE \E q \in Requests, d \in Chats : BeginPrompt(q, d)
  <2> PICK q \in Requests, d \in Chats : BeginPrompt(q, d)
    BY <1>4
  <2>1. q # p
    BY <1>1 DEF BeginPrompt, Begin, Goto, SeenPcs, WarmPcs, RevivePcs
  <2> QED BY <1>1, <2>1 DEF BeginPrompt, Begin, Goto
<1>5. CASE Around \/ UNCHANGED vars
  BY <1>5 DEF Around, AgentWrites, StrayEnds, ContainerExits, vars, locals
<1>6. ~Crash /\ ~\E q \in Requests : Hangup(q)
  BY DEF Settlable, Crash, Hangup, May
<1> QED BY <1>1, <1>2, <1>3, <1>4, <1>5, <1>6, Moves DEF Planted

\* Only a touch takes a new stamp.
LEMMA ClockMoves ==
  ASSUME Settlable, Planted, [Next]_vars
  PROVE  \/ clock' = clock /\ ~\E p \in Requests : TouchWrite(p)
         \/ \E p \in Requests : TouchWrite(p) /\ clock' = clock + 1
<1>1. Ops \subseteq {"prompt"} /\ ~May("store")
  BY DEF Settlable, May
<1>2. CASE \E p \in Requests : TouchWrite(p)
  BY <1>1, <1>2 DEF TouchWrite
<1>3. CASE ~\E p \in Requests : TouchWrite(p)
  <2> SUFFICES clock' = clock
    BY <1>3
  <2>1. CASE \E q \in Requests : PromptStep(q)
    BY <1>3, <2>1, SMTT(30) DEF PromptStep, WakeStep, WakeClaim, WakeRead,
       WakeTree, ReviveCheck, CloneStart, CloneEnd, Wipe, ReviveOpen, House,
       WakeSpawn, Climb, WakeRelease, WakeForget, WakeRecord, WakeHold,
       WakeDrop, TurnStep, Of, TurnLock, Unclaim, TurnSend, EndForget,
       TouchRead, TurnEnd, CapStep, CapScan, CapLive, CapBusy, CapWeigh,
       CapPark, CapForget, CapEnd, disk
  <2>2. CASE SweepStep(Boot)
    BY <2>2, SMTT(30) DEF SweepStep, SweepScan, SweepLive, SweepList,
       SweepClaimed, SweepRemove, SweepOver, disk
  <2>3. CASE Around \/ UNCHANGED vars \/ \E q \in Requests, d \in Chats : BeginPrompt(q, d)
    BY <2>3 DEF Around, AgentWrites, StrayEnds, ContainerExits, BeginPrompt,
       Begin, vars, disk
  <2>4. ~Crash /\ ~\E q \in Requests : Hangup(q)
    BY DEF Settlable, Crash, Hangup, May
  <2> QED BY <1>1, <1>3, <2>1, <2>2, <2>3, <2>4, Moves DEF Planted
<1> QED BY <1>2, <1>3

\* A new stamp of a chat is one it had, or a new one.
LEMMA StampsMove ==
  ASSUME Settlable, Planted, [Next]_vars, NEW c \in Chats,
         NEW n \in StampsOf(c)'
  PROVE  \/ n \in StampsOf(c)
         \/ \E p \in Requests : TouchWrite(p) /\ chat[p] = c /\ n = clock + 1
<1>1. /\ manifest \in [Chats -> Manifests] /\ clock \in Nat
      /\ seen \in [Procs -> Manifests] /\ \A p \in Requests : p \in Procs
  BY DEF Planted, Typed, TypeOK, DiskOK, LocalsOK, Procs
<1>2. n \in Nat
  BY DEF StampsOf
<1>3. CASE Present(c)' /\ n = manifest'[c].active
  <2>1. Present(c)
    BY <1>3, PresentStays
  <2>2. CASE manifest'[c] = manifest[c]
    BY <1>2, <1>3, <2>1, <2>2 DEF StampsOf
  <2>3. CASE manifest'[c] # manifest[c]
    <3>1. PICK p \in Requests : chat[p] = c /\ (ReviveOpen(p) \/ WakeRecord(p) \/ TouchWrite(p))
      BY <2>3, ManifestMoves DEF Planted, Serving, Placing
    <3>2. /\ [seen[p] EXCEPT !.state = "open"].active = seen[p].active
          /\ [seen[p] EXCEPT !.session = TRUE].active = seen[p].active
          /\ [seen[p] EXCEPT !.active = clock + 1].active = clock + 1
      BY <1>1 DEF Manifests
    <3>3. CASE ReviveOpen(p)
      <4>1. manifest'[c] = [seen[p] EXCEPT !.state = "open"] /\ pc[p] \in SeenPcs
        BY <1>1, <2>3, <3>1, <3>3 DEF ReviveOpen, SeenPcs, RevivePcs
      <4> QED BY <1>2, <1>3, <3>1, <3>2, <4>1 DEF StampsOf
    <3>4. CASE WakeRecord(p)
      <4>1. manifest'[c] = [seen[p] EXCEPT !.session = TRUE] /\ pc[p] \in SeenPcs
        BY <1>1, <2>3, <3>1, <3>4 DEF WakeRecord, SeenPcs, WarmPcs
      <4> QED BY <1>2, <1>3, <3>1, <3>2, <4>1 DEF StampsOf
    <3>5. CASE TouchWrite(p)
      <4>1. manifest'[c] = [seen[p] EXCEPT !.active = clock + 1]
        BY <1>1, <2>3, <3>1, <3>5 DEF TouchWrite
      <4> QED BY <1>3, <3>1, <3>2, <3>5, <4>1
    <3> QED BY <3>1, <3>3, <3>4, <3>5
  <2> QED BY <2>2, <2>3
<1>4. ASSUME NEW p \in Requests, chat'[p] = c, pc'[p] \in SeenPcs,
             n = seen'[p].active
      PROVE  n \in StampsOf(c)
  BY <1>2, <1>4, SeenMoves DEF StampsOf
<1> QED BY <1>3, <1>4 DEF StampsOf

\* One request moves at a time.
LEMMA OneTouches ==
  ASSUME Planted, NEW p \in Requests, NEW q \in Requests, TouchWrite(p),
         TouchWrite(q)
  PROVE  p = q
<1>1. pc \in [Procs -> Pcs] /\ p \in Procs /\ q \in Procs
  BY DEF Planted, Typed, TypeOK, Procs
<1> QED BY <1>1 DEF TouchWrite, Goto

\* No step mixes up the stamps of two chats.
LEMMA NextStamped ==
  ASSUME Settlable, Planted, Dated, OwnStamps, [Next]_vars
  PROVE  Dated' /\ OwnStamps'
<1>1. clock \in Nat /\ \A c \in Chats : StampsOf(c) \subseteq Nat
  BY DEF Planted, Typed, TypeOK, DiskOK, StampsOf
<1>2. ASSUME NEW c \in Chats, NEW n \in StampsOf(c)' PROVE n <= clock'
  BY <1>1, <1>2, StampsMove, ClockMoves DEF Dated
<1>3. ASSUME NEW c \in Chats, NEW d \in Chats, c # d, NEW n,
             n \in StampsOf(c)', n \in StampsOf(d)'
      PROVE  FALSE
  <2>1. ASSUME NEW p \in Requests, NEW q \in Requests, TouchWrite(p),
               TouchWrite(q)
        PROVE  p = q
    BY <2>1, OneTouches
  <2>2. n \in StampsOf(c) \/ \E p \in Requests : TouchWrite(p) /\ chat[p] = c /\ n = clock + 1
    BY <1>3, StampsMove
  <2>3. n \in StampsOf(d) \/ \E p \in Requests : TouchWrite(p) /\ chat[p] = d /\ n = clock + 1
    BY <1>3, StampsMove
  <2>4. \A e \in Chats : n \in StampsOf(e) => n # clock + 1
    BY <1>1 DEF Dated
  <2> QED BY <1>3, <2>1, <2>2, <2>3, <2>4 DEF OwnStamps
<1>4. Dated'
  BY <1>2 DEF Dated
<1> QED BY <1>3, <1>4 DEF OwnStamps

\* Every request has been answered or is capping with the live chats listed.
Quiet == \A p \in Requests : pc[p] \in ListPcs \cup {"done"}

\* When all is quiet the one capping left has listed all that is live, found
\* nobody busy, and leaves no more than the cap; and so did the last one.
Settling ==
  Quiet =>
    /\ \A p \in Requests :
         /\ pc[p] \in {"cap_busy", "cap_weigh"} => Live \subseteq victims[p]
         /\ pc[p] = "cap_weigh" => busy = {}
         /\ pc[p] \in CutPcs => Cardinality(Live \ victims[p]) <= WarmPool
    /\ (\A p \in Requests : pc[p] = "done") => Cardinality(Live) <= WarmPool

\* The invariant.
Settles == Planted /\ OneParker /\ Stamped /\ Settling

\* A container starts for an open chat only.
LEMMA NextLivePresent ==
  ASSUME Planted, LivePresent, [Next]_vars
  PROVE  LivePresent'
<1> SUFFICES ASSUME NEW c \in Chats, container'[c] = "live" PROVE Present(c)
  BY PresentStays DEF LivePresent, Live
<1>1. NoCreation
  BY DEF Planted, Serving, PromptsOnly, NoCreation, Typed, BootOnlySweeps,
     SweepPcs, CreatePcs, PromptPcs, WakePcs, TurnPcs, CapPcs, Procs
<1>2. CASE container[c] = "live"
  BY <1>2 DEF LivePresent, Live
<1>3. CASE container[c] # "live"
  <2>1. PICK q \in Procs : WakeSpawn(q) /\ chat[q] = c
    BY <1>1, <1>3, OnlyWakesSpawn DEF Planted
  <2>2. q \in Requests
    BY <2>1 DEF Planted, Typed, BootOnlySweeps, SweepPcs, WakeSpawn, Procs
  <2> QED BY <2>1, <2>2 DEF WakeSpawn, Planted, Placing, WorksOnOpen, OpenPcs,
     WarmPcs, Open, Present
<1> QED BY <1>2, <1>3

\* What a capping weighs is what it read, all at once.
LEMMA ScanMoves ==
  ASSUME Settlable, Planted, OneParker, [Next]_vars, NEW p \in Requests,
         pc'[p] \in WeighPcs
  PROVE  \/ pc[p] \in WeighPcs /\ scan' = scan
         \/ scan' = manifest
<1> USE DEF Planted
<1>1. /\ pc \in [Procs -> Pcs] /\ \A q \in Requests : q \in Procs
      /\ Boot \notin Requests /\ Ops \subseteq {"prompt"}
      /\ Faults \cap {"store", "plane"} = {}
  BY ConstantsOK DEF Typed, TypeOK, Procs, Settlable
<1>2. CASE \E q \in Requests : PromptStep(q)
  <2> PICK q \in Requests : PromptStep(q)
    BY <1>2
  <2>1. \A r \in Procs : r # q => pc'[r] = pc[r]
    BY PromptMoves DEF PromptStep
  <2>2. CASE CapScan(q)
    BY <1>1, <2>2 DEF CapScan, May
  <2>3. CASE CapWeigh(q)
    <3>1. p # q
      BY <1>1, <2>3 DEF CapWeigh, Goto, WeighPcs
    <3> QED BY <1>1, <2>1, <2>3, <3>1 DEF CapWeigh, OneParker, ParkPcs,
       WeighPcs
  <2>4. CASE ~CapScan(q) /\ ~CapWeigh(q)
    <3>1. scan' = scan
      BY <1>1, <2>4, SMTT(30) DEF May, PromptStep, WakeStep, WakeClaim,
         WakeRead, WakeTree, ReviveCheck, CloneStart, CloneEnd, Wipe,
         ReviveOpen, House, WakeSpawn, Climb, WakeRelease, WakeForget,
         WakeRecord, WakeHold, WakeDrop, TurnStep, Of, TurnLock, Unclaim,
         TurnSend, EndForget, TouchRead, TouchWrite, TurnEnd, LetGo, CapStep,
         CapLive, CapBusy, CapPark, CapForget, CapEnd, weighed
    <3>2. pc'[q] \in WeighPcs => pc[q] \in WeighPcs
      BY <1>1, <2>4, SMTT(30) DEF WeighPcs, Goto, PromptStep, WakeStep,
         WakeClaim, WakeRead, WakeTree, ReviveCheck, CloneStart, CloneEnd,
         Wipe, ReviveOpen, House, WakeSpawn, Climb, WakeRelease, WakeForget,
         WakeRecord, WakeHold, WakeDrop, TurnStep, Of, TurnLock, Unclaim,
         TurnSend, EndForget, TouchRead, TouchWrite, TurnEnd, LetGo, CapStep,
         CapLive, CapBusy, CapPark, CapForget, CapEnd, Done
    <3> QED BY <1>1, <2>1, <3>1, <3>2
  <2> QED BY <2>2, <2>3, <2>4
<1>3. CASE SweepStep(Boot)
  BY <1>1, <1>3, SweepMoves
<1>4. CASE \E q \in Requests, c \in Chats : BeginPrompt(q, c)
  BY <1>1, <1>4 DEF BeginPrompt, Begin, Goto, weighed, WeighPcs
<1>5. CASE Around \/ UNCHANGED vars
  BY <1>5 DEF Around, AgentWrites, StrayEnds, ContainerExits, vars, weighed
<1>6. ~Crash /\ ~\E q \in Requests : Hangup(q)
  BY DEF Settlable, Crash, Hangup, May
<1> QED BY <1>1, <1>2, <1>3, <1>4, <1>5, <1>6, Moves

\* A scan tells the chats apart as the disk does.
LEMMA NextScanned ==
  ASSUME Settlable, Planted, OneParker, Stamped, [Next]_vars
  PROVE  ScanPresent' /\ ScanOwn'
<1>1. ASSUME NEW p \in Requests, pc'[p] \in WeighPcs
      PROVE  /\ \A c \in Chats : Present(c)' => scan'[c].state # "absent"
             /\ \A c, d \in Chats :
                  c # d /\ scan'[c].state # "absent" /\ scan'[d].state # "absent" =>
                    scan'[c].active # scan'[d].active
  <2>1. CASE pc[p] \in WeighPcs /\ scan' = scan
    BY <2>1, PresentStays DEF Stamped, ScanPresent, ScanOwn
  <2>2. CASE scan' = manifest
    <3>1. \A c \in Chats : Present(c) => manifest[c].active \in StampsOf(c)
      BY DEF Planted, Typed, TypeOK, DiskOK, Manifests, StampsOf
    <3>2. \A c \in Chats : Present(c)' => Present(c)
      BY PresentStays
    <3> QED BY <2>2, <3>1, <3>2 DEF Stamped, OwnStamps, Present
  <2> QED BY <1>1, <2>1, <2>2, ScanMoves
<1> QED BY <1>1 DEF ScanPresent, ScanOwn

\* When all is quiet no container starts ...
LEMMA QuietLive ==
  ASSUME Planted, Quiet, [Next]_vars PROVE Live' \subseteq Live
<1>1. NoCreation
  BY DEF Planted, Serving, PromptsOnly, NoCreation, Typed, BootOnlySweeps,
     SweepPcs, CreatePcs, PromptPcs, WakePcs, TurnPcs, CapPcs, Procs
<1> SUFFICES ASSUME NEW c \in Chats, container'[c] = "live",
                    container[c] # "live"
             PROVE  FALSE
  BY DEF Live
<1>2. PICK q \in Procs : WakeSpawn(q) /\ chat[q] = c
  BY <1>1, OnlyWakesSpawn DEF Planted
<1>3. q \in Requests
  BY <1>2 DEF Planted, Typed, BootOnlySweeps, SweepPcs, WakeSpawn, Procs
<1> QED BY <1>2, <1>3 DEF Quiet, ListPcs, WakeSpawn

\* ... and nobody holds a turn lock or a claim.
LEMMA QuietGates ==
  ASSUME Planted, Quiet PROVE Busy = {} /\ Claimed = {}
<1>1. \A p \in Procs : ~HoldsClaim(p) /\ ~HoldsLock(p)
  BY DEF Planted, Typed, BootOnlySweeps, Quiet, ListPcs, HoldsClaim, HoldsLock,
     ClaimPcs, LockPcs, WakePcs, TurnPcs, GatePcs, SweepPcs, Procs
<1>2. /\ held \in [Chats -> Conns \cup {None}] /\ lock \in [Conns -> Procs \cup {None}]
  BY DEF Planted, Typed, TypeOK, PipesOK
<1>3. \A k \in Conns : lock[k] = None
  BY <1>1, <1>2 DEF Planted, Guarded, OneConversation
<1>4. \A c \in Chats : claims[c] = "free"
  BY <1>1 DEF Planted, Guarded, OneClaimant
<1> QED BY <1>2, <1>3, <1>4 DEF Busy, Claimed

\* It falls quiet when the last request lists the live chats.
LEMMA TurnsQuiet ==
  ASSUME Settlable, Planted, OneParker, ~Quiet, Quiet', [Next]_vars
  PROVE  \E p \in Requests : /\ CapLive(p) /\ pc'[p] = "cap_busy" /\ victims'[p] = Live
                             /\ Live' = Live
                             /\ \A q \in Requests : q # p => pc'[q] = "done"
<1> USE DEF Planted
<1>1. /\ pc \in [Procs -> Pcs] /\ \A q \in Requests : q \in Procs
      /\ victims \in [Procs -> SUBSET Chats]
      /\ Boot \notin Requests /\ Ops \subseteq {"prompt"}
      /\ ~May("store") /\ ~May("plane")
  BY ConstantsOK DEF Typed, TypeOK, LocalsOK, Procs, Settlable, May
<1>2. PICK p \in Requests : pc[p] \notin ListPcs \cup {"done"}
  BY DEF Quiet
<1>3. pc'[p] \in ListPcs \cup {"done"}
  BY DEF Quiet
<1>4. \E q \in Requests : PromptStep(q)
  <2>1. ~SweepStep(Boot)
    BY <1>1, <1>2, <1>3, SweepMoves
  <2>2. ~\E q \in Requests, c \in Chats : BeginPrompt(q, c)
    BY <1>1, <1>2, <1>3 DEF BeginPrompt, Begin, Goto, ListPcs
  <2>3. ~Around /\ ~UNCHANGED vars
    BY <1>2, <1>3 DEF Around, AgentWrites, StrayEnds, ContainerExits, vars
  <2>4. ~Crash /\ ~\E q \in Requests : Hangup(q)
    BY DEF Settlable, Crash, Hangup, May
  <2> QED BY <1>1, <2>1, <2>2, <2>3, <2>4, Moves
<1>5. PICK q \in Requests : PromptStep(q)
  BY <1>4
<1>6. q = p
  BY <1>1, <1>2, <1>3, <1>5, OthersStay DEF PromptStep
<1>7. CapLive(p)
  BY <1>1, <1>2, <1>3, <1>5, <1>6, SMTT(30) DEF ListPcs, Goto, PromptStep,
     WakeStep, WakeClaim, WakeRead, WakeTree, ReviveCheck, CloneStart,
     CloneEnd, Wipe, ReviveOpen, House, WakeSpawn, Climb, WakeRelease,
     WakeForget, WakeRecord, WakeHold, WakeDrop, TurnStep, Of, TurnLock,
     Unclaim, TurnSend, EndForget, TouchRead, TouchWrite, TurnEnd, LetGo,
     CapStep, CapScan, CapBusy, CapWeigh, CapPark, CapForget, CapEnd, Done
<1>8. /\ victims'[p] = Live /\ pc'[p] = "cap_busy" /\ Live' = Live
      /\ parking = p
  BY <1>1, <1>7 DEF CapLive, Goto, plane, Live, OneParker, ParkPcs
<1>9. \A r \in Requests : r # p => pc'[r] = pc[r] /\ pc[r] = "done"
  <2> TAKE r \in Requests
  <2> HAVE r # p
  <2>1. pc'[r] = pc[r]
    BY <1>1, <1>5, <1>6, OthersStay DEF PromptStep
  <2>2. pc[r] \notin ParkPcs
    BY <1>8 DEF OneParker
  <2> QED BY <2>1, <2>2 DEF Quiet, ListPcs, ParkPcs
<1> QED BY <1>7, <1>8, <1>9

\* Then only cappings move, or what goes on around them.
LEMMA QuietMoves ==
  ASSUME Settlable, Planted, Quiet, [Next]_vars
  PROVE  \/ \E p \in Requests : CapBusy(p) \/ CapWeigh(p) \/ CapPark(p) \/ CapForget(p) \/ CapEnd(p)
         \/ /\ \A p \in Requests : pc'[p] = pc[p] /\ victims'[p] = victims[p]
            /\ busy' = busy
<1> USE DEF Planted
<1>1. /\ pc \in [Procs -> Pcs] /\ \A q \in Requests : q \in Procs
      /\ victims \in [Procs -> SUBSET Chats]
      /\ Boot \notin Requests /\ Ops \subseteq {"prompt"}
  BY ConstantsOK DEF Typed, TypeOK, LocalsOK, Procs, Settlable
<1>2. ASSUME NEW p \in Requests, PromptStep(p)
      PROVE  CapBusy(p) \/ CapWeigh(p) \/ CapPark(p) \/ CapForget(p) \/ CapEnd(p)
  <2>1. pc[p] \in ListPcs \cup {"done"}
    BY DEF Quiet
  <2> QED
    BY <1>2, <2>1, SMTT(30) DEF ListPcs, PromptStep, WakeStep, WakeClaim,
       WakeRead, WakeTree, ReviveCheck, CloneStart, CloneEnd, Wipe, ReviveOpen,
       House, WakeSpawn, Climb, WakeRelease, WakeForget, WakeRecord, WakeHold,
       WakeDrop, TurnStep, Of, TurnLock, Unclaim, TurnSend, EndForget,
       TouchRead, TouchWrite, TurnEnd, CapStep, CapScan, CapLive
<1>3. CASE SweepStep(Boot)
  <2>1. \A p \in Requests : victims'[p] = victims[p]
    BY <1>1, <1>3, SMTT(30) DEF SweepStep, SweepScan, SweepLive, SweepList,
       SweepClaimed, SweepRemove, SweepOver, locals
  <2> QED BY <1>1, <1>3, <2>1, SweepMoves
<1>4. CASE \E q \in Requests, c \in Chats : BeginPrompt(q, c)
  BY <1>4 DEF BeginPrompt, Begin, Quiet, ListPcs
<1>5. CASE Around \/ UNCHANGED vars
  BY <1>5 DEF Around, AgentWrites, StrayEnds, ContainerExits, vars, locals,
     weighed
<1>6. ~Crash /\ ~\E q \in Requests : Hangup(q)
  BY DEF Settlable, Crash, Hangup, May
<1> QED BY <1>1, <1>2, <1>3, <1>4, <1>5, <1>6, Moves

\* What the last weighing leaves live fits in the pool.
LEMMA WeighsWithinTheCap ==
  ASSUME IsFiniteSet(Chats), Settles, Quiet, NEW p \in Requests,
         pc[p] = "cap_weigh"
  PROVE  Cardinality(Live \ BeyondThePool(scan, victims[p], busy \cup Claimed, WarmPool)) <= WarmPool
<1> DEFINE holders == Holders(scan, victims[p])
           beyond == BeyondThePool(scan, holders, {}, WarmPool)
<1>1. busy = {} /\ Claimed = {} /\ Live \subseteq victims[p]
  BY QuietGates DEF Settles, Settling
<1>2. Holders(scan, holders) = holders
  BY DEF Holders
<1>3. BeyondThePool(scan, victims[p], busy \cup Claimed, WarmPool) = beyond
  BY <1>1, <1>2 DEF BeyondThePool
<1>4. Live \subseteq holders
  BY <1>1 DEF Holders, Settles, Stamped, LivePresent, ScanPresent, WeighPcs,
     Live
<1>5. victims[p] \subseteq Chats /\ holders \subseteq Chats
  BY DEF Settles, Planted, Typed, TypeOK, LocalsOK, Procs, Holders
<1>6. IsFiniteSet(holders)
  BY <1>5, FS_Subset
<1>7. \A c \in holders : scan[c].state # "absent" /\ scan[c].active \in Nat
  BY <1>5 DEF Holders, Settles, Planted, Typed, TypeOK, WeighedOK, Manifests
<1>8. \A c, d \in holders : c # d => scan[c].active # scan[d].active
  BY <1>5, <1>7 DEF Settles, Stamped, ScanOwn, WeighPcs
<1>9. WarmPool \in Nat
  BY ConstantsOK
<1> HIDE DEF holders, beyond
<1>10. Cardinality(holders \ beyond) <= WarmPool
  BY <1>6, <1>7, <1>8, <1>9, KeepsWithinTheCap DEF beyond
<1>11. IsFiniteSet(holders \ beyond) /\ Live \ beyond \subseteq holders \ beyond
  BY <1>4, <1>6, FS_Subset
<1>12. Cardinality(Live \ beyond) <= Cardinality(holders \ beyond)
       /\ Cardinality(Live \ beyond) \in Nat /\ Cardinality(holders \ beyond) \in Nat
  BY <1>11, FS_Subset, FS_CardinalityType
<1>13. Cardinality(Live \ beyond) <= WarmPool
  BY <1>9, <1>10, <1>12
<1> QED BY <1>3, <1>13

\* What is within the cap stays so when it shrinks.
LEMMA SmallerFits ==
  ASSUME IsFiniteSet(Chats), NEW S \in SUBSET Chats, NEW T \in SUBSET S,
         Cardinality(S) <= WarmPool
  PROVE  Cardinality(T) <= WarmPool
<1>1. IsFiniteSet(S) /\ IsFiniteSet(T) /\ Cardinality(T) <= Cardinality(S)
  BY FS_Subset
<1> QED BY <1>1, FS_CardinalityType, ConstantsOK

\* The last capping parks all it chose before it ends.
LEMMA NextSettling ==
  ASSUME IsFiniteSet(Chats), Settlable, Settles, [Next]_vars
  PROVE  Settling'
<1> SUFFICES ASSUME Quiet'
             PROVE  /\ \A p \in Requests :
                         /\ pc'[p] \in {"cap_busy", "cap_weigh"} => Live' \subseteq victims'[p]
                         /\ pc'[p] = "cap_weigh" => busy' = {}
                         /\ pc'[p] \in CutPcs => Cardinality(Live' \ victims'[p]) <= WarmPool
                    /\ (\A p \in Requests : pc'[p] = "done") => Cardinality(Live') <= WarmPool
  BY DEF Settling
<1>1. CASE ~Quiet
  BY <1>1, TurnsQuiet DEF Settles, CutPcs
<1>2. CASE Quiet
  <2>1. Live' \subseteq Live /\ Live \subseteq Chats
    BY <1>2, QuietLive DEF Settles, Live
  <2>2. /\ \A p \in Requests :
             /\ pc[p] \in {"cap_busy", "cap_weigh"} => Live \subseteq victims[p]
             /\ pc[p] = "cap_weigh" => busy = {}
             /\ pc[p] \in CutPcs => Cardinality(Live \ victims[p]) <= WarmPool
        /\ (\A p \in Requests : pc[p] = "done") => Cardinality(Live) <= WarmPool
    BY <1>2 DEF Settles, Settling
  <2>3. /\ pc \in [Procs -> Pcs] /\ \A q \in Requests : q \in Procs
        /\ victims \in [Procs -> SUBSET Chats] /\ ~May("plane")
    BY DEF Settles, Planted, Typed, TypeOK, LocalsOK, Procs, Settlable, May
  <2>4. CASE /\ \A p \in Requests : pc'[p] = pc[p] /\ victims'[p] = victims[p]
             /\ busy' = busy
    <3>1. \A p \in Requests : Live' \ victims'[p] \subseteq Live \ victims[p] /\ Live \ victims[p] \subseteq Chats
      BY <2>1, <2>4
    <3> QED BY <2>1, <2>2, <2>4, <3>1, SmallerFits
  <2>5. ASSUME NEW p \in Requests,
               CapBusy(p) \/ CapWeigh(p) \/ CapPark(p) \/ CapForget(p) \/ CapEnd(p)
        PROVE  /\ \A q \in Requests :
                    /\ pc'[q] \in {"cap_busy", "cap_weigh"} => Live' \subseteq victims'[q]
                    /\ pc'[q] = "cap_weigh" => busy' = {}
                    /\ pc'[q] \in CutPcs => Cardinality(Live' \ victims'[q]) <= WarmPool
               /\ (\A q \in Requests : pc'[q] = "done") => Cardinality(Live') <= WarmPool
    <3>1. \A q \in Requests : q # p => pc'[q] = "done"
      <4> SUFFICES ASSUME NEW q \in Requests, q # p PROVE pc'[q] = "done"
        OBVIOUS
      <4>1. pc'[q] = pc[q]
        BY <2>3, <2>5, OthersStay DEF Settles, Planted, CapStep
      <4>2. parking = p
        BY <2>5 DEF Settles, OneParker, ParkPcs, CapBusy, CapWeigh, CapPark,
           CapForget, CapEnd
      <4> QED BY <1>2, <4>1, <4>2 DEF Quiet, ListPcs, ParkPcs, Settles,
         OneParker
    <3>2. pc'[p] \in {"cap_busy", "cap_weigh"} => Live' \subseteq victims'[p] /\ busy' = {}
      <4>1. CASE CapBusy(p)
        BY <1>2, <2>2, <2>3, <4>1, QuietGates DEF Settles, CapBusy, plane,
           locals, Live
      <4>2. CASE ~CapBusy(p)
        BY <2>3, <2>5, <4>2 DEF CapWeigh, CapPark, CapForget, CapEnd, Done,
           Goto
      <4> QED BY <4>1, <4>2
    <3>3. pc'[p] \in CutPcs => Cardinality(Live' \ victims'[p]) <= WarmPool
      <4>1. CASE CapBusy(p) \/ CapEnd(p)
        BY <2>3, <4>1 DEF CapBusy, CapEnd, Done, Goto, CutPcs
      <4>2. CASE CapWeigh(p)
        <5>1. pc[p] = "cap_weigh" /\ Live' = Live
              /\ victims'[p] = BeyondThePool(scan, victims[p], busy \cup Claimed, WarmPool)
          BY <2>3, <4>2 DEF CapWeigh, plane, Live
        <5> QED BY <1>2, <5>1, WeighsWithinTheCap
      <4>3. CASE CapPark(p)
        <5>1. PICK v \in victims[p] : /\ victims' = [victims EXCEPT ![p] = @ \ {v}]
                                      /\ TearDown(v) \/ TearDownFails(v)
          BY <4>3 DEF CapPark
        <5>2. v \notin Live'
          BY <2>3, <5>1 DEF TearDown, TearDownFails, Gone, Live, Settles,
             Planted, Typed, TypeOK, PlaneOK
        <5>3. Live' \ victims'[p] \subseteq Live \ victims[p]
          BY <2>1, <2>3, <5>1, <5>2
        <5>4. pc[p] \in CutPcs
          BY <4>3 DEF CapPark, CutPcs
        <5> QED BY <2>1, <2>2, <5>3, <5>4, SmallerFits
      <4>4. CASE CapForget(p)
        BY <2>2, <4>4 DEF CapForget, CutPcs, plane, locals, Live
      <4> QED BY <2>5, <4>1, <4>2, <4>3, <4>4
    <3>4. pc'[p] = "done" => Cardinality(Live') <= WarmPool
      <4>1. CASE CapEnd(p)
        <5>1. Live' = Live \ victims[p] /\ pc[p] \in CutPcs
          BY <4>1 DEF CapEnd, plane, Live, CutPcs
        <5> QED BY <2>2, <5>1
      <4>2. CASE ~CapEnd(p)
        BY <2>3, <2>5, <4>2 DEF CapBusy, CapWeigh, CapPark, CapForget, Goto
      <4> QED BY <4>1, <4>2
    <3> QED BY <3>1, <3>2, <3>3, <3>4 DEF CutPcs
  <2> QED BY <1>2, <2>4, <2>5, QuietMoves DEF Settles
<1> QED BY <1>1, <1>2

\* The stamps a core starts with are distinct, and a request is yet to come.
LEMMA InitSettles ==
  ASSUME Settlable PROVE Init => OneParker /\ Stamped /\ Settling
<1> SUFFICES ASSUME Init PROVE OneParker /\ Stamped /\ Settling
  OBVIOUS
<1>1. \A p \in Requests : pc[p] = "new"
  BY ConstantsOK DEF Init, Procs
<1>2. PICK kind \in [Chats -> Kinds], stamp \in [Chats -> 1..Dawn] :
        /\ \A c, d \in Chats : c # d => stamp[c] # stamp[d]
        /\ manifest = [c \in Chats |->
             IF Shapes[kind[c]].state = "absent" THEN NoManifest
             ELSE [state   |-> Shapes[kind[c]].state,
                   session |-> Shapes[kind[c]].session,
                   pushed  |-> Shapes[kind[c]].pushed,
                   active  |-> stamp[c]]]
        /\ container = [c \in Chats |-> Shapes[kind[c]].container]
  BY DEF Init
<1>3. \A c \in Chats : Present(c) => manifest[c].active = stamp[c]
  BY <1>2 DEF Present, NoManifest
<1>4. \A c \in Chats : manifest[c].state = Shapes[kind[c]].state
  BY <1>2 DEF NoManifest
<1>5. \A c \in Chats : \A n \in StampsOf(c) : n = stamp[c]
  BY <1>1, <1>3 DEF StampsOf, SeenPcs, WarmPcs, RevivePcs
<1>6. clock = Dawn /\ Dawn \in Nat
  BY ConstantsOK DEF Init
<1>7. Dated /\ OwnStamps
  BY <1>2, <1>5, <1>6 DEF Dated, OwnStamps
<1>8. \A k \in DOMAIN Shapes : Shapes[k].container = "live" => Shapes[k].state # "absent"
  BY DEF Shapes
<1>9. LivePresent
  BY <1>2, <1>4, <1>8, ConstantsOK DEF LivePresent, Live, Present
<1> QED
  BY <1>1, <1>7, <1>9 DEF Settlable, OneParker, ParkPcs, Stamped, ScanPresent,
     ScanOwn, WeighPcs, Settling, Quiet, ListPcs

\* It is inductive on top of Planted.
LEMMA AlwaysSettles ==
  ASSUME IsFiniteSet(Chats), Settlable PROVE Spec => []Settles
<1>1. Init => OneParker /\ Stamped /\ Settling
  BY InitSettles
<1>2. Settles /\ [Next]_vars => (OneParker /\ Stamped /\ Settling)'
  <2> SUFFICES ASSUME Settles, [Next]_vars
               PROVE  (OneParker /\ Stamped /\ Settling)'
    OBVIOUS
  <2>1. Planted /\ OneParker /\ Stamped /\ Dated /\ OwnStamps /\ LivePresent
    BY DEF Settles, Stamped
  <2>2. OneParker'
    BY <2>1, NextOneParker DEF Planted, Settlable
  <2>3. Dated' /\ OwnStamps'
    BY <2>1, NextStamped
  <2>4. LivePresent' /\ ScanPresent' /\ ScanOwn'
    BY <2>1, NextLivePresent, NextScanned
  <2> QED BY <2>2, <2>3, <2>4, NextSettling DEF Stamped
<1>3. Spec => []Planted
  BY AlwaysPlanted DEF Settlable
<1> QED BY <1>1, <1>2, <1>3, PTL DEF Spec, Settles

\* Once everybody has been answered the pool is inside its cap, whichever way
\* the turns, wakes and cappings of any number of chats were interleaved, and
\* whatever containers, clones and adapters failed (ADR-0002 rule 2).
THEOREM ThePoolSettles ==
  ASSUME IsFiniteSet(Chats), Settlable PROVE Spec => []SettledWithinCap
<1>1. Settles => SettledWithinCap
  <2> SUFFICES ASSUME Settles, AllAnswered PROVE Cardinality(Live) <= WarmPool
    BY DEF SettledWithinCap
  <2>1. \A p \in Requests : pc[p] = "done"
    BY DEF AllAnswered, Procs
  <2> QED BY <2>1 DEF Settles, Settling, Quiet
<1> QED BY <1>1, AlwaysSettles, PTL

=============================================================================
