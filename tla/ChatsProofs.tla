----------------------------- MODULE ChatsProofs -----------------------------
(***************************************************************************)
(* Chats keeps its types, its guards and its archives, for every dataset,  *)
(* any number of requests and connections, every warm pool and every set   *)
(* of faults.                                                              *)
(***************************************************************************)
EXTENDS Chats, TLAPS

(***************************************************************************)
(* Types.  TypeOK is not inductive as it stands: a handler reads the       *)
(* records of chat[p], so whoever is at work must have a chat, and the     *)
(* first sweep, which has none, must stay a sweep.  Typed adds the two.    *)
(***************************************************************************)

\* A request at work is at work on a chat.
AtWork == \A p \in Requests : pc[p] \notin {"new", "done"} => chat[p] \in Chats

\* The process that prepares the dataset sweeps and does nothing else.
BootOnlySweeps == pc[Boot] \in SweepPcs \cup {"done"} /\ conn[Boot] = None

Placed == pc \in [Procs -> Pcs] /\ AtWork /\ BootOnlySweeps

Typed == TypeOK /\ AtWork /\ BootOnlySweeps

\* What stands for a missing manifest is one that records nothing.
LEMMA NoManifestIsOne == NoManifest \in Manifests
BY DEF Manifests, NoManifest

\* What the handlers make of a manifest they read is a manifest.
LEMMA ManifestRecords ==
  /\ \A m \in Manifests :
       /\ [m EXCEPT !.state = "open"] \in Manifests
       /\ [m EXCEPT !.session = TRUE] \in Manifests
       /\ [m EXCEPT !.state = "archived", !.pushed = TRUE] \in Manifests
       /\ \A n \in Nat : [m EXCEPT !.active = n] \in Manifests
  /\ \A n \in Nat :
       [state |-> "open", session |-> FALSE, pushed |-> FALSE, active |-> n] \in Manifests
BY DEF Manifests

\* A step of a wake keeps the types.
LEMMA WakeTyped ==
  ASSUME Typed, NEW p \in Procs, WakeStep(p)
  PROVE  Typed'
<1> USE ConstantsOK DEF Typed, TypeOK, Goto, Done, Procs, disk, plane, pipes,
       gates, locals, weighed, Pcs, PromptPcs, WakePcs, TurnPcs, CapPcs,
       SweepPcs
<1>1. CASE WakeClaim(p)
  BY <1>1, SMTT(15) DEF WakeClaim, TakeClaim, DiskOK, PlaneOK, PipesOK,
     GatesOK, LocalsOK, WeighedOK, AtWork, BootOnlySweeps
<1>2. CASE WakeRead(p)
  BY <1>2, SMTT(15) DEF WakeRead, DiskOK, PlaneOK, PipesOK, GatesOK, LocalsOK,
     WeighedOK, AtWork, BootOnlySweeps
<1>3. CASE WakeTree(p)
  BY <1>3, SMTT(15) DEF WakeTree, DiskOK, PlaneOK, PipesOK, GatesOK, LocalsOK,
     WeighedOK, AtWork, BootOnlySweeps
<1>4. CASE ReviveCheck(p)
  BY <1>4, SMTT(15) DEF ReviveCheck, DiskOK, PlaneOK, PipesOK, GatesOK,
     LocalsOK, WeighedOK, AtWork, BootOnlySweeps
<1>5. CASE CloneStart(p)
  BY <1>5, SMTT(15) DEF CloneStart, DiskOK, PlaneOK, PipesOK, GatesOK,
     LocalsOK, WeighedOK, AtWork, BootOnlySweeps
<1>6. CASE CloneEnd(p)
  <2>1. DiskOK'
    BY <1>6 DEF CloneEnd, DiskOK
  <2>2. PlaneOK' /\ PipesOK' /\ GatesOK' /\ LocalsOK' /\ WeighedOK'
    BY <1>6, SMTT(15) DEF CloneEnd, PlaneOK, PipesOK, GatesOK, LocalsOK,
       WeighedOK
  <2>3. Placed'
    BY <1>6, SMTT(15) DEF CloneEnd, Placed, LocalsOK, AtWork, BootOnlySweeps
  <2> QED BY <2>1, <2>2, <2>3 DEF Placed
<1>7. CASE Wipe(p)
  <2>1. DiskOK'
    BY <1>7 DEF Wipe, RemoveTree, RemoveTreeFails, DiskOK
  <2>2. PlaneOK' /\ PipesOK' /\ GatesOK' /\ LocalsOK' /\ WeighedOK'
    BY <1>7, SMTT(15) DEF Wipe, RemoveTree, RemoveTreeFails, PlaneOK, PipesOK,
       GatesOK, LocalsOK, WeighedOK
  <2>3. Placed'
    BY <1>7, SMTT(15) DEF Wipe, RemoveTree, RemoveTreeFails, Placed, LocalsOK,
       AtWork, BootOnlySweeps
  <2> QED BY <2>1, <2>2, <2>3 DEF Placed
<1>8. CASE ReviveOpen(p)
  <2>1. [seen[p] EXCEPT !.state = "open"] \in Manifests
    BY ManifestRecords DEF LocalsOK
  <2>2. DiskOK'
    BY <1>8, <2>1 DEF ReviveOpen, DiskOK
  <2>3. LocalsOK'
    BY <1>8, <2>1 DEF ReviveOpen, LocalsOK
  <2>4. PlaneOK' /\ PipesOK' /\ GatesOK' /\ WeighedOK'
    BY <1>8, SMTT(15) DEF ReviveOpen, PlaneOK, PipesOK, GatesOK, WeighedOK
  <2>5. Placed'
    BY <1>8, SMTT(15) DEF ReviveOpen, Placed, LocalsOK, AtWork, BootOnlySweeps
  <2> QED BY <2>2, <2>3, <2>4, <2>5 DEF Placed
<1>9. CASE House(p)
  BY <1>9, SMTT(15) DEF House, DiskOK, PlaneOK, PipesOK, GatesOK, LocalsOK,
     WeighedOK, AtWork, BootOnlySweeps
<1>10. CASE WakeSpawn(p)
  <2>1. PlaneOK'
    BY <1>10, SMTT(15) DEF WakeSpawn, Spawn, SpawnFails, PlaneOK, LocalsOK
  <2>2. LocalsOK'
    BY <1>10 DEF WakeSpawn, LocalsOK
  <2>3. DiskOK' /\ PipesOK' /\ GatesOK' /\ WeighedOK'
    BY <1>10, SMTT(15) DEF WakeSpawn, Spawn, SpawnFails, DiskOK, PipesOK,
       GatesOK, WeighedOK
  <2>4. Placed'
    BY <1>10, SMTT(15) DEF WakeSpawn, Spawn, SpawnFails, Placed, LocalsOK,
       AtWork, BootOnlySweeps
  <2> QED BY <2>1, <2>2, <2>3, <2>4 DEF Placed
<1>11. CASE Climb(p)
  BY <1>11, SMTT(15) DEF Climb, Unused, DiskOK, PlaneOK, PipesOK, GatesOK,
     LocalsOK, WeighedOK, AtWork, BootOnlySweeps
<1>12. CASE WakeRelease(p)
  <2>1. PlaneOK'
    BY <1>12 DEF WakeRelease, TearDown, TearDownFails, Gone, PlaneOK
  <2>2. PipesOK'
    BY <1>12, SMTT(15) DEF WakeRelease, TearDown, TearDownFails, Gone, PipesOK,
       LocalsOK
  <2>3. DiskOK' /\ GatesOK' /\ LocalsOK' /\ WeighedOK'
    BY <1>12, SMTT(15) DEF WakeRelease, TearDown, TearDownFails, Gone, DiskOK,
       GatesOK, LocalsOK, WeighedOK
  <2>4. Placed'
    BY <1>12, SMTT(15) DEF WakeRelease, TearDown, TearDownFails, Gone, Placed,
       LocalsOK, AtWork, BootOnlySweeps
  <2> QED BY <2>1, <2>2, <2>3, <2>4 DEF Placed
<1>13. CASE WakeForget(p)
  BY <1>13, SMTT(15) DEF WakeForget, Forget, DropUnused, DiskOK, PlaneOK,
     PipesOK, GatesOK, LocalsOK, WeighedOK, AtWork, BootOnlySweeps
<1>14. CASE WakeRecord(p)
  <2>1. [seen[p] EXCEPT !.session = TRUE] \in Manifests
    BY ManifestRecords DEF LocalsOK
  <2>2. DiskOK'
    BY <1>14, <2>1 DEF WakeRecord, DiskOK
  <2>3. PipesOK'
    BY <1>14, SMTT(15) DEF WakeRecord, DropUnused, PipesOK, LocalsOK
  <2>4. LocalsOK'
    BY <1>14, SMTT(15) DEF WakeRecord, LocalsOK
  <2>5. PlaneOK' /\ GatesOK' /\ WeighedOK'
    BY <1>14, SMTT(15) DEF WakeRecord, DropUnused, PlaneOK, GatesOK, WeighedOK
  <2>6. Placed'
    BY <1>14, SMTT(15) DEF WakeRecord, DropUnused, Placed, LocalsOK, AtWork,
       BootOnlySweeps
  <2> QED BY <2>2, <2>3, <2>4, <2>5, <2>6 DEF Placed
<1>15. CASE WakeHold(p)
  BY <1>15, SMTT(15) DEF WakeHold, DropUnused, DiskOK, PlaneOK, PipesOK,
     GatesOK, LocalsOK, WeighedOK, AtWork, BootOnlySweeps
<1>16. CASE WakeDrop(p)
  <2>1. GatesOK'
    BY <1>16 DEF WakeDrop, DropClaim, GatesOK
  <2>2. LocalsOK'
    BY <1>16, NoManifestIsOne DEF WakeDrop, LocalsOK
  <2>3. DiskOK' /\ PlaneOK' /\ PipesOK' /\ WeighedOK'
    BY <1>16, SMTT(15) DEF WakeDrop, DropClaim, DiskOK, PlaneOK, PipesOK,
       WeighedOK
  <2>4. Placed'
    BY <1>16, SMTT(15) DEF WakeDrop, DropClaim, Placed, LocalsOK, AtWork,
       BootOnlySweeps
  <2> QED BY <2>1, <2>2, <2>3, <2>4 DEF Placed
<1> QED BY <1>1, <1>2, <1>3, <1>4, <1>5, <1>6, <1>7, <1>8, <1>9, <1>10, <1>11,
           <1>12, <1>13, <1>14, <1>15, <1>16 DEF WakeStep

\* A step of a turn, its end excepted, keeps the types.
LEMMA TurnTyped ==
  ASSUME Typed, NEW p \in Procs, TurnStep(p)
  PROVE  Typed'
<1> USE ConstantsOK DEF Typed, TypeOK, Goto, Done, Procs, disk, plane, pipes,
       gates, locals, weighed, Pcs, PromptPcs, WakePcs, TurnPcs, CapPcs,
       SweepPcs
<1>1. CASE Of(p)
  BY <1>1, SMTT(15) DEF Of, DiskOK, PlaneOK, PipesOK, GatesOK, LocalsOK,
     WeighedOK, AtWork, BootOnlySweeps
<1>2. CASE TurnLock(p)
  BY <1>2, SMTT(15) DEF TurnLock, TryLock, DropUnused, DiskOK, PlaneOK,
     PipesOK, GatesOK, LocalsOK, WeighedOK, AtWork, BootOnlySweeps
<1>3. CASE Unclaim(p)
  <2>1. GatesOK'
    BY <1>3 DEF Unclaim, DropClaim, GatesOK
  <2>2. LocalsOK'
    BY <1>3, NoManifestIsOne DEF Unclaim, LocalsOK
  <2>3. DiskOK' /\ PlaneOK' /\ PipesOK' /\ WeighedOK'
    BY <1>3, SMTT(15) DEF Unclaim, DropClaim, DiskOK, PlaneOK, PipesOK,
       WeighedOK
  <2>4. Placed'
    BY <1>3, SMTT(15) DEF Unclaim, DropClaim, Placed, LocalsOK, AtWork,
       BootOnlySweeps
  <2> QED BY <2>1, <2>2, <2>3, <2>4 DEF Placed
<1>4. CASE TurnSend(p)
  BY <1>4, SMTT(15) DEF TurnSend, LetGo, Unlock, DropUnused, DiskOK, PlaneOK,
     PipesOK, GatesOK, LocalsOK, WeighedOK, AtWork, BootOnlySweeps
<1>5. CASE EndForget(p)
  BY <1>5, SMTT(15) DEF EndForget, Forget, DropUnused, DiskOK, PlaneOK,
     PipesOK, GatesOK, LocalsOK, WeighedOK, AtWork, BootOnlySweeps
<1>6. CASE TouchRead(p)
  BY <1>6, SMTT(15) DEF TouchRead, DiskOK, PlaneOK, PipesOK, GatesOK, LocalsOK,
     WeighedOK, AtWork, BootOnlySweeps
<1>7. CASE TouchWrite(p)
  <2>1. clock + 1 \in Nat /\ seen[p] \in Manifests
    BY DEF DiskOK, LocalsOK
  <2>2. [seen[p] EXCEPT !.active = clock + 1] \in Manifests
    BY <2>1, ManifestRecords
  <2>3. DiskOK'
    BY <1>7, <2>1, <2>2 DEF TouchWrite, DiskOK
  <2>4. LocalsOK'
    BY <1>7, NoManifestIsOne DEF TouchWrite, LocalsOK
  <2>5. PlaneOK' /\ PipesOK' /\ GatesOK' /\ WeighedOK'
    BY <1>7, SMTT(15) DEF TouchWrite, PlaneOK, PipesOK, GatesOK, WeighedOK
  <2>6. Placed'
    BY <1>7, SMTT(15) DEF TouchWrite, Placed, LocalsOK, AtWork, BootOnlySweeps
  <2> QED BY <2>3, <2>4, <2>5, <2>6 DEF Placed
<1> QED BY <1>1, <1>2, <1>3, <1>4, <1>5, <1>6, <1>7 DEF TurnStep

\* A step of an archive keeps the types.
LEMMA ArchiveTyped ==
  ASSUME Typed, NEW p \in Procs, ArchiveStep(p)
  PROVE  Typed'
<1> USE ConstantsOK DEF Typed, TypeOK, Goto, Done, Procs, disk, plane, pipes,
       gates, locals, weighed, Pcs, ArchivePcs, GatePcs, SweepPcs
<1>1. CASE ArchiveClaim(p)
  BY <1>1, SMTT(15) DEF ArchiveClaim, TakeClaim, DiskOK, PlaneOK, PipesOK,
     GatesOK, LocalsOK, WeighedOK, AtWork, BootOnlySweeps
<1>2. CASE ArchiveRead(p)
  BY <1>2, SMTT(15) DEF ArchiveRead, DiskOK, PlaneOK, PipesOK, GatesOK,
     LocalsOK, WeighedOK, AtWork, BootOnlySweeps
<1>3. CASE ArchiveOf(p)
  BY <1>3, SMTT(15) DEF ArchiveOf, DiskOK, PlaneOK, PipesOK, GatesOK, LocalsOK,
     WeighedOK, AtWork, BootOnlySweeps
<1>4. CASE ArchiveLock(p)
  BY <1>4, SMTT(15) DEF ArchiveLock, TryLock, DropUnused, DiskOK, PlaneOK,
     PipesOK, GatesOK, LocalsOK, WeighedOK, AtWork, BootOnlySweeps
<1>5. CASE Push(p)
  <2>1. DiskOK'
    BY <1>5 DEF Push, DiskOK
  <2>2. PlaneOK' /\ PipesOK' /\ GatesOK' /\ LocalsOK' /\ WeighedOK'
    BY <1>5, SMTT(15) DEF Push, PlaneOK, PipesOK, GatesOK, LocalsOK, WeighedOK
  <2>3. Placed'
    BY <1>5, SMTT(15) DEF Push, Placed, LocalsOK, AtWork, BootOnlySweeps
  <2> QED BY <2>1, <2>2, <2>3 DEF Placed
<1>6. CASE ArchiveWrite(p)
  <2>1. [seen[p] EXCEPT !.state = "archived", !.pushed = TRUE] \in Manifests
    BY ManifestRecords DEF LocalsOK
  <2>2. DiskOK'
    BY <1>6, <2>1 DEF ArchiveWrite, DiskOK
  <2>3. PlaneOK' /\ PipesOK' /\ GatesOK' /\ LocalsOK' /\ WeighedOK'
    BY <1>6, SMTT(15) DEF ArchiveWrite, PlaneOK, PipesOK, GatesOK, LocalsOK,
       WeighedOK
  <2>4. Placed'
    BY <1>6, SMTT(15) DEF ArchiveWrite, Placed, LocalsOK, AtWork,
       BootOnlySweeps
  <2> QED BY <2>2, <2>3, <2>4 DEF Placed
<1>7. CASE ArchiveRelease(p)
  <2>1. PlaneOK'
    BY <1>7 DEF ArchiveRelease, TearDown, TearDownFails, Gone, PlaneOK
  <2>2. PipesOK'
    BY <1>7, SMTT(15) DEF ArchiveRelease, TearDown, TearDownFails, Gone,
       PipesOK, LocalsOK
  <2>3. DiskOK' /\ GatesOK' /\ LocalsOK' /\ WeighedOK'
    BY <1>7, SMTT(15) DEF ArchiveRelease, TearDown, TearDownFails, Gone,
       DiskOK, GatesOK, LocalsOK, WeighedOK
  <2>4. Placed'
    BY <1>7, SMTT(15) DEF ArchiveRelease, TearDown, TearDownFails, Gone,
       Placed, LocalsOK, AtWork, BootOnlySweeps
  <2> QED BY <2>1, <2>2, <2>3, <2>4 DEF Placed
<1>8. CASE ArchiveForget(p)
  BY <1>8, SMTT(15) DEF ArchiveForget, Forget, DropUnused, DiskOK, PlaneOK,
     PipesOK, GatesOK, LocalsOK, WeighedOK, AtWork, BootOnlySweeps
<1>9. CASE ArchiveRemove(p)
  <2>1. DiskOK'
    BY <1>9 DEF ArchiveRemove, RemoveTree, RemoveTreeFails, DiskOK
  <2>2. PlaneOK' /\ PipesOK' /\ GatesOK' /\ LocalsOK' /\ WeighedOK'
    BY <1>9, SMTT(15) DEF ArchiveRemove, RemoveTree, RemoveTreeFails, PlaneOK,
       PipesOK, GatesOK, LocalsOK, WeighedOK
  <2>3. Placed'
    BY <1>9, SMTT(15) DEF ArchiveRemove, RemoveTree, RemoveTreeFails, Placed,
       LocalsOK, AtWork, BootOnlySweeps
  <2> QED BY <2>1, <2>2, <2>3 DEF Placed
<1>10. CASE ArchiveUnlock(p)
  BY <1>10, SMTT(15) DEF ArchiveUnlock, Unlock, DropUnused, DiskOK, PlaneOK,
     PipesOK, GatesOK, LocalsOK, WeighedOK, AtWork, BootOnlySweeps
<1>11. CASE ArchiveDrop(p)
  <2>1. GatesOK'
    BY <1>11 DEF ArchiveDrop, DropClaim, GatesOK
  <2>2. LocalsOK'
    BY <1>11, NoManifestIsOne DEF ArchiveDrop, LocalsOK
  <2>3. DiskOK' /\ PlaneOK' /\ PipesOK' /\ WeighedOK'
    BY <1>11, SMTT(15) DEF ArchiveDrop, DropClaim, DiskOK, PlaneOK, PipesOK,
       WeighedOK
  <2>4. Placed'
    BY <1>11, SMTT(15) DEF ArchiveDrop, DropClaim, Placed, LocalsOK, AtWork,
       BootOnlySweeps
  <2> QED BY <2>1, <2>2, <2>3, <2>4 DEF Placed
<1> QED BY <1>1, <1>2, <1>3, <1>4, <1>5, <1>6, <1>7, <1>8, <1>9, <1>10, <1>11
           DEF ArchiveStep

\* A step of a creation keeps the types.
LEMMA CreateTyped ==
  ASSUME Typed, NEW p \in Procs, CreateStep(p)
  PROVE  Typed'
<1> USE ConstantsOK DEF Typed, TypeOK, Goto, Done, Procs, disk, plane, pipes,
       gates, locals, weighed, Pcs, CreatePcs, CapPcs, SweepPcs
<1>1. CASE NewTree(p)
  BY <1>1, SMTT(15) DEF NewTree, DiskOK, PlaneOK, PipesOK, GatesOK, LocalsOK,
     WeighedOK, AtWork, BootOnlySweeps
<1>2. CASE Publish(p)
  <2>1. clock + 1 \in Nat
    BY DEF DiskOK
  <2>2. [state |-> "open", session |-> FALSE, pushed |-> FALSE,
         active |-> clock + 1] \in Manifests
    BY <2>1, ManifestRecords
  <2>3. DiskOK'
    BY <1>2, <2>1, <2>2 DEF Publish, DiskOK
  <2>4. LocalsOK'
    <3>1. seen' \in [Procs -> Manifests]
      BY <1>2, <2>2 DEF Publish, LocalsOK
    <3>2. chat' \in [Procs -> Chats \cup {None}]
      BY <1>2, SMTT(15) DEF Publish, LocalsOK
    <3>3. UNCHANGED <<conn, spawned, victims>>
      BY <1>2 DEF Publish
    <3> QED
      BY <3>1, <3>2, <3>3 DEF LocalsOK
  <2>5. PlaneOK' /\ PipesOK' /\ GatesOK' /\ WeighedOK'
    BY <1>2, SMTT(15) DEF Publish, PlaneOK, PipesOK, GatesOK, WeighedOK
  <2>6. Placed'
    BY <1>2, SMTT(15) DEF Publish, Placed, LocalsOK, AtWork, BootOnlySweeps
  <2> QED BY <2>3, <2>4, <2>5, <2>6 DEF Placed
<1>3. CASE CheckOut(p)
  <2>1. DiskOK'
    BY <1>3 DEF CheckOut, DiskOK
  <2>2. LocalsOK'
    BY <1>3, NoManifestIsOne DEF CheckOut, GiveUp, LocalsOK
  <2>3. PlaneOK' /\ PipesOK' /\ GatesOK' /\ WeighedOK'
    BY <1>3, SMTT(15) DEF CheckOut, GiveUp, PlaneOK, PipesOK, GatesOK,
       WeighedOK
  <2>4. Placed'
    BY <1>3, SMTT(15) DEF CheckOut, GiveUp, Placed, LocalsOK, AtWork,
       BootOnlySweeps
  <2> QED BY <2>1, <2>2, <2>3, <2>4 DEF Placed
<1>4. CASE NewSpawn(p)
  <2>1. PlaneOK'
    BY <1>4, SMTT(15) DEF NewSpawn, Spawn, SpawnFails, PlaneOK, LocalsOK
  <2>2. LocalsOK'
    BY <1>4, NoManifestIsOne DEF NewSpawn, GiveUp, LocalsOK
  <2>3. DiskOK' /\ PipesOK' /\ GatesOK' /\ WeighedOK'
    BY <1>4, SMTT(15) DEF NewSpawn, Spawn, SpawnFails, GiveUp, DiskOK, PipesOK,
       GatesOK, WeighedOK
  <2>4. Placed'
    BY <1>4, SMTT(15) DEF NewSpawn, Spawn, SpawnFails, GiveUp, Placed,
       LocalsOK, AtWork, BootOnlySweeps
  <2> QED BY <2>1, <2>2, <2>3, <2>4 DEF Placed
<1>5. CASE OpenSession(p)
  BY <1>5, SMTT(15) DEF OpenSession, Unused, DiskOK, PlaneOK, PipesOK, GatesOK,
     LocalsOK, WeighedOK, AtWork, BootOnlySweeps
<1>6. CASE RecordSession(p)
  <2>1. [seen[p] EXCEPT !.session = TRUE] \in Manifests
    BY ManifestRecords DEF LocalsOK
  <2>2. DiskOK'
    BY <1>6, <2>1 DEF RecordSession, DiskOK
  <2>3. PipesOK'
    BY <1>6, SMTT(15) DEF RecordSession, DropUnused, PipesOK, LocalsOK
  <2>4. LocalsOK'
    BY <1>6, SMTT(15) DEF RecordSession, LocalsOK
  <2>5. PlaneOK' /\ GatesOK' /\ WeighedOK'
    BY <1>6, SMTT(15) DEF RecordSession, DropUnused, PlaneOK, GatesOK,
       WeighedOK
  <2>6. Placed'
    BY <1>6, SMTT(15) DEF RecordSession, DropUnused, Placed, LocalsOK, AtWork,
       BootOnlySweeps
  <2> QED BY <2>2, <2>3, <2>4, <2>5, <2>6 DEF Placed
<1>7. CASE NewHold(p)
  <2>1. PipesOK'
    <3>1. held' \in [Chats -> Conns \cup {None}]
      BY <1>7, SMTT(15) DEF NewHold, PipesOK, LocalsOK
    <3>2. wired' \in [Conns -> Chats \cup {None}]
      BY <1>7, SMTT(15) DEF NewHold, DropUnused, PipesOK
    <3>3. lock' = lock
      BY <1>7 DEF NewHold
    <3> QED
      BY <3>1, <3>2, <3>3 DEF PipesOK
  <2>2. LocalsOK'
    BY <1>7, NoManifestIsOne DEF NewHold, LocalsOK
  <2>3. DiskOK' /\ PlaneOK' /\ GatesOK' /\ WeighedOK'
    BY <1>7, SMTT(15) DEF NewHold, DropUnused, DiskOK, PlaneOK, GatesOK,
       WeighedOK
  <2>4. Placed'
    BY <1>7, SMTT(15) DEF NewHold, DropUnused, Placed, LocalsOK, AtWork,
       BootOnlySweeps
  <2> QED BY <2>1, <2>2, <2>3, <2>4 DEF Placed
<1>8. CASE NewTeardown(p)
  <2>1. PlaneOK'
    BY <1>8 DEF NewTeardown, TearDown, TearDownFails, Gone, PlaneOK
  <2>2. PipesOK'
    BY <1>8, SMTT(15) DEF NewTeardown, TearDown, TearDownFails, Gone, PipesOK,
       LocalsOK
  <2>3. LocalsOK'
    BY <1>8, NoManifestIsOne DEF NewTeardown, GiveUp, LocalsOK
  <2>4. DiskOK' /\ GatesOK' /\ WeighedOK'
    BY <1>8, SMTT(15) DEF NewTeardown, TearDown, TearDownFails, Gone, GiveUp,
       DiskOK, GatesOK, WeighedOK
  <2>5. Placed'
    BY <1>8, SMTT(15) DEF NewTeardown, TearDown, TearDownFails, Gone, GiveUp,
       Placed, LocalsOK, AtWork, BootOnlySweeps
  <2> QED BY <2>1, <2>2, <2>3, <2>4, <2>5 DEF Placed
<1> QED BY <1>1, <1>2, <1>3, <1>4, <1>5, <1>6, <1>7, <1>8 DEF CreateStep

\* A step of a capping keeps the types.
LEMMA CapTyped ==
  ASSUME Typed, NEW p \in Procs, CapStep(p)
  PROVE  Typed'
<1> USE ConstantsOK DEF Typed, TypeOK, Goto, Done, Procs, disk, plane, pipes,
       gates, locals, weighed, Pcs, CapPcs, SweepPcs
<1>1. CASE CapScan(p)
  BY <1>1, SMTT(15) DEF CapScan, DiskOK, PlaneOK, PipesOK, GatesOK, LocalsOK,
     WeighedOK, AtWork, BootOnlySweeps
<1>2. CASE CapLive(p)
  <2>1. GatesOK'
    BY <1>2, SMTT(15) DEF CapLive, GatesOK
  <2>2. LocalsOK'
    BY <1>2, SMTT(15) DEF CapLive, Live, LocalsOK
  <2>3. WeighedOK'
    BY <1>2, NoManifestIsOne DEF CapLive, WeighedOK
  <2>4. DiskOK' /\ PlaneOK' /\ PipesOK'
    BY <1>2, SMTT(15) DEF CapLive, Live, DiskOK, PlaneOK, PipesOK
  <2>5. Placed'
    BY <1>2, SMTT(15) DEF CapLive, Live, Placed, LocalsOK, AtWork,
       BootOnlySweeps
  <2> QED BY <2>1, <2>2, <2>3, <2>4, <2>5 DEF Placed
<1>3. CASE CapBusy(p)
  BY <1>3, SMTT(15) DEF CapBusy, Busy, DiskOK, PlaneOK, PipesOK, GatesOK,
     LocalsOK, WeighedOK, AtWork, BootOnlySweeps
<1>4. CASE CapWeigh(p)
  <2>1. LocalsOK'
    BY <1>4, SMTT(15) DEF CapWeigh, BeyondThePool, Holders, LocalsOK
  <2>2. WeighedOK'
    BY <1>4, NoManifestIsOne DEF CapWeigh, WeighedOK
  <2>3. DiskOK' /\ PlaneOK' /\ PipesOK' /\ GatesOK'
    BY <1>4, SMTT(15) DEF CapWeigh, BeyondThePool, Holders, DiskOK, PlaneOK,
       PipesOK, GatesOK
  <2>4. Placed'
    BY <1>4, SMTT(15) DEF CapWeigh, BeyondThePool, Holders, Placed, LocalsOK,
       AtWork, BootOnlySweeps
  <2> QED BY <2>1, <2>2, <2>3, <2>4 DEF Placed
<1>5. CASE CapPark(p)
  <2>1. PlaneOK'
    BY <1>5 DEF CapPark, TearDown, TearDownFails, Gone, PlaneOK
  <2>2. PipesOK'
    BY <1>5, SMTT(15) DEF CapPark, TearDown, TearDownFails, Gone, PipesOK,
       LocalsOK
  <2>3. LocalsOK'
    BY <1>5, SMTT(15) DEF CapPark, LocalsOK
  <2>4. DiskOK' /\ GatesOK' /\ WeighedOK'
    BY <1>5, SMTT(15) DEF CapPark, TearDown, TearDownFails, Gone, DiskOK,
       GatesOK, WeighedOK
  <2>5. Placed'
    BY <1>5, SMTT(15) DEF CapPark, TearDown, TearDownFails, Gone, Placed,
       LocalsOK, AtWork, BootOnlySweeps
  <2> QED BY <2>1, <2>2, <2>3, <2>4, <2>5 DEF Placed
<1>6. CASE CapForget(p)
  BY <1>6, SMTT(15) DEF CapForget, Forget, DropUnused, DiskOK, PlaneOK,
     PipesOK, GatesOK, LocalsOK, WeighedOK, AtWork, BootOnlySweeps
<1>7. CASE CapEnd(p)
  BY <1>7, SMTT(15) DEF CapEnd, DiskOK, PlaneOK, PipesOK, GatesOK, LocalsOK,
     WeighedOK, AtWork, BootOnlySweeps
<1> QED BY <1>1, <1>2, <1>3, <1>4, <1>5, <1>6, <1>7 DEF CapStep

\* A step of a sweep keeps the types.
LEMMA SweepTyped ==
  ASSUME Typed, NEW p \in Procs, SweepStep(p)
  PROVE  Typed'
<1> USE ConstantsOK DEF Typed, TypeOK, Goto, Done, Procs, disk, plane, pipes,
       gates, locals, weighed, Pcs, SweepPcs, ArchivePcs, GatePcs
<1>1. CASE SweepScan(p)
  BY <1>1, SMTT(15) DEF SweepScan, SweepEnd, DiskOK, PlaneOK, PipesOK, GatesOK,
     LocalsOK, WeighedOK, AtWork, BootOnlySweeps
<1>2. CASE SweepLive(p)
  BY <1>2, SMTT(15) DEF SweepLive, SweepEnd, DiskOK, PlaneOK, PipesOK, GatesOK,
     LocalsOK, WeighedOK, AtWork, BootOnlySweeps
<1>3. CASE SweepList(p)
  BY <1>3, SMTT(15) DEF SweepList, SweepEnd, DiskOK, PlaneOK, PipesOK, GatesOK,
     LocalsOK, WeighedOK, AtWork, BootOnlySweeps
<1>4. CASE SweepClaimed(p)
  BY <1>4, SMTT(15) DEF SweepClaimed, DiskOK, PlaneOK, PipesOK, GatesOK,
     LocalsOK, WeighedOK, AtWork, BootOnlySweeps
<1>5. CASE SweepRemove(p)
  <2>1. DiskOK'
    BY <1>5 DEF SweepRemove, RemoveTree, RemoveTreeFails, DiskOK
  <2>2. LocalsOK'
    BY <1>5, SMTT(15) DEF SweepRemove, LocalsOK
  <2>3. PlaneOK' /\ PipesOK' /\ GatesOK' /\ WeighedOK'
    BY <1>5, SMTT(15) DEF SweepRemove, RemoveTree, RemoveTreeFails, PlaneOK,
       PipesOK, GatesOK, WeighedOK
  <2>4. Placed'
    BY <1>5, SMTT(15) DEF SweepRemove, RemoveTree, RemoveTreeFails, Placed,
       LocalsOK, AtWork, BootOnlySweeps
  <2> QED BY <2>1, <2>2, <2>3, <2>4 DEF Placed
<1>6. CASE SweepOver(p)
  BY <1>6, SMTT(15) DEF SweepOver, SweepEnd, DiskOK, PlaneOK, PipesOK, GatesOK,
     LocalsOK, WeighedOK, AtWork, BootOnlySweeps
<1> QED BY <1>1, <1>2, <1>3, <1>4, <1>5, <1>6 DEF SweepStep

\* The end of a turn keeps the types.
LEMMA AnswerTyped ==
  ASSUME Typed, NEW p \in Procs, TurnEnd(p)
  PROVE  Typed'
<1> USE ConstantsOK DEF Typed, TypeOK, Goto, Done, Procs, disk, plane, pipes,
       gates, locals, weighed, Pcs, PromptPcs, TurnPcs, CapPcs, SweepPcs
<1>1. CASE TurnEnd(p)
  <2>1. PlaneOK'
    BY <1>1 DEF TurnEnd, PlaneOK
  <2>2. PipesOK'
    BY <1>1, SMTT(15) DEF TurnEnd, LetGo, Unlock, DropUnused, PipesOK, LocalsOK
  <2>3. LocalsOK'
    BY <1>1, SMTT(15) DEF TurnEnd, LetGo, LocalsOK
  <2>4. DiskOK' /\ GatesOK' /\ WeighedOK'
    BY <1>1, SMTT(15) DEF TurnEnd, LetGo, Unlock, DropUnused, DiskOK, GatesOK,
       WeighedOK
  <2>5. Placed'
    BY <1>1, SMTT(15) DEF TurnEnd, LetGo, Unlock, DropUnused, Placed, LocalsOK,
       AtWork, BootOnlySweeps
  <2> QED BY <2>1, <2>2, <2>3, <2>4, <2>5 DEF Placed
<1> QED BY <1>1 
\* A request that arrives keeps the types.
LEMMA BeginTyped ==
  ASSUME Typed, NEW p \in Requests, NEW c \in Chats,
         BeginPrompt(p, c) \/ BeginArchive(p, c) \/ BeginCreate(p, c)
  PROVE  Typed'
<1>1. PICK label \in {"of", "a_claim", "n_tree"} : \E op : Begin(p, c, op, label)
  BY Zenon DEF BeginPrompt, BeginArchive, BeginCreate
<1>2. PICK op : Begin(p, c, op, label)
  BY <1>1
<1>3. p # Boot
  BY ConstantsOK
<1> QED
  BY <1>2, <1>3, SMTT(15) DEF Typed, TypeOK, Begin, Goto, Procs, disk, plane,
     pipes, gates, weighed, Pcs, PromptPcs, ArchivePcs, CreatePcs, DiskOK,
     PlaneOK, PipesOK, GatesOK, LocalsOK, WeighedOK, AtWork, BootOnlySweeps

\* What the agent and the containers do of themselves keeps the types.
LEMMA AroundTyped ==
  ASSUME Typed, NEW c \in Chats,
         AgentWrites(c) \/ StrayEnds(c) \/ ContainerExits(c)
  PROVE  Typed'
<1> USE DEF Typed, TypeOK, Placed, AtWork, BootOnlySweeps, disk, plane, pipes,
        gates, locals, weighed
<1>1. CASE AgentWrites(c)
  <2>1. unpushed' \in [Chats -> BOOLEAN]
    BY <1>1 DEF AgentWrites, DiskOK
  <2> QED
    BY <1>1, <2>1, SMTT(15) DEF AgentWrites, DiskOK, PlaneOK, PipesOK, GatesOK,
       LocalsOK, WeighedOK
<1>2. CASE StrayEnds(c)
  <2>1. stray' \in [Chats -> BOOLEAN]
    BY <1>2 DEF StrayEnds, PlaneOK
  <2> QED
    BY <1>2, <2>1, SMTT(15) DEF StrayEnds, DiskOK, PlaneOK, PipesOK, GatesOK,
       LocalsOK, WeighedOK
<1>3. CASE ContainerExits(c)
  <2>1. PlaneOK'
    BY <1>3 DEF ContainerExits, Gone, PlaneOK
  <2>2. PipesOK'
    BY <1>3, SMTT(15) DEF ContainerExits, Gone, PipesOK
  <2> QED
    BY <1>3, <2>1, <2>2, SMTT(15) DEF ContainerExits, Gone, DiskOK, GatesOK,
       LocalsOK, WeighedOK
<1> QED BY <1>1, <1>2, <1>3

\* A call cut short leaves containers in one of their three states.
LEMMA CutShortTyped ==
  ASSUME Typed, NEW procs, NEW left \in CutShort(procs)
  PROVE  left \in [Chats -> {"none", "live", "exited"}]
<1>1. container \in [Chats -> {"none", "live", "exited"}]
  BY DEF Typed, TypeOK, PlaneOK
<1>2. PICK cut \in [procs -> Chats \cup {None}] :
        left = [c \in Chats |->
                  IF \E p \in procs : cut[p] = c THEN "exited" ELSE container[c]]
  BY DEF CutShort
<1> QED BY <1>1, <1>2

\* A client that hangs up keeps the types.
LEMMA HangupTyped ==
  ASSUME Typed, NEW p \in Requests, Hangup(p)
  PROVE  Typed'
<1> USE ConstantsOK DEF Typed, TypeOK, Hangup, Goto, Done, Procs
<1>1. DiskOK'
  BY DEF DiskOK, disk
<1>2. PlaneOK'
  <2>1. container' \in [Chats -> {"none", "live", "exited"}]
    BY CutShortTyped, Zenon DEF Procs
  <2>2. stray' \in [Chats -> BOOLEAN]
    BY Zenon
  <2> QED BY <2>1, <2>2 DEF PlaneOK
<1>3. PipesOK'
  BY SMTT(15) DEF PipesOK
<1>4. GatesOK'
  BY SMTT(15) DEF GatesOK
<1>5. LocalsOK'
  <2>1. seen' \in [Procs -> Manifests]
    BY NoManifestIsOne DEF LocalsOK
  <2>2. spawned' \in [Procs -> BOOLEAN]
    BY Zenon DEF LocalsOK
  <2>3. victims' \in [Procs -> SUBSET Chats]
    BY Zenon DEF LocalsOK
  <2>4. chat' \in [Procs -> Chats \cup {None}] /\ conn' \in [Procs -> Conns \cup {None}]
    BY SMTT(15) DEF LocalsOK
  <2> QED BY <2>1, <2>2, <2>3, <2>4 DEF LocalsOK
<1>6. WeighedOK'
  BY NoManifestIsOne DEF WeighedOK
<1>7. Placed'
  BY SMTT(15) DEF Placed, LocalsOK, AtWork, BootOnlySweeps, Pcs
<1> QED BY <1>1, <1>2, <1>3, <1>4, <1>5, <1>6, <1>7 DEF Placed

\* A crash keeps the types.
LEMMA CrashTyped ==
  ASSUME Typed, Crash
  PROVE  Typed'
<1> USE ConstantsOK DEF Typed, TypeOK, Crash, Procs
<1>1. DiskOK' /\ GatesOK'
  BY DEF DiskOK, disk, GatesOK
<1>2. PlaneOK'
  <2>1. container' \in [Chats -> {"none", "live", "exited"}]
    BY CutShortTyped, Zenon
  <2>2. stray' \in [Chats -> BOOLEAN]
    BY Zenon
  <2> QED BY <2>1, <2>2 DEF PlaneOK
<1>3. PipesOK'
  BY SMTT(15) DEF PipesOK
<1>4. LocalsOK'
  BY NoManifestIsOne, Zenon DEF LocalsOK
<1>5. WeighedOK'
  BY NoManifestIsOne DEF WeighedOK
<1>6. Placed'
  BY SMTT(15) DEF Placed, AtWork, BootOnlySweeps, Pcs, SweepPcs
<1> QED BY <1>1, <1>2, <1>3, <1>4, <1>5, <1>6 DEF Placed

Shape == [state : {"absent", "open", "archived"}, session : BOOLEAN, pushed : BOOLEAN,
          tree : {"none", "half", "tree"}, container : {"none", "live", "exited"}]

\* Every way a chat may stand at the start has the fields Init reads of it.
LEMMA ShapesTyped == \A s \in DOMAIN Shapes : Shapes[s] \in Shape
<1>1. TAKE s \in DOMAIN Shapes
<1>2. s \in {"unborn", "parked", "live", "exited", "archived", "sessionless",
            "unpublished", "halfClone", "unswept", "standing"}
  BY DEF Shapes
<1>3. /\ Shapes["unborn"] \in Shape
      /\ Shapes["parked"] \in Shape
      /\ Shapes["live"] \in Shape
      /\ Shapes["exited"] \in Shape
      /\ Shapes["archived"] \in Shape
      /\ Shapes["sessionless"] \in Shape
      /\ Shapes["unpublished"] \in Shape
      /\ Shapes["halfClone"] \in Shape
      /\ Shapes["unswept"] \in Shape
      /\ Shapes["standing"] \in Shape
  BY DEF Shapes, Shape
<1> QED BY <1>2, <1>3

\* Whatever an earlier core left behind has its type.
LEMMA InitTyped == Init => Typed
<1> SUFFICES ASSUME Init PROVE Typed
  OBVIOUS
<1> USE ConstantsOK DEF Init, Procs
<1>1. PICK kind \in [Chats -> Kinds], stamp \in [Chats -> 1..Dawn] :
        /\ manifest = [c \in Chats |->
             IF Shapes[kind[c]].state = "absent" THEN NoManifest
             ELSE [state   |-> Shapes[kind[c]].state,
                   session |-> Shapes[kind[c]].session,
                   pushed  |-> Shapes[kind[c]].pushed,
                   active  |-> stamp[c]]]
        /\ workspace = [c \in Chats |-> Shapes[kind[c]].tree]
        /\ container = [c \in Chats |-> Shapes[kind[c]].container]
  BY Zenon
<1>2. \A s \in DOMAIN Shapes : Shapes[s] \in Shape
  BY ShapesTyped
<1>3. \A c \in Chats : kind[c] \in DOMAIN Shapes /\ stamp[c] \in Nat
  BY <1>1, SMTT(15)
<1>4. DiskOK
  <2>1. manifest \in [Chats -> Manifests]
    BY <1>1, <1>2, <1>3, NoManifestIsOne, SMTT(15) DEF Manifests, Shape
  <2>2. workspace \in [Chats -> {"none", "half", "tree"}]
    BY <1>1, <1>2, <1>3, SMTT(15) DEF Shape
  <2> QED BY <2>1, <2>2 DEF DiskOK
<1>5. PlaneOK
  BY <1>1, <1>2, <1>3, SMTT(15) DEF PlaneOK, Shape
<1>6. PipesOK /\ GatesOK /\ WeighedOK
  BY NoManifestIsOne DEF PipesOK, GatesOK, WeighedOK
<1>7. LocalsOK
  BY NoManifestIsOne, Zenon DEF LocalsOK
<1>8. Placed
  BY SMTT(15) DEF Placed, AtWork, BootOnlySweeps, Pcs, SweepPcs
<1> QED BY <1>4, <1>5, <1>6, <1>7, <1>8 DEF Typed, TypeOK, Placed

\* Every step keeps the types.
LEMMA NextTyped == Typed /\ [Next]_vars => Typed'
<1> SUFFICES ASSUME Typed, [Next]_vars PROVE Typed'
  OBVIOUS
<1>1. CASE UNCHANGED vars
  BY <1>1, SMTT(15) DEF Typed, TypeOK, DiskOK, PlaneOK, PipesOK, GatesOK,
     LocalsOK, WeighedOK, AtWork, BootOnlySweeps, vars, disk, plane, pipes,
     gates, locals, weighed
<1>2. CASE \E p \in Procs : Handler(p) \/ CapStep(p)
  BY <1>2, WakeTyped, TurnTyped, AnswerTyped, ArchiveTyped, CreateTyped,
     SweepTyped, CapTyped DEF Handler
<1>3. CASE \E p \in Requests : Hangup(p)
  BY <1>3, HangupTyped
<1>4. CASE \E p \in Requests, c \in Chats :
             BeginPrompt(p, c) \/ BeginArchive(p, c) \/ BeginCreate(p, c)
  BY <1>4, BeginTyped
<1>5. CASE \E c \in Chats : AgentWrites(c) \/ StrayEnds(c) \/ ContainerExits(c)
  BY <1>5, AroundTyped
<1>6. CASE Crash
  BY <1>6, CrashTyped
<1> QED BY <1>1, <1>2, <1>3, <1>4, <1>5, <1>6 DEF Next, Idle

\* The type invariant holds of every dataset and any number of requests.
THEOREM TypesHold == Spec => []TypeOK
<1>1. Spec => []Typed
  BY InitTyped, NextTyped, PTL DEF Spec
<1>2. Typed => TypeOK
  BY DEF Typed
<1> QED BY <1>1, <1>2, PTL

-----------------------------------------------------------------------------
(***************************************************************************)
(* Claims, turn locks and the handover between them.  OneClaimant and      *)
(* OneConversation say what is held by whom; to be kept by every step they *)
(* need to know which claim a wake holds, and that whoever goes for a turn *)
(* lock has a connection in hand.                                          *)
(***************************************************************************)

\* A wake holds its chat's claim, as a wake, until its turn lock is held.
WakersClaim == \A p \in Procs : pc[p] \in WakePcs => claims[chat[p]] = "waking"

LinkedPcs == {"w_record", "w_hold", "handover", "lock", "unclaim", "turn", "answer",
              "a_lock", "n_write", "n_hold"}

\* Where a handler is about to use the connection it has in hand, it has one.
Connected == \A p \in Procs : pc[p] \in LinkedPcs => conn[p] # None

Guarded == OneClaimant /\ WakersClaim /\ OneConversation /\ Connected

\* A step of a wake keeps the guards.
LEMMA WakeGuarded ==
  ASSUME Typed, Guarded, NEW p \in Procs, WakeStep(p)
  PROVE  Guarded'
<1>1. /\ pc \in [Procs -> Pcs]
      /\ chat \in [Procs -> Chats \cup {None}]
      /\ conn \in [Procs -> Conns \cup {None}]
      /\ claims \in [Chats -> {"free", "waking", "archiving"}]
      /\ lock \in [Conns -> Procs \cup {None}]
      /\ AtWork /\ BootOnlySweeps
  BY DEF Typed, TypeOK, LocalsOK, GatesOK, PipesOK
<1> USE ConstantsOK, <1>1 DEF Guarded, Goto, Done, Procs, AtWork,
       BootOnlySweeps, disk, plane, pipes, gates, locals, HoldsClaim,
       HoldsLock, ClaimPcs, LockPcs, LinkedPcs, WakePcs, TurnPcs, GatePcs,
       SweepPcs
<1>2. CASE WakeClaim(p)
  BY <1>2, SMTT(15) DEF WakeClaim, TakeClaim, OneClaimant, WakersClaim,
     OneConversation, Connected
<1>3. CASE WakeRead(p)
  BY <1>3, SMTT(15) DEF WakeRead, OneClaimant, WakersClaim, OneConversation,
     Connected
<1>4. CASE WakeTree(p)
  BY <1>4, SMTT(15) DEF WakeTree, OneClaimant, WakersClaim, OneConversation,
     Connected
<1>5. CASE ReviveCheck(p)
  BY <1>5, SMTT(15) DEF ReviveCheck, OneClaimant, WakersClaim, OneConversation,
     Connected
<1>6. CASE CloneStart(p)
  BY <1>6, SMTT(15) DEF CloneStart, OneClaimant, WakersClaim, OneConversation,
     Connected
<1>7. CASE CloneEnd(p)
  BY <1>7, SMTT(15) DEF CloneEnd, OneClaimant, WakersClaim, OneConversation,
     Connected
<1>8. CASE Wipe(p)
  BY <1>8, SMTT(15) DEF Wipe, OneClaimant, WakersClaim, OneConversation,
     Connected
<1>9. CASE ReviveOpen(p)
  BY <1>9, SMTT(15) DEF ReviveOpen, OneClaimant, WakersClaim, OneConversation,
     Connected
<1>10. CASE House(p)
  BY <1>10, SMTT(15) DEF House, OneClaimant, WakersClaim, OneConversation,
     Connected
<1>11. CASE WakeSpawn(p)
  BY <1>11, SMTT(15) DEF WakeSpawn, OneClaimant, WakersClaim, OneConversation,
     Connected
<1>12. CASE Climb(p)
  BY <1>12, SMTT(15) DEF Climb, Unused, OneClaimant, WakersClaim,
     OneConversation, Connected
<1>13. CASE WakeRelease(p)
  BY <1>13, SMTT(15) DEF WakeRelease, OneClaimant, WakersClaim,
     OneConversation, Connected
<1>14. CASE WakeForget(p)
  BY <1>14, SMTT(15) DEF WakeForget, OneClaimant, WakersClaim, OneConversation,
     Connected
<1>15. CASE WakeRecord(p)
  BY <1>15, SMTT(15) DEF WakeRecord, OneClaimant, WakersClaim, OneConversation,
     Connected
<1>16. CASE WakeHold(p)
  BY <1>16, SMTT(15) DEF WakeHold, OneClaimant, WakersClaim, OneConversation,
     Connected
<1>17. CASE WakeDrop(p)
  BY <1>17, SMTT(15) DEF WakeDrop, DropClaim, OneClaimant, WakersClaim,
     OneConversation, Connected
<1> QED BY <1>2, <1>3, <1>4, <1>5, <1>6, <1>7, <1>8, <1>9, <1>10, <1>11, <1>12,
           <1>13, <1>14, <1>15, <1>16, <1>17 DEF WakeStep

\* A step of a turn, its end excepted, keeps the guards.
LEMMA TurnGuarded ==
  ASSUME Typed, Guarded, NEW p \in Procs, TurnStep(p)
  PROVE  Guarded'
<1>1. /\ pc \in [Procs -> Pcs]
      /\ chat \in [Procs -> Chats \cup {None}]
      /\ conn \in [Procs -> Conns \cup {None}]
      /\ claims \in [Chats -> {"free", "waking", "archiving"}]
      /\ lock \in [Conns -> Procs \cup {None}]
      /\ AtWork /\ BootOnlySweeps
  BY DEF Typed, TypeOK, LocalsOK, GatesOK, PipesOK
<1> USE ConstantsOK, <1>1 DEF Guarded, Goto, Done, Procs, AtWork,
       BootOnlySweeps, disk, plane, pipes, gates, locals, HoldsClaim,
       HoldsLock, ClaimPcs, LockPcs, LinkedPcs, WakePcs, TurnPcs, GatePcs,
       SweepPcs
<1>2. CASE Of(p)
  BY <1>2, SMTT(15) DEF Of, OneClaimant, WakersClaim, OneConversation,
     Connected
<1>3. CASE TurnLock(p)
  BY <1>3, SMTT(15) DEF TurnLock, TryLock, OneClaimant, WakersClaim,
     OneConversation, Connected
<1>4. CASE Unclaim(p)
  BY <1>4, SMTT(15) DEF Unclaim, DropClaim, OneClaimant, WakersClaim,
     OneConversation, Connected
<1>5. CASE TurnSend(p)
  BY <1>5, SMTT(15) DEF TurnSend, LetGo, Unlock, OneClaimant, WakersClaim,
     OneConversation, Connected
<1>6. CASE EndForget(p)
  BY <1>6, SMTT(15) DEF EndForget, OneClaimant, WakersClaim, OneConversation,
     Connected
<1>7. CASE TouchRead(p)
  BY <1>7, SMTT(15) DEF TouchRead, OneClaimant, WakersClaim, OneConversation,
     Connected
<1>8. CASE TouchWrite(p)
  BY <1>8, SMTT(15) DEF TouchWrite, OneClaimant, WakersClaim, OneConversation,
     Connected
<1> QED BY <1>2, <1>3, <1>4, <1>5, <1>6, <1>7, <1>8 DEF TurnStep

\* A step of an archive keeps the guards.
LEMMA ArchiveGuarded ==
  ASSUME Typed, Guarded, NEW p \in Procs, ArchiveStep(p)
  PROVE  Guarded'
<1>1. /\ pc \in [Procs -> Pcs]
      /\ chat \in [Procs -> Chats \cup {None}]
      /\ conn \in [Procs -> Conns \cup {None}]
      /\ claims \in [Chats -> {"free", "waking", "archiving"}]
      /\ lock \in [Conns -> Procs \cup {None}]
      /\ AtWork /\ BootOnlySweeps
  BY DEF Typed, TypeOK, LocalsOK, GatesOK, PipesOK
<1> USE ConstantsOK, <1>1 DEF Guarded, Goto, Done, Procs, AtWork,
       BootOnlySweeps, disk, plane, pipes, gates, locals, HoldsClaim,
       HoldsLock, ClaimPcs, LockPcs, LinkedPcs, WakePcs, TurnPcs, GatePcs,
       SweepPcs
<1>2. CASE ArchiveClaim(p)
  BY <1>2, SMTT(15) DEF ArchiveClaim, TakeClaim, OneClaimant, WakersClaim,
     OneConversation, Connected
<1>3. CASE ArchiveRead(p)
  BY <1>3, SMTT(15) DEF ArchiveRead, OneClaimant, WakersClaim, OneConversation,
     Connected
<1>4. CASE ArchiveOf(p)
  BY <1>4, SMTT(15) DEF ArchiveOf, OneClaimant, WakersClaim, OneConversation,
     Connected
<1>5. CASE ArchiveLock(p)
  BY <1>5, SMTT(15) DEF ArchiveLock, TryLock, OneClaimant, WakersClaim,
     OneConversation, Connected
<1>6. CASE Push(p)
  BY <1>6, SMTT(15) DEF Push, OneClaimant, WakersClaim, OneConversation,
     Connected
<1>7. CASE ArchiveWrite(p)
  BY <1>7, SMTT(15) DEF ArchiveWrite, OneClaimant, WakersClaim,
     OneConversation, Connected
<1>8. CASE ArchiveRelease(p)
  BY <1>8, SMTT(15) DEF ArchiveRelease, OneClaimant, WakersClaim,
     OneConversation, Connected
<1>9. CASE ArchiveForget(p)
  BY <1>9, SMTT(15) DEF ArchiveForget, OneClaimant, WakersClaim,
     OneConversation, Connected
<1>10. CASE ArchiveRemove(p)
  BY <1>10, SMTT(15) DEF ArchiveRemove, OneClaimant, WakersClaim,
     OneConversation, Connected
<1>11. CASE ArchiveUnlock(p)
  BY <1>11, SMTT(15) DEF ArchiveUnlock, Unlock, OneClaimant, WakersClaim,
     OneConversation, Connected
<1>12. CASE ArchiveDrop(p)
  BY <1>12, SMTT(15) DEF ArchiveDrop, DropClaim, OneClaimant, WakersClaim,
     OneConversation, Connected
<1> QED BY <1>2, <1>3, <1>4, <1>5, <1>6, <1>7, <1>8, <1>9, <1>10, <1>11, <1>12
           DEF ArchiveStep

\* A step of a creation keeps the guards.
LEMMA CreateGuarded ==
  ASSUME Typed, Guarded, NEW p \in Procs, CreateStep(p)
  PROVE  Guarded'
<1>1. /\ pc \in [Procs -> Pcs]
      /\ chat \in [Procs -> Chats \cup {None}]
      /\ conn \in [Procs -> Conns \cup {None}]
      /\ claims \in [Chats -> {"free", "waking", "archiving"}]
      /\ lock \in [Conns -> Procs \cup {None}]
      /\ AtWork /\ BootOnlySweeps
  BY DEF Typed, TypeOK, LocalsOK, GatesOK, PipesOK
<1> USE ConstantsOK, <1>1 DEF Guarded, Goto, Done, Procs, AtWork,
       BootOnlySweeps, disk, plane, pipes, gates, locals, HoldsClaim,
       HoldsLock, ClaimPcs, LockPcs, LinkedPcs, WakePcs, TurnPcs, GatePcs,
       SweepPcs
<1>2. CASE NewTree(p)
  BY <1>2, SMTT(15) DEF NewTree, OneClaimant, WakersClaim, OneConversation,
     Connected
<1>3. CASE Publish(p)
  BY <1>3, SMTT(15) DEF Publish, OneClaimant, WakersClaim, OneConversation,
     Connected
<1>4. CASE CheckOut(p)
  BY <1>4, SMTT(15) DEF CheckOut, GiveUp, OneClaimant, WakersClaim,
     OneConversation, Connected
<1>5. CASE NewSpawn(p)
  BY <1>5, SMTT(15) DEF NewSpawn, GiveUp, OneClaimant, WakersClaim,
     OneConversation, Connected
<1>6. CASE OpenSession(p)
  BY <1>6, SMTT(15) DEF OpenSession, Unused, OneClaimant, WakersClaim,
     OneConversation, Connected
<1>7. CASE RecordSession(p)
  BY <1>7, SMTT(15) DEF RecordSession, OneClaimant, WakersClaim,
     OneConversation, Connected
<1>8. CASE NewHold(p)
  BY <1>8, SMTT(15) DEF NewHold, OneClaimant, WakersClaim, OneConversation,
     Connected
<1>9. CASE NewTeardown(p)
  BY <1>9, SMTT(15) DEF NewTeardown, GiveUp, OneClaimant, WakersClaim,
     OneConversation, Connected
<1> QED BY <1>2, <1>3, <1>4, <1>5, <1>6, <1>7, <1>8, <1>9 DEF CreateStep

\* A step of a capping keeps the guards.
LEMMA CapGuarded ==
  ASSUME Typed, Guarded, NEW p \in Procs, CapStep(p)
  PROVE  Guarded'
<1>1. /\ pc \in [Procs -> Pcs]
      /\ chat \in [Procs -> Chats \cup {None}]
      /\ conn \in [Procs -> Conns \cup {None}]
      /\ claims \in [Chats -> {"free", "waking", "archiving"}]
      /\ lock \in [Conns -> Procs \cup {None}]
      /\ AtWork /\ BootOnlySweeps
  BY DEF Typed, TypeOK, LocalsOK, GatesOK, PipesOK
<1> USE ConstantsOK, <1>1 DEF Guarded, Goto, Done, Procs, AtWork,
       BootOnlySweeps, disk, plane, pipes, gates, locals, HoldsClaim,
       HoldsLock, ClaimPcs, LockPcs, LinkedPcs, WakePcs, TurnPcs, GatePcs,
       SweepPcs
<1>2. CASE CapScan(p)
  BY <1>2, SMTT(15) DEF CapScan, OneClaimant, WakersClaim, OneConversation,
     Connected
<1>3. CASE CapLive(p)
  BY <1>3, SMTT(15) DEF CapLive, OneClaimant, WakersClaim, OneConversation,
     Connected
<1>4. CASE CapBusy(p)
  BY <1>4, SMTT(15) DEF CapBusy, OneClaimant, WakersClaim, OneConversation,
     Connected
<1>5. CASE CapWeigh(p)
  BY <1>5, SMTT(15) DEF CapWeigh, OneClaimant, WakersClaim, OneConversation,
     Connected
<1>6. CASE CapPark(p)
  BY <1>6, SMTT(15) DEF CapPark, OneClaimant, WakersClaim, OneConversation,
     Connected
<1>7. CASE CapForget(p)
  BY <1>7, SMTT(15) DEF CapForget, OneClaimant, WakersClaim, OneConversation,
     Connected
<1>8. CASE CapEnd(p)
  BY <1>8, SMTT(15) DEF CapEnd, OneClaimant, WakersClaim, OneConversation,
     Connected
<1> QED BY <1>2, <1>3, <1>4, <1>5, <1>6, <1>7, <1>8 DEF CapStep

\* A step of a sweep keeps the guards.
LEMMA SweepGuarded ==
  ASSUME Typed, Guarded, NEW p \in Procs, SweepStep(p)
  PROVE  Guarded'
<1>1. /\ pc \in [Procs -> Pcs]
      /\ chat \in [Procs -> Chats \cup {None}]
      /\ conn \in [Procs -> Conns \cup {None}]
      /\ claims \in [Chats -> {"free", "waking", "archiving"}]
      /\ lock \in [Conns -> Procs \cup {None}]
      /\ AtWork /\ BootOnlySweeps
  BY DEF Typed, TypeOK, LocalsOK, GatesOK, PipesOK
<1> USE ConstantsOK, <1>1 DEF Guarded, Goto, Done, Procs, AtWork,
       BootOnlySweeps, disk, plane, pipes, gates, locals, HoldsClaim,
       HoldsLock, ClaimPcs, LockPcs, LinkedPcs, WakePcs, TurnPcs, GatePcs,
       SweepPcs
<1>2. CASE SweepScan(p)
  BY <1>2, SMTT(15) DEF SweepScan, SweepEnd, OneClaimant, WakersClaim,
     OneConversation, Connected
<1>3. CASE SweepLive(p)
  BY <1>3, SMTT(15) DEF SweepLive, SweepEnd, OneClaimant, WakersClaim,
     OneConversation, Connected
<1>4. CASE SweepList(p)
  BY <1>4, SMTT(15) DEF SweepList, SweepEnd, OneClaimant, WakersClaim,
     OneConversation, Connected
<1>5. CASE SweepClaimed(p)
  BY <1>5, SMTT(15) DEF SweepClaimed, OneClaimant, WakersClaim,
     OneConversation, Connected
<1>6. CASE SweepRemove(p)
  BY <1>6, SMTT(15) DEF SweepRemove, OneClaimant, WakersClaim, OneConversation,
     Connected
<1>7. CASE SweepOver(p)
  BY <1>7, SMTT(15) DEF SweepOver, SweepEnd, OneClaimant, WakersClaim,
     OneConversation, Connected
<1> QED BY <1>2, <1>3, <1>4, <1>5, <1>6, <1>7 DEF SweepStep

\* The end of a turn keeps the guards.
LEMMA AnswerGuarded ==
  ASSUME Typed, Guarded, NEW p \in Procs, TurnEnd(p)
  PROVE  Guarded'
<1>1. /\ pc \in [Procs -> Pcs]
      /\ chat \in [Procs -> Chats \cup {None}]
      /\ conn \in [Procs -> Conns \cup {None}]
      /\ claims \in [Chats -> {"free", "waking", "archiving"}]
      /\ lock \in [Conns -> Procs \cup {None}]
      /\ AtWork /\ BootOnlySweeps
  BY DEF Typed, TypeOK, LocalsOK, GatesOK, PipesOK
<1> USE ConstantsOK, <1>1 DEF Guarded, Goto, Done, Procs, AtWork,
       BootOnlySweeps, disk, plane, pipes, gates, locals, HoldsClaim,
       HoldsLock, ClaimPcs, LockPcs, LinkedPcs, WakePcs, TurnPcs, GatePcs,
       SweepPcs
<1>2. CASE TurnEnd(p)
  BY <1>2, SMTT(15) DEF TurnEnd, LetGo, Unlock, OneClaimant, WakersClaim,
     OneConversation, Connected
<1> QED BY <1>2

\* A request that arrives keeps the guards.
LEMMA BeginGuarded ==
  ASSUME Typed, Guarded, NEW p \in Requests, NEW c \in Chats,
         BeginPrompt(p, c) \/ BeginArchive(p, c) \/ BeginCreate(p, c)
  PROVE  Guarded'
<1>1. PICK label \in {"of", "a_claim", "n_tree"} : \E op : Begin(p, c, op, label)
  BY Zenon DEF BeginPrompt, BeginArchive, BeginCreate
<1>2. PICK op : Begin(p, c, op, label)
  BY <1>1
<1>3. pc[p] = "new" /\ pc \in [Procs -> Pcs] /\ chat \in [Procs -> Chats \cup {None}]
  BY <1>2 DEF Begin, Typed, TypeOK, LocalsOK
<1>4. /\ pc' = [pc EXCEPT ![p] = label]
      /\ chat' = [chat EXCEPT ![p] = c]
      /\ UNCHANGED <<conn, claims, lock>>
  BY <1>2 DEF Begin, Goto, gates, pipes
<1> QED
  BY <1>3, <1>4, SMTT(15) DEF Guarded, OneClaimant, WakersClaim,
     OneConversation, Connected, HoldsClaim, HoldsLock, ClaimPcs, LockPcs,
     LinkedPcs, WakePcs, TurnPcs, GatePcs, SweepPcs, Procs

\* A client that hangs up takes exactly the guards of its own handler along.
LEMMA HangupGuarded ==
  ASSUME Typed, Guarded, NEW p \in Requests, Hangup(p)
  PROVE  Guarded'
<1>1. /\ pc \in [Procs -> Pcs]
      /\ chat \in [Procs -> Chats \cup {None}]
      /\ conn \in [Procs -> Conns \cup {None}]
      /\ lock \in [Conns -> Procs \cup {None}]
      /\ AtWork /\ BootOnlySweeps
  BY DEF Typed, TypeOK, LocalsOK, GatesOK, PipesOK
<1>2. /\ pc' = [pc EXCEPT ![p] = "done"]
      /\ chat' = [chat EXCEPT ![p] = None]
      /\ conn' = [conn EXCEPT ![p] = None]
      /\ claims' = [c \in Chats |-> IF HoldsClaim(p) /\ chat[p] = c THEN "free" ELSE claims[c]]
      /\ lock' = [k \in Conns |-> IF HoldsLock(p) /\ conn[p] = k THEN None ELSE lock[k]]
  BY DEF Hangup, Done, Goto
<1> USE ConstantsOK, <1>1, <1>2 DEF Guarded, Procs, AtWork, BootOnlySweeps,
        HoldsClaim, HoldsLock, ClaimPcs, LockPcs, LinkedPcs, WakePcs, TurnPcs,
        GatePcs, SweepPcs
<1>3. OneClaimant'
  BY SMTT(15) DEF OneClaimant
<1>4. WakersClaim'
  BY SMTT(15) DEF OneClaimant, WakersClaim
<1>5. OneConversation'
  BY SMTT(15) DEF OneConversation
<1>6. Connected'
  BY SMTT(15) DEF Connected
<1> QED BY <1>3, <1>4, <1>5, <1>6

\* A crash leaves no guard held and nobody to hold one.
LEMMA CrashGuarded ==
  ASSUME Typed, Crash
  PROVE  Guarded'
<1>1. /\ claims' = [c \in Chats |-> "free"]
      /\ lock' = [k \in Conns |-> None]
      /\ conn' = [p \in Procs |-> None]
      /\ \A p \in Procs \ {Boot} : pc'[p] \in {"new", "done"}
      /\ pc'[Boot] = "s_scan"
  BY DEF Crash, Procs
<1> QED
  BY <1>1, ConstantsOK, SMTT(15) DEF Guarded, OneClaimant, WakersClaim,
     OneConversation, Connected, HoldsClaim, HoldsLock, ClaimPcs, LockPcs,
     LinkedPcs, WakePcs, TurnPcs, GatePcs, SweepPcs, Procs

\* A core that has just started holds no guard.
LEMMA InitGuarded == Init => Guarded
<1> SUFFICES ASSUME Init PROVE Guarded
  OBVIOUS
<1>1. /\ claims = [c \in Chats |-> "free"]
      /\ lock = [k \in Conns |-> None]
      /\ conn = [p \in Procs |-> None]
      /\ pc = [p \in Procs |-> IF p = Boot THEN "s_scan" ELSE "new"]
  BY DEF Init
<1> QED
  BY <1>1, ConstantsOK, SMTT(15) DEF Guarded, OneClaimant, WakersClaim,
     OneConversation, Connected, HoldsClaim, HoldsLock, ClaimPcs, LockPcs,
     LinkedPcs, WakePcs, TurnPcs, GatePcs, SweepPcs, Procs

\* Every step keeps the guards.
LEMMA NextGuarded == Typed /\ Guarded /\ [Next]_vars => Guarded'
<1> SUFFICES ASSUME Typed, Guarded, [Next]_vars PROVE Guarded'
  OBVIOUS
<1>1. CASE UNCHANGED <<claims, lock, conn, chat, pc>>
  BY <1>1, SMTT(15) DEF Guarded, OneClaimant, WakersClaim, OneConversation,
     Connected, HoldsClaim, HoldsLock
<1>2. CASE \E p \in Procs : Handler(p) \/ CapStep(p)
  BY <1>2, WakeGuarded, TurnGuarded, AnswerGuarded, ArchiveGuarded,
     CreateGuarded, SweepGuarded, CapGuarded DEF Handler
<1>3. CASE \E p \in Requests : Hangup(p)
  BY <1>3, HangupGuarded
<1>4. CASE \E p \in Requests, c \in Chats :
             BeginPrompt(p, c) \/ BeginArchive(p, c) \/ BeginCreate(p, c)
  BY <1>4, BeginGuarded
<1>5. CASE \E c \in Chats : AgentWrites(c) \/ StrayEnds(c) \/ ContainerExits(c)
  BY <1>5, <1>1 DEF AgentWrites, StrayEnds, ContainerExits, gates, pipes, locals
<1>6. CASE Crash
  BY <1>6, CrashGuarded
<1>7. CASE UNCHANGED vars
  BY <1>7, <1>1 DEF vars, gates, pipes, locals
<1> QED BY <1>2, <1>3, <1>4, <1>5, <1>6, <1>7 DEF Next, Idle

\* The types and the guards together are inductive.
LEMMA AlwaysGuarded == Spec => [](Typed /\ Guarded)
<1>1. Init => Typed /\ Guarded
  BY InitTyped, InitGuarded
<1>2. Typed /\ Guarded /\ [Next]_vars => (Typed /\ Guarded)'
  BY NextTyped, NextGuarded
<1> QED BY <1>1, <1>2, PTL DEF Spec

\* A chat is claimed exactly while one wake or one archive of it is under way
\* (claim, Claim::drop): for any number of requests and chats, with every
\* fault, hangups and crashes included.
THEOREM ClaimsAreExclusive == Spec => []OneClaimant
<1>1. Typed /\ Guarded => OneClaimant
  BY DEF Guarded
<1> QED BY <1>1, AlwaysGuarded, PTL

\* One conversation has one connection at a time: a turn lock is held by the
\* turn or the archive that took it and by nobody else (turn, idle).
THEOREM ConversationsAreExclusive == Spec => []OneConversation
<1>1. Typed /\ Guarded => OneConversation
  BY DEF Guarded
<1> QED BY <1>1, AlwaysGuarded, PTL

\* A prompt that woke its chat is guarded without a gap, by the claim until the
\* turn lock is held and by the lock until the turn is over (turn, wake).
THEOREM PromptsAreGuarded == Spec => []NeverUnguarded
<1>1. Typed /\ Guarded => NeverUnguarded
  BY DEF Guarded, WakersClaim, OneConversation, Connected, NeverUnguarded,
     HoldsLock, LockPcs, LinkedPcs, TurnPcs
<1> QED BY <1>1, AlwaysGuarded, PTL

-----------------------------------------------------------------------------
(***************************************************************************)
(* Archives.  A creation claims nothing, so what follows is proved of a    *)
(* core that serves prompts and archives.  NoWriteUnderArchive asks two    *)
(* things of the connection an archive has in hand: that no other one is   *)
(* held for the chat meanwhile, and, where it has none, that none is.      *)
(***************************************************************************)

\* Nobody is in the middle of a creation.
NoCreation == \A p \in Procs : pc[p] \notin CreatePcs

\* An archive from the turn lock it asks for to the guards it gives back.
InHandPcs == {"a_lock"} \cup GatePcs \cup SweepPcs

\* While an archive is at the gate its chat holds no connection but the one
\* the archive has in hand: nobody else holds one, for want of the claim.
InHand ==
  \A p \in Requests : pc[p] \in InHandPcs => held[chat[p]] \in {None, conn[p]}

\* No step of a wake goes into a creation ...
LEMMA WakeCreatesNothing ==
  ASSUME Typed, NoCreation, NEW p \in Procs, WakeStep(p)
  PROVE  NoCreation'
  BY SMTT(60) DEF Typed, TypeOK, NoCreation, CreatePcs, WakeStep, WakeClaim,
     WakeRead, WakeTree, ReviveCheck, CloneStart, CloneEnd, Wipe, ReviveOpen,
     House, WakeSpawn, Climb, WakeRelease, WakeForget, WakeRecord, WakeHold,
     WakeDrop, Goto

\* ... nor of a turn ...
LEMMA TurnCreatesNothing ==
  ASSUME Typed, NoCreation, NEW p \in Procs, TurnStep(p) \/ TurnEnd(p)
  PROVE  NoCreation'
  BY SMTT(60) DEF Typed, TypeOK, NoCreation, CreatePcs, TurnStep, Of, TurnLock,
     Unclaim, TurnSend, EndForget, TouchRead, TouchWrite, TurnEnd, LetGo, Goto

\* ... nor of an archive or a sweep ...
LEMMA ArchiveCreatesNothing ==
  ASSUME Typed, NoCreation, NEW p \in Procs, ArchiveStep(p) \/ SweepStep(p)
  PROVE  NoCreation'
  BY SMTT(60) DEF Typed, TypeOK, NoCreation, CreatePcs, ArchiveStep,
     ArchiveClaim, ArchiveRead, ArchiveOf, ArchiveLock, Push, ArchiveWrite,
     ArchiveRelease, ArchiveForget, ArchiveRemove, ArchiveUnlock, ArchiveDrop,
     SweepStep, SweepScan, SweepLive, SweepList, SweepClaimed, SweepRemove,
     SweepOver, SweepEnd, Done, Goto

\* ... nor of a capping.
LEMMA CapCreatesNothing ==
  ASSUME Typed, NoCreation, NEW p \in Procs, CapStep(p)
  PROVE  NoCreation'
  BY SMTT(60) DEF Typed, TypeOK, NoCreation, CreatePcs, CapStep, CapScan,
     CapLive, CapBusy, CapWeigh, CapPark, CapForget, CapEnd, Done, Goto

\* A wake holds a connection only under the claim, which an archive at the gate
\* has: the one step of a wake that needs OneClaimant.
LEMMA WakeInHand ==
  ASSUME Typed, Guarded, InHand, NEW p \in Procs, WakeStep(p)
  PROVE  InHand'
<1>1. /\ pc \in [Procs -> Pcs]
      /\ chat \in [Procs -> Chats \cup {None}]
      /\ conn \in [Procs -> Conns \cup {None}]
      /\ held \in [Chats -> Conns \cup {None}]
      /\ AtWork /\ BootOnlySweeps
  BY DEF Typed, TypeOK, LocalsOK, GatesOK, PipesOK
<1>2. CASE WakeHold(p)
  <2>1. \A q \in Procs : q # p /\ HoldsClaim(q) => chat[q] # chat[p]
    BY <1>2, <1>1, ConstantsOK DEF WakeHold, Guarded, OneClaimant, HoldsClaim,
       ClaimPcs, WakePcs, BootOnlySweeps, SweepPcs, Procs
  <2> QED
    BY <1>1, <1>2, <2>1, ConstantsOK, SMTT(30) DEF WakeHold, InHand, InHandPcs,
       HoldsClaim, ClaimPcs, GatePcs, SweepPcs, WakePcs, AtWork, Procs, Goto,
       locals, gates, plane, disk
<1>3. CASE ~WakeHold(p)
  BY <1>1, <1>3, ConstantsOK, SMTT(60) DEF InHand, InHandPcs, GatePcs,
     SweepPcs, AtWork, Procs, Goto, WakeStep, WakeClaim, WakeRead, WakeTree,
     ReviveCheck, CloneStart, CloneEnd, Wipe, ReviveOpen, House, WakeSpawn,
     Climb, WakeRelease, WakeForget, WakeRecord, WakeDrop, Forget, locals,
     pipes
<1> QED BY <1>2, <1>3

\* A turn holds no connection for its chat, and forgets at most one.
LEMMA TurnInHand ==
  ASSUME Typed, Guarded, InHand, NEW p \in Procs, TurnStep(p) \/ TurnEnd(p)
  PROVE  InHand'
<1>1. /\ pc \in [Procs -> Pcs]
      /\ chat \in [Procs -> Chats \cup {None}]
      /\ conn \in [Procs -> Conns \cup {None}]
      /\ held \in [Chats -> Conns \cup {None}]
      /\ AtWork /\ BootOnlySweeps
  BY DEF Typed, TypeOK, LocalsOK, GatesOK, PipesOK
<1> QED BY <1>1, ConstantsOK, SMTT(60) DEF InHand, InHandPcs, GatePcs,
            SweepPcs, AtWork, Procs, Goto, TurnStep, Of, TurnLock, Unclaim,
            TurnSend, EndForget, TouchRead, TouchWrite, TurnEnd, LetGo, Forget,
            locals, pipes

\* An archive at the gate took in hand the connection it found held.
LEMMA ArchiveInHand ==
  ASSUME Typed, Guarded, InHand, NEW p \in Procs, ArchiveStep(p) \/ SweepStep(p)
  PROVE  InHand'
<1>1. /\ pc \in [Procs -> Pcs]
      /\ chat \in [Procs -> Chats \cup {None}]
      /\ conn \in [Procs -> Conns \cup {None}]
      /\ held \in [Chats -> Conns \cup {None}]
      /\ AtWork /\ BootOnlySweeps
  BY DEF Typed, TypeOK, LocalsOK, GatesOK, PipesOK
<1> QED BY <1>1, ConstantsOK, SMTT(60) DEF InHand, InHandPcs, GatePcs,
            SweepPcs, AtWork, Procs, Goto, ArchiveStep, ArchiveClaim,
            ArchiveRead, ArchiveOf, ArchiveLock, Push, ArchiveWrite,
            ArchiveRelease, ArchiveForget, ArchiveRemove, ArchiveUnlock,
            ArchiveDrop, SweepStep, SweepScan, SweepLive, SweepList,
            SweepClaimed, SweepRemove, SweepOver, SweepEnd, Done, Forget,
            locals, pipes

\* A capping forgets connections and holds none.
LEMMA CapInHand ==
  ASSUME Typed, Guarded, InHand, NEW p \in Procs, CapStep(p)
  PROVE  InHand'
<1>1. /\ pc \in [Procs -> Pcs]
      /\ chat \in [Procs -> Chats \cup {None}]
      /\ conn \in [Procs -> Conns \cup {None}]
      /\ held \in [Chats -> Conns \cup {None}]
      /\ AtWork /\ BootOnlySweeps
  BY DEF Typed, TypeOK, LocalsOK, GatesOK, PipesOK
<1> QED BY <1>1, ConstantsOK, SMTT(60) DEF InHand, InHandPcs, GatePcs,
            SweepPcs, AtWork, Procs, Goto, CapStep, CapScan, CapLive, CapBusy,
            CapWeigh, CapPark, CapForget, CapEnd, Done, Forget, locals, pipes

\* Whoever hung up is at no gate.
LEMMA HangupInHand ==
  ASSUME Typed, InHand, NEW p \in Requests, Hangup(p)
  PROVE  InHand'
  BY ConstantsOK, SMTT(60) DEF Typed, TypeOK, LocalsOK, PipesOK, InHand,
     InHandPcs, GatePcs, SweepPcs, Procs, Hangup, Done, Goto

\* Nor is a request that arrives.
LEMMA BeginInHand ==
  ASSUME Typed, InHand, NEW p \in Requests, NEW c \in Chats,
         BeginPrompt(p, c) \/ BeginArchive(p, c)
  PROVE  InHand'
  BY ConstantsOK, SMTT(60) DEF Typed, TypeOK, LocalsOK, PipesOK, InHand,
     InHandPcs, GatePcs, SweepPcs, Procs, BeginPrompt, BeginArchive, Begin,
     Goto, pipes

\* After a crash nobody is.
LEMMA CrashInHand ==
  ASSUME Typed, Crash
  PROVE  InHand'
<1>1. \A p \in Requests : pc'[p] \in {"new", "done"}
  BY ConstantsOK DEF Crash, Procs
<1> QED BY <1>1, SMTT(60) DEF InHand, InHandPcs, GatePcs, SweepPcs

\* Where nothing is created, only a wake starts a container, and it starts its
\* own chat's (container_for): nothing else in the core, the plane or the world
\* makes one live.
LEMMA OnlyWakesSpawn ==
  ASSUME Typed, NoCreation, [Next]_vars, NEW c \in Chats,
         container[c] # "live", container'[c] = "live"
  PROVE  \E q \in Procs : WakeSpawn(q) /\ chat[q] = c
<1>1. container \in [Chats -> {"none", "live", "exited"}]
  BY DEF Typed, TypeOK, PlaneOK
<1>2. CASE \E p \in Procs : WakeStep(p)
  <2> PICK p \in Procs : WakeStep(p)
    BY <1>2
  <2>1. CASE WakeSpawn(p)
    BY <1>1, <2>1, SMTT(30) DEF WakeSpawn, Spawn, SpawnFails
  <2>2. CASE ~WakeSpawn(p)
    BY <1>1, <2>2, SMTT(30) DEF WakeStep, WakeClaim, WakeRead, WakeTree,
       ReviveCheck, CloneStart, CloneEnd, Wipe, ReviveOpen, House, Climb,
       WakeRelease, WakeForget, WakeRecord, WakeHold, WakeDrop, TearDown,
       TearDownFails, Gone, plane
  <2> QED BY <2>1, <2>2
<1>3. CASE \E p \in Procs : TurnStep(p) \/ TurnEnd(p)
  BY <1>1, <1>3, SMTT(30) DEF TurnStep, Of, TurnLock, Unclaim, TurnSend,
     EndForget, TouchRead, TouchWrite, TurnEnd, plane
<1>4. CASE \E p \in Procs : ArchiveStep(p) \/ SweepStep(p)
  BY <1>1, <1>4, SMTT(30) DEF ArchiveStep, ArchiveClaim, ArchiveRead,
     ArchiveOf, ArchiveLock, Push, ArchiveWrite, ArchiveRelease, ArchiveForget,
     ArchiveRemove, ArchiveUnlock, ArchiveDrop, SweepStep, SweepScan,
     SweepLive, SweepList, SweepClaimed, SweepRemove, SweepOver, TearDown,
     TearDownFails, Gone, plane
<1>5. CASE \E p \in Procs : CreateStep(p)
  BY <1>5, SMTT(30) DEF NoCreation, CreatePcs, CreateStep, NewTree, Publish,
     CheckOut, NewSpawn, OpenSession, RecordSession, NewHold, NewTeardown
<1>6. CASE \E p \in Procs : CapStep(p)
  BY <1>1, <1>6, SMTT(30) DEF CapStep, CapScan, CapLive, CapBusy, CapWeigh,
     CapPark, CapForget, CapEnd, TearDown, TearDownFails, Gone, plane
<1>7. CASE (\E p \in Requests : Hangup(p)) \/ Crash
  <2>1. PICK procs \in {Procs} \cup {{p} : p \in Requests} :
               container' \in CutShort(procs)
    BY <1>7 DEF Hangup, Crash
  <2>2. container'[c] \in {"exited", container[c]}
    BY <2>1 DEF CutShort
  <2> QED BY <2>2
<1>8. CASE \E p \in Requests, d \in Chats :
             BeginPrompt(p, d) \/ BeginArchive(p, d) \/ BeginCreate(p, d)
  BY <1>8 DEF BeginPrompt, BeginArchive, BeginCreate, Begin, plane
<1>9. CASE \E d \in Chats : AgentWrites(d) \/ StrayEnds(d) \/ ContainerExits(d)
  BY <1>1, <1>9 DEF AgentWrites, StrayEnds, ContainerExits, Gone, plane
<1>10. CASE UNCHANGED vars
  BY <1>10 DEF vars, plane
<1> QED BY <1>2, <1>3, <1>4, <1>5, <1>6, <1>7, <1>8, <1>9, <1>10 DEF Next,
           Handler, Idle

\* Only an agent at work makes a tree hold what the remote lacks: a clone, a
\* push, a sweep and an archive never do.
LEMMA OnlyAgentsWrite ==
  ASSUME Typed, [Next]_vars, NEW c \in Chats, ~unpushed[c], unpushed'[c]
  PROVE  AgentWrites(c)
<1>1. unpushed \in [Chats -> BOOLEAN]
  BY DEF Typed, TypeOK, DiskOK
<1>2. CASE \E p \in Procs : WakeStep(p)
  BY <1>1, <1>2, SMTT(30) DEF WakeStep, WakeClaim, WakeRead, WakeTree,
     ReviveCheck, CloneStart, CloneEnd, Wipe, ReviveOpen, House, WakeSpawn,
     Climb, WakeRelease, WakeForget, WakeRecord, WakeHold, WakeDrop,
     RemoveTree, RemoveTreeFails, disk
<1>3. CASE \E p \in Procs : TurnStep(p) \/ TurnEnd(p)
  BY <1>1, <1>3, SMTT(30) DEF TurnStep, Of, TurnLock, Unclaim, TurnSend,
     EndForget, TouchRead, TouchWrite, TurnEnd, disk
<1>4. CASE \E p \in Procs : ArchiveStep(p) \/ SweepStep(p)
  BY <1>1, <1>4, SMTT(30) DEF ArchiveStep, ArchiveClaim, ArchiveRead,
     ArchiveOf, ArchiveLock, Push, ArchiveWrite, ArchiveRelease, ArchiveForget,
     ArchiveRemove, ArchiveUnlock, ArchiveDrop, SweepStep, SweepScan,
     SweepLive, SweepList, SweepClaimed, SweepRemove, SweepOver, RemoveTree,
     RemoveTreeFails, disk
<1>5. CASE \E p \in Procs : CreateStep(p)
  BY <1>1, <1>5, SMTT(30) DEF CreateStep, NewTree, Publish, CheckOut, NewSpawn,
     OpenSession, RecordSession, NewHold, NewTeardown, disk
<1>6. CASE \E p \in Procs : CapStep(p)
  BY <1>1, <1>6, SMTT(30) DEF CapStep, CapScan, CapLive, CapBusy, CapWeigh,
     CapPark, CapForget, CapEnd, disk
<1>7. CASE (\E p \in Requests : Hangup(p)) \/ Crash
  BY <1>7 DEF Hangup, Crash, disk
<1>8. CASE \E p \in Requests, d \in Chats :
             BeginPrompt(p, d) \/ BeginArchive(p, d) \/ BeginCreate(p, d)
  BY <1>8 DEF BeginPrompt, BeginArchive, BeginCreate, Begin, disk
<1>9. CASE \E d \in Chats : AgentWrites(d) \/ StrayEnds(d) \/ ContainerExits(d)
  BY <1>1, <1>9 DEF AgentWrites, StrayEnds, ContainerExits, disk
<1>10. CASE UNCHANGED vars
  BY <1>10 DEF vars, disk
<1> QED BY <1>2, <1>3, <1>4, <1>5, <1>6, <1>7, <1>8, <1>9, <1>10 DEF Next,
           Handler, Idle

\* What holds of a core that serves prompts and archives.
Alone == Typed /\ Guarded /\ NoCreation /\ InHand

\* A core that has just started creates nothing and is at no gate.
LEMMA InitAlone == Init => NoCreation /\ InHand
<1> SUFFICES ASSUME Init PROVE NoCreation /\ InHand
  OBVIOUS
<1>1. \A p \in Procs : pc[p] \in {"s_scan", "new"} /\ (p # Boot => pc[p] = "new")
  BY DEF Init
<1> QED BY <1>1, ConstantsOK DEF NoCreation, InHand, InHandPcs, CreatePcs,
           GatePcs, SweepPcs, Procs

\* Every step of a core that serves no creation keeps both.
LEMMA NextAlone ==
  ASSUME "create" \notin Ops PROVE Alone /\ [Next]_vars => (NoCreation /\ InHand)'
<1> SUFFICES ASSUME Alone, [Next]_vars PROVE (NoCreation /\ InHand)'
  OBVIOUS
<1> USE DEF Alone
<1>1. CASE UNCHANGED <<held, conn, chat, pc>>
  BY <1>1 DEF NoCreation, InHand
<1>2. CASE \E p \in Procs : Handler(p) \/ CapStep(p)
  <2>1. \A p \in Procs : ~CreateStep(p)
    BY DEF NoCreation, CreatePcs, CreateStep, NewTree, Publish, CheckOut,
       NewSpawn, OpenSession, RecordSession, NewHold, NewTeardown
  <2> QED BY <1>2, <2>1, WakeCreatesNothing, TurnCreatesNothing,
             ArchiveCreatesNothing, CapCreatesNothing, WakeInHand, TurnInHand,
             ArchiveInHand, CapInHand DEF Handler
<1>3. CASE \E p \in Requests : Hangup(p)
  <2>1. NoCreation'
    BY <1>3, ConstantsOK DEF Typed, TypeOK, Hangup, Done, Goto, NoCreation,
       CreatePcs, Procs
  <2> QED BY <1>3, <2>1, HangupInHand
<1>4. CASE \E p \in Requests, c \in Chats :
             BeginPrompt(p, c) \/ BeginArchive(p, c) \/ BeginCreate(p, c)
  <2>1. PICK p \in Requests, c \in Chats : BeginPrompt(p, c) \/ BeginArchive(p, c)
    BY <1>4 DEF BeginCreate, Begin
  <2>2. NoCreation'
    BY <2>1, ConstantsOK DEF Typed, TypeOK, BeginPrompt, BeginArchive, Begin,
       Goto, NoCreation, CreatePcs, Procs
  <2> QED BY <2>1, <2>2, BeginInHand
<1>5. CASE \E c \in Chats : AgentWrites(c) \/ StrayEnds(c) \/ ContainerExits(c)
  BY <1>5, <1>1 DEF AgentWrites, StrayEnds, ContainerExits, pipes, locals
<1>6. CASE Crash
  <2>1. NoCreation'
    BY <1>6, ConstantsOK DEF Crash, NoCreation, CreatePcs, Procs
  <2> QED BY <1>6, <2>1, CrashInHand
<1>7. CASE UNCHANGED vars
  BY <1>7, <1>1 DEF vars, pipes, locals
<1> QED BY <1>2, <1>3, <1>4, <1>5, <1>6, <1>7 DEF Next, Idle

\* The types, the guards and what is in hand are inductive together.
LEMMA AlwaysAlone ==
  ASSUME "create" \notin Ops
  PROVE  Spec => []Alone
<1>1. Spec => [](Typed /\ Guarded)
  BY AlwaysGuarded
<1>2. Init => NoCreation /\ InHand
  BY InitAlone
<1>3. Alone /\ [Next]_vars => (NoCreation /\ InHand)'
  BY NextAlone
<1> QED BY <1>1, <1>2, <1>3, PTL DEF Spec, Alone

\* While an archive is at the gate no container of its chat starts (issue #93,
\* close and container_for), whatever the prompts, sweeps, cappings, faults,
\* hang-ups and crashes around it.
THEOREM NothingStartsUnderArchive ==
  ASSUME "create" \notin Ops PROVE Spec => NoSpawnUnderArchive
<1>1. ASSUME Alone, [Next]_vars
      PROVE  \A c \in Chats, p \in Procs :
               Live' = Live \cup {c} /\ c \notin Live =>
                 ~(chat[p] = c /\ pc[p] \in GatePcs)
  <2> SUFFICES ASSUME NEW c \in Chats, NEW p \in Procs,
                      Live' = Live \cup {c}, c \notin Live,
                      chat[p] = c, pc[p] \in GatePcs
               PROVE  FALSE
    OBVIOUS
  <2>1. container[c] # "live" /\ container'[c] = "live"
    BY DEF Live
  <2>2. PICK q \in Procs : WakeSpawn(q) /\ chat[q] = c
    BY <1>1, <2>1, OnlyWakesSpawn DEF Alone
  <2>3. HoldsClaim(p) /\ HoldsClaim(q) /\ p # q
    BY <1>1, <2>2, ConstantsOK DEF Alone, Typed, BootOnlySweeps, WakeSpawn,
       HoldsClaim, ClaimPcs, WakePcs, GatePcs, SweepPcs
  <2> QED BY <1>1, <2>2, <2>3 DEF Alone, Guarded, OneClaimant
<1>2. Alone /\ [Next]_vars =>
        [\A c \in Chats, p \in Procs :
           Live' = Live \cup {c} /\ c \notin Live =>
             ~(chat[p] = c /\ pc[p] \in GatePcs)]_vars
  BY <1>1
<1> QED BY <1>2, AlwaysAlone, PTL DEF Spec, NoSpawnUnderArchive

\* While an archive is at the gate nothing is written into the tree it pushes
\* and deletes (idle, close), but by an agent nobody awaits any more and by one
\* whose turn goes over a connection that was forgotten under it.
THEOREM NothingWritesUnderArchive ==
  ASSUME "create" \notin Ops PROVE Spec => NoWriteUnderArchive
<1>1. ASSUME Alone, [Next]_vars
      PROVE  \A c \in Chats, p \in Procs :
               ~unpushed[c] /\ unpushed'[c] =>
                 stray[c] \/ Unheld(c) \/ ~(chat[p] = c /\ pc[p] \in GatePcs)
  <2> SUFFICES ASSUME NEW c \in Chats, NEW p \in Procs,
                      ~unpushed[c], unpushed'[c], ~stray[c], ~Unheld(c),
                      chat[p] = c, pc[p] \in GatePcs
               PROVE  FALSE
    OBVIOUS
  <2>1. AgentWrites(c)
    BY <1>1, OnlyAgentsWrite DEF Alone
  <2>2. PICK q \in Procs : InTurn(q, c)
    BY <2>1 DEF AgentWrites, Working
  <2>3. conn[q] = held[c] /\ conn[q] # None /\ p # q
    BY <1>1, <2>2 DEF Unheld, InTurn, Alone, Guarded, Connected, LinkedPcs,
       GatePcs
  <2>4. p \in Requests
    BY <1>1 DEF Alone, Typed, BootOnlySweeps, GatePcs, SweepPcs, Procs
  <2>5. held[c] = conn[p]
    BY <1>1, <2>3, <2>4 DEF Alone, InHand, InHandPcs
  <2>6. HoldsLock(p) /\ HoldsLock(q)
    BY <2>2, <2>3, <2>5 DEF HoldsLock, LockPcs, TurnPcs, InTurn
  <2> QED BY <1>1, <2>3, <2>5, <2>6 DEF Alone, Guarded, OneConversation
<1>2. Alone /\ [Next]_vars =>
        [\A c \in Chats, p \in Procs :
           ~unpushed[c] /\ unpushed'[c] =>
             stray[c] \/ Unheld(c) \/ ~(chat[p] = c /\ pc[p] \in GatePcs)]_vars
  BY <1>1
<1> QED BY <1>2, AlwaysAlone, PTL DEF Spec, NoWriteUnderArchive

=============================================================================
