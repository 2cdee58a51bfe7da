----------------------------- MODULE GroundProofs -----------------------------
(***************************************************************************)
(* Proofs about what a chat stands on: the dataset (Dataset.tla), the      *)
(* container plane (Plane.tla), the owner of its tree (Handover.tla), the  *)
(* warm pool it keeps a place in (PoolWalk.tla) and the form it is asked   *)
(* for with (Form.tla).                                                    *)
(* Every chat that is listed reads back; an agent starts on a network that *)
(* routes out, on a tree that is its own, and a name comes back; for any   *)
(* chats, entries, writers and calls, whatever stood under the network's   *)
(* name and whatever fails.  What is typed in a form, however long, comes  *)
(* to what the form says, and the operator's token goes home with it.      *)
(***************************************************************************)
EXTENDS Dataset, Plane, Handover, PoolWalk, Form, FiniteSetTheorems,
        SequenceTheorems, WellFoundedInduction, TLAPS

-----------------------------------------------------------------------------
(***************************************************************************)
(* The dataset: every chat that is listed reads back.                      *)
(***************************************************************************)

Dirs == {"none", "staged", "published"}
Writing == {"open", "write", "sync", "rename"}
Places == {"idle", "stage", "log", "publish"} \cup Writing

DataTypes ==
  /\ dir \in [Chats -> Dirs]
  /\ workspace \subseteq Chats /\ events \subseteq Chats
  /\ manifest \in [Chats -> Files]
  /\ temp \in [Procs -> Files]
  /\ at \in [Procs -> Places]
  /\ subject \in [Writers -> Chats]

\* A file aside is as whole as its process has come.
TempIsWhole ==
  \A p \in Procs : /\ at[p] = "sync" => temp[p] = "cached"
                   /\ at[p] = "rename" => temp[p] = "safe"

\* A manifest is there on the disk whole, or not at all; it is there once it
\* is about to be published.
ManifestIsSafe ==
  \A c \in Chats : /\ manifest[c] \in {"missing", "safe"}
                   /\ dir[c] = "published" \/ at[c] = "publish"
                        => manifest[c] = "safe"

\* The tree is laid before anything else, and the log before the manifest.
LaidInOrder ==
  \A c \in Chats :
     /\ dir[c] = "published" \/ at[c] # "idle" => c \in workspace
     /\ dir[c] = "published" \/ at[c] \in Writing \cup {"publish"}
          => c \in events

DataInv == DataTypes /\ TempIsWhole /\ ManifestIsSafe /\ LaidInOrder

-----------------------------------------------------------------------------
\* The invariant holds on an empty dataset.
LEMMA DataInitInv == Init => DataInv
  BY DEF Init, DataInv, DataTypes, TempIsWhole, ManifestIsSafe, LaidInOrder, Dirs,
         Files, Places, Writing, Procs

\* What a step of one process leaves of the places.
LEMMA StepTyped ==
  ASSUME DataTypes, NEW p \in Procs, NEW here, NEW next \in Places,
         Step(p, here, next)
  PROVE  /\ at' \in [Procs -> Places]
         /\ at'[p] = next /\ at[p] = here
         /\ \A q \in Procs \ {p} : at'[q] = at[q]
  BY DEF DataTypes, Step

\* The steps of a creation around its manifest keep the invariant.
LEMMA CreationKeeps ==
  ASSUME DataInv, NEW c \in Chats,
         LayTree(c) \/ Stage(c) \/ StartLog(c) \/ Publish(c)
  PROVE  DataInv'
<1> USE DEF DataInv
<1>0. c \in Procs /\ {"stage", "log", "open", "idle"} \subseteq Places
  BY DEF Procs, Places, Writing
<1>1. CASE LayTree(c)
  <2>1. /\ at' \in [Procs -> Places] /\ at'[c] = "stage" /\ at[c] = "idle"
        /\ \A q \in Procs \ {c} : at'[q] = at[q]
    BY <1>0, <1>1, StepTyped DEF LayTree
  <2>2. DataTypes' BY <1>1, <2>1 DEF LayTree, DataTypes
  <2>3. TempIsWhole' BY <1>1, <2>1 DEF LayTree, TempIsWhole
  <2>4. ManifestIsSafe' BY <1>1, <2>1 DEF LayTree, ManifestIsSafe, Procs
  <2>5. LaidInOrder' BY <1>1, <2>1 DEF LayTree, LaidInOrder, Procs, Writing
  <2> QED BY <2>2, <2>3, <2>4, <2>5
<1>2. CASE Stage(c)
  <2>1. /\ at' \in [Procs -> Places] /\ at'[c] = "log" /\ at[c] = "stage"
        /\ \A q \in Procs \ {c} : at'[q] = at[q]
    BY <1>0, <1>2, StepTyped DEF Stage
  <2>2. DataTypes' BY <1>2, <2>1 DEF Stage, DataTypes, Dirs
  <2>3. TempIsWhole' BY <1>2, <2>1 DEF Stage, TempIsWhole
  <2>4. ManifestIsSafe' BY <1>2, <2>1 DEF Stage, ManifestIsSafe, Procs, DataTypes
  <2>5. LaidInOrder'
    BY <1>2, <2>1 DEF Stage, LaidInOrder, Procs, Writing, DataTypes
  <2> QED BY <2>2, <2>3, <2>4, <2>5
<1>3. CASE StartLog(c)
  <2>1. /\ at' \in [Procs -> Places] /\ at'[c] = "open" /\ at[c] = "log"
        /\ \A q \in Procs \ {c} : at'[q] = at[q]
    BY <1>0, <1>3, StepTyped DEF StartLog
  <2>2. DataTypes' BY <1>3, <2>1 DEF StartLog, DataTypes
  <2>3. TempIsWhole' BY <1>3, <2>1 DEF StartLog, TempIsWhole
  <2>4. ManifestIsSafe' BY <1>3, <2>1 DEF StartLog, ManifestIsSafe, Procs
  <2>5. LaidInOrder' BY <1>3, <2>1 DEF StartLog, LaidInOrder, Procs, Writing
  <2> QED BY <2>2, <2>3, <2>4, <2>5
<1>4. CASE Publish(c)
  <2>1. /\ at' \in [Procs -> Places] /\ at'[c] = "idle" /\ at[c] = "publish"
        /\ \A q \in Procs \ {c} : at'[q] = at[q]
    BY <1>0, <1>4, StepTyped DEF Publish
  <2>2. DataTypes' BY <1>4, <2>1 DEF Publish, DataTypes, Dirs
  <2>3. TempIsWhole' BY <1>4, <2>1 DEF Publish, TempIsWhole
  <2>4. ManifestIsSafe'
    BY <1>4, <2>1 DEF Publish, ManifestIsSafe, Procs, DataTypes
  <2>5. LaidInOrder'
    BY <1>4, <2>1 DEF Publish, LaidInOrder, Procs, Writing, DataTypes
  <2> QED BY <2>2, <2>3, <2>4, <2>5
<1> QED BY <1>1, <1>2, <1>3, <1>4

\* A writer that begins is no creation (DatasetOK), so no chat's place moves.
LEMMA ReplaceKeeps == ASSUME DataInv, NEW w \in Writers, Replace(w) PROVE DataInv'
<1> USE DEF DataInv
<1>1. w \in Procs /\ w \notin Chats /\ "open" \in Places
  BY DatasetOK DEF Procs, Places, Writing
<1>2. /\ at' \in [Procs -> Places] /\ at'[w] = "open"
      /\ \A q \in Procs \ {w} : at'[q] = at[q]
  BY <1>1, StepTyped DEF Replace
<1>3. subject' \in [Writers -> Chats] BY DEF Replace, DataTypes
<1>4. DataTypes' BY <1>2, <1>3 DEF Replace, DataTypes
<1>5. TempIsWhole' BY <1>2 DEF Replace, TempIsWhole
<1>6. ManifestIsSafe' BY <1>1, <1>2 DEF Replace, ManifestIsSafe, Procs
<1>7. LaidInOrder' BY <1>1, <1>2 DEF Replace, LaidInOrder, Procs
<1> QED BY <1>4, <1>5, <1>6, <1>7

\* The file aside is opened, written and synced by the process it is named
\* for, so the invariant is kept.
LEMMA AsideKeeps ==
  ASSUME DataInv, NEW p \in Procs, Open(p) \/ Write(p) \/ Sync(p) PROVE DataInv'
<1> USE DEF DataInv
<1>0. Writing \subseteq Places BY DEF Places
<1>1. PICK next \in {"write", "sync", "rename"} :
        /\ at' \in [Procs -> Places] /\ at'[p] = next
        /\ at[p] \in Writing /\ at[p] # "rename"
        /\ at[p] = "sync" <=> next = "rename"
        /\ at[p] = "write" <=> next = "sync"
        /\ \A q \in Procs \ {p} : at'[q] = at[q]
  <2>1. CASE Open(p) BY <1>0, <2>1, StepTyped DEF Open, Writing
  <2>2. CASE Write(p) BY <1>0, <2>2, StepTyped DEF Write, Writing
  <2>3. CASE Sync(p) BY <1>0, <2>3, StepTyped DEF Sync, Writing
  <2> QED BY <2>1, <2>2, <2>3
<1>2. /\ temp' \in [Procs -> Files]
      /\ \A q \in Procs \ {p} : temp'[q] = temp[q]
      /\ next = "sync" => temp'[p] = "cached"
      /\ next = "rename" => temp'[p] = "safe"
  <2>1. CASE Open(p)
    <3>1. next = "write" BY <1>1, <2>1 DEF Open, Step
    <3> QED BY <2>1, <3>1 DEF Open, Temp, DataTypes, Files
  <2>2. CASE Write(p)
    <3>1. next = "sync" BY <1>1, <2>2 DEF Write, Step
    <3> QED BY <2>2, <3>1 DEF Write, Temp, DataTypes, Files
  <2>3. CASE Sync(p)
    <3>1. at[p] = "sync" /\ next = "rename" BY <1>1, <2>3 DEF Sync, Step
    <3>2. temp[p] = "cached" BY <3>1 DEF TempIsWhole
    <3> QED BY <2>3, <3>1, <3>2 DEF Sync, Temp, DataTypes, Files
  <2> QED BY <2>1, <2>2, <2>3
<1>3. UNCHANGED <<dir, workspace, events, manifest, subject>>
  BY DEF Open, Write, Sync
<1>4. DataTypes' BY <1>1, <1>2, <1>3 DEF DataTypes
<1>5. TempIsWhole' BY <1>1, <1>2 DEF TempIsWhole
<1>6. ManifestIsSafe' BY <1>1, <1>3 DEF ManifestIsSafe, Procs
<1>7. LaidInOrder' BY <1>1, <1>3 DEF LaidInOrder, Procs, Writing
<1> QED BY <1>4, <1>5, <1>6, <1>7

\* What is renamed into place is whole and on the disk.
LEMMA RenameKeeps == ASSUME DataInv, NEW p \in Procs, Rename(p) PROVE DataInv'
<1> USE DEF DataInv
<1>1. at[p] = "rename" BY DEF Rename, Step
<1>2. temp[p] = "safe" BY <1>1 DEF TempIsWhole
<1>3. /\ manifest' = [manifest EXCEPT ![About(p)] = "safe"]
      /\ temp' = [temp EXCEPT ![p] = "missing"]
  BY <1>2 DEF Rename, Temp
<1>4. About(p) \in Chats /\ (p \in Chats => About(p) = p)
  BY DEF About, DataTypes, Procs
<1>5. After(p) \in Places /\ (After(p) = "publish" => p \in Chats)
      /\ After(p) \in {"publish", "idle"}
  BY DEF After, Places
<1>6. /\ at' \in [Procs -> Places] /\ at'[p] = After(p)
      /\ \A q \in Procs \ {p} : at'[q] = at[q]
  BY <1>2, <1>5, StepTyped DEF Rename, Temp
<1>7. DataTypes' BY <1>3, <1>4, <1>6 DEF Rename, DataTypes, Files
<1>8. TempIsWhole' BY <1>3, <1>5, <1>6 DEF TempIsWhole, DataTypes
<1>9. ManifestIsSafe'
  BY <1>3, <1>4, <1>5, <1>6 DEF Rename, ManifestIsSafe, Procs, DataTypes
<1>10. LaidInOrder'
  BY <1>1, <1>5, <1>6 DEF Rename, LaidInOrder, Procs, Writing
<1> QED BY <1>7, <1>8, <1>9, <1>10

\* A full dataset ends one process, a crash or a power cut all of them, and
\* what was synced is still there.
LEMMA FaultsKeep ==
  ASSUME DataInv, (\E p \in Procs : Full(p)) \/ Crash \/ Power PROVE DataInv'
<1> USE DEF DataInv
<1>1. /\ UNCHANGED <<dir, workspace, events, subject>>
      /\ at' \in [Procs -> Places] /\ temp' \in [Procs -> Files]
      /\ \A q \in Procs : at'[q] = "idle"
                            \/ (at'[q] = at[q] /\ temp'[q] = temp[q])
  BY DEF Full, Crash, Power, Down, DataTypes, Files, Places
<1>2. manifest' = manifest
  <2>1. ASSUME Power PROVE manifest' = manifest
    <3>1. /\ manifest' \in [Chats -> Files]
          /\ \A c \in Chats : manifest'[c] = manifest[c] \/ manifest[c] = "cached"
      BY <2>1 DEF Power
    <3> QED BY <3>1 DEF ManifestIsSafe, DataTypes
  <2> QED BY <2>1 DEF Full, Crash
<1>3. DataTypes' BY <1>1, <1>2 DEF DataTypes
<1>4. TempIsWhole' BY <1>1 DEF TempIsWhole
<1>5. ManifestIsSafe' BY <1>1, <1>2 DEF ManifestIsSafe, Procs
<1>6. LaidInOrder' BY <1>1 DEF LaidInOrder, Procs, Writing
<1> QED BY <1>3, <1>4, <1>5, <1>6

\* Every step keeps the invariant.
LEMMA DataNextInv == DataInv /\ [Next]_vars => DataInv'
<1> SUFFICES ASSUME DataInv, [Next]_vars PROVE DataInv' OBVIOUS
<1>1. CASE \E c \in Chats : LayTree(c) \/ Stage(c) \/ StartLog(c) \/ Publish(c)
  BY <1>1, CreationKeeps
<1>2. CASE \E w \in Writers : Replace(w) BY <1>2, ReplaceKeeps
<1>3. CASE \E p \in Procs : Open(p) \/ Write(p) \/ Sync(p) BY <1>3, AsideKeeps
<1>4. CASE \E p \in Procs : Rename(p) BY <1>4, RenameKeeps
<1>5. CASE (\E p \in Procs : Full(p)) \/ Crash \/ Power BY <1>5, FaultsKeep
<1>6. CASE UNCHANGED vars
  BY <1>6 DEF vars, DataInv, DataTypes, TempIsWhole, ManifestIsSafe, LaidInOrder
<1> QED BY <1>1, <1>2, <1>3, <1>4, <1>5, <1>6 DEF Next

\* No chat the scan lists lacks a whole manifest, its log or its tree, however
\* many writers replace manifests at once and wherever a full dataset, a crash
\* or a power cut stops them (store/mod.rs, create_chat, write_manifest_in).
THEOREM DatasetReadsBack == Spec => []EveryChatReadsBack
<1>1. DataInv => EveryChatReadsBack
  BY DEF DataInv, DataTypes, ManifestIsSafe, LaidInOrder, EveryChatReadsBack, Listed,
         Whole
<1> QED BY DataInitInv, DataNextInv, <1>1, PTL DEF Spec

-----------------------------------------------------------------------------
(***************************************************************************)
(* The container plane.  The invariant says, for each request a call is    *)
(* about to make, what it may rely on of what it last saw of the network   *)
(* (Seen), that a chat has one spawn, whatever is torn down beside it      *)
(* (OneSpawn), and that a container which is neither up nor gone is some   *)
(* call's next concern, or spoilt (Accounted).                             *)
(***************************************************************************)

Steps == {"idle", "look", "remove", "create", "check", "image", "pull", "make",
          "start", "stop", "drop"}
Outcomes == {"none", "ok", "NetworkInUse", "UnusableNetwork", "AlreadyLive",
             "Runtime", "NotLive"}

\* Types.
PlaneTypes ==
  /\ network \in {"none", "routes", "internal"}
  /\ box \in [Housed -> {"none", "created", "up", "exited"}]
  /\ maker \in [Housed -> Calls \cup {"none"}]
  /\ call \in [Calls -> [chat : Housed \cup {"none"}, at : Steps]]
  /\ answer \in [Calls -> Outcomes]

\* A call is about a chat, and a chat is spawned for by one call.
OneSpawn ==
  /\ \A k \in Calls : ~At(k, "idle") => Chat(k) \in Housed
  /\ \A j, k \in Calls :
        Chat(j) = Chat(k) /\ call[j].at \in Spawning /\ call[k].at \in Spawning => j = k

\* What a call saw is still so, or it is counted as crossed or swapped.
Seen ==
  \A k \in Calls :
     /\ At(k, "remove") => network \in {"none", "internal"} \/ k \in crossed
     /\ At(k, "create") => network \in {"none", "routes"} \/ k \in crossed
     /\ At(k, "check") => network = "routes" \/ k \in crossed
     /\ call[k].at \in Judged => network \in {"none", "routes"} \/ k \in swapped

\* A call is about to start the chat's container, or to take it away.
Unsettled(c) == \E k \in Calls : Chat(k) = c /\ call[k].at \in {"start", "drop"}
\* A container that is neither up nor gone is accounted for.
Accounted == \A c \in Housed : box[c] \in Dead => c \in spoilt \/ Unsettled(c)

\* The inductive invariant.
PlaneInv == PlaneTypes /\ OneSpawn /\ Seen /\ Accounted

-----------------------------------------------------------------------------
\* A call goes on to another request for the same chat.
LEMMA GoesOn ==
  ASSUME PlaneInv, NEW k \in Calls, NEW step \in Steps, Goto(k, step), ~At(k, "idle"),
         step # "idle", step \in Spawning => call[k].at \in Spawning
  PROVE  /\ call' \in [Calls -> [chat : Housed \cup {"none"}, at : Steps]]
         /\ call'[k].at = step /\ call'[k].chat = call[k].chat
         /\ \A j \in Calls : j # k => call'[j] = call[j]
         /\ \A j \in Calls : call'[j].chat = call[j].chat
         /\ OneSpawn' /\ answer' = answer
<1>1. call \in [Calls -> [chat : Housed \cup {"none"}, at : Steps]]
  BY DEF PlaneInv, PlaneTypes
<1>2. /\ call' \in [Calls -> [chat : Housed \cup {"none"}, at : Steps]]
      /\ call'[k].at = step /\ call'[k].chat = call[k].chat
      /\ \A j \in Calls : j # k => call'[j] = call[j]
  BY <1>1 DEF Goto
<1>3. \A j \in Calls :
        /\ call'[j].chat = call[j].chat
        /\ call'[j].at = "idle" <=> call[j].at = "idle"
        /\ call'[j].at \in Spawning => call[j].at \in Spawning
  BY <1>2 DEF At
<1>4. OneSpawn'
  <2>1. OneSpawn
    BY DEF PlaneInv
  <2>2. (\A j \in Calls : ~At(j, "idle") => Chat(j) \in Housed)'
    BY <2>1, <1>3 DEF OneSpawn, At, Chat
  <2>3. (\A i, j \in Calls :
            Chat(i) = Chat(j) /\ call[i].at \in Spawning /\ call[j].at \in Spawning
              => i = j)'
    BY <2>1, <1>3 DEF OneSpawn, Chat
  <2> QED
    BY <2>2, <2>3 DEF OneSpawn
<1> QED
  BY <1>2, <1>3, <1>4 DEF Goto

\* A call is over.
LEMMA IsOver ==
  ASSUME PlaneInv, NEW k \in Calls, call' = [call EXCEPT ![k] = Idle]
  PROVE  /\ call' \in [Calls -> [chat : Housed \cup {"none"}, at : Steps]]
         /\ call'[k].at = "idle" /\ call'[k].chat = "none"
         /\ \A j \in Calls : j # k => call'[j] = call[j]
         /\ OneSpawn'
<1>1. call \in [Calls -> [chat : Housed \cup {"none"}, at : Steps]]
  BY DEF PlaneInv, PlaneTypes
<1>2. /\ call' \in [Calls -> [chat : Housed \cup {"none"}, at : Steps]]
      /\ call'[k].at = "idle" /\ call'[k].chat = "none"
      /\ \A j \in Calls : j # k => call'[j] = call[j]
  BY <1>1 DEF Idle, Steps
<1>3. OneSpawn'
  <2>1. \A j \in Calls : call'[j].at # "idle" => j # k /\ call'[j] = call[j]
    BY <1>2
  <2>2. "idle" \notin Spawning
    BY DEF Spawning
  <2> QED
    BY <2>1, <2>2 DEF PlaneInv, OneSpawn, At, Chat
<1> QED
  BY <1>2, <1>3

\* What a call comes to is an outcome.
LEMMA DoneTyped ==
  ASSUME PlaneInv, NEW k \in Calls, NEW o \in Outcomes, Done(k, o)
  PROVE  answer' \in [Calls -> Outcomes]
BY DEF Done, PlaneInv, PlaneTypes

\* A call begins: a teardown, or a spawn for a chat that has none.
LEMMA BeginStep ==
  ASSUME PlaneInv, NEW k \in Calls, NEW c \in Housed, Begin(k, c)
  PROVE  PlaneInv'
<1>1. PICK request \in {"look", "stop"} :
        /\ request = "look" => \A j \in Calls : Chat(j) = c => call[j].at \notin Spawning
        /\ call' = [call EXCEPT ![k] = [chat |-> c, at |-> request]]
  BY DEF Begin
<1>2. /\ call' \in [Calls -> [chat : Housed \cup {"none"}, at : Steps]]
      /\ call'[k].at = request /\ call'[k].chat = c
      /\ \A j \in Calls : j # k => call'[j] = call[j]
  <2>1. [chat |-> c, at |-> request] \in [chat : Housed \cup {"none"}, at : Steps]
    BY DEF Steps
  <2> QED
    BY <1>1, <2>1 DEF PlaneInv, PlaneTypes
<1>3. PlaneTypes'
  BY <1>2 DEF PlaneInv, PlaneTypes, Begin, daemon, Outcomes
<1>4. OneSpawn'
  <2>1. request = "look" => \A j \in Calls : Chat(j) = c => call[j].at \notin Spawning
    BY <1>1
  <2>2. "stop" \notin Spawning
    BY DEF Spawning
  <2> QED
    BY <1>2, <2>1, <2>2 DEF PlaneInv, OneSpawn, At, Chat
<1>5. Seen'
  BY <1>2 DEF PlaneInv, Seen, Begin, At, Judged, daemon
<1>6. Accounted'
  BY <1>2 DEF PlaneInv, Accounted, Unsettled, Begin, At, Chat, daemon
<1> QED
  BY <1>3, <1>4, <1>5, <1>6 DEF PlaneInv

\* What is asked in turn: a call that goes on, or is over, and what it leaves.
LEMMA Onward ==
  ASSUME PlaneInv, NEW k \in Calls, NEW step \in Steps \ {"idle"}, Goto(k, step),
         ~At(k, "idle"),
         network' = network, crossed' = crossed, swapped' = swapped,
         box' = box, maker' = maker, spoilt' = spoilt,
         step = "remove" => network \in {"none", "internal"},
         step = "create" => network \in {"none", "routes"},
         step = "check" => network = "routes" \/ k \in crossed,
         step \in Judged => network \in {"none", "routes"} \/ k \in swapped,
         step # "start", step # "drop", call[k].at \in Spawning \ {"start"}
  PROVE  PlaneInv'
<1>1. /\ call' \in [Calls -> [chat : Housed \cup {"none"}, at : Steps]]
      /\ call'[k].at = step /\ call'[k].chat = call[k].chat
      /\ \A j \in Calls : j # k => call'[j] = call[j]
      /\ OneSpawn' /\ answer' = answer
  BY GoesOn
<1>2. PlaneTypes'
  BY <1>1 DEF PlaneInv, PlaneTypes
<1>3. Seen'
  BY <1>1 DEF PlaneInv, Seen, At, Judged
<1>5. Accounted'
  BY <1>1 DEF PlaneInv, Accounted, Unsettled, Chat, Spawning
<1> QED
  BY <1>1, <1>2, <1>3, <1>5 DEF PlaneInv

\* A call that is over without having changed anything at the daemon.
LEMMA Ended ==
  ASSUME PlaneInv, NEW k \in Calls, call' = [call EXCEPT ![k] = Idle],
         answer' \in [Calls -> Outcomes],
         network' = network, crossed' = crossed, swapped' = swapped,
         box' = box, maker' = maker, spoilt \subseteq spoilt',
         /\ call[k].at \in {"start", "drop"} /\ box[Chat(k)] \in Dead
            => Chat(k) \in spoilt'
  PROVE  PlaneInv'
<1>1. /\ call' \in [Calls -> [chat : Housed \cup {"none"}, at : Steps]]
      /\ call'[k].at = "idle" /\ call'[k].chat = "none"
      /\ \A j \in Calls : j # k => call'[j] = call[j]
      /\ OneSpawn'
  BY IsOver
<1>2. PlaneTypes'
  BY <1>1 DEF PlaneInv, PlaneTypes
<1>3. Seen'
  BY <1>1 DEF PlaneInv, Seen, At, Judged
<1>5. ASSUME NEW c \in Housed, box'[c] \in Dead, c \notin spoilt'
      PROVE  Unsettled(c)'
  <2>1. PICK j \in Calls : Chat(j) = c /\ call[j].at \in {"start", "drop"}
    BY <1>5 DEF PlaneInv, Accounted, Unsettled
  <2>2. j # k
    BY <1>5, <2>1
  <2> QED
    BY <1>1, <2>1, <2>2 DEF Unsettled, Chat
<1> QED
  BY <1>1, <1>2, <1>3, <1>5 DEF PlaneInv, Accounted

\* ensure_network's first look.
LEMMA LookStep ==
  ASSUME PlaneInv, NEW k \in Calls, Look(k)
  PROVE  PlaneInv'
<1>1. /\ At(k, "look") /\ ~At(k, "idle") /\ call[k].at \in Spawning \ {"start"}
      /\ UNCHANGED <<daemon, ghosts>>
  BY DEF Look, At, Spawning
<1>2. \/ Done(k, "NetworkInUse")
      \/ network = "routes" /\ Goto(k, "image")
      \/ network = "none" /\ Goto(k, "create")
      \/ network = "internal" /\ Goto(k, "remove")
  BY DEF Look, NetworkFound, PlaneInv, PlaneTypes
<1>3. CASE Done(k, "NetworkInUse")
  BY <1>1, <1>3, Ended, DoneTyped DEF Done, Outcomes, daemon, ghosts, At
<1>4. ASSUME NEW step \in Steps \ {"idle"}, Goto(k, step),
             \/ step = "image" /\ network = "routes"
             \/ step = "create" /\ network = "none"
             \/ step = "remove" /\ network = "internal"
      PROVE  PlaneInv'
  BY <1>1, <1>4, Onward DEF daemon, ghosts, At, Judged
<1> QED
  BY <1>2, <1>3, <1>4 DEF Steps

\* remove_agent_network.
LEMMA RemoveStep ==
  ASSUME PlaneInv, NEW k \in Calls, Remove(k)
  PROVE  PlaneInv'
<1>1. /\ At(k, "remove") /\ ~At(k, "idle") /\ call[k].at \in Spawning \ {"start"}
      /\ UNCHANGED <<guests, image, box, maker, spoilt, swapped>>
  BY DEF Remove, At, Spawning
<1>2. CASE Done(k, "NetworkInUse") /\ UNCHANGED <<network, crossed>>
  BY <1>1, <1>2, Ended, DoneTyped DEF Done, Spawning, Outcomes
<1>3. CASE /\ Goto(k, "create") /\ network' = "none"
           /\ crossed' = crossed \cup
                (IF network = "routes" THEN Onlookers(k) ELSE {})
  <2>1. /\ call' \in [Calls -> [chat : Housed \cup {"none"}, at : Steps]]
        /\ call'[k].at = "create" /\ call'[k].chat = call[k].chat
        /\ \A j \in Calls : j # k => call'[j] = call[j]
        /\ OneSpawn' /\ answer' = answer
    BY <1>1, <1>3, GoesOn DEF Steps
  <2>2. PlaneTypes'
    BY <1>1, <1>3, <2>1 DEF PlaneInv, PlaneTypes
  <2>3. ASSUME NEW j \in Calls, call'[j].at = "check"
        PROVE  j \in crossed'
    <3>1. j # k /\ call[j].at = "check"
      BY <2>1, <2>3
    <3>2. network = "routes" \/ j \in crossed
      BY <3>1 DEF PlaneInv, Seen, At
    <3> QED
      BY <3>1, <3>2, <1>3 DEF Onlookers
  <2>4. Seen'
    BY <1>3, <2>3 DEF Seen, At
  <2>6. Accounted'
    BY <1>1, <2>1 DEF PlaneInv, Accounted, Unsettled, Chat, Spawning
  <2> QED
    BY <2>1, <2>2, <2>4, <2>6 DEF PlaneInv
<1> QED
  BY <1>2, <1>3 DEF Remove

\* create_agent_network.
LEMMA CreateStep ==
  ASSUME PlaneInv, NEW k \in Calls, Create(k)
  PROVE  PlaneInv'
<1>1. /\ At(k, "create") /\ ~At(k, "idle") /\ call[k].at \in Spawning \ {"start"}
      /\ Goto(k, "check")
      /\ UNCHANGED <<guests, image, box, maker, spoilt, swapped>>
      /\ network' = IF network = "none" THEN "routes" ELSE network
      /\ crossed' = crossed \cup (IF network = "none" THEN Onlookers(k) ELSE {})
  BY DEF Create, At, Spawning
<1>2. /\ call' \in [Calls -> [chat : Housed \cup {"none"}, at : Steps]]
      /\ call'[k].at = "check" /\ call'[k].chat = call[k].chat
      /\ \A j \in Calls : j # k => call'[j] = call[j]
      /\ OneSpawn' /\ answer' = answer
  BY <1>1, GoesOn DEF Steps
<1>3. PlaneTypes'
  BY <1>1, <1>2 DEF PlaneInv, PlaneTypes
<1>4. Seen'
  <2>1. network' = "routes" \/ k \in crossed'
    BY <1>1 DEF PlaneInv, Seen
  <2>2. ASSUME NEW j \in Calls, j # k
        PROVE  /\ call[j].at = "remove" => network' \in {"none", "internal"} \/ j \in crossed'
               /\ call[j].at = "create" => network' \in {"none", "routes"} \/ j \in crossed'
               /\ call[j].at = "check" => network' = "routes" \/ j \in crossed'
               /\ call[j].at \in Judged => network' \in {"none", "routes"} \/ j \in swapped'
    BY <1>1, <2>2 DEF PlaneInv, Seen, At, Onlookers
  <2> QED
    BY <1>2, <2>1, <2>2 DEF Seen, At, Judged
<1>6. Accounted'
  BY <1>1, <1>2 DEF PlaneInv, Accounted, Unsettled, Chat, Spawning
<1> QED
  BY <1>2, <1>3, <1>4, <1>6 DEF PlaneInv

\* ensure_network looks again.
LEMMA CheckStep ==
  ASSUME PlaneInv, NEW k \in Calls, Check(k)
  PROVE  PlaneInv'
<1>1. /\ At(k, "check") /\ ~At(k, "idle") /\ call[k].at \in Spawning \ {"start"}
      /\ UNCHANGED <<daemon, ghosts>>
  BY DEF Check, At, Spawning
<1>2. CASE network = "routes" /\ Goto(k, "image")
  BY <1>1, <1>2, Onward DEF daemon, ghosts, Steps
<1>3. CASE Done(k, "UnusableNetwork")
  BY <1>1, <1>3, Ended, DoneTyped DEF Done, Spawning, Outcomes, daemon, ghosts
<1> QED
  BY <1>2, <1>3 DEF Check

\* ensure_image.
LEMMA EnsureImageStep ==
  ASSUME PlaneInv, NEW k \in Calls, EnsureImage(k)
  PROVE  PlaneInv'
<1>1. /\ At(k, "image") /\ ~At(k, "idle") /\ call[k].at \in Spawning \ {"start"}
      /\ UNCHANGED <<daemon, ghosts>>
      /\ network \in {"none", "routes"} \/ k \in swapped
  BY DEF EnsureImage, At, Spawning, PlaneInv, Seen, Judged
<1>2. PICK step \in {"make", "pull"} : Goto(k, step)
  BY DEF EnsureImage
<1> QED
  BY <1>1, <1>2, Onward DEF daemon, ghosts, Steps

\* The image is pulled.
LEMMA PullImageStep ==
  ASSUME PlaneInv, NEW k \in Calls, PullImage(k)
  PROVE  PlaneInv'
<1>1. /\ At(k, "pull") /\ ~At(k, "idle") /\ call[k].at \in Spawning \ {"start"}
      /\ UNCHANGED <<network, guests, box, maker, ghosts>> /\ Goto(k, "make")
      /\ network \in {"none", "routes"} \/ k \in swapped
  BY DEF PullImage, At, Spawning, PlaneInv, Seen, Judged
<1> QED
  BY <1>1, Onward DEF ghosts, Steps

\* The container is created, by this call.
LEMMA MakeStep ==
  ASSUME PlaneInv, NEW k \in Calls, Make(k)
  PROVE  PlaneInv'
<1>1. /\ At(k, "make") /\ ~At(k, "idle") /\ call[k].at \in Spawning \ {"start"}
      /\ UNCHANGED <<network, guests, image, ghosts>>
      /\ network \in {"none", "routes"} \/ k \in swapped
  BY DEF Make, At, Spawning, PlaneInv, Seen, Judged
<1>2. CASE Done(k, "AlreadyLive") /\ UNCHANGED <<box, maker>>
  BY <1>1, <1>2, Ended, DoneTyped DEF Done, Spawning, Outcomes, ghosts
<1>3. CASE /\ Goto(k, "start")
           /\ box' = [box EXCEPT ![Chat(k)] = "created"]
           /\ maker' = [maker EXCEPT ![Chat(k)] = k]
  <2>1. /\ call' \in [Calls -> [chat : Housed \cup {"none"}, at : Steps]]
        /\ call'[k].at = "start" /\ call'[k].chat = call[k].chat
        /\ \A j \in Calls : j # k => call'[j] = call[j]
        /\ OneSpawn' /\ answer' = answer
    BY <1>1, <1>3, GoesOn DEF Steps
  <2>2. Chat(k) \in Housed
    BY <1>1 DEF PlaneInv, OneSpawn
  <2>3. PlaneTypes'
    BY <1>1, <1>3, <2>1, <2>2 DEF PlaneInv, PlaneTypes
  <2>4. Seen'
    BY <1>1, <2>1 DEF PlaneInv, Seen, At, Judged, ghosts
  <2>6. Accounted'
    <3>1. \A c \in Housed : c # Chat(k) => box'[c] = box[c]
      BY <1>3 DEF PlaneInv, PlaneTypes
    <3>2. Unsettled(Chat(k))'
      BY <2>1 DEF Unsettled, Chat
    <3>3. \A c \in Housed : Unsettled(c) => Unsettled(c)'
      BY <2>1 DEF Unsettled, Chat
    <3>4. Chat(k)' = Chat(k) /\ spoilt' = spoilt
      BY <1>1, <2>1 DEF Chat, ghosts
    <3>5. ASSUME NEW c \in Housed, box'[c] \in Dead, c \notin spoilt'
          PROVE  Unsettled(c)'
      <4>1. CASE c = Chat(k)
        BY <2>1, <4>1 DEF Unsettled, Chat
      <4>2. CASE c # Chat(k)
        BY <3>1, <3>3, <3>4, <3>5, <4>2 DEF PlaneInv, Accounted
      <4> QED
        BY <4>1, <4>2
    <3> QED
      BY <3>5 DEF Accounted
  <2> QED
    BY <2>1, <2>3, <2>4, <2>6 DEF PlaneInv
<1> QED
  BY <1>2, <1>3 DEF Make

\* A call that is over changes its own chat's container to one that is no
\* longer its concern, or says that it is spoilt.
LEMMA Settled ==
  ASSUME PlaneInv, NEW k \in Calls, ~At(k, "idle"), call' = [call EXCEPT ![k] = Idle],
         answer' \in [Calls -> Outcomes],
         network' = network, crossed' = crossed, swapped' = swapped,
         box' \in [Housed -> {"none", "created", "up", "exited"}],
         maker' \in [Housed -> Calls \cup {"none"}],
         \A c \in Housed : c # Chat(k) =>
            box'[c] = box[c] /\ (c \in spoilt => c \in spoilt'),
         box'[Chat(k)] \in Dead => Chat(k) \in spoilt'
  PROVE  PlaneInv'
<1>1. /\ call' \in [Calls -> [chat : Housed \cup {"none"}, at : Steps]]
      /\ call'[k].at = "idle" /\ call'[k].chat = "none"
      /\ \A j \in Calls : j # k => call'[j] = call[j]
      /\ OneSpawn'
  BY IsOver
<1>2. PlaneTypes'
  BY <1>1 DEF PlaneInv, PlaneTypes
<1>3. Seen'
  BY <1>1 DEF PlaneInv, Seen, At, Judged
<1>5. ASSUME NEW c \in Housed, box'[c] \in Dead, c \notin spoilt'
      PROVE  Unsettled(c)'
  <2>1. c # Chat(k) /\ c \notin spoilt /\ box[c] \in Dead
    BY <1>5 DEF Dead
  <2>2. PICK j \in Calls : Chat(j) = c /\ call[j].at \in {"start", "drop"}
    BY <2>1 DEF PlaneInv, Accounted, Unsettled
  <2>3. j # k
    BY <2>1, <2>2
  <2> QED
    BY <1>1, <2>2, <2>3 DEF Unsettled, Chat
<1> QED
  BY <1>1, <1>2, <1>3, <1>5 DEF PlaneInv, Accounted, At, Chat

\* The container is started, or it is not the one that was made, or there is
\* nothing to start it on.
LEMMA StartStep ==
  ASSUME PlaneInv, NEW k \in Calls, Start(k)
  PROVE  PlaneInv'
<1>1. /\ ~At(k, "idle") /\ Chat(k) \in Housed
      /\ UNCHANGED <<network, guests, image, maker, swapped, crossed>>
  BY DEF Start, At, PlaneInv, OneSpawn
<1>2. CASE Done(k, "Runtime") /\ Spoil({Chat(k)}) /\ UNCHANGED box
  BY <1>1, <1>2, Settled, DoneTyped DEF Done, Outcomes, Spoil, PlaneInv, PlaneTypes
<1>3. CASE Settles(k, "ok") /\ box' = [box EXCEPT ![Chat(k)] = "up"]
  <2>1. /\ answer' \in [Calls -> Outcomes] /\ call' = [call EXCEPT ![k] = Idle]
        /\ spoilt' = spoilt \ {Chat(k)}
    BY <1>3, DoneTyped DEF Settles, Done, Outcomes
  <2>2. /\ box' \in [Housed -> {"none", "created", "up", "exited"}]
        /\ box'[Chat(k)] \notin Dead /\ \A c \in Housed : c # Chat(k) => box'[c] = box[c]
    BY <1>1, <1>3 DEF PlaneInv, PlaneTypes, Dead
  <2> QED
    BY <1>1, <1>3, <2>1, <2>2, Settled DEF PlaneInv, PlaneTypes
<1> QED
  BY <1>2, <1>3 DEF Start

\* teardown's stop: nothing is there, or what is does not run any more.
LEMMA StopStep ==
  ASSUME PlaneInv, NEW k \in Calls, Stop(k)
  PROVE  PlaneInv'
<1>1. /\ At(k, "stop") /\ ~At(k, "idle") /\ Chat(k) \in Housed
      /\ call[k].at \notin {"start", "drop"}
      /\ UNCHANGED <<network, guests, image, maker, swapped, crossed>>
  BY DEF Stop, At, PlaneInv, OneSpawn
<1>2. CASE box[Chat(k)] = "none" /\ Settles(k, "NotLive") /\ UNCHANGED box
  <2>1. /\ answer' \in [Calls -> Outcomes] /\ call' = [call EXCEPT ![k] = Idle]
        /\ spoilt' = spoilt \ {Chat(k)}
    BY <1>2, DoneTyped DEF Settles, Done, Outcomes
  <2> QED
    BY <1>1, <1>2, <2>1, Settled DEF PlaneInv, PlaneTypes, Dead
<1>3. CASE /\ Goto(k, "drop") /\ UNCHANGED spoilt
           /\ box' = [box EXCEPT ![Chat(k)] = IF @ = "up" THEN "exited" ELSE @]
  <2>1. /\ call' \in [Calls -> [chat : Housed \cup {"none"}, at : Steps]]
        /\ call'[k].at = "drop" /\ call'[k].chat = call[k].chat
        /\ \A j \in Calls : j # k => call'[j] = call[j]
        /\ OneSpawn' /\ answer' = answer
    BY <1>1, <1>3, GoesOn DEF Steps, Spawning
  <2>2. /\ box' \in [Housed -> {"none", "created", "up", "exited"}]
        /\ \A c \in Housed : c # Chat(k) => box'[c] = box[c]
    BY <1>1, <1>3 DEF PlaneInv, PlaneTypes
  <2>3. PlaneTypes'
    BY <1>1, <2>1, <2>2 DEF PlaneInv, PlaneTypes
  <2>4. Seen'
    BY <1>1, <2>1 DEF PlaneInv, Seen, At, Judged
  <2>5. ASSUME NEW c \in Housed, box'[c] \in Dead, c \notin spoilt'
        PROVE  Unsettled(c)'
    <3>1. CASE c = Chat(k)
      BY <2>1, <3>1 DEF Unsettled, Chat
    <3>2. CASE c # Chat(k)
      <4>1. Unsettled(c)
        BY <1>3, <2>2, <2>5, <3>2 DEF PlaneInv, Accounted
      <4> QED
        BY <1>1, <2>1, <4>1 DEF Unsettled, Chat
    <3> QED
      BY <3>1, <3>2
  <2> QED
    BY <2>1, <2>3, <2>4, <2>5 DEF PlaneInv, Accounted
<1> QED
  BY <1>2, <1>3 DEF Stop

\* teardown's removal: the name is free again, or its container is up.
LEMMA DropStep ==
  ASSUME PlaneInv, NEW k \in Calls, Drop(k)
  PROVE  PlaneInv'
<1>1. /\ ~At(k, "idle") /\ Chat(k) \in Housed
      /\ UNCHANGED <<network, guests, image, swapped, crossed>>
      /\ call' = [call EXCEPT ![k] = Idle]
  BY DEF Drop, At, PlaneInv, OneSpawn, Settles, Done
<1>2. answer' \in [Calls -> Outcomes]
  BY DoneTyped DEF Drop, Settles, Outcomes
<1>3. spoilt' = spoilt \ {Chat(k)} \/ spoilt' = spoilt
  BY DEF Drop, Settles
<1>4. CASE box[Chat(k)] \in {"none", "up"} /\ UNCHANGED <<box, maker>>
  BY <1>1, <1>2, <1>3, <1>4, Settled DEF PlaneInv, PlaneTypes, Dead
<1>5. CASE /\ box' = [box EXCEPT ![Chat(k)] = "none"]
           /\ maker' = [maker EXCEPT ![Chat(k)] = "none"]
  <2>1. /\ box' \in [Housed -> {"none", "created", "up", "exited"}]
        /\ box'[Chat(k)] = "none" /\ \A c \in Housed : c # Chat(k) => box'[c] = box[c]
        /\ maker' \in [Housed -> Calls \cup {"none"}]
    BY <1>1, <1>5 DEF PlaneInv, PlaneTypes
  <2> QED
    BY <1>1, <1>2, <1>3, <2>1, Settled DEF Dead
<1> QED
  BY <1>4, <1>5 DEF Drop

\* A request that is refused, or a caller who is gone.
LEMMA StopsShort ==
  ASSUME PlaneInv, NEW k \in Calls, Refused(k) \/ HangUp(k)
  PROVE  PlaneInv'
<1>1. /\ answer' \in [Calls -> Outcomes] /\ call' = [call EXCEPT ![k] = Idle]
      /\ UNCHANGED <<daemon, swapped, crossed>>
  BY DoneTyped DEF Refused, HangUp, Done, Outcomes, PlaneInv, PlaneTypes
<1>2. /\ spoilt \subseteq spoilt'
      /\ call[k].at \in {"start", "drop"} /\ box[Chat(k)] \in Dead => Chat(k) \in spoilt'
  BY DEF Refused, HangUp, Spoil
<1> QED
  BY <1>1, <1>2, Ended DEF daemon

\* A container ends on its own.
LEMMA ExitStep ==
  ASSUME PlaneInv, NEW c \in Housed, Exit(c)
  PROVE  PlaneInv'
<1>1. /\ box' = [box EXCEPT ![c] = "exited"] /\ spoilt' = spoilt \cup {c}
      /\ UNCHANGED <<network, guests, image, maker, call, answer, swapped, crossed>>
  BY DEF Exit
<1>2. PlaneTypes'
  BY <1>1 DEF PlaneInv, PlaneTypes
<1>3. OneSpawn' /\ Seen'
  BY <1>1 DEF PlaneInv, OneSpawn, Seen, At, Chat
<1>4. Accounted'
  BY <1>1 DEF PlaneInv, PlaneTypes, Accounted, Unsettled, Chat
<1> QED
  BY <1>2, <1>3, <1>4 DEF PlaneInv

\* Somebody at the network by hand.
LEMMA HandStep ==
  ASSUME PlaneInv, Hand
  PROVE  PlaneInv'
<1>1. /\ network' \in {"none", "routes", "internal"}
      /\ crossed' = crossed \cup {k \in Calls : ~At(k, "idle")}
      /\ swapped' = swapped \cup {k \in Calls : call[k].at \in Judged}
      /\ UNCHANGED <<image, box, maker, call, answer, spoilt>>
  BY DEF Hand, PlaneInv, PlaneTypes
<1>2. PlaneTypes'
  BY <1>1 DEF PlaneInv, PlaneTypes
<1>3. OneSpawn' /\ Accounted'
  BY <1>1 DEF PlaneInv, OneSpawn, Accounted, Unsettled, At, Chat
<1>4. Seen'
  BY <1>1 DEF Seen, At
<1> QED
  BY <1>2, <1>3, <1>4 DEF PlaneInv

\* No call is under way, and there is no container.
LEMMA PlaneInitInv == ASSUME ShapesOK, PlaneInit PROVE PlaneInv
<1>1. PlaneTypes
  BY DEF PlaneInit, PlaneTypes, ShapesOK, Idle, Steps, Outcomes
<1>2. \A k \in Calls : At(k, "idle") /\ Chat(k) = "none" /\ call[k].at = "idle"
  BY DEF PlaneInit, At, Chat, Idle
<1>3. OneSpawn /\ Seen
  BY <1>2 DEF OneSpawn, Seen, At, Judged, Spawning
<1>4. Accounted
  BY DEF PlaneInit, Accounted, Dead
<1> QED
  BY <1>1, <1>3, <1>4 DEF PlaneInv

\* Every step keeps the invariant.
LEMMA PlaneStepInv == ASSUME PlaneInv, [PlaneNext]_planeVars PROVE PlaneInv'
<1>1. CASE UNCHANGED planeVars
  <2>1. PlaneTypes' /\ OneSpawn'
    BY <1>1 DEF PlaneInv, PlaneTypes, OneSpawn, At, Chat, planeVars, daemon
  <2>2. Seen' /\ Accounted'
    BY <1>1 DEF PlaneInv, Seen, Accounted, Unsettled, At, Chat, planeVars, daemon,
       ghosts
  <2> QED
    BY <2>1, <2>2 DEF PlaneInv
<1> QED
  BY <1>1, BeginStep, LookStep, RemoveStep, CreateStep, CheckStep, EnsureImageStep,
     PullImageStep, MakeStep, StartStep, StopStep, DropStep, StopsShort, ExitStep,
     HandStep DEF PlaneNext

\* Whatever the calls, the daemon and anybody's hand do, the plane is as the
\* invariant says.
THEOREM PlaneInvariant == ASSUME ShapesOK PROVE PlaneSpec => []PlaneInv
<1>1. PlaneInit => PlaneInv
  BY PlaneInitInv
<1>2. PlaneInv /\ [PlaneNext]_planeVars => PlaneInv'
  BY PlaneStepInv
<1> QED
  BY <1>1, <1>2, PTL DEF PlaneSpec

\* A container that does not run keeps its chat's name only while a call is
\* about to start or to remove it, or since a failure no teardown has come
\* through for; and a spawn that meets it meets one of the last two, whatever
\* teardowns are under way beside it: for any number of calls and chats
\* (spawn, teardown, spawn_failure).
THEOREM NameIsFree == ASSUME ShapesOK PROVE PlaneSpec => []NamesComeBack
<1>1. ASSUME PlaneInv PROVE NamesComeBack
  <2>1. \A c \in Housed : box[c] \in Dead => c \in spoilt \/ Unsettled(c)
    BY <1>1 DEF PlaneInv, Accounted
  <2>2. ASSUME NEW k \in Calls, At(k, "make"), box[Chat(k)] \in Dead, Chat(k) \notin spoilt
        PROVE  \E j \in Calls : Chat(j) = Chat(k) /\ At(j, "drop")
    <3>1. Chat(k) \in Housed
      BY <1>1, <2>2 DEF PlaneInv, OneSpawn, At
    <3>2. PICK j \in Calls : Chat(j) = Chat(k) /\ call[j].at \in {"start", "drop"}
      BY <2>1, <2>2, <3>1 DEF Unsettled
    <3>3. call[j].at # "start"
      BY <1>1, <2>2, <3>2 DEF PlaneInv, OneSpawn, At, Spawning
    <3> QED
      BY <3>2, <3>3 DEF At
  <2> QED
    BY <2>1, <2>2 DEF NamesComeBack, Unsettled
<1> QED
  BY <1>1, PlaneInvariant, PTL

\* What SpawnsOnTheBridge says of a step.
Bridged ==
  /\ \A c \in Housed : (box[c] # "up" /\ box'[c] = "up") =>
       network = "routes" \/ maker[c] \in swapped
  /\ \A k \in Calls : Answered(k, {"NetworkInUse", "UnusableNetwork"}) =>
       network = "internal" \/ k \in crossed

\* Only a start brings a container up.
LEMMA OnlyStartStarts ==
  ASSUME PlaneInv, [PlaneNext]_planeVars, NEW c \in Housed, box[c] # "up", box'[c] = "up"
  PROVE  \E k \in Calls : Start(k) /\ Chat(k) = c /\ network # "none"
<1>1. box' # box
  OBVIOUS
<1>2. box \in [Housed -> {"none", "created", "up", "exited"}]
  BY DEF PlaneInv, PlaneTypes
<1>3. ASSUME NEW k \in Calls, Start(k) PROVE Chat(k) = c /\ network # "none"
  BY <1>1, <1>2, <1>3 DEF Start
<1>4. ASSUME NEW k \in Calls, Make(k) \/ Stop(k) \/ Drop(k) PROVE FALSE
  BY <1>1, <1>2, <1>4 DEF Make, Stop, Drop
<1>5. ASSUME NEW d \in Housed, Exit(d) PROVE FALSE
  BY <1>1, <1>2, <1>5 DEF Exit
<1>6. ASSUME NEW k \in Calls,
             \/ \E d \in Housed : Begin(k, d)
             \/ Look(k) \/ Remove(k) \/ Create(k) \/ Check(k)
             \/ EnsureImage(k) \/ PullImage(k) \/ Refused(k) \/ HangUp(k)
      PROVE  FALSE
  BY <1>1, <1>6 DEF Begin, Look, Remove, Create, Check, EnsureImage, PullImage,
     Refused, HangUp, daemon
<1>7. CASE Hand \/ UNCHANGED planeVars
  BY <1>1, <1>7 DEF Hand, planeVars, daemon
<1> QED
  BY <1>3, <1>4, <1>5, <1>6, <1>7 DEF PlaneNext

\* Only a look at the network has a spawn refused over it.
LEMMA OnlyLooksRefuse ==
  ASSUME PlaneInv, [PlaneNext]_planeVars, NEW k \in Calls,
         answer'[k] # answer[k], answer'[k] \in {"NetworkInUse", "UnusableNetwork"}
  PROVE  Look(k) \/ (Remove(k) /\ network # "none") \/ (Check(k) /\ network # "routes")
<1>1. answer \in [Calls -> Outcomes]
  BY DEF PlaneInv, PlaneTypes
<1>2. ASSUME NEW j \in Calls, NEW o, Done(j, o) PROVE j = k /\ o = answer'[k]
  BY <1>1, <1>2 DEF Done
<1>3. ASSUME NEW j \in Calls, Look(j) \/ Remove(j) \/ Check(j)
      PROVE  Look(k) \/ (Remove(k) /\ network # "none") \/ (Check(k) /\ network # "routes")
  BY <1>2, <1>3 DEF Look, Remove, Check, Goto
<1>4. ASSUME NEW j \in Calls, Create(j) \/ EnsureImage(j) \/ PullImage(j) \/ HangUp(j)
      PROVE  FALSE
  BY <1>4 DEF Create, EnsureImage, PullImage, HangUp, Goto
<1>5. ASSUME NEW j \in Calls, Make(j) \/ Start(j) \/ Stop(j) \/ Drop(j) \/ Refused(j)
      PROVE  FALSE
  BY <1>2, <1>5 DEF Make, Start, Stop, Drop, Refused, Goto, Settles
<1>6. ASSUME NEW j \in Calls, NEW c \in Housed, Begin(j, c) PROVE FALSE
  BY <1>1, <1>6 DEF Begin
<1>7. ASSUME NEW c \in Housed, Exit(c) PROVE FALSE
  BY <1>7 DEF Exit
<1>8. CASE Hand \/ UNCHANGED planeVars
  BY <1>8 DEF Hand, planeVars
<1> QED
  BY <1>3, <1>4, <1>5, <1>6, <1>7, <1>8 DEF PlaneNext

\* An agent starts on a network that routes out, and a spawn is refused over
\* the network only for one that does not, whatever the other calls do to the
\* network meanwhile; but for a hand at it (ensure_network, NetworkFound).
THEOREM AgentsReachTheApi == ASSUME ShapesOK PROVE PlaneSpec => SpawnsOnTheBridge
<1>1. ASSUME PlaneInv, [PlaneNext]_planeVars, NEW c \in Housed, box[c] # "up", box'[c] = "up"
      PROVE  network = "routes" \/ maker[c] \in swapped
  <2>1. PICK k \in Calls : Start(k) /\ Chat(k) = c /\ network # "none"
    BY <1>1, OnlyStartStarts
  <2>2. At(k, "start")
    BY <2>1 DEF Start
  <2>3. maker[c] = k
    BY <1>1, <2>1 DEF Start, PlaneInv, PlaneTypes
  <2>4. network \in {"none", "routes"} \/ k \in swapped
    BY <1>1, <2>2 DEF PlaneInv, Seen, At, Judged
  <2> QED
    BY <2>1, <2>3, <2>4
<1>2. ASSUME PlaneInv, [PlaneNext]_planeVars, NEW k \in Calls,
             answer'[k] # answer[k], answer'[k] \in {"NetworkInUse", "UnusableNetwork"}
      PROVE  network = "internal" \/ k \in crossed
  <2>1. Look(k) \/ (Remove(k) /\ network # "none") \/ (Check(k) /\ network # "routes")
    BY <1>2, OnlyLooksRefuse
  <2>2. CASE Look(k)
    BY <1>2, <2>2 DEF Look, NetworkFound, Goto, PlaneInv, PlaneTypes
  <2>3. CASE Remove(k) /\ network # "none"
    BY <1>2, <2>3 DEF Remove, PlaneInv, Seen
  <2>4. CASE Check(k) /\ network # "routes"
    BY <1>2, <2>4 DEF Check, PlaneInv, Seen
  <2> QED
    BY <2>1, <2>2, <2>3, <2>4
<1>3. PlaneInv /\ [PlaneNext]_planeVars => [Bridged]_planeVars
  BY <1>1, <1>2 DEF Bridged, Answered
<1>4. SpawnsOnTheBridge <=> [][Bridged]_planeVars
  BY PTL DEF SpawnsOnTheBridge, Bridged
<1> QED
  BY <1>3, <1>4, PlaneInvariant, PTL DEF PlaneSpec

-----------------------------------------------------------------------------
(***************************************************************************)
(* The tree: what a handover gave away is the agent's until the core       *)
(* changes the tree again, and whoever does so for anything but the        *)
(* handover itself counts it among those worked beside (beside).           *)
(***************************************************************************)

HandSteps == {"idle", "list", "own", "relist", "reown", "clone", "house", "reopen",
          "fresh", "again", "gate", "record", "release", "remove"}

TreeFlags == /\ session \in BOOLEAN /\ up \in BOOLEAN /\ connected \in BOOLEAN
         /\ turn \in BOOLEAN
TreePlaces == /\ chat \in {"none", "open", "archived"}
          /\ tree \in [Entries -> {"none", "core", "agent"}]
          /\ process \in [Hands -> HandSteps] /\ left \in [Hands -> SUBSET Entries]
          /\ loose \subseteq {"clone", "gate", "hand"} /\ beside \subseteq Hands
TreeTypes == TreeFlags /\ TreePlaces

\* Nothing works on a chat before there is one.
Apart == chat = "none" => ~session /\ \A p \in Hands : process[p] = "idle"

\* What a handover nobody worked beside has not left to do, it has done, and
\* what comes after it finds the tree the agent's.
GivenAway ==
  \A p \in Hands \ beside :
     /\ process[p] \in {"own", "reown"} =>
          Root \in Standing /\ \A e \in Standing \ left[p] : tree[e] = "agent"
     /\ process[p] \in {"house", "reopen"} => OwnTree

TreeInv == TreeTypes /\ Apart /\ GivenAway

LEMMA TreeInitInv == ASSUME RootOK, TreeInit PROVE TreeInv
BY DEF TreeInit, TreeInv, TreeTypes, TreeFlags, TreePlaces, Apart, GivenAway,
       NoTree, Hands, HandSteps

\* Whoever is worked beside is one of the two.
LEMMA BesideTyped ==
  ASSUME TreeTypes PROVE \A p : Disturbs(p) => beside' \subseteq Hands
BY DEF TreeTypes, TreePlaces, Disturbs

\* The types are kept.
LEMMA TreeTyped == ASSUME RootOK, TreeTypes, [TreeNext]_treeVars PROVE TreeTypes'
<1> USE DEF TreeTypes, TreeFlags, TreePlaces, Hands, HandSteps, Moves, Over, Standing
<1>1. ASSUME NEW p \in Hands, List(p) PROVE TreeTypes'
  BY <1>1, SMTT(30) DEF List
<1>2. ASSUME NEW p \in Hands, Own(p) PROVE TreeTypes'
  <2>1. TreeFlags'
    BY <1>2, Zenon DEF Own, TreeFlags
  <2>2. TreePlaces'
    <3>1. PICK e \in left[p] :
            \/ /\ tree' = [tree EXCEPT ![e] = "agent"]
               /\ left' = [left EXCEPT ![p] = @ \ {e}]
               /\ UNCHANGED <<process, beside>>
            \/ /\ Over(p) /\ Disturbs(p) /\ (tree' = NoTree \/ tree' = tree)
      BY <1>2, Zenon DEF Own
    <3>2. UNCHANGED <<chat, loose>>
      BY <1>2, Zenon DEF Own
    <3>3. CASE /\ tree' = [tree EXCEPT ![e] = "agent"]
               /\ left' = [left EXCEPT ![p] = @ \ {e}]
               /\ UNCHANGED <<process, beside>>
      BY <3>2, <3>3, SMTT(30)
    <3>4. CASE Over(p) /\ Disturbs(p) /\ (tree' = NoTree \/ tree' = tree)
      <4>1. beside' \subseteq Hands
        BY <3>4, BesideTyped
      <4> QED BY <3>2, <3>4, <4>1, SMTT(30) DEF NoTree
    <3> QED BY <3>1, <3>3, <3>4
  <2> QED BY <2>1, <2>2
<1>3. ASSUME NEW p \in Hands, Handed(p) PROVE TreeTypes'
  BY <1>3, SMTT(30) DEF Handed
<1>4. ASSUME NEW p \in Hands, House(p) PROVE TreeTypes'
  <2>1. TreeFlags'
    BY <1>4, Zenon DEF House, TreeFlags
  <2>2. TreePlaces'
    BY <1>4, SMTT(30) DEF House, TreePlaces
  <2> QED BY <2>1, <2>2
<1>5. ASSUME NEW p \in Hands, HangsUp(p) PROVE TreeTypes'
  BY <1>5, SMTT(30) DEF HangsUp, Blocking
<1>6. CASE CreateChat
  BY <1>6, SMTT(30) DEF CreateChat, RootOK
<1>7. CASE CheckOut
  BY <1>7, BesideTyped, SMTT(30) DEF CheckOut, Cloned
<1>8. CASE RecordSession
  BY <1>8, SMTT(30) DEF RecordSession
<1>9. CASE NoSession
  <2>1. TreeFlags'
    BY <1>9, Zenon DEF NoSession, TreeFlags
  <2>2. TreePlaces'
    BY <1>9, SMTT(30) DEF NoSession, TreePlaces
  <2> QED BY <2>1, <2>2
<1>10. CASE Wake
  BY <1>10, SMTT(30) DEF Wake
<1>11. CASE CloneBack
  BY <1>11, BesideTyped, SMTT(30) DEF CloneBack, Cloned
<1>12. CASE Wipe
  BY <1>12, BesideTyped, SMTT(30) DEF Wipe, NoTree
<1>13. CASE Reopen
  BY <1>13, SMTT(30) DEF Reopen
<1>14. CASE Climb
  <2>1. TreeFlags'
    BY <1>14, Zenon DEF Climb, TreeFlags
  <2>2. TreePlaces'
    BY <1>14, SMTT(30) DEF Climb, TreePlaces
  <2> QED BY <2>1, <2>2
<1>15. CASE Turn
  BY <1>15, SMTT(30) DEF Turn
<1>16. CASE TurnEnds
  <2>1. TreeFlags'
    BY <1>16, Zenon DEF TurnEnds, TreeFlags
  <2>2. TreePlaces'
    BY <1>16, SMTT(30) DEF TurnEnds, TreePlaces
  <2> QED BY <2>1, <2>2
<1>17. CASE Park
  <2>1. TreeFlags'
    BY <1>17, Zenon DEF Park, TreeFlags
  <2>2. TreePlaces'
    BY <1>17, SMTT(30) DEF Park, TreePlaces
  <2> QED BY <2>1, <2>2
<1>18. CASE Archive
  BY <1>18, SMTT(30) DEF Archive
<1>19. CASE Gate
  BY <1>19, BesideTyped, SMTT(30) DEF Gate
<1>20. CASE Pushed
  BY <1>20, SMTT(30) DEF Pushed
<1>21. CASE Record
  BY <1>21, SMTT(30) DEF Record
<1>22. CASE Release
  <2>1. TreeFlags'
    BY <1>22, Zenon DEF Release, TreeFlags
  <2>2. TreePlaces'
    BY <1>22, SMTT(30) DEF Release, TreePlaces
  <2> QED BY <2>1, <2>2
<1>23. CASE RemoveTree
  BY <1>23, BesideTyped, SMTT(30) DEF RemoveTree, NoTree
<1>24. CASE Sweep
  BY <1>24, BesideTyped, SMTT(30) DEF Sweep, NoTree
<1>25. CASE LooseClone
  <2>1. PICK e \in Entries : tree' = [tree EXCEPT ![e] = "core"]
    BY <1>25, Zenon DEF LooseClone, RootOK
  <2>2. Disturbs("nobody")
        /\ UNCHANGED <<chat, session, up, connected, turn, process, left, loose>>
    BY <1>25, Zenon DEF LooseClone
  <2>3. beside' \subseteq Hands
    BY <2>2, BesideTyped
  <2> QED BY <2>1, <2>2, <2>3, SMTT(30)
<1>26. CASE LooseHandover
  BY <1>26, SMTT(30) DEF LooseHandover
<1>27. CASE LooseEnds
  BY <1>27, SMTT(30) DEF LooseEnds
<1>28. CASE Work
  BY <1>28, SMTT(30) DEF Work
<1>29. CASE AgentExits
  <2>1. TreeFlags'
    BY <1>29, Zenon DEF AgentExits, TreeFlags
  <2>2. TreePlaces'
    BY <1>29, SMTT(30) DEF AgentExits, TreePlaces
  <2> QED BY <2>1, <2>2
<1>30. CASE Restart
  <2>1. TreeFlags'
    BY <1>30, Zenon DEF Restart, NoTree, TreeFlags
  <2>2. TreePlaces'
    BY <1>30, SMTT(30) DEF Restart, NoTree, TreePlaces
  <2> QED BY <2>1, <2>2
<1>31. CASE GivesUp
  <2>1. PICK p \in Hands, place \in HandSteps, fault \in {"daemon", "store", "git"} :
          Fails(p, place, fault)
    BY <1>31, Zenon DEF GivesUp
  <2> QED BY <2>1, SMTT(30) DEF Fails
<1>32. CASE UNCHANGED treeVars
  BY <1>32 DEF treeVars
<1> QED BY <1>1, <1>2, <1>3, <1>4, <1>5, <1>6, <1>7, <1>8, <1>9, <1>10,
  <1>11, <1>12, <1>13, <1>14, <1>15, <1>16, <1>17, <1>18, <1>19, <1>20,
  <1>21, <1>22, <1>23, <1>24, <1>25, <1>26, <1>27, <1>28, <1>29, <1>30,
  <1>31, <1>32 DEF TreeNext

\* There is nothing to work on before there is a chat.
LEMMA StaysApart ==
  ASSUME RootOK, TreeInv, [TreeNext]_treeVars PROVE Apart'
<1> USE DEF TreeInv, TreeTypes, TreeFlags, TreePlaces, Apart, Hands, HandSteps,
      Moves, Over
<1>1. ASSUME NEW p \in Hands, List(p) PROVE Apart'
  BY <1>1, SMTT(30) DEF List
<1>2. ASSUME NEW p \in Hands, Own(p) PROVE Apart'
  BY <1>2, SMTT(30) DEF Own, NoTree, Disturbs
<1>3. ASSUME NEW p \in Hands, Handed(p) PROVE Apart'
  BY <1>3, SMTT(30) DEF Handed
<1>4. ASSUME NEW p \in Hands, House(p) PROVE Apart'
  BY <1>4, SMTT(30) DEF House
<1>5. ASSUME NEW p \in Hands, HangsUp(p) PROVE Apart'
  BY <1>5, SMTT(30) DEF HangsUp, Blocking
<1>6. CASE CreateChat
  BY <1>6, SMTT(30) DEF CreateChat, RootOK
<1>7. CASE CheckOut
  BY <1>7, SMTT(30) DEF CheckOut, Cloned, Disturbs
<1>8. CASE RecordSession
  BY <1>8, SMTT(30) DEF RecordSession
<1>9. CASE NoSession
  BY <1>9, SMTT(30) DEF NoSession
<1>10. CASE Wake
  BY <1>10, SMTT(30) DEF Wake
<1>11. CASE CloneBack
  BY <1>11, SMTT(30) DEF CloneBack, Cloned, Disturbs
<1>12. CASE Wipe
  BY <1>12, SMTT(30) DEF Wipe, NoTree, Disturbs
<1>13. CASE Reopen
  BY <1>13, SMTT(30) DEF Reopen
<1>14. CASE Climb
  BY <1>14, SMTT(30) DEF Climb
<1>15. CASE Turn
  BY <1>15, SMTT(30) DEF Turn
<1>16. CASE TurnEnds
  BY <1>16, SMTT(30) DEF TurnEnds
<1>17. CASE Park
  BY <1>17, SMTT(30) DEF Park
<1>18. CASE Archive
  BY <1>18, SMTT(30) DEF Archive
<1>19. CASE Gate
  BY <1>19, SMTT(30) DEF Gate, Disturbs
<1>20. CASE Pushed
  BY <1>20, SMTT(30) DEF Pushed
<1>21. CASE Record
  BY <1>21, SMTT(30) DEF Record
<1>22. CASE Release
  BY <1>22, SMTT(30) DEF Release
<1>23. CASE RemoveTree
  BY <1>23, SMTT(30) DEF RemoveTree, NoTree, Disturbs
<1>24. CASE Sweep
  BY <1>24, SMTT(30) DEF Sweep, NoTree, Disturbs
<1>25. CASE LooseClone
  BY <1>25, SMTT(30) DEF LooseClone, Disturbs
<1>26. CASE LooseHandover
  BY <1>26, SMTT(30) DEF LooseHandover
<1>27. CASE LooseEnds
  BY <1>27, SMTT(30) DEF LooseEnds
<1>28. CASE Work
  BY <1>28, SMTT(30) DEF Work
<1>29. CASE AgentExits
  BY <1>29, SMTT(30) DEF AgentExits
<1>30. CASE Restart
  BY <1>30, SMTT(30) DEF Restart, NoTree
<1>31. CASE GivesUp
  BY <1>31, SMTT(30) DEF GivesUp, Fails
<1>32. CASE UNCHANGED treeVars
  BY <1>32 DEF treeVars
<1> QED BY <1>1, <1>2, <1>3, <1>4, <1>5, <1>6, <1>7, <1>8, <1>9, <1>10,
  <1>11, <1>12, <1>13, <1>14, <1>15, <1>16, <1>17, <1>18, <1>19, <1>20,
  <1>21, <1>22, <1>23, <1>24, <1>25, <1>26, <1>27, <1>28, <1>29, <1>30,
  <1>31, <1>32 DEF TreeNext

\* What was given away is the agent's until the core changes the tree.
LEMMA StaysGiven ==
  ASSUME RootOK, TreeInv, [TreeNext]_treeVars PROVE GivenAway'
<1> USE DEF TreeInv, TreeTypes, TreeFlags, TreePlaces, Apart, GivenAway, Hands,
      HandSteps, Moves, Over, OwnTree, Standing, Handing
<1>1. ASSUME NEW p \in Hands, List(p) PROVE GivenAway'
  BY <1>1, SMTT(30) DEF List
<1>2. ASSUME NEW p \in Hands, Own(p) PROVE GivenAway'
  BY <1>2, SMTT(30) DEF Own, NoTree, Disturbs
<1>3. ASSUME NEW p \in Hands, Handed(p) PROVE GivenAway'
  BY <1>3, SMTT(30) DEF Handed
<1>4. ASSUME NEW p \in Hands, House(p) PROVE GivenAway'
  BY <1>4, SMTT(30) DEF House
<1>5. ASSUME NEW p \in Hands, HangsUp(p) PROVE GivenAway'
  BY <1>5, SMTT(30) DEF HangsUp, Blocking
<1>6. CASE CreateChat
  BY <1>6, SMTT(30) DEF CreateChat, RootOK
<1>7. CASE CheckOut
  BY <1>7, SMTT(30) DEF CheckOut, Cloned, Disturbs
<1>8. CASE RecordSession
  BY <1>8, SMTT(30) DEF RecordSession
<1>9. CASE NoSession
  BY <1>9, SMTT(30) DEF NoSession
<1>10. CASE Wake
  BY <1>10, SMTT(30) DEF Wake
<1>11. CASE CloneBack
  BY <1>11, SMTT(30) DEF CloneBack, Cloned, Disturbs
<1>12. CASE Wipe
  BY <1>12, SMTT(30) DEF Wipe, NoTree, Disturbs
<1>13. CASE Reopen
  BY <1>13, SMTT(30) DEF Reopen
<1>14. CASE Climb
  BY <1>14, SMTT(30) DEF Climb
<1>15. CASE Turn
  BY <1>15, SMTT(30) DEF Turn
<1>16. CASE TurnEnds
  BY <1>16, SMTT(30) DEF TurnEnds
<1>17. CASE Park
  BY <1>17, SMTT(30) DEF Park
<1>18. CASE Archive
  BY <1>18, SMTT(30) DEF Archive
<1>19. CASE Gate
  BY <1>19, SMTT(30) DEF Gate, Disturbs
<1>20. CASE Pushed
  BY <1>20, SMTT(30) DEF Pushed
<1>21. CASE Record
  BY <1>21, SMTT(30) DEF Record
<1>22. CASE Release
  BY <1>22, SMTT(30) DEF Release
<1>23. CASE RemoveTree
  BY <1>23, SMTT(30) DEF RemoveTree, NoTree, Disturbs
<1>24. CASE Sweep
  BY <1>24, SMTT(30) DEF Sweep, NoTree, Disturbs
<1>25. CASE LooseClone
  BY <1>25, SMTT(30) DEF LooseClone, Disturbs
<1>26. CASE LooseHandover
  BY <1>26, SMTT(30) DEF LooseHandover
<1>27. CASE LooseEnds
  BY <1>27, SMTT(30) DEF LooseEnds
<1>28. CASE Work
  BY <1>28, SMTT(30) DEF Work
<1>29. CASE AgentExits
  BY <1>29, SMTT(30) DEF AgentExits
<1>30. CASE Restart
  BY <1>30, SMTT(30) DEF Restart, NoTree
<1>31. CASE GivesUp
  BY <1>31, SMTT(30) DEF GivesUp, Fails
<1>32. CASE UNCHANGED treeVars
  BY <1>32 DEF treeVars
<1> QED BY <1>1, <1>2, <1>3, <1>4, <1>5, <1>6, <1>7, <1>8, <1>9, <1>10,
  <1>11, <1>12, <1>13, <1>14, <1>15, <1>16, <1>17, <1>18, <1>19, <1>20,
  <1>21, <1>22, <1>23, <1>24, <1>25, <1>26, <1>27, <1>28, <1>29, <1>30,
  <1>31, <1>32 DEF TreeNext

\* Wherever a handover, a gate, git that nobody awaits any more and the agent's
\* own work meet, what is known of the tree's owners.
THEOREM TreeInvariant == ASSUME RootOK PROVE TreeSpec => []TreeInv
<1>1. TreeInit => TreeInv
  BY TreeInitInv
<1>2. TreeInv /\ [TreeNext]_treeVars => TreeInv'
  BY TreeTyped, StaysApart, StaysGiven DEF TreeInv
<1> QED BY <1>1, <1>2, PTL DEF TreeSpec

\* A container comes up on a tree that is the agent's whole, whatever failed
\* archives, half handovers, hang-ups and crashes went before; but where the
\* core changed the tree after this spawn's own handover had listed it
\* (hand_the_workspace_back, clone_back).
THEOREM SpawnsOnOwnTree == ASSUME RootOK PROVE TreeSpec => SpawnsOnItsOwnTree
<1>1. ASSUME TreeInv, [TreeNext]_treeVars, ~up, up'
      PROVE  OwnTree \/ \E p \in beside : process[p] = "house"
  <2>1. \E p \in Hands : process[p] = "house"
    <3>1. CASE \E p \in Hands : List(p) \/ Own(p) \/ Handed(p) \/ House(p)
      BY <1>1, <3>1, Zenon DEF List, Own, Handed, House
    <3>2. CASE CreateChat \/ CheckOut \/ RecordSession \/ NoSession
      BY <1>1, <3>2, Zenon DEF CreateChat, CheckOut, Cloned, RecordSession, NoSession
    <3>3. CASE Wake \/ CloneBack \/ Wipe \/ Reopen
      BY <1>1, <3>3, Zenon DEF Wake, CloneBack, Cloned, Wipe, Reopen
    <3>4. CASE Climb
      BY <1>1, <3>4, Zenon DEF Climb
    <3>5. CASE Turn \/ TurnEnds \/ Park
      BY <1>1, <3>5, Zenon DEF Turn, TurnEnds, Park
    <3>6. CASE Archive \/ Gate \/ Pushed \/ Record \/ RemoveTree \/ Sweep
      BY <1>1, <3>6, Zenon DEF Archive, Gate, Pushed, Record, RemoveTree, Sweep
    <3>7. CASE Release
      <4>1. up' = FALSE \/ up' = up
        BY <3>7, Zenon DEF Release
      <4> QED BY <1>1, <4>1, Zenon
    <3>8. CASE \/ \E p \in Hands : HangsUp(p)
               \/ LooseClone \/ LooseHandover \/ LooseEnds
      BY <1>1, <3>8, Zenon DEF HangsUp, LooseClone, LooseHandover, LooseEnds
    <3>9. CASE Work \/ AgentExits \/ Restart
      BY <1>1, <3>9, Zenon DEF Work, AgentExits, Restart
    <3>10. CASE GivesUp
      BY <1>1, <3>10, Zenon DEF GivesUp, Fails
    <3>11. CASE UNCHANGED treeVars
      BY <1>1, <3>11, Zenon DEF treeVars
    <3> QED
      BY <1>1, <3>1, <3>2, <3>3, <3>4, <3>5, <3>6, <3>7, <3>8, <3>9, <3>10, <3>11
         DEF TreeNext
  <2> QED BY <1>1, <2>1 DEF TreeInv, GivenAway
<1> QED BY <1>1, TreeInvariant, PTL DEF TreeSpec, SpawnsOnItsOwnTree

-----------------------------------------------------------------------------
(***************************************************************************)
(* The warm pool: one pass with a running count finds the chats that are   *)
(* beyond it.                                                              *)
(***************************************************************************)

-----------------------------------------------------------------------------
(* Induction, as what the sets of naturals allow.                          *)

\* Every set of naturals that is not empty has a least element.
LEMMA Least ==
  ASSUME NEW T \in SUBSET Nat, T # {} PROVE \E n \in T : \A m \in T : n <= m
<1>1. \E x \in T : \A y \in T : ~ (<<y, x>> \in OpToRel(<, Nat))
  BY NatLessThanWellFounded, WFMin, Zenon
<1>2. \A x, y \in Nat : ~ (<<y, x>> \in OpToRel(<, Nat)) => x <= y
  BY DEF OpToRel
<1> QED BY <1>1, <1>2

\* A set with zero and with the successor of each of its elements has them all.
LEMMA Induct ==
  ASSUME NEW T, 0 \in T, \A n \in Nat : n \in T => n + 1 \in T
  PROVE  \A n \in Nat : n \in T
<1>1. SUFFICES ASSUME Nat \ T # {} PROVE FALSE OBVIOUS
<1>2. PICK n \in Nat \ T : \A m \in Nat \ T : n <= m
  BY <1>1, Least
<1>3. n # 0 /\ n - 1 \in Nat /\ n - 1 < n
  BY <1>2
<1>4. n - 1 \in T
  BY <1>2, <1>3
<1>5. (n - 1) + 1 = n
  BY <1>2
<1> QED BY <1>2, <1>3, <1>4, <1>5

-----------------------------------------------------------------------------
(* The order: the holders stand in one line, the freshest first.           *)

\* Chats of one scan are told apart by their stamps, which are naturals.
LEMMA Stamped ==
  ASSUME PoolsOK, NEW scan \in Scans
  PROVE  /\ \A c \in Pooled : scan[c].active \in Nat
         /\ \A c, d \in Pooled : c # d => scan[c].active # scan[d].active
  BY DEF PoolsOK, Scans

\* An order of so many chats, freshest first.
InOrder(scan, s, n) == \A i, j \in 1..n : i < j => Fresher(scan, s[i], s[j])

\* The stalest of some chats.
LEMMA Stalest ==
  ASSUME PoolsOK, NEW scan \in Scans, NEW C \in SUBSET Pooled, C # {}
  PROVE  \E c \in C : \A d \in C \ {c} : Fresher(scan, d, c)
<1> DEFINE T == {scan[c].active : c \in C}
<1>1. T \in SUBSET Nat /\ T # {}
  BY Stamped
<1>2. PICK n \in T : \A m \in T : n <= m
  BY <1>1, Least
<1>3. PICK c \in C : n = scan[c].active
  BY <1>2
<1>4. \A d \in C \ {c} : scan[d].active \in Nat /\ scan[d].active >= n /\ scan[d].active # n
  BY <1>2, <1>3, Stamped
<1>5. n \in Nat
  BY <1>1, <1>2
<1>6. \A d \in C \ {c} : Fresher(scan, d, c)
  BY <1>3, <1>4, <1>5 DEF Fresher
<1> QED BY <1>6

\* Some chats can be put in order, however many they are.
LEMMA OrderExists ==
  ASSUME PoolsOK, NEW scan \in Scans
  PROVE  \A C \in SUBSET Pooled : \E s \in [1..Cardinality(C) -> C] :
            InOrder(scan, s, Cardinality(C))
<1> DEFINE T == {n \in Nat : \A C \in SUBSET Pooled : Cardinality(C) = n =>
                    \E s \in [1..n -> C] : InOrder(scan, s, n)}
<1>1. \A C \in SUBSET Pooled : IsFiniteSet(C) /\ Cardinality(C) \in Nat
  BY FS_Subset, FS_CardinalityType DEF PoolsOK
<1>2. 0 \in T
  <2> SUFFICES ASSUME NEW C \in SUBSET Pooled, Cardinality(C) = 0
               PROVE  \E s \in [1..0 -> C] : InOrder(scan, s, 0)
    OBVIOUS
  <2>1. 1..0 = {}
    OBVIOUS
  <2>2. [i \in 1..0 |-> {}] \in [1..0 -> C] /\ InOrder(scan, [i \in 1..0 |-> {}], 0)
    BY <2>1 DEF InOrder
  <2> QED BY <2>2
<1>3. ASSUME NEW n \in Nat, n \in T PROVE n + 1 \in T
  <2> SUFFICES ASSUME NEW C \in SUBSET Pooled, Cardinality(C) = n + 1
               PROVE  \E s \in [1..(n + 1) -> C] : InOrder(scan, s, n + 1)
    OBVIOUS
  <2>1. C # {}
    BY <1>1, FS_EmptySet
  <2>2. PICK c \in C : \A d \in C \ {c} : Fresher(scan, d, c)
    BY <2>1, Stalest
  <2>3. Cardinality(C \ {c}) = n
    BY <1>1, FS_RemoveElement
  <2>4. PICK s \in [1..n -> C \ {c}] : InOrder(scan, s, n)
    BY <1>3, <2>3
  <2> DEFINE t == [i \in 1..(n + 1) |-> IF i = n + 1 THEN c ELSE s[i]]
  <2>5. \A i \in 1..(n + 1) : i = n + 1 \/ i \in 1..n
    OBVIOUS
  <2>6. \A i \in 1..n : t[i] = s[i] /\ s[i] \in C \ {c} /\ i \in 1..(n + 1)
    BY <2>4
  <2>7. t[n + 1] = c
    OBVIOUS
  <2>8. t \in [1..(n + 1) -> C]
    BY <2>4, <2>5, <2>6
  <2>9. ASSUME NEW i \in 1..(n + 1), NEW j \in 1..(n + 1), i < j
        PROVE  Fresher(scan, t[i], t[j])
    <3>1. i \in 1..n
      BY <2>9
    <3>2. CASE j = n + 1
      BY <2>2, <2>6, <2>7, <3>1, <3>2
    <3>3. CASE j \in 1..n
      BY <2>4, <2>6, <2>9, <3>1, <3>3 DEF InOrder
    <3> QED BY <2>5, <3>2, <3>3
  <2> HIDE DEF t
  <2> QED BY <2>8, <2>9 DEF InOrder
<1> HIDE DEF T
<1>4. \A n \in Nat : n \in T
  BY <1>2, <1>3, Induct
<1> QED BY <1>1, <1>4 DEF T

\* The order the walk takes has every chat once.
LEMMA InLine ==
  ASSUME PoolsOK, NEW scan \in Scans, NEW C \in SUBSET Pooled,
         NEW n, n = Cardinality(C), NEW s, s = FreshestFirst(scan, C)
  PROVE  /\ n \in Nat /\ s \in [1..n -> C] /\ InOrder(scan, s, n)
         /\ \A c \in C : \E i \in 1..n : s[i] = c
<1>1. IsFiniteSet(C) /\ n \in Nat
  BY FS_Subset, FS_CardinalityType DEF PoolsOK
<1>2. s \in [1..n -> C] /\ InOrder(scan, s, n)
  BY OrderExists DEF FreshestFirst, InOrder
<1>3. \A i, j \in 1..n : i # j => s[i] # s[j]
  <2> SUFFICES ASSUME NEW i \in 1..n, NEW j \in 1..n, i < j PROVE s[i] # s[j]
    BY <1>1
  <2>1. Fresher(scan, s[i], s[j])
    BY <1>2 DEF InOrder
  <2>2. scan[s[i]].active \in Nat
    BY <1>2, Stamped
  <2> QED BY <2>1, <2>2 DEF Fresher
<1>4. s \in Injection(1..n, C)
  BY <1>2, <1>3 DEF Injection, IsInjective
<1>5. Cardinality(1..n) = n
  BY <1>1, FS_Interval
<1>6. s \in Surjection(1..n, C)
  BY <1>1, <1>4, <1>5, FS_Injection
<1> QED BY <1>1, <1>2, <1>6 DEF Surjection

-----------------------------------------------------------------------------
(* The walk, which is a count and a set for every chat it has come to.     *)

Unwalked == [kept |-> 0, beyond |-> {}]

\* The walk of the first m chats of an order.
Walked(scan, busy, cap, s, m, w) ==
  w = [n \in 0..m |-> IF n = 0 THEN Unwalked ELSE Visit(scan, busy, cap, w[n - 1], s[n])]

\* There is such a walk, however long.
LEMMA WalkExists ==
  ASSUME NEW scan, NEW busy, NEW cap, NEW s, NEW m \in Nat
  PROVE  \E w : Walked(scan, busy, cap, s, m, w)
<1> DEFINE T == {n \in Nat : \E w : Walked(scan, busy, cap, s, n, w)}
<1>1. 0 \in T
  <2>1. Walked(scan, busy, cap, s, 0, [n \in 0..0 |-> Unwalked])
    BY DEF Walked
  <2> QED BY <2>1
<1>2. ASSUME NEW n \in Nat, n \in T PROVE n + 1 \in T
  <2>1. PICK w : Walked(scan, busy, cap, s, n, w)
    BY <1>2
  <2> DEFINE next == Visit(scan, busy, cap, w[n], s[n + 1])
             v == [i \in 0..(n + 1) |-> IF i = n + 1 THEN next ELSE w[i]]
  <2>2. \A i \in 0..(n + 1) : i = n + 1 \/ i \in 0..n
    OBVIOUS
  <2>3. \A i \in 0..n : v[i] = w[i] /\ (i # 0 => i - 1 \in 0..n /\ v[i - 1] = w[i - 1])
    OBVIOUS
  <2>4. v[n + 1] = next /\ v[(n + 1) - 1] = w[n] /\ n + 1 # 0
    OBVIOUS
  <2>5. \A i \in 0..n : w[i] = IF i = 0 THEN Unwalked ELSE Visit(scan, busy, cap, w[i - 1], s[i])
    BY <2>1 DEF Walked
  <2>6. v = [i \in 0..(n + 1) |-> v[i]]
    OBVIOUS
  <2> HIDE DEF v
  <2>7. \A i \in 0..(n + 1) :
           v[i] = IF i = 0 THEN Unwalked ELSE Visit(scan, busy, cap, v[i - 1], s[i])
    BY <2>2, <2>3, <2>4, <2>5
  <2>8. Walked(scan, busy, cap, s, n + 1, v)
    BY <2>6, <2>7 DEF Walked
  <2> QED BY <2>8
<1> HIDE DEF T
<1>3. \A n \in Nat : n \in T
  BY <1>1, <1>2, Induct
<1> QED BY <1>3 DEF T

\* The chats the walk has come to, and those of them that are entitled to
\* their container.
Visited(s, m) == {s[i] : i \in 1..m}
Counted(scan, busy, s, m) == {c \in Visited(s, m) : Entitled(scan, busy, c)}

\* A chat is beyond the pool by what stands before it in the order.
IsBeyond(scan, live, busy, cap, c) ==
  /\ c \notin busy
  /\ \/ scan[c].state # "open"
     \/ Cardinality({d \in Holders(scan, live) :
                       Fresher(scan, d, c) /\ Entitled(scan, busy, d)}) >= cap

\* The count stops at the cap, or runs over it with the occupied: until then it
\* is how many were entitled.
Tallies(scan, live, busy, cap, s, m, sofar) ==
  LET entitled == Cardinality(Counted(scan, busy, s, m))
  IN  /\ sofar.kept \in Nat
      /\ sofar.kept < cap \/ entitled < cap => sofar.kept = entitled
      /\ sofar.beyond = {c \in Visited(s, m) : IsBeyond(scan, live, busy, cap, c)}

\* The next chat of the order is one more that was visited.
LEMMA OneMore ==
  ASSUME NEW s, NEW m \in Nat
  PROVE  Visited(s, m + 1) = Visited(s, m) \cup {s[m + 1]}
<1>1. \A i \in 1..(m + 1) : i \in 1..m \/ i = m + 1
  OBVIOUS
<1>2. \A i \in 1..m : i \in 1..(m + 1)
  OBVIOUS
<1>3. m + 1 \in 1..(m + 1)
  OBVIOUS
<1> QED BY <1>1, <1>2, <1>3 DEF Visited

\* What is fresher than a chat is what comes before it in the order.
LEMMA Before ==
  ASSUME PoolsOK, NEW scan \in Scans, NEW C \in SUBSET Pooled,
         NEW n \in Nat, NEW s \in [1..n -> C], InOrder(scan, s, n),
         \A c \in C : \E i \in 1..n : s[i] = c,
         NEW m \in Nat, m + 1 \in 1..n
  PROVE  /\ {d \in C : Fresher(scan, d, s[m + 1])} = Visited(s, m)
         /\ s[m + 1] \notin Visited(s, m)
<1>1. \A i \in 1..n : scan[s[i]].active \in Nat
  BY Stamped
<1>2. \A i, j \in 1..n : i < j => scan[s[i]].active > scan[s[j]].active
  BY DEF InOrder, Fresher
<1>3. \A i \in 1..n : Fresher(scan, s[i], s[m + 1]) <=> i < m + 1
  <2> SUFFICES ASSUME NEW i \in 1..n
               PROVE  Fresher(scan, s[i], s[m + 1]) <=> i < m + 1
    OBVIOUS
  <2>1. CASE i < m + 1
    BY <1>2, <2>1 DEF Fresher
  <2>2. CASE i = m + 1
    BY <1>1, <2>2 DEF Fresher
  <2>3. CASE i > m + 1
    <3>1. scan[s[m + 1]].active > scan[s[i]].active
      BY <1>2, <2>3
    <3> QED BY <1>1, <2>3, <3>1 DEF Fresher
  <2> QED BY <2>1, <2>2, <2>3
<1>4. \A i \in 1..n : i < m + 1 <=> i \in 1..m
  OBVIOUS
<1>5. \A i \in 1..m : i \in 1..n
  OBVIOUS
<1>6. {d \in C : Fresher(scan, d, s[m + 1])} = Visited(s, m)
  BY <1>3, <1>4, <1>5 DEF Visited
<1>7. s[m + 1] \notin Visited(s, m)
  BY <1>6, <1>3
<1> QED BY <1>6, <1>7

\* One more chat of the walk.
LEMMA VisitTallies ==
  ASSUME PoolsOK, NEW scan \in Scans, NEW live \in SUBSET Pooled,
         NEW busy \in SUBSET Pooled, NEW cap \in Nat,
         NEW C, C = Holders(scan, live),
         NEW n \in Nat, NEW s \in [1..n -> C], InOrder(scan, s, n),
         \A c \in C : \E i \in 1..n : s[i] = c,
         NEW m \in Nat, m + 1 \in 1..n,
         NEW sofar, Tallies(scan, live, busy, cap, s, m, sofar)
  PROVE  Tallies(scan, live, busy, cap, s, m + 1,
                 Visit(scan, busy, cap, sofar, s[m + 1]))
<1> DEFINE c == s[m + 1]
           entitled == Cardinality(Counted(scan, busy, s, m))
           more == Cardinality(Counted(scan, busy, s, m + 1))
           after == Visit(scan, busy, cap, sofar, c)
<1>1. C \in SUBSET Pooled /\ c \in C
  BY DEF Holders
<1>2. /\ {d \in C : Fresher(scan, d, c)} = Visited(s, m)
      /\ c \notin Visited(s, m)
  BY <1>1, Before
<1>3. Visited(s, m + 1) = Visited(s, m) \cup {c}
  BY OneMore
<1>4. IsFiniteSet(Counted(scan, busy, s, m)) /\ entitled \in Nat
  <2>1. IsFiniteSet(C)
    BY <1>1, FS_Subset DEF PoolsOK
  <2>2. Counted(scan, busy, s, m) \in SUBSET C
    BY <1>2 DEF Counted
  <2>3. IsFiniteSet(Counted(scan, busy, s, m))
    BY <2>1, <2>2, FS_Subset
  <2> QED BY <2>3, FS_CardinalityType
<1>5. more = IF Entitled(scan, busy, c) THEN entitled + 1 ELSE entitled
  <2>1. CASE Entitled(scan, busy, c)
    <3>1. Counted(scan, busy, s, m + 1) = Counted(scan, busy, s, m) \cup {c}
      BY <1>3, <2>1 DEF Counted
    <3>2. c \notin Counted(scan, busy, s, m)
      BY <1>2 DEF Counted
    <3> QED BY <1>4, <2>1, <3>1, <3>2, FS_AddElement
  <2>2. CASE ~Entitled(scan, busy, c)
    <3>1. Counted(scan, busy, s, m + 1) = Counted(scan, busy, s, m)
      BY <1>3, <2>2 DEF Counted
    <3> QED BY <2>2, <3>1
  <2> QED BY <2>1, <2>2
<1>6. {d \in Holders(scan, live) : Fresher(scan, d, c) /\ Entitled(scan, busy, d)}
        = Counted(scan, busy, s, m)
  BY <1>2 DEF Counted
<1>7. IsBeyond(scan, live, busy, cap, c)
        <=> c \notin busy /\ (scan[c].state # "open" \/ entitled >= cap)
  BY <1>6 DEF IsBeyond
<1>8. /\ sofar.kept \in Nat
      /\ sofar.kept < cap \/ entitled < cap => sofar.kept = entitled
      /\ sofar.beyond = {d \in Visited(s, m) : IsBeyond(scan, live, busy, cap, d)}
  BY DEF Tallies
<1> HIDE DEF c, entitled, more
<1>9. Keeps(scan, busy, cap, sofar.kept, c) <=> ~IsBeyond(scan, live, busy, cap, c)
  BY <1>4, <1>7, <1>8 DEF Keeps
<1>10. Keeps(scan, busy, cap, sofar.kept, c) => Entitled(scan, busy, c)
  BY DEF Keeps, Entitled
<1>11. after.kept \in Nat /\ (after.kept < cap \/ more < cap => after.kept = more)
  <2>1. CASE Keeps(scan, busy, cap, sofar.kept, c)
    <3>1. after.kept = sofar.kept + 1 /\ more = entitled + 1
      BY <1>5, <1>10, <2>1 DEF Visit
    <3> HIDE DEF after
    <3> QED BY <1>4, <1>8, <3>1
  <2>2. CASE ~Keeps(scan, busy, cap, sofar.kept, c)
    <3>1. after.kept = sofar.kept
      BY <2>2 DEF Visit
    <3>2. Entitled(scan, busy, c) => sofar.kept >= cap
      BY <1>8, <2>2 DEF Keeps, Entitled
    <3> HIDE DEF after
    <3> QED BY <1>4, <1>5, <1>8, <3>1, <3>2
  <2> QED BY <2>1, <2>2
<1>12. after.beyond = {d \in Visited(s, m + 1) : IsBeyond(scan, live, busy, cap, d)}
  BY <1>3, <1>8, <1>9 DEF Visit
<1> QED BY <1>11, <1>12 DEF Tallies, c, more

\* The walk comes to the chats beyond the pool.
LEMMA WalkIsTheRule ==
  ASSUME PoolsOK, NEW scan \in Scans, NEW live \in SUBSET Pooled,
         NEW busy \in SUBSET Pooled, NEW cap \in Nat
  PROVE  Walk(scan, live, busy, cap) = BeyondThePool(scan, live, busy, cap)
<1> DEFINE C == Holders(scan, live)
           n == Cardinality(C)
           s == FreshestFirst(scan, C)
           w == CHOOSE f : Walked(scan, busy, cap, s, n, f)
<1>1. C \in SUBSET Pooled
  BY DEF Holders
<1>2. /\ n \in Nat /\ s \in [1..n -> C] /\ InOrder(scan, s, n)
      /\ \A c \in C : \E i \in 1..n : s[i] = c
  BY <1>1, InLine
<1>3. Walk(scan, live, busy, cap) = w[n].beyond
  BY DEF Walk, Walked, Unwalked
<1> HIDE DEF s, n
<1>4. Walked(scan, busy, cap, s, n, w)
  BY <1>2, WalkExists
<1> HIDE DEF w
<1>5. /\ w[0] = Unwalked
      /\ \A m \in Nat : m + 1 \in 1..n =>
            w[m + 1] = Visit(scan, busy, cap, w[m], s[m + 1])
  BY <1>2, <1>4 DEF Walked
<1> DEFINE T == {m \in Nat : m \in 0..n => Tallies(scan, live, busy, cap, s, m, w[m])}
<1>6. 0 \in T
  <2>1. Visited(s, 0) = {} /\ Counted(scan, busy, s, 0) = {}
    BY DEF Visited, Counted
  <2>2. Tallies(scan, live, busy, cap, s, 0, Unwalked)
    BY <2>1, FS_EmptySet DEF Tallies, Unwalked
  <2> QED BY <1>5, <2>2
<1>7. ASSUME NEW m \in Nat, m \in T PROVE m + 1 \in T
  <2> SUFFICES ASSUME m + 1 \in 0..n
               PROVE  Tallies(scan, live, busy, cap, s, m + 1, w[m + 1])
    OBVIOUS
  <2>1. m \in 0..n /\ m + 1 \in 1..n
    BY <1>2
  <2>2. Tallies(scan, live, busy, cap, s, m, w[m])
    BY <1>7, <2>1
  <2> QED BY <1>2, <1>5, <2>1, <2>2, VisitTallies
<1> HIDE DEF T
<1>8. \A m \in Nat : m \in T
  BY <1>6, <1>7, Induct
<1>9. Tallies(scan, live, busy, cap, s, n, w[n])
  BY <1>2, <1>8 DEF T
<1>10. Visited(s, n) = C
  BY <1>2 DEF Visited
<1>11. w[n].beyond = {c \in C : IsBeyond(scan, live, busy, cap, c)}
  BY <1>9, <1>10 DEF Tallies
<1>12. BeyondThePool(scan, live, busy, cap) = {c \in C : IsBeyond(scan, live, busy, cap, c)}
  BY DEF BeyondThePool, IsBeyond
<1> QED BY <1>3, <1>11, <1>12

\* A capping leaves nothing for the next one.
LEMMA OneCappingDoes ==
  ASSUME PoolsOK, NEW scan \in Scans, NEW live \in SUBSET Pooled,
         NEW busy \in SUBSET Pooled, NEW cap \in Nat
  PROVE  BeyondThePool(scan, live \ BeyondThePool(scan, live, busy, cap), busy, cap) = {}
<1> DEFINE rest == live \ BeyondThePool(scan, live, busy, cap)
           Ahead(c, held) == {d \in Holders(scan, held) :
                                Fresher(scan, d, c) /\ Entitled(scan, busy, d)}
<1> SUFFICES ASSUME NEW c \in BeyondThePool(scan, rest, busy, cap) PROVE FALSE
  OBVIOUS
<1>1. /\ c \in Holders(scan, rest) \ busy /\ c \in Holders(scan, live)
      /\ c \notin BeyondThePool(scan, live, busy, cap)
  BY DEF BeyondThePool, Holders
<1>2. scan[c].state = "open" /\ ~(Cardinality(Ahead(c, live)) >= cap)
  BY <1>1 DEF BeyondThePool
<1>3. Cardinality(Ahead(c, rest)) >= cap
  BY <1>2 DEF BeyondThePool
<1>4. IsFiniteSet(Ahead(c, live)) /\ Ahead(c, rest) \in SUBSET Ahead(c, live)
  <2>1. Ahead(c, live) \in SUBSET Pooled
    BY DEF Holders
  <2>2. Ahead(c, rest) \in SUBSET Ahead(c, live)
    BY DEF Holders
  <2> QED BY <2>1, <2>2, FS_Subset DEF PoolsOK
<1>5. /\ Cardinality(Ahead(c, rest)) \in Nat /\ Cardinality(Ahead(c, live)) \in Nat
      /\ Cardinality(Ahead(c, rest)) <= Cardinality(Ahead(c, live))
  BY <1>4, FS_Subset, FS_CardinalityType
<1> HIDE DEF Ahead
<1> QED BY <1>2, <1>3, <1>5

PoolTyped == pool \in Pools

\* Pools stay pools.
LEMMA PoolsStay == PoolSpec => []PoolTyped
<1>1. PoolInit => PoolTyped
  BY DEF PoolInit, PoolTyped
<1>2. PoolTyped /\ [LetGo]_pool => PoolTyped'
  <2>1. ASSUME PoolTyped, LetGo PROVE PoolTyped'
    <3>1. pool.live \ Beyond(pool) \in SUBSET Pooled
      BY <2>1 DEF PoolTyped, Pools
    <3> QED BY <2>1, <3>1 DEF PoolTyped, Pools, LetGo
  <2>2. ASSUME PoolTyped, UNCHANGED pool PROVE PoolTyped'
    BY <2>2 DEF PoolTyped, Pools, Scans
  <2> QED BY <2>1, <2>2
<1> QED BY <1>1, <1>2, PTL DEF PoolSpec

\* The rule the lifecycle is modelled with is the code's walk, for any chats,
\* stamps and caps, and one capping leaves nothing to a second.
THEOREM TheRuleIsTheWalk == ASSUME PoolsOK PROVE PoolSpec => []WalkAgrees
<1>1. PoolTyped => WalkAgrees
  <2> SUFFICES ASSUME PoolTyped PROVE WalkAgrees OBVIOUS
  <2>1. /\ pool.scan \in Scans /\ pool.live \in SUBSET Pooled
        /\ pool.busy \in SUBSET Pooled /\ pool.cap \in Nat
    BY DEF PoolTyped, Pools, PoolsOK
  <2> QED BY <2>1, WalkIsTheRule, OneCappingDoes DEF WalkAgrees, Beyond
<1> QED BY <1>1, PoolsStay, PTL

-----------------------------------------------------------------------------
(***************************************************************************)
(* The form: what it says, and where the token goes.                       *)
(***************************************************************************)

UrlIs == INSTANCE Folding WITH Base <- <<>>, Step <- N!Uncredited
EnvIs == INSTANCE Folding WITH Base <- N!Unparsed, Step <- N!ParseLine

\* str::split at the ends of lines, a character at a time.
Broken(lines, c) ==
  IF c = "newline" THEN Append(lines, <<>>)
  ELSE [lines EXCEPT ![Len(lines)] = Append(@, c)]
LinesAre == INSTANCE Folding WITH Base <- << <<>> >>, Step <- Broken
SlugIs == INSTANCE Folding WITH Base <- <<>>, Step <- N!Hyphenated

LEMMA UrlFold == ASSUME NEW s PROVE N!FoldLeft(N!Uncredited, <<>>, s) = UrlIs!Fold(s)
BY DEF N!FoldLeft, N!MapThenFoldSet, N!Max,
       UrlIs!Fold, UrlIs!FoldLeft, UrlIs!MapThenFoldSet, UrlIs!Max

LEMMA EnvFold == ASSUME NEW s PROVE N!FoldLeft(N!ParseLine, N!Unparsed, s) = EnvIs!Fold(s)
BY DEF N!FoldLeft, N!MapThenFoldSet, N!Max,
       EnvIs!Fold, EnvIs!FoldLeft, EnvIs!MapThenFoldSet, EnvIs!Max

LEMMA LinesFold == ASSUME NEW s PROVE N!Split(s, "newline") = LinesAre!Fold(s)
BY DEF N!Split, Broken, N!FoldLeft, N!MapThenFoldSet, N!Max,
       LinesAre!Fold, LinesAre!FoldLeft, LinesAre!MapThenFoldSet, LinesAre!Max

-----------------------------------------------------------------------------
(* A text, cut.                                                            *)

LEMMA FirstOf ==
  ASSUME NEW K \in SUBSET Nat, K # {}
  PROVE  \E a \in K : \A j \in K : a <= j
BY UrlIs!LeastOf

LEMMA LastOf ==
  ASSUME NEW n \in Nat, NEW K \in SUBSET (1..n), K # {}
  PROVE  \E b \in K : \A j \in K : j <= b
<1> DEFINE D == {d \in Nat : n - d \in K}
<1>1. D # {}
  <2>1. PICK k : k \in K
    OBVIOUS
  <2>2. n - k \in Nat /\ n - (n - k) = k
    BY <2>1
  <2> QED
    BY <2>1, <2>2
<1>2. PICK d \in D : \A e \in D : d <= e
  BY <1>1, FirstOf
<1>3. ASSUME NEW j \in K PROVE j <= n - d
  <2>1. n - j \in Nat /\ n - (n - j) = j
    OBVIOUS
  <2>2. n - j \in D
    BY <2>1
  <2> QED
    BY <1>2, <2>1, <2>2
<1> QED
  BY <1>2, <1>3

\* The text up to the first of some characters, and whether there is one.
Stops(s, characters, stop) ==
  /\ stop \in 1..(Len(s) + 1)
  /\ stop = Len(s) + 1 \/ s[stop] \in characters
  /\ \A j \in 1..(stop - 1) : s[j] \notin characters

LEMMA UntilIs ==
  ASSUME NEW S, NEW s \in Seq(S), NEW characters
  PROVE  \E stop : Stops(s, characters, stop) /\ N!Until(s, characters) = SubSeq(s, 1, stop - 1)
<1> DEFINE K == {i \in 1..Len(s) : s[i] \in characters}
<1>1. Len(s) \in Nat
  OBVIOUS
<1>2. \E stop : Stops(s, characters, stop)
  <2>1. CASE K = {}
    <3>1. Stops(s, characters, Len(s) + 1)
      BY <1>1, <2>1 DEF Stops
    <3> QED
      BY <3>1
  <2>2. CASE K # {}
    <3> HIDE DEF K
    <3>0. K \in SUBSET Nat
      BY DEF K
    <3>1. PICK a \in K : \A j \in K : a <= j
      BY <2>2, <3>0, FirstOf
    <3>2. Stops(s, characters, a)
      BY <1>1, <3>1 DEF Stops, K
    <3> QED
      BY <3>2
  <2> QED
    BY <2>1, <2>2
<1>3. N!Until(s, characters) = SubSeq(s, 1, (CHOOSE stop : Stops(s, characters, stop)) - 1)
  BY DEF N!Until, Stops
<1> QED
  BY <1>2, <1>3

\* A text without some characters at its ends.
Cut(s, characters) ==
  LET kept == {i \in DOMAIN s : s[i] \notin characters}
  IN  IF kept = {} THEN <<>>
      ELSE SubSeq(s, CHOOSE i \in kept : \A j \in kept : i <= j,
                     CHOOSE i \in kept : \A j \in kept : j <= i)

Cuts(s, characters, a, b) ==
  /\ a \in DOMAIN s /\ b \in DOMAIN s /\ a <= b
  /\ s[a] \notin characters /\ s[b] \notin characters
  /\ \A i \in DOMAIN s : i < a \/ b < i => s[i] \in characters

LEMMA CutIs ==
  ASSUME NEW S, NEW s \in Seq(S), NEW characters
  PROVE  \/ (\A i \in DOMAIN s : s[i] \in characters) /\ Cut(s, characters) = <<>>
         \/ \E a, b : Cuts(s, characters, a, b) /\ Cut(s, characters) = SubSeq(s, a, b)
<1> DEFINE K == {i \in DOMAIN s : s[i] \notin characters}
           a == CHOOSE i \in K : \A j \in K : i <= j
           b == CHOOSE i \in K : \A j \in K : j <= i
<1>1. Cut(s, characters) = IF K = {} THEN <<>> ELSE SubSeq(s, a, b)
  BY DEF Cut
<1>2. CASE K = {}
  BY <1>1, <1>2
<1>3. CASE K # {}
  <2>1. DOMAIN s = 1..Len(s) /\ Len(s) \in Nat
    OBVIOUS
  <2>2. K \in SUBSET Nat /\ K \in SUBSET (1..Len(s))
    BY <2>1
  <2>3. a \in K /\ \A j \in K : a <= j
    BY <1>3, <2>2, FirstOf
  <2>4. b \in K /\ \A j \in K : j <= b
    BY <1>3, <2>1, <2>2, LastOf
  <2> HIDE DEF a, b
  <2>5. Cuts(s, characters, a, b)
    BY <2>1, <2>3, <2>4 DEF Cuts
  <2> QED
    BY <1>1, <1>3, <2>5
<1> QED
  BY <1>2, <1>3

LEMMA CutType ==
  ASSUME NEW S, NEW s \in Seq(S), NEW characters
  PROVE  Cut(s, characters) \in Seq(S)
<1>1. CASE Cut(s, characters) = <<>>
  BY <1>1, EmptySeq
<1>2. CASE \E a, b : Cuts(s, characters, a, b) /\ Cut(s, characters) = SubSeq(s, a, b)
  <2>1. PICK a, b : Cuts(s, characters, a, b) /\ Cut(s, characters) = SubSeq(s, a, b)
    BY <1>2
  <2>2. a \in 1..Len(s) /\ b \in 1..Len(s)
    BY <2>1 DEF Cuts
  <2>3. SubSeq(s, a, b) \in Seq(S)
    BY <2>2, SubSeqProperties
  <2> QED
    BY <2>1, <2>3
<1> QED
  BY <1>1, <1>2, CutIs

LEMMA TrimCuts == ASSUME NEW s PROVE N!Trim(s) = Cut(s, N!Blank \cup {"newline"})
BY DEF N!Trim, Cut

-----------------------------------------------------------------------------
(* The repository.                                                         *)

\* What a clone URL is made of.
UrlAtoms(S) == S \cup {"https://", "github.com", "/", ".", "name"}

Ends == {"/", "?", "#"}

LEMMA ShorthandIs ==
  ASSUME NEW S, NEW repo \in Seq(S), N!NamesAGithubRepository(repo)
  PROVE  /\ N!CloneUrl(repo) \in Seq(UrlAtoms(S))
         /\ N!StartsWith(N!CloneUrl(repo), {"https://"})
         /\ N!Until(Tail(N!CloneUrl(repo)), Ends) = <<"github.com">>
<1> DEFINE T == UrlAtoms(S)
           p == <<"https://", "github.com", "/">>
           q == repo \o <<".", "name">>
           url == N!CloneUrl(repo)
<1>1. p \in Seq(T) /\ <<".", "name">> \in Seq(T) /\ repo \in Seq(T)
  BY DEF UrlAtoms
<1>2. q \in Seq(T)
  BY <1>1, ConcatProperties
<1>3. url = p \o q
  <2>1. url = (p \o repo) \o <<".", "name">>
    BY DEF N!CloneUrl
  <2> QED
    BY <1>1, <2>1, ConcatAssociative
<1>4. p \o q \in Seq(T) /\ Len(p \o q) = 3 + Len(q) /\ \A i \in 1..3 : (p \o q)[i] = p[i]
  BY <1>1, <1>2, ConcatProperties
<1>5. p[1] = "https://" /\ p[2] = "github.com" /\ p[3] = "/"
  OBVIOUS
<1>6. Len(q) \in Nat
  BY <1>2
<1> HIDE DEF T, p, q, url
<1>7. /\ url \in Seq(T) /\ Len(url) = 3 + Len(q)
      /\ url[1] = "https://" /\ url[2] = "github.com" /\ url[3] = "/"
  BY <1>3, <1>4, <1>5
<1>8. url # <<>>
  BY <1>6, <1>7
<1>9. N!StartsWith(url, {"https://"})
  BY <1>7, <1>8 DEF N!StartsWith
<1> DEFINE r == Tail(url)
<1>10. r \in Seq(T) /\ Len(r) = 2 + Len(q) /\ r[1] = "github.com" /\ r[2] = "/"
  BY <1>6, <1>7, <1>8, HeadTailProperties
<1> HIDE DEF r
<1>11. PICK stop : Stops(r, Ends, stop) /\ N!Until(r, Ends) = SubSeq(r, 1, stop - 1)
  BY <1>10, UntilIs
<1>12. stop = 2
  BY <1>6, <1>10, <1>11 DEF Stops, Ends
<1>13. SubSeq(r, 1, 1) = <<"github.com">>
  <2>1. 1 \in 1..Len(r) /\ 1 <= Len(r)
    BY <1>6, <1>10
  <2>2. /\ SubSeq(r, 1, 1) \in Seq(T) /\ Len(SubSeq(r, 1, 1)) = 1
        /\ SubSeq(r, 1, 1)[1] = r[1]
    BY <1>10, <2>1, SubSeqProperties
  <2> DEFINE t == SubSeq(r, 1, 1)
  <2>3. t \in Seq(T) /\ Len(t) = 1 /\ t[1] = "github.com"
    BY <1>10, <2>2
  <2> HIDE DEF t
  <2>4. t = <<t[1]>>
    BY <2>3
  <2> QED
    BY <2>3, <2>4 DEF t
<1> QED
  BY <1>7, <1>9, <1>11, <1>12, <1>13 DEF r, url, T

\* Every URL that a chat is cloned from has an authority, and no user in it.
LEMMA UrlIsPlain ==
  ASSUME NEW S, NEW repo \in Seq(S), N!NamesARepository(repo)
  PROVE  LET url == N!CloneUrl(repo)
         IN  /\ url \in Seq(UrlAtoms(S)) /\ N!StartsWith(url, {"https://"})
             /\ ~ N!Contains(N!Until(Tail(url), Ends), "@")
<1>1. CASE N!NamesAGithubRepository(repo)
  <2>1. ~ N!Contains(<<"github.com">>, "@")
    BY DEF N!Contains
  <2> QED
    BY <1>1, <2>1, ShorthandIs
<1>2. CASE ~ N!NamesAGithubRepository(repo)
  <2>1. N!CloneUrl(repo) = repo
    BY <1>2 DEF N!CloneUrl
  <2>2. N!NamesAHost(N!Authority(repo))
    <3>1. N!NamesARepository(repo)
      OBVIOUS
    <3>2. N!NamesAGithubRepository(repo) \/ N!NamesAHost(N!Authority(repo))
      BY <3>1, Zenon DEF N!NamesARepository
    <3> QED
      BY <1>2, <3>2, Zenon
  <2>3. N!Authority(repo) # <<>>
    <3> SUFFICES ASSUME N!Authority(repo) = <<>> PROVE FALSE
      OBVIOUS
    <3>1. PICK stop : Stops(<<>>, {":"}, stop) /\ N!Until(<<>>, {":"}) = SubSeq(<<>>, 1, stop - 1)
      BY UntilIs, EmptySeq
    <3>2. stop = 1
      BY <3>1 DEF Stops
    <3>3. N!Until(<<>>, {":"}) = <<>>
      BY <3>1, <3>2
    <3>4. N!Until(<<>>, {":"}) # <<>>
      BY <2>2 DEF N!NamesAHost
    <3> QED
      BY <3>3, <3>4
  <2>4. N!StartsWith(repo, {"https://"}) /\ ~ N!Contains(N!Until(Tail(repo), Ends), "@")
    BY <2>3 DEF N!Authority, Ends
  <2>5. repo \in Seq(UrlAtoms(S))
    BY DEF UrlAtoms
  <2> QED
    BY <2>1, <2>4, <2>5
<1> QED
  BY <1>1, <1>2

\* Where no user is named, a URL leads to its authority.
LEMMA LeadsToAuthority ==
  ASSUME NEW T, NEW url \in Seq(T), N!StartsWith(url, {"https://"}),
         ~ N!Contains(N!Until(Tail(url), Ends), "@")
  PROVE  N!Leads(url) = N!Authority(url)
<1> DEFINE a == N!Until(Tail(url), Ends)
           users == {i \in DOMAIN a : a[i] = "@"}
<1>1. N!Authority(url) = a
  BY DEF N!Authority, Ends
<1>2. Tail(url) \in Seq(T)
  BY HeadTailProperties DEF N!StartsWith
<1>3. a \in Seq(T)
  <2>1. PICK stop : Stops(Tail(url), Ends, stop) /\ a = SubSeq(Tail(url), 1, stop - 1)
    BY <1>2, UntilIs
  <2>2. stop - 1 \in 0..Len(Tail(url))
    BY <1>2, <2>1 DEF Stops
  <2> HIDE DEF a
  <2> QED
    BY <1>2, <2>1, <2>2, SubSeqProperties
<1> HIDE DEF a
<1>4. DOMAIN a = 1..Len(a) /\ Len(a) \in Nat
  BY <1>3
<1>5. users = {}
  BY <1>4 DEF N!Contains, a
<1>6. N!Leads(url)
        = SubSeq(a, (IF users = {} THEN 0
                     ELSE CHOOSE i \in users : \A j \in users : j <= i) + 1, Len(a))
  BY DEF N!Leads, a, Ends
<1>7. SubSeq(a, 1, Len(a)) = a
  BY <1>3
<1> QED
  BY <1>1, <1>5, <1>6, <1>7

\* A URL with the credential in it and the URL without.
LEMMA UncreditedIs ==
  ASSUME NEW T, "credential" \notin T, "https://" \in T
  PROVE  \A s \in Seq(T) :
            N!FoldLeft(N!Uncredited, <<>>, <<"https://", "credential">> \o s) = <<"https://">> \o s
<1> DEFINE U == T \cup {"credential"}
           p == <<"https://", "credential">>
           o == <<"https://">>
           G == {s \in Seq(T) : UrlIs!Fold(p \o s) = o \o s}
<1>0. "https://" # "credential"
  OBVIOUS
<1>1. <<>> \in G
  <2>1. UrlIs!Fold(<<>>) = <<>>
    BY UrlIs!FoldEmpty
  <2>2. UrlIs!Fold(Append(<<>>, "https://")) = o
    <3>1. UrlIs!Fold(Append(<<>>, "https://")) = N!Uncredited(<<>>, "https://")
      BY <2>1, UrlIs!FoldAppend, EmptySeq
    <3> QED
      BY <3>1 DEF N!Uncredited
  <2>3. Append(<<>>, "https://") = o /\ o \in Seq(U) /\ "credential" \in U /\ p = Append(o, "credential")
    OBVIOUS
  <2>4. UrlIs!Fold(p) = o
    <3>1. UrlIs!Fold(Append(o, "credential")) = N!Uncredited(UrlIs!Fold(o), "credential")
      BY <2>3, UrlIs!FoldAppend
    <3> QED
      BY <2>2, <2>3, <3>1 DEF N!Uncredited
  <2>5. p \o <<>> = p /\ o \o <<>> = o
    OBVIOUS
  <2> QED
    BY <2>4, <2>5, EmptySeq
<1>2. ASSUME NEW s \in Seq(T), NEW x \in T, s \in G PROVE Append(s, x) \in G
  <2>1. p \in Seq(U) /\ o \in Seq(U) /\ s \in Seq(U) /\ x \in U
    OBVIOUS
  <2>2. p \o Append(s, x) = Append(p \o s, x) /\ o \o Append(s, x) = Append(o \o s, x)
        /\ p \o s \in Seq(U)
    BY <2>1
  <2>3. UrlIs!Fold(Append(p \o s, x)) = N!Uncredited(UrlIs!Fold(p \o s), x)
    BY <2>1, <2>2, UrlIs!FoldAppend
  <2>4. N!Uncredited(UrlIs!Fold(p \o s), x) = Append(o \o s, x)
    BY <1>2 DEF N!Uncredited
  <2>5. Append(s, x) \in Seq(T)
    OBVIOUS
  <2> QED
    BY <2>2, <2>3, <2>4, <2>5
<1> HIDE DEF G
<1>3. \A s \in Seq(T) : s \in G
  BY <1>1, <1>2, UrlIs!SeqInduct
<1> QED
  BY <1>3, UrlFold DEF G

\* For every text of whatever atoms: the core's own mark for a credential is
\* not one that can be typed.
LEMMA TokensGoHome ==
  ASSUME NEW S, "credential" \notin S, NEW repo \in Seq(S)
  PROVE  N!TheTokenGoesHome(repo)
<1> DEFINE T == UrlAtoms(S)
           asked == [N!Asking(<<"name">>, FALSE, <<"name">>) EXCEPT !.repo = repo]
           made == N!Create(asked)
           url == N!CloneUrl(made.repo)
           origin == N!Origin(made.repo, TRUE)
<1>1. made.repo = N!Trim(repo)
  BY DEF N!Create, N!Asking
<1>2. N!Trim(repo) \in Seq(S)
  BY TrimCuts, CutType
<1>3. SUFFICES ASSUME ~ N!IsRefusal(made)
               PROVE  /\ origin.token <=> N!Leads(url) \in {<<"github.com">>, <<"GITHUB.COM">>}
                      /\ N!Tokenless(origin) = url
                      /\ ~ N!Contains(N!Scrub(origin, origin.url), "credential")
                      /\ ~ N!Contains(N!Until(Tail(url), Ends), "@")
  BY DEF N!TheTokenGoesHome, Ends
<1>4. N!NamesARepository(made.repo)
  BY <1>1, <1>3 DEF N!Create, N!IsRefusal, N!Asking
<1> HIDE DEF made, T
<1>5. /\ url \in Seq(T) /\ N!StartsWith(url, {"https://"})
      /\ ~ N!Contains(N!Until(Tail(url), Ends), "@")
  BY <1>1, <1>2, <1>4, UrlIsPlain DEF T
<1> HIDE DEF url
<1>6. "credential" \notin T /\ "https://" \in T
  BY DEF T, UrlAtoms
<1>7. url # <<>> /\ Head(url) = "https://" /\ Tail(url) \in Seq(T)
  BY <1>5, HeadTailProperties DEF N!StartsWith
<1>8. url = <<"https://">> \o Tail(url)
  BY <1>5, <1>7
<1> DEFINE credited == <<"https://", "credential">> \o Tail(url)
<1>9. origin = IF N!GithubHosted(url) THEN [token |-> TRUE, url |-> credited]
               ELSE [token |-> FALSE, url |-> url]
  BY DEF N!Origin, url
<1> HIDE DEF origin
<1>10. N!Leads(url) = N!Authority(url)
  BY <1>5, LeadsToAuthority
<1>11. N!GithubHosted(url) <=> N!Leads(url) \in {<<"github.com">>, <<"GITHUB.COM">>}
  BY <1>10 DEF N!GithubHosted
<1>12. N!FoldLeft(N!Uncredited, <<>>, credited) = url
  BY <1>6, <1>7, <1>8, UncreditedIs
<1>13. N!Tokenless(origin) = url
  BY <1>9, <1>12 DEF N!Tokenless
<1>14. ~ N!Contains(N!Scrub(origin, origin.url), "credential")
  <2>1. CASE N!GithubHosted(url)
    <3>1. <<"https://", "credential">> \in Seq(T \cup {"credential"}) /\ Tail(url) \in Seq(T \cup {"credential"})
      BY <1>6, <1>7
    <3>2. credited \in Seq(T \cup {"credential"})
      BY <3>1, ConcatProperties
    <3> HIDE DEF credited
    <3> DEFINE told == [i \in DOMAIN credited |-> IF credited[i] = "credential" THEN "redacted" ELSE credited[i]]
    <3>3. N!Scrub(origin, origin.url) = told
      BY <1>9, <2>1 DEF N!Scrub
    <3>4. DOMAIN told = 1..Len(credited) /\ Len(credited) \in Nat
      BY <3>2
    <3>5. Len(told) = Len(credited)
      BY <3>4
    <3>6. \A i \in 1..Len(told) : told[i] # "credential"
      BY <3>4, <3>5
    <3> QED
      BY <3>3, <3>6 DEF N!Contains
  <2>2. CASE ~ N!GithubHosted(url)
    <3>1. N!Scrub(origin, origin.url) = url
      BY <1>9, <2>2 DEF N!Scrub
    <3> QED
      BY <1>5, <1>6, <3>1 DEF N!Contains
  <2> QED
    BY <2>1, <2>2
<1>15. origin.token <=> N!GithubHosted(url)
  BY <1>9
<1> QED
  BY <1>5, <1>11, <1>13, <1>14, <1>15

-----------------------------------------------------------------------------
(* The environment.                                                        *)

LEMMA PiecesType ==
  ASSUME NEW S, NEW s \in Seq(S) PROVE N!Split(s, "newline") \in Seq(Seq(S))
<1> DEFINE Q == Seq(S)
           G == {t \in Seq(S) : LinesAre!Fold(t) \in Seq(Q) /\ Len(LinesAre!Fold(t)) # 0}
<1>1. <<>> \in G
  <2>1. <<>> \in Q
    BY EmptySeq
  <2> HIDE DEF Q
  <2>2. << <<>> >> \in Seq(Q) /\ Len(<< <<>> >>) = 1
    BY <2>1
  <2> QED
    BY <2>2, LinesAre!FoldEmpty, EmptySeq
<1>2. ASSUME NEW t \in Seq(S), NEW x \in S, t \in G PROVE Append(t, x) \in G
  <2> DEFINE ls == LinesAre!Fold(t)
  <2>1. LinesAre!Fold(Append(t, x)) = Broken(ls, x)
    BY LinesAre!FoldAppend
  <2>2. ls \in Seq(Q) /\ Len(ls) # 0
    BY <1>2
  <2> HIDE DEF ls
  <2>3. \A l \in Q : Append(l, x) \in Q
    BY AppendProperties
  <2>4. <<>> \in Q
    BY EmptySeq
  <2> HIDE DEF Q
  <2>5. Broken(ls, x) \in Seq(Q) /\ Len(Broken(ls, x)) # 0
    <3>1. Append(ls, <<>>) \in Seq(Q) /\ Len(Append(ls, <<>>)) = Len(ls) + 1 /\ Len(ls) \in Nat
      BY <2>2, <2>4, AppendProperties
    <3>2. Len(ls) \in DOMAIN ls /\ ls[Len(ls)] \in Q
      BY <2>2
    <3>3. ASSUME NEW l \in Q
          PROVE  [ls EXCEPT ![Len(ls)] = l] \in Seq(Q) /\ Len([ls EXCEPT ![Len(ls)] = l]) = Len(ls)
      BY <2>2, <3>2, ExceptSeq
    <3>4. Append(ls[Len(ls)], x) \in Q
      BY <2>3, <3>2
    <3> QED
      BY <2>2, <3>1, <3>3, <3>4 DEF Broken
  <2>6. Append(t, x) \in Seq(S)
    BY AppendProperties
  <2> QED
    BY <2>1, <2>5, <2>6 DEF Q
<1> HIDE DEF G
<1>3. \A t \in Seq(S) : t \in G
  BY <1>1, <1>2, LinesAre!SeqInduct
<1> QED
  BY <1>3, LinesFold DEF G

LEMMA LinesType ==
  ASSUME NEW S, NEW raw \in Seq(S) PROVE N!Lines(raw) \in Seq(Seq(S))
<1> DEFINE Q == Seq(S)
           pieces == N!Split(raw, "newline")
<1>1. pieces \in Seq(Q)
  BY PiecesType
<1>2. \A p \in Q : N!Line(p) \in Q
  <2> SUFFICES ASSUME NEW p \in Q PROVE N!Line(p) \in Q
    OBVIOUS
  <2>1. CASE p = <<>>
    BY <2>1 DEF N!Line
  <2>2. CASE p # <<>>
    <3>1. SubSeq(p, 1, Len(p) - 1) \in Q
      BY <2>2, SubSeqProperties
    <3> QED
      BY <3>1 DEF N!Line
  <2> QED
    BY <2>1, <2>2
<1> HIDE DEF Q, pieces
<1>3. /\ Len(pieces) \in Nat /\ DOMAIN pieces = 1..Len(pieces)
      /\ \A i \in 1..Len(pieces) : pieces[i] \in Q
  BY <1>1
<1>4. N!Lines(raw) = [i \in 1..Len(pieces) |-> IF i < Len(pieces) THEN N!Line(pieces[i]) ELSE pieces[i]]
  BY <1>3 DEF N!Lines, pieces
<1>5. N!Lines(raw) \in Seq(Q)
  BY <1>2, <1>3, <1>4
<1> QED
  BY <1>5 DEF Q

\* What a line ends in is none of the blanks it is skipped for.
LEMMA SkippedIs ==
  ASSUME NEW S, NEW line \in Seq(S), N!IsSkipped(N!Line(line)) PROVE N!IsSkipped(line)
<1> SUFFICES ASSUME line # <<>>, N!Last(line) = "return" PROVE N!IsSkipped(line)
  BY DEF N!Line
<1> DEFINE C == N!Blank \cup {"newline"}
           n == Len(line)
           short == SubSeq(line, 1, n - 1)
<1>1. n \in Nat /\ n # 0 /\ DOMAIN line = 1..n /\ line[n] = "return"
  BY DEF N!Last
<1>2. /\ short \in Seq(S) /\ Len(short) = n - 1 /\ DOMAIN short = 1..(n - 1)
      /\ \A i \in 1..(n - 1) : short[i] = line[i]
  BY <1>1, SubSeqProperties
<1>3. "return" \in C
  BY DEF N!Blank
<1>4. {i \in DOMAIN short : short[i] \notin C} = {i \in DOMAIN line : line[i] \notin C}
  BY <1>1, <1>2, <1>3
<1>5. \A a, b \in 1..(n - 1) : SubSeq(short, a, b) = SubSeq(line, a, b)
  <2> SUFFICES ASSUME NEW a \in 1..(n - 1), NEW b \in 1..(n - 1)
               PROVE  SubSeq(short, a, b) = SubSeq(line, a, b)
    OBVIOUS
  <2> HIDE DEF short
  <2> QED
    BY <1>1, <1>2
<1> HIDE DEF short
<1>6. Cut(short, C) = Cut(line, C)
  <2> DEFINE K == {i \in DOMAIN line : line[i] \notin C}
             a == CHOOSE i \in K : \A j \in K : i <= j
             b == CHOOSE i \in K : \A j \in K : j <= i
  <2>1. Cut(line, C) = IF K = {} THEN <<>> ELSE SubSeq(line, a, b)
    BY DEF Cut
  <2>2. Cut(short, C) = IF K = {} THEN <<>> ELSE SubSeq(short, a, b)
    <3> DEFINE M == {i \in DOMAIN short : short[i] \notin C}
    <3>1. Cut(short, C) = IF M = {} THEN <<>>
                          ELSE SubSeq(short, CHOOSE i \in M : \A j \in M : i <= j,
                                             CHOOSE i \in M : \A j \in M : j <= i)
      BY DEF Cut
    <3>2. M = K
      BY <1>4
    <3> HIDE DEF M, K
    <3> QED
      BY <3>1, <3>2, Zenon
  <2>3. CASE K # {}
    <3>1. K \in SUBSET (1..(n - 1)) /\ n - 1 \in Nat
      BY <1>1, <1>2, <1>4
    <3>2. K \in SUBSET Nat
      BY <3>1
    <3>3. a \in K
      BY <2>3, <3>2, FirstOf
    <3>4. b \in K
      BY <2>3, <3>1, LastOf
    <3> HIDE DEF a, b, K
    <3> QED
      BY <1>5, <2>1, <2>2, <3>1, <3>3, <3>4
  <2>4. CASE K = {}
    BY <2>1, <2>2, <2>4
  <2> QED
    BY <2>3, <2>4
<1>7. N!Line(line) = short
  BY DEF N!Line, short
<1> QED
  BY <1>6, <1>7, TrimCuts DEF N!IsSkipped

Name(line) == N!Until(N!Line(line), {"="})
Value(line) == N!After(N!Line(line), {"="})

\* The variables that lines which were not refused come to: none is one of the
\* core's, and each has the value it was given last.
Parsed(parsed, lines) ==
  /\ parsed = [refusal |-> parsed.refusal, env |-> parsed.env]
  /\ parsed.refusal = "none" =>
       /\ \A name \in DOMAIN parsed.env : ~ N!IsReserved(name)
       /\ \A i \in DOMAIN lines :
            ~ N!IsSkipped(lines[i]) /\ (\A j \in (i + 1)..Len(lines) : Name(lines[j]) # Name(lines[i]))
              => /\ Name(lines[i]) \in DOMAIN parsed.env
                 /\ parsed.env[Name(lines[i])] = Value(lines[i])

LEMMA ParsesLine ==
  ASSUME NEW S, NEW lines \in Seq(Seq(S)), NEW line \in Seq(S), NEW parsed, Parsed(parsed, lines)
  PROVE  Parsed(N!ParseLine(parsed, line), Append(lines, line))
<1> DEFINE Q == Seq(S)
           next == N!ParseLine(parsed, line)
           all == Append(lines, line)
           n == Len(lines)
<1>1. N!IsSkipped(N!Line(line)) => N!IsSkipped(line)
  BY SkippedIs
<1>2. lines \in Seq(Q) /\ line \in Q
  OBVIOUS
<1> HIDE DEF Q
<1>3. /\ n \in Nat /\ DOMAIN lines = 1..n /\ DOMAIN all = 1..(n + 1) /\ Len(all) = n + 1
      /\ all[n + 1] = line /\ \A i \in 1..n : all[i] = lines[i]
  BY <1>2, AppendProperties
<1> HIDE DEF all
<1>4. CASE parsed.refusal # "none"
  BY <1>4 DEF N!ParseLine, Parsed
<1>5. CASE parsed.refusal = "none" /\ N!IsSkipped(N!Line(line))
  <2>1. next = parsed
    BY <1>5 DEF N!ParseLine
  <2>2. ASSUME NEW i \in DOMAIN all, ~ N!IsSkipped(all[i]),
               \A j \in (i + 1)..Len(all) : Name(all[j]) # Name(all[i])
        PROVE  Name(all[i]) \in DOMAIN parsed.env /\ parsed.env[Name(all[i])] = Value(all[i])
    <3>1. i \in 1..n /\ all[i] = lines[i]
      BY <1>1, <1>3, <1>5, <2>2
    <3>2. \A j \in (i + 1)..n : Name(lines[j]) # Name(lines[i])
      BY <1>3, <2>2, <3>1
    <3> QED
      BY <1>3, <1>5, <2>2, <3>1, <3>2 DEF Parsed
  <2> HIDE DEF next
  <2>3. Parsed(next, all)
    BY <1>5, <2>1, <2>2 DEF Parsed
  <2> QED
    BY <2>3 DEF next, all
<1>6. CASE parsed.refusal = "none" /\ ~ N!IsSkipped(N!Line(line)) /\ N!Refusal(N!Line(line)) # "none"
  <2>1. next = [parsed EXCEPT !.refusal = N!Refusal(N!Line(line))]
    BY <1>6 DEF N!ParseLine
  <2>2. next = [refusal |-> N!Refusal(N!Line(line)), env |-> parsed.env]
    BY <2>1 DEF Parsed
  <2> HIDE DEF next
  <2>3. Parsed(next, all)
    BY <1>6, <2>2 DEF Parsed
  <2> QED
    BY <2>3 DEF next, all
<1>7. CASE parsed.refusal = "none" /\ ~ N!IsSkipped(N!Line(line)) /\ N!Refusal(N!Line(line)) = "none"
  <2> DEFINE name == Name(line)
             env == [m \in DOMAIN parsed.env \cup {name} |->
                       IF m = name THEN Value(line) ELSE parsed.env[m]]
  <2>1. next = [parsed EXCEPT !.env = env]
    BY <1>7 DEF N!ParseLine, Name, Value
  <2>2. next = [refusal |-> "none", env |-> env]
    BY <1>7, <2>1 DEF Parsed
  <2>3. ~ N!IsReserved(name)
    BY <1>7 DEF N!Refusal, Name
  <2>4. DOMAIN env = DOMAIN parsed.env \cup {name} /\ env[name] = Value(line)
        /\ \A m \in DOMAIN parsed.env : m # name => env[m] = parsed.env[m]
    OBVIOUS
  <2> HIDE DEF next, env
  <2>5. ASSUME NEW i \in DOMAIN all, ~ N!IsSkipped(all[i]),
               \A j \in (i + 1)..Len(all) : Name(all[j]) # Name(all[i])
        PROVE  Name(all[i]) \in DOMAIN env /\ env[Name(all[i])] = Value(all[i])
    <3>1. CASE i = n + 1
      BY <1>3, <2>4, <3>1
    <3>2. CASE i # n + 1
      <4>1. i \in 1..n /\ all[i] = lines[i] /\ n + 1 \in (i + 1)..Len(all)
        BY <1>3, <3>2
      <4>2. Name(lines[i]) # name
        BY <1>3, <2>5, <4>1
      <4>3. \A j \in (i + 1)..n : Name(lines[j]) # Name(lines[i])
        BY <1>3, <2>5, <4>1
      <4>4. Name(lines[i]) \in DOMAIN parsed.env /\ parsed.env[Name(lines[i])] = Value(lines[i])
        BY <1>3, <1>7, <2>5, <4>1, <4>3 DEF Parsed
      <4> QED
        BY <2>4, <4>1, <4>2, <4>4
    <3> QED
      BY <3>1, <3>2
  <2>6. \A m \in DOMAIN env : ~ N!IsReserved(m)
    BY <1>7, <2>3, <2>4 DEF Parsed
  <2>7. Parsed(next, all)
    BY <2>2, <2>5, <2>6 DEF Parsed
  <2> QED
    BY <2>7 DEF next, all
<1> QED
  BY <1>4, <1>5, <1>6, <1>7

LEMMA ParsesLines ==
  ASSUME NEW S, NEW lines \in Seq(Seq(S)) PROVE Parsed(EnvIs!Fold(lines), lines)
<1> DEFINE Q == Seq(S)
           G == {ls \in Seq(Q) : Parsed(EnvIs!Fold(ls), ls)}
<1>1. <<>> \in G
  <2>1. EnvIs!Fold(<<>>) = [refusal |-> "none", env |-> <<>>]
    BY EnvIs!FoldEmpty DEF N!Unparsed
  <2>2. DOMAIN <<>> = {}
    OBVIOUS
  <2>3. Parsed([refusal |-> "none", env |-> <<>>], <<>>)
    BY <2>2 DEF Parsed
  <2> HIDE DEF Q
  <2> QED
    BY <2>1, <2>3, EmptySeq
<1>2. ASSUME NEW ls \in Seq(Q), NEW l \in Q, ls \in G PROVE Append(ls, l) \in G
  <2>1. EnvIs!Fold(Append(ls, l)) = N!ParseLine(EnvIs!Fold(ls), l)
    BY EnvIs!FoldAppend
  <2>2. Parsed(N!ParseLine(EnvIs!Fold(ls), l), Append(ls, l))
    BY <1>2, ParsesLine
  <2>3. Append(ls, l) \in Seq(Q)
    BY AppendProperties
  <2> QED
    BY <2>1, <2>2, <2>3
<1> HIDE DEF G
<1>3. \A ls \in Seq(Q) : ls \in G
  BY <1>1, <1>2, EnvIs!SeqInduct
<1> QED
  BY <1>3 DEF G

LEMMA EnvReaches ==
  ASSUME NEW S, NEW raw \in Seq(S) PROVE N!FormEnvReachesTheAgent(raw)
<1> DEFINE parsed == N!ParseEnv(raw)
           lines == N!Lines(raw)
<1>1. Parsed(parsed, lines)
  <2>1. lines \in Seq(Seq(S))
    BY LinesType
  <2> QED
    BY <2>1, EnvFold, ParsesLines DEF N!ParseEnv
<1> HIDE DEF parsed, lines
<1>2. ASSUME parsed.refusal = "none", NEW held \in N!Held
      PROVE  LET env == N!SpawnEnv(held, parsed.env)
             IN  /\ \A i \in DOMAIN lines :
                      ~ N!IsSkipped(lines[i]) /\ (\A j \in (i + 1)..Len(lines) : Name(lines[j]) # Name(lines[i]))
                        => env[Name(lines[i])] = Value(lines[i])
                 /\ {k \in N!Kinds : <<k>> \in DOMAIN env} \subseteq {held.anthropic}
  <2> DEFINE env == N!SpawnEnv(held, parsed.env)
             given == N!Given(held)
  <2>1. \A name \in given : N!IsReserved(name)
    BY DEF N!Given, N!IsReserved, N!ReservedEnvNames
  <2>2. \A k \in N!Kinds : N!IsReserved(<<k>>)
    BY DEF N!IsReserved, N!ReservedEnvNames
  <2>3. \A k \in N!Kinds : <<k>> \in given => k = held.anthropic
    BY DEF N!Given, N!Kinds, N!GithubTokenVariables
  <2>4. /\ DOMAIN env = given \cup DOMAIN parsed.env
        /\ \A name \in DOMAIN parsed.env : name \notin given => env[name] = parsed.env[name]
    BY DEF N!SpawnEnv
  <2> HIDE DEF env, given
  <2>5. \A name \in DOMAIN parsed.env : ~ N!IsReserved(name)
    BY <1>1, <1>2 DEF Parsed
  <2>6. ASSUME NEW i \in DOMAIN lines, ~ N!IsSkipped(lines[i]),
               \A j \in (i + 1)..Len(lines) : Name(lines[j]) # Name(lines[i])
        PROVE  env[Name(lines[i])] = Value(lines[i])
    <3>1. Name(lines[i]) \in DOMAIN parsed.env /\ parsed.env[Name(lines[i])] = Value(lines[i])
      BY <1>1, <1>2, <2>6 DEF Parsed
    <3> QED
      BY <2>1, <2>4, <2>5, <3>1
  <2>7. {k \in N!Kinds : <<k>> \in DOMAIN env} \subseteq {held.anthropic}
    BY <2>2, <2>3, <2>4, <2>5
  <2> QED
    BY <2>6, <2>7 DEF env
<1> QED
  BY <1>2 DEF N!FormEnvReachesTheAgent, Name, Value, parsed, lines

-----------------------------------------------------------------------------
(* The slug.                                                               *)

Slugs == N!Alphanumeric \cup {"-"}
Worded(c) == N!Lowered(c) \in N!Alphanumeric
Hyphens(typed) == N!FoldLeft(N!Hyphenated, <<>>, typed)

LEMMA SlugFold == ASSUME NEW s PROVE Hyphens(s) = SlugIs!Fold(s)
BY DEF Hyphens, N!FoldLeft, N!MapThenFoldSet, N!Max,
       SlugIs!Fold, SlugIs!FoldLeft, SlugIs!MapThenFoldSet, SlugIs!Max

LEMMA HyphensStep ==
  /\ Hyphens(<<>>) = <<>>
  /\ \A S : \A s \in Seq(S), x \in S : Hyphens(Append(s, x)) = N!Hyphenated(Hyphens(s), x)
BY SlugFold, SlugIs!FoldEmpty, SlugIs!FoldAppend

LEMMA HyphenIsNone == "-" \notin N!Alphanumeric
BY DEF N!Alphanumeric, N!Letters

\* A slug has no hyphen doubled, and ends in one where what was typed ends in
\* something else than a word.
Dashed(slug, typed) ==
  /\ slug \in Seq(Slugs)
  /\ \A i \in 1..(Len(slug) - 1) : slug[i] = "-" => slug[i + 1] # "-"
  /\ slug = <<>> <=> typed = <<>>
  /\ typed # <<>> => (slug[Len(slug)] = "-" <=> ~ Worded(typed[Len(typed)]))

LEMMA HyphensOnce == ASSUME NEW S, NEW typed \in Seq(S) PROVE Dashed(Hyphens(typed), typed)
<1> DEFINE G == {t \in Seq(S) : Dashed(Hyphens(t), t)}
<1>1. <<>> \in G
  <2>1. Dashed(<<>>, <<>>)
    BY EmptySeq DEF Dashed
  <2> QED
    BY <2>1, HyphensStep, EmptySeq
<1>2. ASSUME NEW t \in Seq(S), NEW x \in S, t \in G PROVE Append(t, x) \in G
  <2> DEFINE d == Hyphens(t)
             e == N!Hyphenated(d, x)
             all == Append(t, x)
             n == Len(d)
  <2>1. Hyphens(all) = e
    BY HyphensStep
  <2>2. Dashed(d, t)
    BY <1>2
  <2>3. all \in Seq(S) /\ all # <<>> /\ all[Len(all)] = x
    BY AppendProperties
  <2>9. Dashed(e, all) => Append(t, x) \in G
    BY <2>1, <2>3
  <2> HIDE DEF G, d, all
  <2>4. d \in Seq(Slugs) /\ n \in Nat
    BY <2>2 DEF Dashed
  <2>5. \A y : y \in Slugs =>
           /\ Append(d, y) \in Seq(Slugs) /\ Len(Append(d, y)) = n + 1 /\ Append(d, y) # <<>>
           /\ Append(d, y)[n + 1] = y /\ \A i \in 1..n : Append(d, y)[i] = d[i]
    BY <2>4, AppendProperties
  <2>6. CASE Worded(x)
    <3> DEFINE y == N!Lowered(x)
    <3>1. e = Append(d, y) /\ y \in Slugs /\ y # "-"
      BY <2>6, HyphenIsNone DEF N!Hyphenated, Worded, Slugs
    <3> HIDE DEF e, y
    <3>2. e \in Seq(Slugs) /\ Len(e) = n + 1 /\ e # <<>> /\ e[n + 1] = y /\ \A i \in 1..n : e[i] = d[i]
      BY <2>5, <3>1
    <3>3. \A i \in 1..n : e[i] = "-" => e[i + 1] # "-"
      <4> SUFFICES ASSUME NEW i \in 1..n, e[i] = "-" PROVE e[i + 1] # "-"
        OBVIOUS
      <4>1. CASE i = n
        BY <3>1, <3>2, <4>1
      <4>2. CASE i # n
        <5>1. i \in 1..(n - 1) /\ i + 1 \in 1..n
          BY <2>4, <4>2
        <5> QED
          BY <2>2, <3>2, <5>1 DEF Dashed
      <4> QED
        BY <4>1, <4>2
    <3>4. Len(e) - 1 = n
      BY <2>4, <3>2
    <3>5. Dashed(e, all)
      BY <2>3, <2>6, <3>1, <3>2, <3>3, <3>4 DEF Dashed
    <3> QED
      BY <2>9, <3>5
  <2>7. CASE ~ Worded(x) /\ d # <<>> /\ d[n] = "-"
    <3>1. e = d
      BY <2>7 DEF N!Hyphenated, Worded, N!Last
    <3> HIDE DEF e
    <3>2. Dashed(d, all)
      BY <2>2, <2>3, <2>7 DEF Dashed
    <3> QED
      BY <2>9, <3>1, <3>2
  <2>8. CASE ~ Worded(x) /\ ~ (d # <<>> /\ d[n] = "-")
    <3>1. e = Append(d, "-") /\ "-" \in Slugs
      BY <2>8 DEF N!Hyphenated, Worded, N!Last, Slugs
    <3> HIDE DEF e
    <3>2. e \in Seq(Slugs) /\ Len(e) = n + 1 /\ e # <<>> /\ e[n + 1] = "-" /\ \A i \in 1..n : e[i] = d[i]
      BY <2>5, <3>1
    <3>3. \A i \in 1..n : e[i] = "-" => e[i + 1] # "-"
      <4> SUFFICES ASSUME NEW i \in 1..n, e[i] = "-" PROVE e[i + 1] # "-"
        OBVIOUS
      <4>1. i # n
        <5>1. d # <<>>
          BY <2>4
        <5> QED
          BY <2>8, <3>2, <5>1
      <4>2. i \in 1..(n - 1) /\ i + 1 \in 1..n
        BY <2>4, <4>1
      <4> QED
        BY <2>2, <3>2, <4>2 DEF Dashed
    <3>4. Len(e) - 1 = n
      BY <2>4, <3>2
    <3>5. Dashed(e, all)
      BY <2>3, <2>8, <3>2, <3>3, <3>4 DEF Dashed
    <3> QED
      BY <2>9, <3>5
  <2> QED
    BY <2>6, <2>7, <2>8
<1> HIDE DEF G
<1>3. \A t \in Seq(S) : t \in G
  BY <1>1, <1>2, SlugIs!SeqInduct
<1> QED
  BY <1>3 DEF G

\* One more character that is no word's leaves the slug, or adds a hyphen.
LEMMA HyphensNoWord ==
  ASSUME NEW S, NEW s \in Seq(S), NEW x \in S, ~ Worded(x)
  PROVE  Hyphens(Append(s, x)) \in {Hyphens(s), Append(Hyphens(s), "-")}
BY HyphensStep DEF N!Hyphenated, Worded

-----------------------------------------------------------------------------
(* What is cut off the ends of a slug.                                     *)

LEMMA CutIsThat ==
  ASSUME NEW S, NEW s \in Seq(S), NEW characters
  PROVE  /\ (\A i \in DOMAIN s : s[i] \in characters) => Cut(s, characters) = <<>>
         /\ \A a, b : Cuts(s, characters, a, b) => Cut(s, characters) = SubSeq(s, a, b)
<1>1. DOMAIN s = 1..Len(s) /\ Len(s) \in Nat
  OBVIOUS
<1>2. \A a, b, c, d : Cuts(s, characters, a, b) /\ Cuts(s, characters, c, d) => a = c /\ b = d
  BY <1>1 DEF Cuts
<1>3. \A a, b : Cuts(s, characters, a, b) => ~ \A i \in DOMAIN s : s[i] \in characters
  BY DEF Cuts
<1> QED
  BY <1>2, <1>3, CutIs

LEMMA Unhyphenates == ASSUME NEW s PROVE N!Unhyphenated(s) = Cut(s, {"-"})
<1> DEFINE K == {i \in DOMAIN s : s[i] # "-"}
           M == {i \in DOMAIN s : s[i] \notin {"-"}}
<1>1. N!Unhyphenated(s) = IF K = {} THEN <<>>
                          ELSE SubSeq(s, CHOOSE i \in K : \A j \in K : i <= j,
                                         CHOOSE i \in K : \A j \in K : j <= i)
  BY DEF N!Unhyphenated
<1>2. Cut(s, {"-"}) = IF M = {} THEN <<>>
                      ELSE SubSeq(s, CHOOSE i \in M : \A j \in M : i <= j,
                                     CHOOSE i \in M : \A j \in M : j <= i)
  BY DEF Cut
<1>3. K = M
  OBVIOUS
<1> HIDE DEF K, M
<1> QED
  BY <1>1, <1>2, <1>3, Zenon

LEMMA CutAppend ==
  ASSUME NEW S, NEW s \in Seq(S), NEW x \in S
  PROVE  Cut(Append(s, x), {x}) = Cut(s, {x})
<1> DEFINE all == Append(s, x)
           n == Len(s)
<1>1. /\ n \in Nat /\ DOMAIN s = 1..n /\ DOMAIN all = 1..(n + 1) /\ all \in Seq(S)
      /\ all[n + 1] = x /\ \A i \in 1..n : all[i] = s[i]
  BY AppendProperties
<1>2. \A a, b \in 1..n : SubSeq(all, a, b) = SubSeq(s, a, b)
  <2> SUFFICES ASSUME NEW a \in 1..n, NEW b \in 1..n PROVE SubSeq(all, a, b) = SubSeq(s, a, b)
    OBVIOUS
  <2>1. Len(all) = n + 1
    BY <1>1
  <2> HIDE DEF all
  <2> QED
    BY <1>1, <2>1
<1> HIDE DEF all
<1>3. CASE \E a, b : Cuts(s, {x}, a, b)
  <2>1. PICK a, b : Cuts(s, {x}, a, b)
    BY <1>3
  <2>2. Cuts(all, {x}, a, b) /\ a \in 1..n /\ b \in 1..n
    BY <1>1, <2>1 DEF Cuts
  <2>3. Cut(all, {x}) = SubSeq(all, a, b) /\ Cut(s, {x}) = SubSeq(s, a, b)
    BY <1>1, <2>1, <2>2, CutIsThat
  <2>4. Cut(all, {x}) = Cut(s, {x})
    BY <1>2, <2>2, <2>3
  <2> QED
    BY <2>4 DEF all
<1>4. CASE \A i \in DOMAIN s : s[i] \in {x}
  <2>1. \A i \in DOMAIN all : all[i] \in {x}
    BY <1>1, <1>4
  <2>2. Cut(all, {x}) = <<>> /\ Cut(s, {x}) = <<>>
    BY <1>1, <1>4, <2>1, CutIsThat
  <2> QED
    BY <2>2 DEF all
<1> QED
  BY <1>3, <1>4, CutIs

LEMMA CutPrepend ==
  ASSUME NEW S, NEW s \in Seq(S), NEW x \in S
  PROVE  Cut(<<x>> \o s, {x}) = Cut(s, {x})
<1> DEFINE all == <<x>> \o s
           n == Len(s)
<1>1. /\ n \in Nat /\ DOMAIN s = 1..n /\ DOMAIN all = 1..(n + 1) /\ all \in Seq(S)
      /\ all[1] = x /\ \A i \in 1..n : all[i + 1] = s[i]
  <2>1. <<x>> \in Seq(S) /\ Len(<<x>>) = 1 /\ <<x>>[1] = x
    OBVIOUS
  <2>2. all \in Seq(S) /\ Len(all) = 1 + n /\ all[1] = <<x>>[1] /\ \A i \in 1..n : all[1 + i] = s[i]
    BY <2>1, ConcatProperties
  <2> HIDE DEF all
  <2> QED
    BY <2>1, <2>2
<1>2. \A a, b \in 1..n : SubSeq(all, a + 1, b + 1) = SubSeq(s, a, b)
  <2> SUFFICES ASSUME NEW a \in 1..n, NEW b \in 1..n
               PROVE  SubSeq(all, a + 1, b + 1) = SubSeq(s, a, b)
    OBVIOUS
  <2>1. Len(all) = n + 1
    BY <1>1
  <2> HIDE DEF all
  <2> DEFINE u == SubSeq(all, a + 1, b + 1)
             v == SubSeq(s, a, b)
  <2>2. /\ u \in Seq(S) /\ Len(u) = (IF a + 1 <= b + 1 THEN (b + 1) - (a + 1) + 1 ELSE 0)
        /\ \A i \in 1..((b + 1) - (a + 1) + 1) : u[i] = all[(a + 1) + i - 1]
    BY <1>1, <2>1, SubSeqProperties
  <2>3. /\ v \in Seq(S) /\ Len(v) = (IF a <= b THEN b - a + 1 ELSE 0)
        /\ \A i \in 1..(b - a + 1) : v[i] = s[a + i - 1]
    BY <1>1, SubSeqProperties
  <2> HIDE DEF u, v
  <2>4. Len(u) = Len(v)
    BY <2>2, <2>3
  <2>5. ASSUME NEW i \in 1..Len(u) PROVE u[i] = v[i]
    <3>1. i \in 1..((b + 1) - (a + 1) + 1) /\ i \in 1..(b - a + 1)
      BY <2>2
    <3>2. (a + 1) + i - 1 = (a + i - 1) + 1 /\ a + i - 1 \in 1..n
      BY <3>1
    <3>3. all[(a + i - 1) + 1] = s[a + i - 1]
      BY <1>1, <3>2
    <3> QED
      BY <2>2, <2>3, <3>1, <3>2, <3>3
  <2>6. u = v
    <3>1. u = [i \in 1..Len(u) |-> u[i]] /\ v = [i \in 1..Len(v) |-> v[i]]
      BY <2>2, <2>3
    <3> QED
      BY <2>4, <2>5, <3>1
  <2> QED
    BY <2>6 DEF u, v
<1> HIDE DEF all
<1>3. CASE \E a, b : Cuts(s, {x}, a, b)
  <2>1. PICK a, b : Cuts(s, {x}, a, b)
    BY <1>3
  <2>2. a \in 1..n /\ b \in 1..n
    BY <1>1, <2>1 DEF Cuts
  <2>3. Cuts(all, {x}, a + 1, b + 1)
    <3>1. ASSUME NEW i \in DOMAIN all, i < a + 1 \/ b + 1 < i PROVE all[i] \in {x}
      <4>1. CASE i = 1
        BY <1>1, <4>1
      <4>2. CASE i # 1
        <5>1. i - 1 \in 1..n /\ (i - 1) + 1 = i /\ (i - 1 < a \/ b < i - 1)
          BY <1>1, <2>2, <3>1, <4>2
        <5>2. s[i - 1] \in {x}
          BY <1>1, <2>1, <5>1 DEF Cuts
        <5>3. all[(i - 1) + 1] = s[i - 1]
          BY <1>1, <5>1
        <5> QED
          BY <5>1, <5>2, <5>3
      <4> QED
        BY <4>1, <4>2
    <3>2. all[a + 1] = s[a] /\ all[b + 1] = s[b]
      BY <1>1, <2>2
    <3>3. a + 1 \in DOMAIN all /\ b + 1 \in DOMAIN all /\ a + 1 <= b + 1
      BY <1>1, <2>1, <2>2 DEF Cuts
    <3> QED
      BY <2>1, <3>1, <3>2, <3>3 DEF Cuts
  <2>4. Cut(all, {x}) = SubSeq(all, a + 1, b + 1) /\ Cut(s, {x}) = SubSeq(s, a, b)
    BY <1>1, <2>1, <2>3, CutIsThat
  <2>5. Cut(all, {x}) = Cut(s, {x})
    BY <1>2, <2>2, <2>4
  <2> QED
    BY <2>5 DEF all
<1>4. CASE \A i \in DOMAIN s : s[i] \in {x}
  <2>1. ASSUME NEW i \in DOMAIN all PROVE all[i] \in {x}
    <3>1. CASE i = 1
      BY <1>1, <3>1
    <3>2. CASE i # 1
      <4>1. i - 1 \in 1..n /\ (i - 1) + 1 = i
        BY <1>1, <3>2
      <4> QED
        BY <1>1, <1>4, <4>1
    <3> QED
      BY <3>1, <3>2
  <2>2. Cut(all, {x}) = <<>> /\ Cut(s, {x}) = <<>>
    BY <1>1, <1>4, <2>1, CutIsThat
  <2> QED
    BY <2>2 DEF all
<1> QED
  BY <1>3, <1>4, CutIs

-----------------------------------------------------------------------------
(* A slug is the same with and without the blanks around what was typed.   *)

LEMMA BlanksAfter ==
  ASSUME NEW S, NEW s \in Seq(S), NEW q \in Seq(S), \A i \in DOMAIN q : ~ Worded(q[i])
  PROVE  N!Slugify(s \o q) = N!Slugify(s)
<1> DEFINE D == {x \in S : ~ Worded(x)}
           G == {t \in Seq(D) : N!Slugify(s \o t) = N!Slugify(s)}
<1>0. \A t : N!Slugify(t) = Cut(Hyphens(t), {"-"})
  BY Unhyphenates DEF N!Slugify, Hyphens
<1>1. <<>> \in G
  <2>1. s \o <<>> = s
    OBVIOUS
  <2> QED
    BY <2>1, EmptySeq
<1>2. ASSUME NEW t \in Seq(D), NEW x \in D, t \in G PROVE Append(t, x) \in G
  <2>1. t \in Seq(S) /\ x \in S /\ ~ Worded(x)
    OBVIOUS
  <2>2. s \o t \in Seq(S) /\ s \o Append(t, x) = Append(s \o t, x)
    BY <2>1
  <2> DEFINE d == Hyphens(s \o t)
  <2>3. Hyphens(Append(s \o t, x)) \in {d, Append(d, "-")}
    BY <2>1, <2>2, HyphensNoWord
  <2>4. d \in Seq(Slugs) /\ "-" \in Slugs
    BY <2>2, HyphensOnce DEF Dashed, Slugs
  <2> HIDE DEF d
  <2>5. Cut(Append(d, "-"), {"-"}) = Cut(d, {"-"})
    BY <2>4, CutAppend
  <2>6. Cut(Hyphens(Append(s \o t, x)), {"-"}) = Cut(d, {"-"})
    BY <2>3, <2>5
  <2>7. N!Slugify(s \o Append(t, x)) = N!Slugify(s \o t)
    BY <1>0, <2>2, <2>6 DEF d
  <2>8. Append(t, x) \in Seq(D)
    BY AppendProperties
  <2> QED
    BY <1>2, <2>7, <2>8
<1> HIDE DEF G
<1>3. \A t \in Seq(D) : t \in G
  BY <1>1, <1>2, SlugIs!SeqInduct
<1>4. q \in Seq(D)
  <2>1. \A i \in 1..Len(q) : q[i] \in D
    OBVIOUS
  <2>2. Len(q) \in Nat /\ q = [i \in 1..Len(q) |-> q[i]]
    OBVIOUS
  <2> HIDE DEF D
  <2> QED
    BY <2>1, <2>2
<1> QED
  BY <1>3, <1>4 DEF G

LEMMA BlanksAlone ==
  ASSUME NEW S, NEW q \in Seq(S), \A i \in DOMAIN q : ~ Worded(q[i])
  PROVE  Hyphens(q) \in {<<>>, <<"-">>}
<1> DEFINE D == {x \in S : ~ Worded(x)}
           G == {t \in Seq(D) : Hyphens(t) \in {<<>>, <<"-">>}}
<1>1. <<>> \in G
  BY HyphensStep, EmptySeq
<1>2. ASSUME NEW t \in Seq(D), NEW x \in D, t \in G PROVE Append(t, x) \in G
  <2>1. Hyphens(Append(t, x)) = N!Hyphenated(Hyphens(t), x)
    BY HyphensStep
  <2>2. ~ Worded(x)
    OBVIOUS
  <2>3. N!Hyphenated(<<>>, x) = <<"-">>
    BY <2>2 DEF N!Hyphenated, Worded
  <2>4. N!Hyphenated(<<"-">>, x) = <<"-">>
    BY <2>2 DEF N!Hyphenated, Worded, N!Last
  <2>5. Append(t, x) \in Seq(D)
    BY AppendProperties
  <2> QED
    BY <1>2, <2>1, <2>3, <2>4, <2>5
<1> HIDE DEF G
<1>3. \A t \in Seq(D) : t \in G
  BY <1>1, <1>2, SlugIs!SeqInduct
<1>4. q \in Seq(D)
  <2>1. \A i \in 1..Len(q) : q[i] \in D
    OBVIOUS
  <2>2. Len(q) \in Nat /\ q = [i \in 1..Len(q) |-> q[i]]
    OBVIOUS
  <2> HIDE DEF D
  <2> QED
    BY <2>1, <2>2
<1> QED
  BY <1>3, <1>4 DEF G

LEMMA BlanksBefore ==
  ASSUME NEW S, NEW s \in Seq(S), NEW p \in Seq(S), \A i \in DOMAIN p : ~ Worded(p[i])
  PROVE  N!Slugify(p \o s) = N!Slugify(s)
<1> DEFINE G == {t \in Seq(S) : Hyphens(p \o t) \in {Hyphens(t), <<"-">> \o Hyphens(t)}}
<1>0. \A t : N!Slugify(t) = Cut(Hyphens(t), {"-"})
  BY Unhyphenates DEF N!Slugify, Hyphens
<1>1. <<>> \in G
  <2>1. p \o <<>> = p /\ <<"-">> \o <<>> = <<"-">>
    OBVIOUS
  <2> QED
    BY <2>1, BlanksAlone, HyphensStep, EmptySeq
<1>2. ASSUME NEW t \in Seq(S), NEW x \in S, t \in G PROVE Append(t, x) \in G
  <2> DEFINE d == Hyphens(t)
             e == Hyphens(p \o t)
  <2>1. p \o t \in Seq(S) /\ p \o Append(t, x) = Append(p \o t, x) /\ Append(t, x) \in Seq(S)
    OBVIOUS
  <2>2. Hyphens(Append(t, x)) = N!Hyphenated(d, x) /\ Hyphens(Append(p \o t, x)) = N!Hyphenated(e, x)
    BY <2>1, HyphensStep
  <2>3. d \in Seq(Slugs)
    BY HyphensOnce DEF Dashed
  <2>4. e = d \/ e = <<"-">> \o d
    BY <1>2
  <2> HIDE DEF d, e
  <2>5. CASE e = d
    BY <2>1, <2>2, <2>5
  <2>6. CASE e = <<"-">> \o d
    <3>1. <<"-">> \in Seq(Slugs)
      BY DEF Slugs
    <3>2. \A y : y \in Slugs => <<"-">> \o Append(d, y) = Append(<<"-">> \o d, y)
      BY <2>3, <3>1
    <3>3. CASE Worded(x)
      <4>1. N!Lowered(x) \in Slugs
        BY <3>3 DEF Worded, Slugs
      <4>2. N!Hyphenated(d, x) = Append(d, N!Lowered(x)) /\ N!Hyphenated(e, x) = Append(e, N!Lowered(x))
        BY <3>3 DEF N!Hyphenated, Worded
      <4> QED
        BY <2>1, <2>2, <2>6, <3>2, <4>1, <4>2
    <3>4. CASE ~ Worded(x) /\ d = <<>>
      <4>1. e = <<"-">>
        BY <2>6, <3>4
      <4>2. N!Hyphenated(<<>>, x) = <<"-">>
        BY <3>4 DEF N!Hyphenated, Worded
      <4>3. N!Hyphenated(<<"-">>, x) = <<"-">>
        BY <3>4 DEF N!Hyphenated, Worded, N!Last
      <4> QED
        BY <2>1, <2>2, <3>4, <4>1, <4>2, <4>3
    <3>5. CASE ~ Worded(x) /\ d # <<>>
      <4>1. Len(d) \in Nat /\ Len(d) # 0
        BY <2>3, <3>5
      <4>2. e \in Seq(Slugs) /\ Len(e) = 1 + Len(d) /\ e[1 + Len(d)] = d[Len(d)] /\ e # <<>>
        BY <2>3, <2>6, <3>1, <4>1, ConcatProperties
      <4>3. N!Last(e) = N!Last(d)
        BY <4>2 DEF N!Last
      <4>4. "-" \in Slugs
        BY DEF Slugs
      <4>5. CASE N!Last(d) = "-"
        <5>1. N!Hyphenated(d, x) = d /\ N!Hyphenated(e, x) = e
          BY <3>5, <4>2, <4>3, <4>5 DEF N!Hyphenated, Worded
        <5> QED
          BY <2>1, <2>2, <2>6, <5>1
      <4>6. CASE N!Last(d) # "-"
        <5>1. N!Hyphenated(d, x) = Append(d, "-") /\ N!Hyphenated(e, x) = Append(e, "-")
          BY <3>5, <4>3, <4>6 DEF N!Hyphenated, Worded
        <5> QED
          BY <2>1, <2>2, <2>6, <3>2, <4>4, <5>1
      <4> QED
        BY <4>5, <4>6
    <3> QED
      BY <3>3, <3>4, <3>5
  <2> QED
    BY <2>4, <2>5, <2>6
<1> HIDE DEF G
<1>3. s \in G
  BY <1>1, <1>2, SlugIs!SeqInduct
<1> DEFINE d == Hyphens(s)
<1>4. Hyphens(p \o s) \in {d, <<"-">> \o d}
  BY <1>3 DEF G
<1>5. d \in Seq(Slugs) /\ "-" \in Slugs
  BY HyphensOnce DEF Dashed, Slugs
<1> HIDE DEF d
<1>6. Cut(<<"-">> \o d, {"-"}) = Cut(d, {"-"})
  BY <1>5, CutPrepend
<1>7. Cut(Hyphens(p \o s), {"-"}) = Cut(d, {"-"})
  BY <1>4, <1>6
<1> QED
  BY <1>0, <1>7 DEF d

LEMMA TrimSlugs ==
  ASSUME NEW S, NEW typed \in Seq(S) PROVE N!Slugify(N!Trim(typed)) = N!Slugify(typed)
<1> DEFINE blanks == N!Blank \cup {"newline"}
           n == Len(typed)
<1>1. \A c \in blanks : ~ Worded(c)
  BY DEF Worded, N!Lowered, N!Alphanumeric, N!Letters, N!Blank
<1>2. N!Trim(typed) = Cut(typed, blanks)
  BY TrimCuts
<1>3. DOMAIN typed = 1..n /\ n \in Nat
  OBVIOUS
<1> HIDE DEF blanks, n
<1>4. CASE (\A i \in DOMAIN typed : typed[i] \in blanks) /\ Cut(typed, blanks) = <<>>
  <2>1. Hyphens(typed) \in {<<>>, <<"-">>}
    BY <1>1, <1>4, BlanksAlone
  <2>2. Cut(<<"-">>, {"-"}) = <<>>
    <3>1. <<"-">> \in Seq({"-"}) /\ \A i \in DOMAIN <<"-">> : <<"-">>[i] \in {"-"}
      OBVIOUS
    <3> QED
      BY <3>1, CutIsThat
  <2>3. Cut(<<>>, {"-"}) = <<>>
    BY DEF Cut
  <2>4. Cut(Hyphens(typed), {"-"}) = <<>> /\ Cut(Hyphens(<<>>), {"-"}) = <<>>
    BY <2>1, <2>2, <2>3, HyphensStep
  <2> QED
    BY <1>2, <1>4, <2>4, Unhyphenates DEF N!Slugify, Hyphens
<1>5. CASE \E a, b : Cuts(typed, blanks, a, b) /\ Cut(typed, blanks) = SubSeq(typed, a, b)
  <2>1. PICK a, b : Cuts(typed, blanks, a, b) /\ Cut(typed, blanks) = SubSeq(typed, a, b)
    BY <1>5
  <2>2. a \in 1..n /\ b \in 1..n /\ a <= b
    BY <1>3, <2>1 DEF Cuts
  <2> DEFINE pre == SubSeq(typed, 1, a - 1)
             mid == SubSeq(typed, a, b)
             post == SubSeq(typed, b + 1, n)
  <2>3. pre \in Seq(S) /\ mid \in Seq(S) /\ post \in Seq(S)
    BY <1>3, <2>2, SubSeqProperties DEF n
  <2>4. ASSUME NEW i \in DOMAIN pre PROVE ~ Worded(pre[i])
    <3>1. i \in 1..(a - 1) /\ pre[i] = typed[i]
      BY <1>3, <2>2, SubSeqProperties DEF n
    <3> HIDE DEF pre
    <3>2. i \in DOMAIN typed /\ i < a
      BY <1>3, <2>2, <3>1
    <3> QED
      BY <1>1, <2>1, <3>1, <3>2 DEF Cuts
  <2>5. ASSUME NEW i \in DOMAIN post PROVE ~ Worded(post[i])
    <3>1. i \in 1..(n - b) /\ post[i] = typed[b + i]
      BY <1>3, <2>2, SubSeqProperties DEF n
    <3> HIDE DEF post
    <3>2. b + i \in DOMAIN typed /\ b < b + i
      BY <1>3, <2>2, <3>1
    <3> QED
      BY <1>1, <2>1, <3>1, <3>2 DEF Cuts
  <2>6. typed = pre \o (mid \o post)
    <3>0. /\ a \in 1..(n + 1) /\ b \in (a - 1)..n /\ n \in b..n
          /\ 1 \in 1..(n + 1) /\ a - 1 \in (1 - 1)..n /\ n \in (a - 1)..n /\ n = Len(typed)
      BY <1>3, <2>2 DEF n
    <3>1. mid \o post = SubSeq(typed, a, n)
      BY <3>0, ConcatAdjacentSubSeq
    <3>2. pre \o SubSeq(typed, (a - 1) + 1, n) = SubSeq(typed, 1, n)
      BY <3>0, ConcatAdjacentSubSeq
    <3>3. (a - 1) + 1 = a /\ SubSeq(typed, 1, n) = typed
      BY <1>3, <2>2, SubSeqFull DEF n
    <3> QED
      BY <3>1, <3>2, <3>3
  <2> HIDE DEF pre, mid, post
  <2>7. mid \o post \in Seq(S)
    BY <2>3
  <2>8. N!Slugify(pre \o (mid \o post)) = N!Slugify(mid \o post)
    BY <2>3, <2>4, <2>7, BlanksBefore
  <2>9. N!Slugify(mid \o post) = N!Slugify(mid)
    BY <2>3, <2>5, BlanksAfter
  <2> QED
    BY <1>2, <2>1, <2>6, <2>8, <2>9 DEF mid
<1> QED
  BY <1>3, <1>4, <1>5, CutIs

-----------------------------------------------------------------------------
(* The form's own reckoning.                                               *)

\* What one character is shown as, after those before it.
Shown(typed, i) ==
  CASE ~ Worded(typed[i]) /\ typed[i] # "kelvin" ->
         IF i > 1 /\ ~ Worded(typed[i - 1]) /\ typed[i - 1] # "kelvin" THEN <<>> ELSE <<"-">>
    [] typed[i] = "kelvin" -> <<"name">>
    [] OTHER -> <<N!Lowered(typed[i])>>
AllShown(typed) == [i \in DOMAIN typed |-> Shown(typed, i)]

LEMMA ShownIs ==
  ASSUME NEW S, NEW typed \in Seq(S), "kelvin" \notin S
  PROVE  SlugIs!FlattenSeq(AllShown(typed)) = Hyphens(typed)
<1> DEFINE Q == Seq(Slugs)
           G == {t \in Seq(S) : AllShown(t) \in Seq(Q) /\ SlugIs!FlattenSeq(AllShown(t)) = Hyphens(t)}
<1>1. <<>> \in G
  <2>1. AllShown(<<>>) = <<>>
    BY DEF AllShown
  <2>2. SlugIs!FlattenSeq(<<>>) = <<>>
    BY SlugIs!FlattenStep
  <2> HIDE DEF Q
  <2> QED
    BY <2>1, <2>2, HyphensStep, EmptySeq
<1>2. ASSUME NEW t \in Seq(S), NEW x \in S, t \in G PROVE Append(t, x) \in G
  <2> DEFINE all == Append(t, x)
             n == Len(t)
             last == Shown(all, n + 1)
             d == Hyphens(t)
  <2>1. /\ n \in Nat /\ DOMAIN t = 1..n /\ all \in Seq(S) /\ DOMAIN all = 1..(n + 1)
        /\ all[n + 1] = x /\ \A i \in 1..n : all[i] = t[i]
    BY AppendProperties
  <2>2. Hyphens(all) = N!Hyphenated(d, x)
    BY HyphensStep
  <2>3. Dashed(d, t) /\ SlugIs!FlattenSeq(AllShown(t)) = d /\ AllShown(t) \in Seq(Q)
    BY <1>2, HyphensOnce
  <2>4. x # "kelvin" /\ \A i \in 1..n : t[i] # "kelvin"
    BY <2>1
  <2>90. AllShown(all) \in Seq(Q) /\ SlugIs!FlattenSeq(AllShown(all)) = Hyphens(all) => all \in G
    BY <2>1
  <2> HIDE DEF G, all
  <2>5. \A i \in 1..n : Shown(all, i) = Shown(t, i)
    <3> SUFFICES ASSUME NEW i \in 1..n PROVE Shown(all, i) = Shown(t, i)
      OBVIOUS
    <3>1. all[i] = t[i] /\ (i > 1 => all[i - 1] = t[i - 1])
      BY <2>1
    <3> QED
      BY <3>1 DEF Shown
  <2> HIDE DEF d
  <2>6. last \in Q /\ N!Hyphenated(d, x) = d \o last
    <3>1. d \in Seq(Slugs) /\ (t = <<>> <=> d = <<>>) /\ (t = <<>> <=> n = 0)
      BY <2>1, <2>3 DEF Dashed
    <3>2. \A c \in Slugs : d \o <<c>> = Append(d, c) /\ <<c>> \in Q
      BY <3>1
    <3>3. CASE Worded(x)
      <4>1. N!Lowered(x) \in Slugs /\ N!Hyphenated(d, x) = Append(d, N!Lowered(x))
        BY <3>3 DEF Worded, Slugs, N!Hyphenated
      <4>2. last = <<N!Lowered(x)>>
        BY <2>1, <2>4, <3>3 DEF Shown
      <4> QED
        BY <3>2, <4>1, <4>2
    <3>4. CASE ~ Worded(x) /\ n > 0 /\ ~ Worded(t[n])
      <4>1. (n + 1) - 1 = n /\ n \in 1..n /\ n + 1 > 1
        BY <2>1, <3>4
      <4>2. last = <<>>
        BY <2>1, <2>4, <3>4, <4>1 DEF Shown
      <4>3. d # <<>> /\ d[Len(d)] = "-"
        BY <2>3, <3>1, <3>4 DEF Dashed
      <4>4. N!Hyphenated(d, x) = d
        BY <3>4, <4>3 DEF N!Hyphenated, Worded, N!Last
      <4> HIDE DEF last, Q
      <4>5. d \o <<>> = d
        BY <3>1
      <4>6. <<>> \in Q
        BY DEF Q
      <4> QED
        BY <4>2, <4>4, <4>5, <4>6
    <3>5. CASE ~ Worded(x) /\ ~ (n > 0 /\ ~ Worded(t[n]))
      <4>1. last = <<"-">>
        <5>1. (n + 1) - 1 = n /\ (n + 1 > 1 => n > 0 /\ n \in 1..n)
          BY <2>1
        <5>2. ~ (n + 1 > 1 /\ ~ Worded(all[(n + 1) - 1]) /\ all[(n + 1) - 1] # "kelvin")
          BY <2>1, <3>5, <5>1
        <5> QED
          BY <2>1, <2>4, <3>5, <5>2 DEF Shown
      <4>2. ~ (d # <<>> /\ d[Len(d)] = "-")
        BY <2>1, <2>3, <3>1, <3>5 DEF Dashed
      <4>3. N!Hyphenated(d, x) = Append(d, "-")
        BY <3>5, <4>2 DEF N!Hyphenated, Worded, N!Last
      <4>4. "-" \in Slugs
        BY DEF Slugs
      <4> HIDE DEF last, Q
      <4> QED
        BY <3>2, <4>1, <4>3, <4>4
    <3> QED
      BY <2>1, <3>3, <3>4, <3>5
  <2> HIDE DEF last, Q
  <2>7. AllShown(all) = Append(AllShown(t), last)
    BY <2>1, <2>5 DEF AllShown, last
  <2>8. SlugIs!FlattenSeq(Append(AllShown(t), last)) = SlugIs!FlattenSeq(AllShown(t)) \o last
    BY <2>3, <2>6, SlugIs!FlattenStep DEF Q
  <2>9. Append(AllShown(t), last) \in Seq(Q)
    BY <2>3, <2>6, AppendProperties
  <2>10. SlugIs!FlattenSeq(AllShown(all)) = Hyphens(all)
    BY <2>2, <2>3, <2>6, <2>7, <2>8
  <2> QED
    BY <2>7, <2>9, <2>10, <2>90 DEF all
<1> HIDE DEF G
<1>3. \A t \in Seq(S) : t \in G
  BY <1>1, <1>2, SlugIs!SeqInduct
<1> QED
  BY <1>3 DEF G

\* What a slug is: no hyphen doubled or at an end, and, of nothing a browser
\* lowers to ASCII, what the form showed.
LEMMA SlugShape ==
  ASSUME NEW S, NEW typed \in Seq(S), NEW slug, slug = N!Slugify(N!Trim(typed)), slug # <<>>
  PROVE  /\ slug \in Seq(Slugs)
         /\ \A i \in DOMAIN slug : slug[i] = "-" => i \notin {1, Len(slug)} /\ slug[i + 1] # "-"
         /\ "kelvin" \notin S => slug = N!Preview(typed)
<1> DEFINE d == Hyphens(typed)
           n == Len(d)
<1>1. slug = Cut(d, {"-"})
  BY TrimSlugs, Unhyphenates DEF N!Slugify, Hyphens
<1>2. Dashed(d, typed)
  BY HyphensOnce
<1>3. "kelvin" \notin S => SlugIs!FlattenSeq(AllShown(typed)) = d
  BY ShownIs
<1> HIDE DEF d
<1>4. d \in Seq(Slugs) /\ n \in Nat /\ DOMAIN d = 1..n
  BY <1>2 DEF Dashed
<1>5. PICK a, b : Cuts(d, {"-"}, a, b) /\ slug = SubSeq(d, a, b)
  BY <1>1, <1>4, CutIs
<1>6. /\ a \in 1..n /\ b \in 1..n /\ a <= b /\ d[a] # "-" /\ d[b] # "-"
      /\ \A i \in 1..n : i < a \/ b < i => d[i] = "-"
  BY <1>4, <1>5 DEF Cuts
<1>7. \A i \in 1..(n - 1) : d[i] = "-" => d[i + 1] # "-"
  BY <1>2 DEF Dashed
<1>8. /\ slug \in Seq(Slugs) /\ Len(slug) = b - a + 1 /\ DOMAIN slug = 1..(b - a + 1)
      /\ \A i \in 1..(b - a + 1) : slug[i] = d[a + i - 1]
  BY <1>4, <1>5, <1>6, SubSeqProperties
<1>9. ASSUME NEW i \in DOMAIN slug, slug[i] = "-" PROVE i \notin {1, Len(slug)} /\ slug[i + 1] # "-"
  <2>1. i \in 1..(b - a + 1) /\ d[a + i - 1] = "-"
    BY <1>8, <1>9
  <2>2. i # 1 /\ i # b - a + 1
    <3>1. a + 1 - 1 = a /\ a + (b - a + 1) - 1 = b
      BY <1>6
    <3> QED
      BY <1>6, <2>1, <3>1
  <2>3. /\ a + i - 1 \in 1..(n - 1) /\ (a + i - 1) + 1 = a + (i + 1) - 1
        /\ i + 1 \in 1..(b - a + 1)
    <3>1. a \in Nat /\ b \in Nat /\ i \in Nat /\ 1 <= a /\ a <= b /\ b <= n /\ 1 <= i /\ i < b - a + 1
      BY <1>4, <1>6, <2>1, <2>2
    <3>2. n \in Nat
      BY <1>4
    <3> HIDE DEF n
    <3>3. a + i - 1 >= 1 /\ a + i - 1 <= n - 1
      BY <3>1, <3>2
    <3>4. a + i - 1 \in 1..(n - 1)
      BY <3>1, <3>2, <3>3
    <3>5. (a + i - 1) + 1 = a + (i + 1) - 1
      BY <3>1
    <3>6. i + 1 \in 1..(b - a + 1)
      BY <3>1
    <3> QED
      BY <3>4, <3>5, <3>6
  <2>4. d[(a + i - 1) + 1] # "-"
    BY <1>7, <2>1, <2>3
  <2> QED
    BY <1>8, <2>2, <2>3, <2>4
<1>10. a = IF d[1] = "-" THEN 2 ELSE 1
  <2>1. a < 3
    <3> SUFFICES ASSUME a >= 3 PROVE FALSE
      BY <1>6
    <3>1. 1 \in 1..(n - 1) /\ 1 \in 1..n /\ 1 + 1 \in 1..n /\ 1 < a /\ 1 + 1 < a
      BY <1>4, <1>6
    <3> QED
      BY <1>6, <1>7, <3>1
  <2>2. a = 2 => 1 \in 1..n /\ 1 < a
    BY <1>6
  <2>3. a = 1 \/ a = 2
    BY <1>6, <2>1
  <2> QED
    BY <1>6, <2>2, <2>3
<1>11. b = IF d[n] = "-" THEN n - 1 ELSE n
  <2>1. b > n - 2
    <3> SUFFICES ASSUME b <= n - 2 PROVE FALSE
      BY <1>4, <1>6
    <3>1. n - 1 \in 1..(n - 1) /\ n - 1 \in 1..n /\ (n - 1) + 1 = n /\ n \in 1..n /\ b < n - 1 /\ b < n
      BY <1>4, <1>6
    <3> QED
      BY <1>6, <1>7, <3>1
  <2>2. b = n - 1 => n \in 1..n /\ b < n
    BY <1>4, <1>6
  <2>3. b = n \/ b = n - 1
    <3>1. b \in Nat /\ b <= n
      BY <1>4, <1>6
    <3> HIDE DEF n
    <3> QED
      BY <1>4, <2>1, <3>1
  <2> QED
    BY <1>6, <2>2, <2>3
<1>12. ASSUME "kelvin" \notin S PROVE slug = N!Preview(typed)
  <2> DEFINE flat == SlugIs!FlattenSeq(AllShown(typed))
             from == IF N!StartsWith(flat, {"-"}) THEN 2 ELSE 1
             to == IF flat # <<>> /\ N!Last(flat) = "-" THEN Len(flat) - 1 ELSE Len(flat)
  <2>1. N!Preview(typed) = SubSeq(flat, from, to)
    <3> DEFINE other(i) == N!Lowered(typed[i]) \notin N!Alphanumeric /\ typed[i] # "kelvin"
               shown(i) == CASE other(i) -> IF i > 1 /\ other(i - 1) THEN <<>> ELSE <<"-">>
                             [] typed[i] = "kelvin" -> <<"name">>
                             [] OTHER -> <<N!Lowered(typed[i])>>
               pieces == [i \in DOMAIN typed |-> shown(i)]
    <3>1. pieces = AllShown(typed)
      <4>1. \A i \in DOMAIN typed : shown(i) = Shown(typed, i)
        BY DEF Shown, Worded
      <4> HIDE DEF shown
      <4> QED
        BY <4>1 DEF AllShown
    <3>2. N!FlattenSeq(pieces) = flat
      <4>1. \A s : N!FlattenSeq(s) = SlugIs!FlattenSeq(s)
        BY DEF N!FlattenSeq, SlugIs!FlattenSeq
      <4> HIDE DEF pieces
      <4> QED
        BY <3>1, <4>1
    <3> DEFINE dashed == N!FlattenSeq(pieces)
    <3>3. N!Preview(typed) =
            SubSeq(dashed, IF N!StartsWith(dashed, {"-"}) THEN 2 ELSE 1,
                   IF dashed # <<>> /\ N!Last(dashed) = "-" THEN Len(dashed) - 1 ELSE Len(dashed))
      BY DEF N!Preview
    <3>4. dashed = flat
      BY <3>2
    <3> HIDE DEF dashed, flat
    <3> QED
      BY <3>3, <3>4
  <2>2. flat = d
    BY <1>3, <1>12
  <2> HIDE DEF flat
  <2>3. d # <<>>
    BY <1>4, <1>6
  <2>4. from = a
    BY <1>4, <1>10, <2>2, <2>3 DEF N!StartsWith
  <2>5. to = b
    BY <1>11, <2>2, <2>3 DEF N!Last
  <2> QED
    BY <1>5, <2>1, <2>2, <2>4, <2>5
<1> QED
  BY <1>8, <1>9, <1>12

LEMMA BranchIsNamed == ASSUME NEW slug \in Seq(Slugs) PROVE N!NamesABranch(N!ChatBranch(slug))
<1> DEFINE E == N!Alphanumeric \cup {"-", "/"}
           front == <<"name", "/">> \o N!Date \o <<"-">>
           branch == N!ChatBranch(slug)
<1>1. "." \notin E /\ E \subseteq N!Alphanumeric \cup {"-", "_", ".", "/"}
  BY DEF N!Alphanumeric, N!Letters
<1>2. front \in Seq(E) /\ front[1] = "name" /\ Len(front) \in Nat /\ Len(front) >= 1
  <2> DEFINE user == <<"name", "/">>
             dated == user \o N!Date
  <2>1. {"name", "/", "1", "-"} \subseteq E
    BY DEF N!Alphanumeric, N!Letters
  <2> HIDE DEF E
  <2>2. user \in Seq(E) /\ Len(user) = 2 /\ user[1] = "name"
    BY <2>1
  <2>3. N!Date \in Seq(E) /\ <<"-">> \in Seq(E)
    BY <2>1 DEF N!Date
  <2> HIDE DEF user
  <2>4. 1 \in 1..(Len(user) + Len(N!Date)) /\ 1 <= Len(user)
    BY <2>2, <2>3
  <2>5. dated \in Seq(E) /\ dated[1] = "name" /\ Len(dated) = 2 + Len(N!Date)
    BY <2>2, <2>3, <2>4, ConcatProperties
  <2>6. front = dated \o <<"-">>
    BY DEF user
  <2> HIDE DEF dated, front
  <2>7. 1 \in 1..(Len(dated) + Len(<<"-">>)) /\ 1 <= Len(dated)
    BY <2>3, <2>5
  <2> QED
    BY <2>3, <2>5, <2>6, <2>7, ConcatProperties
<1>3. slug \in Seq(E)
  BY DEF Slugs
<1>4. branch = front \o slug
  BY DEF N!ChatBranch
<1> HIDE DEF E, front, branch
<1>5. branch \in Seq(E) /\ Len(branch) >= 1 /\ branch[1] = "name"
  <2>1. 1 \in 1..(Len(front) + Len(slug)) /\ 1 <= Len(front)
    BY <1>2, <1>3
  <2> QED
    BY <1>2, <1>3, <1>4, <2>1, ConcatProperties
<1>6. branch # <<>> /\ Head(branch) = "name" /\ \A i \in 1..Len(branch) : branch[i] \in E
  BY <1>5
<1>7. \A i \in 1..(Len(branch) - 1) : branch[i] # "."
  <2>1. Len(branch) \in Nat /\ \A i \in 1..(Len(branch) - 1) : i \in 1..Len(branch)
    BY <1>5
  <2>2. \A c \in E : c # "."
    BY <1>1
  <2> QED
    BY <1>6, <2>1, <2>2
<1>8. DOMAIN branch = 1..Len(branch)
  BY <1>5
<1>9. N!NamesABranch(branch)
  BY <1>1, <1>6, <1>7, <1>8 DEF N!NamesABranch, N!StartsWith, N!Only
<1> QED
  BY <1>9 DEF branch

LEMMA SlugsAreBranches ==
  ASSUME NEW S, NEW typed \in Seq(S) PROVE N!SlugsNameBranches(typed)
<1> DEFINE slug == N!Slugify(N!Trim(typed))
<1>1. ASSUME NEW direct \in BOOLEAN, NEW base \in N!Bases,
             ~ N!IsRefusal(N!Create(N!Asking(typed, direct, base)))
      PROVE  /\ N!NamesABranch(N!Create(N!Asking(typed, direct, base)).branch)
             /\ N!Create(N!Asking(typed, direct, base)).title # <<>>
  <2> DEFINE wanted == N!Asking(typed, direct, base)
             made == N!Create(wanted)
  <2>1. wanted.slug = typed /\ wanted.base = base /\ wanted.direct = direct
    BY DEF N!Asking
  <2> HIDE DEF wanted, slug
  <2>2. /\ made.title = N!Trim(typed)
        /\ made.branch = IF direct THEN base ELSE N!ChatBranch(slug)
        /\ slug = <<>> => made.refusal = "Unnamed"
        /\ ~ N!NamesABranch(base) => made.refusal \in {"Unnamed", "UnusableRepo", "UnusableBranch"}
    BY <2>1 DEF N!Create, slug
  <2>3. ~ N!IsRefusal(made)
    BY <1>1 DEF wanted
  <2> HIDE DEF made
  <2>4. slug # <<>> /\ N!NamesABranch(base)
    BY <2>2, <2>3 DEF N!IsRefusal
  <2>5. slug \in Seq(Slugs)
    BY <2>4, SlugShape DEF slug
  <2>6. N!NamesABranch(made.branch)
    BY <2>2, <2>4, <2>5, BranchIsNamed
  <2>7. N!Trim(typed) # <<>>
    <3> SUFFICES ASSUME N!Trim(typed) = <<>> PROVE FALSE
      OBVIOUS
    <3>1. N!Slugify(<<>>) = Cut(<<>>, {"-"})
      BY HyphensStep, Unhyphenates DEF N!Slugify, Hyphens
    <3>2. Cut(<<>>, {"-"}) = <<>>
      BY DEF Cut
    <3> QED
      BY <2>4, <3>1, <3>2 DEF slug
  <2> QED
    BY <2>2, <2>6, <2>7 DEF made, wanted
<1>2. ASSUME slug # <<>> PROVE \A i \in DOMAIN slug : slug[i] = "-" => i \notin {1, Len(slug)} /\ slug[i + 1] # "-"
  BY <1>2, SlugShape
<1>3. ASSUME slug # <<>>, ~ N!Contains(typed, "kelvin") PROVE slug = N!Preview(typed)
  <2> DEFINE L == S \ {"kelvin"}
  <2>1. \A i \in 1..Len(typed) : typed[i] \in L
    BY <1>3 DEF N!Contains
  <2>2. Len(typed) \in Nat /\ typed = [i \in 1..Len(typed) |-> typed[i]]
    OBVIOUS
  <2>3. "kelvin" \notin L
    OBVIOUS
  <2> HIDE DEF L
  <2>4. typed \in Seq(L)
    BY <2>1, <2>2
  <2> QED
    BY <1>3, <2>3, <2>4, SlugShape
<1> QED
  BY <1>1, <1>2, <1>3 DEF N!SlugsNameBranches

-----------------------------------------------------------------------------
(* The form.                                                               *)

FormTypeOK == field \in {"slug", "repo", "env"} /\ text \in Seq(Typed[field])

LEMMA FormTypes == FormSpec => []FormTypeOK
<1>1. FormInit => FormTypeOK
  BY EmptySeq DEF FormInit, FormTypeOK
<1>2. FormTypeOK /\ [Type]_form => FormTypeOK'
  <2> SUFFICES ASSUME FormTypeOK, [Type]_form PROVE FormTypeOK'
    OBVIOUS
  <2> USE DEF FormTypeOK
  <2> DEFINE T == Typed[field]
  <2>1. CASE Type
    <3>1. field' = field /\ (text' = <<>> \/ \E x \in T : text' = Append(text, x))
      BY <2>1 DEF Type
    <3>2. text \in Seq(T)
      OBVIOUS
    <3>3. text' \in Seq(T)
      <4> HIDE DEF T
      <4>1. CASE text' = <<>>
        BY <4>1, EmptySeq
      <4>2. CASE \E x \in T : text' = Append(text, x)
        BY <3>2, <4>2, AppendProperties
      <4> QED
        BY <3>1, <4>1, <4>2
    <3> QED
      BY <3>1, <3>3 DEF Typed
  <2>2. CASE UNCHANGED form
    BY <2>2 DEF form, Typed
  <2> QED
    BY <2>1, <2>2
<1> QED
  BY <1>1, <1>2, PTL DEF FormSpec

\* Whatever repository is typed, the operator's GitHub token goes with its
\* clone URL exactly when that leads to github.com itself, the URL a workspace
\* is set back to is the one without it, and neither what anyone is told of git
\* nor a manifest holds a credential (Remotes::origin, Origin).
THEOREM TokensGoHomeAlways == FormSpec => []TheTokenGoesHome
<1>1. FormTypeOK => TheTokenGoesHome
  <2> SUFFICES ASSUME FormTypeOK, field = "repo" PROVE N!TheTokenGoesHome(text)
    BY DEF TheTokenGoesHome
  <2>1. text \in Seq(Typed["repo"]) /\ "credential" \notin Typed["repo"]
    BY DEF FormTypeOK, Typed
  <2> QED
    BY <2>1, TokensGoHome
<1> QED
  BY <1>1, FormTypes, PTL

\* Whatever slug is typed, a chat that is created has a title and works on a
\* branch git can be given; and whatever environment is typed, each variable of
\* one that is believed reaches the container with the value it was last given,
\* whichever credentials are in force (new_chat_form, slugify, parse_env,
\* spawn_env).
THEOREM FormsKeepTheirWord == FormSpec => []TheFormKeepsItsWord
<1>1. FormTypeOK => TheFormKeepsItsWord
  BY SlugsAreBranches, EnvReaches DEF FormTypeOK, TheFormKeepsItsWord
<1> QED
  BY <1>1, FormTypes, PTL

==============================================================================
