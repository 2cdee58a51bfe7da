------------------------------ MODULE Dataset -------------------------------
(***************************************************************************)
(* How a chat gets onto the dataset and how its manifest is replaced       *)
(* (src/store/mod.rs), one request to the filesystem at a time.            *)
(*                                                                         *)
(* The filesystem, as the code uses it: a rename is one step, names keep   *)
(* the order they were given in, and what was written without a sync may   *)
(* be cut short when the power goes.  A process that dies loses no bytes.  *)
(***************************************************************************)
EXTENDS Naturals, FiniteSets

CONSTANTS Chats,
          Writers,  \* whoever replaces manifests
          Faults    \* "full" dataset, "crash" of the core, "power" cut

\* Whoever writes about a chat is not its creation.
ASSUME DatasetOK == Chats \cap Writers = {}

VARIABLES dir,       \* per chat: "none", "staged" or "published"
          workspace, \* the chats workspaces/ holds a tree for
          events,    \* the chats whose directory holds an event log
          manifest,  \* per chat, its manifest file
          temp,      \* per process, the file it writes aside
          at,        \* per process, what it does next
          subject    \* per writer, the chat it writes about

vars == <<dir, workspace, events, manifest, temp, at, subject>>

\* A file: not there, cut short, whole in the cache, or whole on the disk.
Files == {"missing", "half", "cached", "safe"}
Whole(file) == file \in {"cached", "safe"}

Procs == Chats \cup Writers  \* a chat's own process is its creation

Init == /\ dir = [c \in Chats |-> "none"]
        /\ workspace = {} /\ events = {}
        /\ manifest = [c \in Chats |-> "missing"]
        /\ temp = [p \in Procs |-> "missing"]
        /\ at = [p \in Procs |-> "idle"]
        /\ subject \in [Writers -> Chats]

Step(p, place, next) == at[p] = place /\ at' = [at EXCEPT ![p] = next]

-----------------------------------------------------------------------------
(* create_chat.                                                            *)

\* The id is a fresh one.
LayTree(c) ==
  /\ dir[c] = "none" /\ c \notin workspace /\ Step(c, "idle", "stage")
  /\ workspace' = workspace \cup {c}
  /\ UNCHANGED <<dir, events, manifest, temp, subject>>

Stage(c) ==
  /\ Step(c, "stage", "log") /\ dir' = [dir EXCEPT ![c] = "staged"]
  /\ UNCHANGED <<workspace, events, manifest, temp, subject>>

StartLog(c) ==
  /\ Step(c, "log", "open") /\ events' = events \cup {c}
  /\ UNCHANGED <<dir, workspace, manifest, temp, subject>>

Publish(c) ==
  /\ Step(c, "publish", "idle") /\ dir' = [dir EXCEPT ![c] = "published"]
  /\ UNCHANGED <<workspace, events, manifest, temp, subject>>

-----------------------------------------------------------------------------
(* write_manifest_in.                                                      *)

About(p) == IF p \in Chats THEN p ELSE subject[p]
After(p) == IF p \in Chats THEN "publish" ELSE "idle"

\* A writer has read the manifest it is about to replace.
Replace(w) ==
  /\ Step(w, "idle", "open")
  /\ \E c \in Chats : dir[c] = "published" /\ subject' = [subject EXCEPT ![w] = c]
  /\ UNCHANGED <<dir, workspace, events, manifest, temp>>

\* The file aside has a name of its own, whoever else writes.
Temp(p) == p

Open(p) ==
  /\ Step(p, "open", "write") /\ temp' = [temp EXCEPT ![Temp(p)] = "half"]
  /\ UNCHANGED <<dir, workspace, events, manifest, subject>>

Write(p) ==
  /\ Step(p, "write", "sync") /\ temp' = [temp EXCEPT ![Temp(p)] = "cached"]
  /\ UNCHANGED <<dir, workspace, events, manifest, subject>>

\* Slip: what was written is left to the cache.
SyncNothing(p) ==
  /\ Step(p, "sync", "rename")
  /\ UNCHANGED <<dir, workspace, events, manifest, temp, subject>>

Sync(p) ==
  /\ Step(p, "sync", "rename")
  /\ temp' = [temp EXCEPT ![Temp(p)] = IF @ = "cached" THEN "safe" ELSE @]
  /\ UNCHANGED <<dir, workspace, events, manifest, subject>>

\* A name that is gone is refused.
Rename(p) ==
  /\ Step(p, "rename", IF temp[Temp(p)] = "missing" THEN "idle" ELSE After(p))
  /\ IF temp[Temp(p)] = "missing" THEN UNCHANGED <<manifest, temp>>
     ELSE /\ manifest' = [manifest EXCEPT ![About(p)] = temp[Temp(p)]]
          /\ temp' = [temp EXCEPT ![Temp(p)] = "missing"]
  /\ UNCHANGED <<dir, workspace, events, subject>>

-----------------------------------------------------------------------------
(* What goes wrong.  Nothing written aside is ever cleared away: the next  *)
(* file aside has a name of its own, so only its process is forgotten.     *)

Full(p) ==
  /\ "full" \in Faults /\ at[p] # "idle"
  /\ at' = [at EXCEPT ![p] = "idle"] /\ temp' = [temp EXCEPT ![p] = "missing"]
  /\ UNCHANGED <<dir, workspace, events, manifest, subject>>

Down == /\ at' = [p \in Procs |-> "idle"]
        /\ temp' = [p \in Procs |-> "missing"]
        /\ UNCHANGED <<dir, workspace, events, subject>>

Crash == "crash" \in Faults /\ Down /\ UNCHANGED manifest

\* What the cache held of a file may be gone.
Power ==
  /\ "power" \in Faults /\ Down
  /\ manifest' \in {m \in [Chats -> Files] :
       \A c \in Chats : m[c] = manifest[c]
                          \/ (manifest[c] = "cached" /\ m[c] \in {"half", "safe"})}

Next == \/ \E c \in Chats : LayTree(c) \/ Stage(c) \/ StartLog(c) \/ Publish(c)
        \/ \E w \in Writers : Replace(w)
        \/ \E p \in Procs : \/ Open(p) \/ Write(p) \/ Sync(p) \/ Rename(p)
                            \/ Full(p)
        \/ Crash \/ Power

Spec == Init /\ [][Next]_vars

-----------------------------------------------------------------------------
(* scan, read_manifest_at.                                                 *)

\* Where a chat is assembled is hidden from the scan.
Listed == {c \in Chats : dir[c] = "published"}

\* What a scan refuses stops the console, the capping and the sweep for every
\* chat: no writer beside another, no full dataset, no crash and no power cut
\* leaves a chat listed that does not read back whole, log and tree included
\* (ADR-0007 rule 5: no skipping).
EveryChatReadsBack ==
  \A c \in Listed : /\ Whole(manifest[c])
                    /\ c \in events
                    /\ c \in workspace

=============================================================================
