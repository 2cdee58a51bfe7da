----------------------------- MODULE ChatsState -----------------------------
(***************************************************************************)
(* The state the core's handlers share (src/chats.rs, struct Chats, with   *)
(* src/acp/connections.rs and src/store): the dataset on disk, the         *)
(* containers, the connections held in memory, the claims and the parking  *)
(* lock.  The handlers are in Capping, Sweeping, Prompting, Archiving and  *)
(* Creating; Chats puts them together.                                     *)
(*                                                                         *)
(* The runtime is multi-threaded, so a handler is modelled as a process    *)
(* with a program counter and one step per access to shared state.  One    *)
(* request is one process, from the call to the answer.                    *)
(***************************************************************************)
EXTENDS Naturals, FiniteSets

CONSTANTS
  Chats,     \* chat ids
  Requests,  \* the HTTP requests ever served, one process each
  Boot,      \* the process that prepares the dataset before serving
  Conns,     \* ACP connections, one adapter process each
  None,      \* no chat, no connection, no process
  WarmPool,  \* the configured pool cap
  Dawn,      \* the latest activity stamp on disk when the core first starts
  Kinds,     \* how a chat may stand when the core first starts
  Ops,       \* which requests are made: "prompt", "archive", "create"
  Faults     \* which faults happen

FaultKinds ==
  {"store",   \* a read or a write of the dataset fails
   "plane",   \* the Docker daemon refuses a call
   "git",     \* a clone or a push fails
   "adapter", \* the agent refuses, garbles, or goes silent
   "exit",    \* a container dies on its own
   "hangup",  \* the client goes away and its handler is dropped
   "crash"}   \* the core dies and is started again

(***************************************************************************)
(* What is on disk and in Docker for a chat when the core first starts:    *)
(* everything an earlier core may have left behind, crashed or not.        *)
(***************************************************************************)
Shapes ==
  [unborn      |-> [state |-> "absent",   session |-> FALSE, pushed |-> FALSE,
                    tree |-> "none", container |-> "none"],
   parked      |-> [state |-> "open",     session |-> TRUE,  pushed |-> FALSE,
                    tree |-> "tree", container |-> "none"],
   live        |-> [state |-> "open",     session |-> TRUE,  pushed |-> FALSE,
                    tree |-> "tree", container |-> "live"],
   exited      |-> [state |-> "open",     session |-> TRUE,  pushed |-> FALSE,
                    tree |-> "tree", container |-> "exited"],
   archived    |-> [state |-> "archived", session |-> TRUE,  pushed |-> TRUE,
                    tree |-> "none", container |-> "none"],
   sessionless |-> [state |-> "open",     session |-> FALSE, pushed |-> FALSE,
                    tree |-> "tree", container |-> "none"],
   unpublished |-> [state |-> "absent",   session |-> FALSE, pushed |-> FALSE,
                    tree |-> "half", container |-> "none"],
   halfClone   |-> [state |-> "archived", session |-> TRUE,  pushed |-> TRUE,
                    tree |-> "half", container |-> "none"],
   unswept     |-> [state |-> "archived", session |-> TRUE,  pushed |-> TRUE,
                    tree |-> "tree", container |-> "none"],
   standing    |-> [state |-> "archived", session |-> TRUE,  pushed |-> TRUE,
                    tree |-> "tree", container |-> "live"]]

ASSUME ConstantsOK ==
  /\ Boot \notin Requests
  /\ None \notin Chats \cup Conns \cup Requests \cup {Boot}
  /\ WarmPool \in Nat
  /\ Dawn \in Nat
  /\ Kinds \subseteq DOMAIN Shapes
  /\ Ops \subseteq {"prompt", "archive", "create"}
  /\ Faults \subseteq FaultKinds

Procs == Requests \cup {Boot}

(***************************************************************************)
(* A manifest, as far as anything here reads it: the chat's state, whether *)
(* a session and a pushed commit are recorded, and last_active_at.         *)
(***************************************************************************)
Manifests == [state   : {"absent", "open", "archived"},
              session : BOOLEAN,
              pushed  : BOOLEAN,
              active  : Nat]

NoManifest == [state |-> "absent", session |-> FALSE, pushed |-> FALSE, active |-> 0]

VARIABLES
  manifest,  \* chats/<id>/manifest.json
  clock,     \* the last stamp Utc::now() gave
  workspace, \* workspaces/<id>: "none", "half" written, or a whole "tree"
  unpushed,  \* the tree holds work the remote does not have
  container, \* "none", "live", or "exited" but still holding its name
  stray,     \* an adapter nobody awaits is still at work in the container
  held,      \* Connections.held: the connection kept for a chat
  wired,     \* the chat whose running container answers a connection
  lock,      \* each connection's turn lock: the process holding it
  claims,    \* Chats.claims: "free", "waking" or "archiving"
  parking,   \* Chats.parking: the process holding the parking lock
  pc,        \* where each process stands in its handler
  chat,      \* the chat a process is working on
  conn,      \* the connection a process has in hand
  seen,      \* the copy of the manifest a process read earlier
  spawned,   \* Housing.spawned: this wake started the container
  victims,   \* the chats a capping or a sweep has picked so far
  scan,      \* the manifests the capping in progress read
  busy       \* the chats it found taking a turn

disk    == <<manifest, clock, workspace, unpushed>>
plane   == <<container, stray>>
pipes   == <<held, wired, lock>>
gates   == <<claims, parking>>
locals  == <<chat, conn, seen, spawned, victims>>
weighed == <<scan, busy>>
vars    == <<disk, plane, pipes, gates, pc, locals, weighed>>

(***************************************************************************)
(* Moving through a handler.  A process that has answered works on no      *)
(* chat.                                                                   *)
(***************************************************************************)
Goto(p, label) == pc' = [pc EXCEPT ![p] = label]

Done(p) == Goto(p, "done") /\ chat' = [chat EXCEPT ![p] = None]

May(fault) == fault \in Faults

(***************************************************************************)
(* Claims.  claim() inserts or refuses under one lock, Claim::drop removes.*)
(***************************************************************************)
\* Faulty variant: the claim is written without a look at who holds it.
TakeClaimUnseen(c, doing) == claims' = [claims EXCEPT ![c] = doing]

TakeClaim(c, doing) ==
  claims[c] = "free" /\ claims' = [claims EXCEPT ![c] = doing]

DropClaim(c) == claims' = [claims EXCEPT ![c] = "free"]

Claimed == {c \in Chats : claims[c] # "free"}

(***************************************************************************)
(* Connections.  Arcs to a connection are the entry held for its chat and  *)
(* whatever a process has in hand; with the last one gone the channel is   *)
(* dropped, so nothing is known of what it was wired to.                   *)
(***************************************************************************)
InUse(h, cn) == {h[c] : c \in Chats} \cup {cn[p] : p \in Procs}

Unused == {k \in Conns : k \notin InUse(held, conn)}

DropUnused(h, cn) ==
  wired' = [k \in Conns |-> IF k \in InUse(h, cn) THEN wired[k] ELSE None]

\* forget() goes by the chat's id, whichever connection is held by then.
Forget(c) ==
  /\ held' = [held EXCEPT ![c] = None]
  /\ DropUnused(held', conn)

\* Faulty variants: the lock is taken from whoever has it, or goes to the chat.
TryLockUnseen(p, k) == lock' = [lock EXCEPT ![k] = p]
TryLockForChat(p, k) == lock[k] = None /\ lock' = [lock EXCEPT ![k] = chat[p]]

TryLock(p, k) == lock[k] = None /\ lock' = [lock EXCEPT ![k] = p]

Unlock(k) == lock' = IF k = None THEN lock ELSE [lock EXCEPT ![k] = None]

\* busy_chat_ids() asks by taking each lock for an instant, and for that
\* instant the lock refuses whoever asks next.
Probed(c, k) == held[c] = k /\ \E q \in Procs : pc[q] = "cap_busy"

Busy == {c \in Chats : held[c] # None /\ lock[held[c]] # None}

(***************************************************************************)
(* A container that goes takes every adapter in it along.                  *)
(***************************************************************************)
Gone(c, leaving) ==
  /\ container' = [container EXCEPT ![c] = leaving]
  /\ stray' = [stray EXCEPT ![c] = FALSE]
  /\ wired' = [k \in Conns |-> IF wired[k] = c THEN None ELSE wired[k]]

\* plane.teardown(): stop, then remove.  Stopping what has exited is fine;
\* a container that is not there is an error (NotLive).
TearDown(c) == container[c] # "none" /\ Gone(c, "none")

TearDownFails(c) ==
  \/ /\ container[c] = "none" \/ May("plane")
     /\ UNCHANGED <<container, stray, wired>>
  \/ /\ container[c] # "none" /\ May("plane")
     /\ Gone(c, "exited")

\* spawn(): read the manifest and the credentials, then create and start.  A
\* name that is taken refuses the create whatever state its container is in; a
\* start that fails leaves the created container behind.
Spawn(c) == /\ container[c] = "none"
            /\ container' = [container EXCEPT ![c] = "live"]

SpawnFails(c) ==
  \/ /\ container[c] # "none" \/ May("plane") \/ May("store")
     /\ UNCHANGED container
  \/ /\ container[c] = "none" /\ May("plane")
     /\ container' = [container EXCEPT ![c] = "exited"]

Live == {c \in Chats : container[c] = "live"}

(***************************************************************************)
(* store.remove_workspace(): a tree that is gone already is gone, and one  *)
(* that will not go may have lost part of itself.                          *)
(***************************************************************************)
RemoveTree(c) ==
  /\ workspace' = [workspace EXCEPT ![c] = "none"]
  /\ unpushed' = [unpushed EXCEPT ![c] = FALSE]

RemoveTreeFails(c) ==
  /\ workspace[c] # "none" /\ May("store")
  /\ \/ UNCHANGED <<workspace, unpushed>>
     \/ /\ workspace' = [workspace EXCEPT ![c] = "half"]
        /\ unpushed' = [unpushed EXCEPT ![c] = FALSE]

(***************************************************************************)
(* A core that has just started: its memory is empty, the dataset and the  *)
(* containers are as an earlier one left them, and the first sweep is due  *)
(* (src/commands/serve.rs).  The stamps of the chats on disk are distinct. *)
(***************************************************************************)
Init ==
  /\ \E kind \in [Chats -> Kinds], stamp \in [Chats -> 1..Dawn] :
       /\ \A c, d \in Chats : c # d => stamp[c] # stamp[d]
       /\ manifest = [c \in Chats |->
            IF Shapes[kind[c]].state = "absent" THEN NoManifest
            ELSE [state   |-> Shapes[kind[c]].state,
                  session |-> Shapes[kind[c]].session,
                  pushed  |-> Shapes[kind[c]].pushed,
                  active  |-> stamp[c]]]
       /\ workspace = [c \in Chats |-> Shapes[kind[c]].tree]
       /\ container = [c \in Chats |-> Shapes[kind[c]].container]
  /\ clock = Dawn
  /\ unpushed \in [Chats -> BOOLEAN]
  /\ \A c \in Chats : unpushed[c] => manifest[c].state = "open" /\ workspace[c] = "tree"
  /\ stray = [c \in Chats |-> FALSE]
  /\ held = [c \in Chats |-> None]
  /\ wired = [k \in Conns |-> None]
  /\ lock = [k \in Conns |-> None]
  /\ claims = [c \in Chats |-> "free"]
  /\ parking = None
  /\ pc = [p \in Procs |-> IF p = Boot THEN "s_scan" ELSE "new"]
  /\ chat = [p \in Procs |-> None]
  /\ conn = [p \in Procs |-> None]
  /\ seen = [p \in Procs |-> NoManifest]
  /\ spawned = [p \in Procs |-> FALSE]
  /\ victims = [p \in Procs |-> {}]
  /\ scan = [c \in Chats |-> NoManifest]
  /\ busy = {}

=============================================================================
