-------------------------------- MODULE Chats --------------------------------
(***************************************************************************)
(* The lifecycle of every chat in one dataset: the requests a core serves, *)
(* its first sweep, and what goes on around them, put together.            *)
(***************************************************************************)
EXTENDS Prompting, Archiving, Creating, Capping, Sweeping

SweepPcs == {"s_scan", "s_live", "s_list", "s_claimed", "s_remove"}
CapPcs   == {"cap", "cap_live", "cap_busy", "cap_weigh", "cap_park", "cap_forget"}
Pcs      == PromptPcs \cup ArchivePcs \cup CreatePcs \cup SweepPcs \cup CapPcs
            \cup {"new", "done"}

(***************************************************************************)
(* What a process has taken and will give back (the RAII guards of         *)
(* src/chats.rs: Claim, and the guard of the turn lock).                   *)
(***************************************************************************)
ClaimPcs == WakePcs \cup GatePcs \cup {"a_read", "a_of", "a_lock", "a_drop"} \cup SweepPcs
LockPcs  == {"unclaim"} \cup TurnPcs \cup GatePcs \cup SweepPcs

HoldsClaim(p) == p # Boot /\ pc[p] \in ClaimPcs
HoldsLock(p)  == conn[p] # None /\ pc[p] \in LockPcs

(***************************************************************************)
(* Requests arrive once the first sweep is over (serve.rs).  A chat to be  *)
(* created is given a ULID nobody has used.                                *)
(***************************************************************************)
Begin(p, c, op, label) ==
  /\ op \in Ops
  /\ pc[Boot] = "done"
  /\ pc[p] = "new"
  /\ chat' = [chat EXCEPT ![p] = c]
  /\ Goto(p, label)
  /\ UNCHANGED <<disk, plane, pipes, gates, conn, seen, spawned, victims, weighed>>

BeginPrompt(p, c)  == Begin(p, c, "prompt", "of")
BeginArchive(p, c) == Begin(p, c, "archive", "a_claim")

BeginCreate(p, c) ==
  /\ manifest[c] = NoManifest /\ workspace[c] = "none" /\ container[c] = "none"
  /\ \A q \in Procs : chat[q] # c
  /\ Begin(p, c, "create", "n_tree")

(***************************************************************************)
(* The agent writes in the tree for as long as some adapter is at work: in *)
(* a turn, or after a turn nobody waits for any more.                      *)
(***************************************************************************)
InTurn(p, c) == pc[p] = "answer" /\ chat[p] = c /\ wired[conn[p]] = c

Working(c) == stray[c] \/ \E p \in Procs : InTurn(p, c)

AgentWrites(c) ==
  /\ Working(c) /\ workspace[c] = "tree" /\ ~unpushed[c]
  /\ unpushed' = [unpushed EXCEPT ![c] = TRUE]
  /\ UNCHANGED <<manifest, clock, workspace, plane, pipes, gates, pc, locals, weighed>>

StrayEnds(c) ==
  /\ stray[c]
  /\ stray' = [stray EXCEPT ![c] = FALSE]
  /\ UNCHANGED <<disk, container, pipes, gates, pc, locals, weighed>>

ContainerExits(c) ==
  /\ May("exit")
  /\ container[c] = "live"
  /\ Gone(c, "exited")
  /\ UNCHANGED <<disk, held, lock, gates, pc, locals, weighed>>

(***************************************************************************)
(* A client that goes away takes its handler's future with it, at an await *)
(* (the HTTP server drops it; external).  Every guard the handler held is  *)
(* dropped.  A call in flight may land all the same: then the handler is   *)
(* cut just after the step that made it.                                   *)
(***************************************************************************)
Cuttable == {"w_tree", "w_cloning", "w_open", "w_house", "w_spawn", "w_climb",
             "w_release", "w_forget", "answer",
             "cap", "cap_live", "cap_park", "cap_forget",
             "a_push", "a_write", "a_release", "a_forget", "s_live",
             "n_clone", "n_spawn", "n_session", "n_teardown"}

\* What a call to the daemon that is cut short may leave of a chat's container:
\* one created and never started, or one stopped and never removed.
MayLeave(p, c) ==
  \/ /\ pc[p] \in {"w_spawn", "n_spawn"}
     /\ chat[p] = c /\ container[c] = "none"
  \/ /\ pc[p] \in {"w_release", "a_release", "n_teardown"}
     /\ chat[p] = c /\ container[c] = "live"
  \/ /\ pc[p] = "cap_park"
     /\ c \in victims[p] /\ container[c] = "live"

\* Each process has one call at a time to be cut.
CutShort(procs) ==
  {[c \in Chats |-> IF \E p \in procs : cut[p] = c THEN "exited" ELSE container[c]] :
     cut \in {f \in [procs -> Chats \cup {None}] :
                \A p \in procs : f[p] # None => MayLeave(p, f[p])}}

Hangup(p) ==
  /\ May("hangup")
  /\ p # Boot /\ pc[p] \in Cuttable
  /\ container' \in CutShort({p})
  /\ claims' = [c \in Chats |-> IF HoldsClaim(p) /\ chat[p] = c THEN "free" ELSE claims[c]]
  /\ lock' = [k \in Conns |-> IF HoldsLock(p) /\ conn[p] = k THEN None ELSE lock[k]]
  /\ parking' = IF parking = p THEN None ELSE parking
  /\ scan' = IF parking = p THEN [c \in Chats |-> NoManifest] ELSE scan
  /\ busy' = IF parking = p THEN {} ELSE busy
  /\ stray' = [c \in Chats |-> (stray[c] \/ InTurn(p, c)) /\ (c \in Live => container'[c] = "live")]
  /\ conn' = [conn EXCEPT ![p] = None]
  /\ wired' = [k \in Conns |->
                 IF k \in InUse(held, conn') /\ (wired[k] \in Live => container'[wired[k]] = "live")
                 THEN wired[k] ELSE None]
  /\ seen' = [seen EXCEPT ![p] = NoManifest]
  /\ spawned' = [spawned EXCEPT ![p] = FALSE]
  /\ victims' = [victims EXCEPT ![p] = {}]
  /\ Done(p)
  /\ UNCHANGED <<disk, held>>

(***************************************************************************)
(* The core dies, in the middle of its calls or between them.  Containers  *)
(* are its siblings and live on, agents and all; a core that starts again  *)
(* sweeps before it serves.                                                *)
(***************************************************************************)
Crash ==
  /\ May("crash")
  /\ held' = [c \in Chats |-> None]
  /\ wired' = [k \in Conns |-> None]
  /\ lock' = [k \in Conns |-> None]
  /\ claims' = [c \in Chats |-> "free"]
  /\ parking' = None
  /\ container' \in CutShort(Procs)
  /\ stray' = [c \in Chats |-> Working(c) /\ container'[c] = "live"]
  /\ pc' = [p \in Procs |-> IF p = Boot THEN "s_scan"
                            ELSE IF pc[p] = "new" THEN "new" ELSE "done"]
  /\ chat' = [p \in Procs |-> None]
  /\ conn' = [p \in Procs |-> None]
  /\ seen' = [p \in Procs |-> NoManifest]
  /\ spawned' = [p \in Procs |-> FALSE]
  /\ victims' = [p \in Procs |-> {}]
  /\ scan' = [c \in Chats |-> NoManifest]
  /\ busy' = {}
  /\ UNCHANGED disk

\* Everybody has been answered: the core idles.
AllAnswered == \A p \in Procs : pc[p] = "done"
Idle == AllAnswered /\ UNCHANGED vars

Handler(p) ==
  \/ WakeStep(p) \/ TurnStep(p) \/ TurnEnd(p)
  \/ ArchiveStep(p) \/ CreateStep(p) \/ SweepStep(p)

Next ==
  \/ \E p \in Procs : Handler(p) \/ CapStep(p)
  \/ \E p \in Requests : Hangup(p)
  \/ \E p \in Requests, c \in Chats : BeginPrompt(p, c) \/ BeginArchive(p, c) \/ BeginCreate(p, c)
  \/ \E c \in Chats : AgentWrites(c) \/ StrayEnds(c) \/ ContainerExits(c)
  \/ Crash
  \/ Idle

Spec == Init /\ [][Next]_vars

(***************************************************************************)
(* The runtime runs every handler that can move, and what a handler awaits *)
(* answers or fails, except where the code waits with no bound of its own: *)
(* for git, for a startup script, and for an adapter that keeps talking    *)
(* without answering (a call's patience starts over with every line).  The *)
(* parking lock is a tokio mutex, which is first come, first served: a     *)
(* capping in line gets its turn.                                          *)
(***************************************************************************)
Unbounded == {"answer", "w_climb", "n_session",
              "w_cloning", "a_push", "n_clone", "w_spawn", "n_spawn"}

Fairness ==
  \A p \in Procs :
    /\ WF_vars(pc[p] \notin Unbounded /\ Handler(p))
    /\ SF_vars(CapScan(p))
    /\ WF_vars(CapStep(p))

FairSpec == Spec /\ Fairness

-----------------------------------------------------------------------------
(***************************************************************************)
(* Properties.                                                             *)
(***************************************************************************)

DiskOK ==
  /\ manifest \in [Chats -> Manifests]
  /\ clock \in Nat
  /\ workspace \in [Chats -> {"none", "half", "tree"}]
  /\ unpushed \in [Chats -> BOOLEAN]

PlaneOK ==
  /\ container \in [Chats -> {"none", "live", "exited"}]
  /\ stray \in [Chats -> BOOLEAN]

PipesOK ==
  /\ held \in [Chats -> Conns \cup {None}]
  /\ wired \in [Conns -> Chats \cup {None}]
  /\ lock \in [Conns -> Procs \cup {None}]

GatesOK ==
  /\ claims \in [Chats -> {"free", "waking", "archiving"}]
  /\ parking \in Procs \cup {None}

LocalsOK ==
  /\ chat \in [Procs -> Chats \cup {None}]
  /\ conn \in [Procs -> Conns \cup {None}]
  /\ seen \in [Procs -> Manifests]
  /\ spawned \in [Procs -> BOOLEAN]
  /\ victims \in [Procs -> SUBSET Chats]

WeighedOK ==
  /\ scan \in [Chats -> Manifests]
  /\ busy \in SUBSET Chats

\* Every variable has its type.
TypeOK ==
  DiskOK /\ PlaneOK /\ PipesOK /\ GatesOK /\ pc \in [Procs -> Pcs] /\ LocalsOK /\ WeighedOK

(***************************************************************************)
(* Mutual exclusion.                                                       *)
(***************************************************************************)

\* A chat is claimed exactly while one wake or one archive of it is under way
\* (issue #93): never two of them at once, and no claim outlives its holder,
\* however the holder ended, a crash and a client that hung up included.
OneClaimant ==
  /\ \A c \in Chats : claims[c] # "free" => \E p \in Procs : HoldsClaim(p) /\ chat[p] = c
  /\ \A p \in Procs : HoldsClaim(p) => claims[chat[p]] # "free"
  /\ \A p, q \in Procs : HoldsClaim(p) /\ HoldsClaim(q) /\ p # q => chat[p] # chat[q]

\* A connection's turn lock is held exactly by the turn or the archive that
\* took it: two of them never share a connection (src/acp/connections.rs, one
\* turn at a time), and no lock outlives its holder.
OneConversation ==
  /\ \A k \in Conns : lock[k] # None => HoldsLock(lock[k]) /\ conn[lock[k]] = k
  /\ \A p \in Procs : HoldsLock(p) => lock[conn[p]] = p

\* From the claim of a wake to the end of the turn it was for there is no
\* instant with neither the claim nor the turn lock held (issue #101).
NeverUnguarded ==
  \A p \in Procs :
    /\ pc[p] \in WakePcs => claims[chat[p]] = "waking"
    /\ pc[p] \in {"unclaim"} \cup TurnPcs => lock[conn[p]] = p

\* No container starts in the middle of an archive of its chat (issue #93: a
\* prompt must not wake a chat the gate is closing).
NoSpawnUnderArchive ==
  [][\A c \in Chats, p \in Procs :
       Live' = Live \cup {c} /\ c \notin Live =>
         ~(chat[p] = c /\ pc[p] \in GatePcs)]_vars

(***************************************************************************)
(* The warm pool.                                                          *)
(***************************************************************************)

\* Two cappings that weigh the same pool would cut it below its cap
\* (cap_the_pool): a container goes only from a pool that is over.
NeverCutBelowTheCap ==
  [][\A c \in Live : c \notin Live' => Cardinality(Live) > WarmPool]_vars

\* Once everybody has been answered the pool is inside its cap, whichever way
\* the turns, wakes and cappings were interleaved (ADR-0002 rule 2).
SettledWithinCap == AllAnswered => Cardinality(Live) <= WarmPool

\* A turn in flight outranks the cap: the container an agent is answering from
\* is not taken by a capping (ADR-0002 amendment, src/pool.rs).
TurnKeepsItsContainer ==
  [][\A p \in Procs :
       pc[p] = "answer" /\ pc'[p] = "answer" /\ container[chat[p]] = "live"
         => container'[chat[p]] = "live"]_vars

(***************************************************************************)
(* The working trees.                                                      *)
(***************************************************************************)

\* A turn in flight over a connection its chat no longer holds: the end of an
\* earlier turn forgets by the chat's id, whichever connection is held by then.
Unheld(c) == \E p \in Procs : InTurn(p, c) /\ conn[p] # held[c]

\* Nothing is written into a tree while an archive of its chat is at the gate,
\* so that what it deletes is what it pushed: deleting the tree is "the one
\* thing that must never happen under an agent that is writing into it"
\* (archive).  But for an agent nobody awaits any more, and one whose turn goes
\* over a connection that was forgotten: the code guards against neither.
NoWriteUnderArchive ==
  [][\A c \in Chats, p \in Procs :
       ~unpushed[c] /\ unpushed'[c] =>
         stray[c] \/ Unheld(c) \/ ~(chat[p] = c /\ pc[p] \in GatePcs)]_vars

\* Where no chat is being created an open chat's tree is there and whole, a crash
\* in the middle of a revival included: the state that claims a tree is written
\* after the tree.
OpenMeansTree ==
  \A c \in Chats : manifest[c].state = "open" => workspace[c] = "tree"

\* A sweep takes no open chat's tree: a revival that writes its tree before the
\* state that claims it is safe from a sweep passing by (src/sweep.rs).
SweepTakesOnlyOrphans ==
  [][\A p \in Procs, c \in Chats :
       pc[p] = "s_remove" /\ c \in victims[p] /\ c \notin victims'[p]
         => manifest[c].state # "open"]_vars

\* What a wake asks of a chat on disk.
CanWake(c) ==
  \/ manifest[c].state = "open" /\ workspace[c] = "tree"
  \/ manifest[c].state = "archived" /\ manifest[c].pushed /\ workspace[c] = "none"

\* A wake that fails leaves the chat one that can be prompted again: whenever
\* the core serves and nobody holds the chat, the next wake finds what it asks
\* for on disk, a crash in the middle of a revival included (src/chats.rs, wake).
CanBePromptedAgain ==
  \A c \in Chats :
    pc[Boot] = "done" /\ claims[c] = "free" /\ manifest[c].session => CanWake(c)

\* The sweep before serving leaves no pile: a tree with no open chat is gone
\* unless a container still holds it (ADR-0002 rule 4).
BootLeavesNoPile ==
  [][pc[Boot] # "done" /\ pc'[Boot] = "done" =>
       \A c \in Chats :
         workspace'[c] # "none" => manifest'[c].state = "open" \/ container'[c] = "live"]_vars

(***************************************************************************)
(* Liveness, under FairSpec.                                               *)
(***************************************************************************)

\* A claim comes back unless what its holder is waiting for never ends: git, a
\* startup script, or an adapter that talks on without answering.
ClaimsComeBack ==
  \A c \in Chats :
    claims[c] # "free" ~>
      claims[c] = "free" \/ \E p \in Procs : /\ HoldsClaim(p) /\ chat[p] = c
                                             /\ pc[p] \in Unbounded

\* Every request is answered, unless it is itself at an adapter, at git or at a
\* startup script that never ends: nobody waits for another request's.
EverybodyIsAnswered ==
  \A p \in Procs : pc[p] # "new" ~> pc[p] \in {"done"} \cup Unbounded

=============================================================================
