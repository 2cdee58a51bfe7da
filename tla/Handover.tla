------------------------------ MODULE Handover ------------------------------
(***************************************************************************)
(* Whose a working tree is.  Git writes a tree as the core, the container  *)
(* runs as the agent, and an entry the agent does not own stops its work   *)
(* (src/store/mod.rs, hand_tree_to; src/chats.rs, check_out, clone_back,   *)
(* hand_the_workspace_back).  One chat, from its creation through wakes,   *)
(* turns, archives that fail and revivals, with an agent that changes the  *)
(* tree whenever its container is up.                                      *)
(*                                                                         *)
(* A chat has one claim, so "claim" is one process; "create" claims        *)
(* nothing and is another.  What git and a handover do blocks, so it runs  *)
(* off the runtime (spawn_blocking) and goes on when its handler is        *)
(* dropped, whose claim goes at once: such work is loose, and nothing that *)
(* comes next waits for it.                                                *)
(***************************************************************************)
EXTENDS FiniteSets

CONSTANTS Entries,    \* what the tree may hold
          Root,       \* the tree itself, one of them
          TreeFaults  \* "git", "store", "daemon", "adapter", "exit", "crash",
                      \* "hangup"

\* A tree is itself an entry of it.
RootOK == Root \in Entries

VARIABLES chat,       \* the manifest's state, "none" before there is one
          session,    \* a session is recorded in it
          tree,       \* the owner of each entry, "none" where it is not
          up,         \* the chat's container is up
          connected,  \* the core holds a connection to it
          turn,       \* a turn is under way
          process,    \* where each of the two processes is
          left,       \* what a handover has listed and not yet given away
          loose,      \* the kinds of work that go on for nobody
          beside      \* auxiliary: handovers the core worked beside

treeVars ==
  <<chat, session, tree, up, connected, turn, process, left, loose, beside>>

Hands == {"create", "claim"}
Standing == {e \in Entries : tree[e] # "none"}
NoTree == [e \in Entries |-> "none"]
OwnTree == Root \in Standing /\ \A e \in Standing : tree[e] = "agent"

TreeInit ==
  /\ chat = "none" /\ session = FALSE /\ tree = NoTree
  /\ up = FALSE /\ connected = FALSE /\ turn = FALSE
  /\ process = [p \in Hands |-> "idle"] /\ left = [p \in Hands |-> {}]
  /\ loose = {} /\ beside = {}

Moves(p, place) == process' = [process EXCEPT ![p] = place]
Over(p) == Moves(p, "idle") /\ left' = [left EXCEPT ![p] = {}]

\* Where a process counts on the tree it listed to be as it left it.
Handing == {"own", "reown", "reopen", "house"}

\* The core changes the tree, and not for the handover that is under way.
Disturbs(p) ==
  beside' = beside \cup {q \in Hands \ {p} : process[q] \in Handing}

\* A step that gets nowhere: the handler ends, and whatever is there stays.
Fails(p, place, fault) ==
  /\ fault \in TreeFaults /\ process[p] = place /\ Over(p)
  /\ UNCHANGED <<chat, session, tree, up, connected, turn, loose, beside>>

-----------------------------------------------------------------------------
(* hand_tree_to: everything listed, looked at, and then given away.        *)

List(p) ==
  /\ process[p] \in {"list", "relist"}
  /\ IF Root \in Standing
       THEN /\ Moves(p, IF process[p] = "list" THEN "own" ELSE "reown")
            /\ left' = [left EXCEPT ![p] = Standing]
       ELSE Over(p)
  /\ beside' = beside \ {p}
  /\ UNCHANGED <<chat, session, tree, up, connected, turn, loose>>

\* An entry the agent took away since it was listed fails the handover.
Own(p) ==
  /\ process[p] \in {"own", "reown"}
  /\ \E e \in left[p] :
       IF e \in Standing
         THEN /\ tree' = [tree EXCEPT ![e] = "agent"]
              /\ left' = [left EXCEPT ![p] = @ \ {e}]
              /\ UNCHANGED <<process, beside>>
         ELSE /\ Over(p) /\ Disturbs(p)
              /\ tree' = IF process[p] = "reown" THEN NoTree ELSE tree
  /\ UNCHANGED <<chat, session, up, connected, turn, loose>>

Handed(p) ==
  /\ process[p] \in {"own", "reown"} /\ left[p] = {}
  /\ Moves(p, IF process[p] = "own" THEN "house" ELSE "reopen")
  /\ UNCHANGED <<chat, session, tree, up, connected, turn, left, loose, beside>>

-----------------------------------------------------------------------------
(* create.                                                                 *)

CreateChat ==
  /\ process["create"] = "idle" /\ chat = "none" /\ chat' = "open"
  /\ tree' = [tree EXCEPT ![Root] = "core"] /\ Moves("create", "clone")
  /\ UNCHANGED <<session, up, connected, turn, left, loose, beside>>

Cloned(p, next) ==
  /\ process[p] = "clone"
  /\ \E new \in SUBSET Entries :
        tree' = [e \in Entries |-> IF e \in new \cup {Root} THEN "core"
                                                            ELSE tree[e]]
  /\ Moves(p, next) /\ Disturbs(p)
  /\ UNCHANGED <<chat, session, up, connected, turn, left, loose>>

CheckOut == Cloned("create", "list")

RecordSession ==
  /\ process["create"] = "fresh" /\ Over("create")
  /\ session' = TRUE /\ chat' = "open" /\ connected' = TRUE
  /\ UNCHANGED <<tree, up, turn, loose, beside>>

\* A creation that opens no session takes its container down.
NoSession ==
  /\ "adapter" \in TreeFaults /\ process["create"] = "fresh" /\ Over("create")
  /\ up' = FALSE
  /\ UNCHANGED <<chat, session, tree, connected, turn, loose, beside>>

-----------------------------------------------------------------------------
(* woken and revive.                                                       *)

\* Slip: a tree that was handed over once is the agent's for good.
WakeStraight ==
  /\ process["claim"] = "idle" /\ ~connected /\ session /\ chat # "none"
  /\ IF chat = "open" THEN Root \in Standing /\ Moves("claim", "house")
                      ELSE Root \notin Standing /\ Moves("claim", "clone")
  /\ UNCHANGED <<chat, session, tree, up, connected, turn, left, loose, beside>>

\* An open chat has its tree, an archived one has none, or neither is woken.
Wake ==
  /\ process["claim"] = "idle" /\ ~connected /\ session /\ chat # "none"
  /\ IF chat = "open" THEN Root \in Standing /\ Moves("claim", "list")
                      ELSE Root \notin Standing /\ Moves("claim", "clone")
  /\ UNCHANGED <<chat, session, tree, up, connected, turn, left, loose, beside>>

CloneBack == Cloned("claim", "relist")

\* wipe_the_half_clone: a clone or a handover that fails takes the tree away,
\* if the tree will go.
Wipe ==
  /\ Over("claim") /\ Disturbs("claim")
  /\ \/ /\ "git" \in TreeFaults /\ process["claim"] = "clone" /\ tree' = NoTree
     \/ /\ "store" \in TreeFaults /\ process["claim"] \in {"relist", "reown"}
        /\ tree' \in {NoTree, tree}
  /\ UNCHANGED <<chat, session, up, connected, turn, loose>>

Reopen ==
  /\ process["claim"] = "reopen" /\ chat' = "open" /\ Moves("claim", "house")
  /\ UNCHANGED <<session, tree, up, connected, turn, left, loose, beside>>

\* container_for, spawn: one that is still up is connected to again; a
\* creation always spawns, and is refused the name of one that is up.
House(p) ==
  /\ process[p] = "house"
  /\ IF ~up THEN Moves(p, "fresh") /\ up' = TRUE /\ UNCHANGED left
     ELSE /\ UNCHANGED up
          /\ IF p = "claim" THEN Moves(p, "again") /\ UNCHANGED left ELSE Over(p)
  /\ UNCHANGED <<chat, session, tree, connected, turn, loose, beside>>

Climb ==
  /\ process["claim"] \in {"fresh", "again"} /\ Over("claim")
  /\ \/ up /\ connected' = TRUE /\ UNCHANGED up
     \/ /\ "adapter" \in TreeFaults /\ UNCHANGED connected
        /\ up' = (up /\ process["claim"] = "again")
  /\ UNCHANGED <<chat, session, tree, turn, loose, beside>>

-----------------------------------------------------------------------------
(* turn and park.                                                          *)

Turn ==
  /\ connected /\ ~turn /\ process["claim"] = "idle" /\ turn' = TRUE
  /\ UNCHANGED <<chat, session, tree, up, connected, process, left, loose, beside>>

TurnEnds ==
  /\ turn /\ turn' = FALSE /\ connected' \in {connected, FALSE}
  /\ UNCHANGED <<chat, session, tree, up, process, left, loose, beside>>

\* A capping parks whom it weighed before, whatever the chat is at by now
\* (cap_the_pool, release).
Park ==
  /\ up /\ up' = FALSE /\ connected' = FALSE
  /\ UNCHANGED <<chat, session, tree, turn, process, left, loose, beside>>

-----------------------------------------------------------------------------
(* close: the gate, and what follows when everything is on the remote.     *)

\* An archive holds the turn lock of the connection, where there is one.
Archive ==
  /\ process["claim"] = "idle" /\ chat = "open" /\ ~(connected /\ turn)
  /\ Moves("claim", "gate")
  /\ UNCHANGED <<chat, session, tree, up, connected, turn, left, loose, beside>>

\* The gate commits and pushes as the core, down to the refs and the index,
\* for the archive that began it or, loose, for nobody.
Gate ==
  /\ process["claim"] = "gate" \/ "gate" \in loose
  /\ Root \in Standing
  /\ \E e \in Entries \ {Root} : tree' = [tree EXCEPT ![e] = "core"]
  /\ Disturbs("nobody")
  /\ UNCHANGED <<chat, session, up, connected, turn, process, left, loose>>

Pushed ==
  /\ process["claim"] = "gate"
  /\ \/ Root \in Standing /\ Moves("claim", "record")
     \/ ("git" \in TreeFaults \/ Root \notin Standing) /\ Moves("claim", "idle")
  /\ UNCHANGED <<chat, session, tree, up, connected, turn, left, loose, beside>>

Record ==
  /\ process["claim"] = "record" /\ chat' = "archived" /\ Moves("claim", "release")
  /\ UNCHANGED <<session, tree, up, connected, turn, left, loose, beside>>

Release ==
  /\ process["claim"] = "release" /\ Moves("claim", "remove") /\ connected' = FALSE
  /\ up' \in {FALSE} \cup (IF "daemon" \in TreeFaults THEN {up} ELSE {})
  /\ UNCHANGED <<chat, session, tree, turn, left, loose, beside>>

RemoveTree ==
  /\ process["claim"] = "remove" /\ Over("claim") /\ tree' = NoTree
  /\ Disturbs("claim")
  /\ UNCHANGED <<chat, session, up, connected, turn, loose>>

\* sweep, as another chat's archive ends: the tree of a chat that is archived,
\* down and nobody's goes.
Sweep ==
  /\ process["claim"] = "idle" /\ chat = "archived" /\ ~up /\ Root \in Standing
  /\ tree' = NoTree /\ Disturbs("nobody")
  /\ UNCHANGED <<chat, session, up, connected, turn, process, left, loose>>

-----------------------------------------------------------------------------
(* Work whose handler is gone.                                             *)

\* What an await was on when the handler was dropped there.
Blocking(place) == CASE place = "clone" -> {"clone"}
                      [] place = "gate" -> {"gate"}
                      [] place \in {"list", "own", "relist", "reown"} -> {"hand"}
                      [] OTHER -> {}

HangsUp(p) ==
  /\ "hangup" \in TreeFaults
  /\ process[p] \notin {"idle", "reopen", "record", "remove"}
  /\ Over(p) /\ loose' = loose \cup Blocking(process[p])
  /\ UNCHANGED <<chat, session, tree, up, connected, turn, beside>>

LooseClone ==
  /\ "clone" \in loose
  /\ \E e \in IF Root \in Standing THEN Entries ELSE {Root} :
        tree' = [tree EXCEPT ![e] = "core"]
  /\ Disturbs("nobody")
  /\ UNCHANGED <<chat, session, up, connected, turn, process, left, loose>>

LooseHandover ==
  /\ "hand" \in loose
  /\ \E e \in Standing : tree' = [tree EXCEPT ![e] = "agent"]
  /\ UNCHANGED <<chat, session, up, connected, turn, process, left, loose, beside>>

\* A clone is handed over by whoever made it.
LooseEnds ==
  /\ \E kind \in loose :
        loose' \in {loose \ {kind}}
                    \cup (IF kind = "clone" THEN {(loose \ {kind}) \cup {"hand"}}
                                           ELSE {})
  /\ UNCHANGED <<chat, session, tree, up, connected, turn, process, left, beside>>

-----------------------------------------------------------------------------
(* The agent, and what goes wrong.                                         *)

\* The agent writes what is its own, makes entries and takes them away.
Work ==
  /\ up /\ Root \in Standing
  /\ \E e \in Entries \ {Root} :
        /\ tree[e] # "core"
        /\ tree' = [tree EXCEPT ![e] = IF @ = "none" THEN "agent" ELSE "none"]
  /\ UNCHANGED <<chat, session, up, connected, turn, process, left, loose, beside>>

AgentExits ==
  /\ "exit" \in TreeFaults /\ up /\ up' = FALSE
  /\ UNCHANGED <<chat, session, tree, connected, turn, process, left, loose, beside>>

\* The sweep before serving takes a tree whose chat is archived and down.
Restart ==
  /\ "crash" \in TreeFaults
  /\ process' = [p \in Hands |-> "idle"] /\ left' = [p \in Hands |-> {}]
  /\ connected' = FALSE /\ turn' = FALSE /\ loose' = {}
  /\ tree' = IF chat = "archived" /\ ~up THEN NoTree ELSE tree
  /\ UNCHANGED <<chat, session, up, beside>>

GivesUp ==
  \/ \E p \in Hands : Fails(p, "house", "daemon")
  \/ \E place \in {"list", "own"}, p \in Hands : Fails(p, place, "store")
  \/ Fails("create", "clone", "git")
  \/ \E place \in {"reopen", "record", "remove"} : Fails("claim", place, "store")

TreeNext ==
  \/ \E p \in Hands : List(p) \/ Own(p) \/ Handed(p) \/ House(p)
  \/ CreateChat \/ CheckOut \/ RecordSession \/ NoSession
  \/ Wake \/ CloneBack \/ Wipe \/ Reopen \/ Climb
  \/ Turn \/ TurnEnds \/ Park
  \/ Archive \/ Gate \/ Pushed \/ Record \/ Release \/ RemoveTree \/ Sweep
  \/ (\E p \in Hands : HangsUp(p)) \/ LooseClone \/ LooseHandover \/ LooseEnds
  \/ Work \/ AgentExits \/ Restart \/ GivesUp

TreeSpec == TreeInit /\ [][TreeNext]_treeVars

-----------------------------------------------------------------------------
\* No container comes up on a tree with an entry that is not the agent's: it
\* was handed over whole since the core last wrote in it, through failed
\* archives, half handovers, hang-ups and crashes; but where the core changed
\* the tree after the handover had listed it.  That is an archive beside a
\* creation, and git that a dropped archive or revival left running
\* (hand_the_workspace_back, push_everything, clone_back).
SpawnsOnItsOwnTree ==
  [][(~up /\ up') => OwnTree \/ \E p \in beside : process[p] = "house"]_treeVars

\* As the comment on hand_the_workspace_back would have it, no turn begins
\* where one entry would stop the agent committing.
TurnsOnItsOwnTree == [][(~turn /\ turn') => (OwnTree \/ beside # {})]_treeVars

=============================================================================
