------------------------------ MODULE Sweeping ------------------------------
(***************************************************************************)
(* sweep (src/chats.rs, src/sweep.rs): run before serving and at the end   *)
(* of every archive.  A working tree is an orphan when no open chat was on *)
(* disk for it, no live container held it and nobody claims it; the four   *)
(* readings are taken in that order and narrow the orphans down one by one.*)
(***************************************************************************)
EXTENDS ChatsState

SweepEnd(p) == Goto(p, IF p = Boot THEN "done" ELSE "a_unlock")

\* Faulty variant: only the trees of archived chats are orphans, so what a
\* creation left before it published a manifest stays.
SweepScanArchived(p) ==
  /\ pc[p] = "s_scan"
  /\ victims' = [victims EXCEPT ![p] = {c \in Chats : manifest[c].state = "archived"}]
  /\ Goto(p, "s_live")
  /\ UNCHANGED <<disk, plane, pipes, gates, chat, conn, seen, spawned, weighed>>

\* store.scan(), kept to the open chats.
SweepScan(p) ==
  /\ pc[p] = "s_scan"
  /\ \/ /\ victims' = [victims EXCEPT ![p] = {c \in Chats : manifest[c].state # "open"}]
        /\ Goto(p, "s_live")
     \/ /\ May("store")
        /\ SweepEnd(p)
        /\ UNCHANGED victims
  /\ UNCHANGED <<disk, plane, pipes, gates, chat, conn, seen, spawned, weighed>>

\* plane.live_chat_ids().await.  An orphan with a live container is only
\* reported (Sweep.held).
SweepLive(p) ==
  /\ pc[p] = "s_live"
  /\ \/ /\ victims' = [victims EXCEPT ![p] = @ \ Live]
        /\ Goto(p, "s_list")
     \/ /\ May("plane")
        /\ victims' = [victims EXCEPT ![p] = {}]
        /\ SweepEnd(p)
  /\ UNCHANGED <<disk, plane, pipes, gates, chat, conn, seen, spawned, weighed>>

\* store.workspace_ids()
SweepList(p) ==
  /\ pc[p] = "s_list"
  /\ \/ /\ victims' = [victims EXCEPT ![p] = {c \in @ : workspace[c] # "none"}]
        /\ Goto(p, "s_claimed")
     \/ /\ May("store")
        /\ victims' = [victims EXCEPT ![p] = {}]
        /\ SweepEnd(p)
  /\ UNCHANGED <<disk, plane, pipes, gates, chat, conn, seen, spawned, weighed>>

\* claimed(), and with it sweep::reconcile
SweepClaimed(p) ==
  /\ pc[p] = "s_claimed"
  /\ victims' = [victims EXCEPT ![p] = @ \ Claimed]
  /\ Goto(p, "s_remove")
  /\ UNCHANGED <<disk, plane, pipes, gates, chat, conn, seen, spawned, weighed>>

\* store.remove_workspace() for each orphan; one that will not go is left.
SweepRemove(p) ==
  /\ pc[p] = "s_remove"
  /\ \E v \in victims[p] :
       /\ victims' = [victims EXCEPT ![p] = @ \ {v}]
       /\ RemoveTree(v) \/ RemoveTreeFails(v)
  /\ UNCHANGED <<manifest, clock, plane, pipes, gates, pc, chat, conn, seen, spawned, weighed>>

SweepOver(p) ==
  /\ pc[p] = "s_remove"
  /\ victims[p] = {}
  /\ SweepEnd(p)
  /\ UNCHANGED <<disk, plane, pipes, gates, locals, weighed>>

SweepStep(p) ==
  \/ SweepScan(p) \/ SweepLive(p) \/ SweepList(p)
  \/ SweepClaimed(p) \/ SweepRemove(p) \/ SweepOver(p)

=============================================================================
