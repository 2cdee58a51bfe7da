---------------------------- MODULE ArchiveGate ----------------------------
(***************************************************************************)
(* The gate (module Gate) among the agent that works in the tree between   *)
(* archives, others who push to the remote, clients that hang up, a core   *)
(* that crashes, and the revival that brings an archived chat back         *)
(* (revive_at of src/git.rs).                                              *)
(***************************************************************************)
EXTENDS Gate

Init ==
  /\ GitInit
  /\ manifest = [state |-> "open", commit |-> 0, checkpoint |-> Nowhere]
  /\ gate = [g \in Gates |-> Fresh]
  /\ stamp = 0
  /\ left = [head |-> 1, files |-> 0]
  /\ passed = {} /\ crowded = FALSE

(***************************************************************************)
(* The agent, in a chat that is open.  It goes where it likes, with a      *)
(* clean tree; `left` is what it leaves behind at each step.               *)
(***************************************************************************)
Leaves ==
  /\ left' = [head |-> HeadAt', files |-> repo'.files]
  /\ UNCHANGED <<remote, manifest, gate, stamp, passed>>

Edit ==
  /\ Open /\ Enters
  /\ \E t \in Trees \ {repo.files} : repo' = [repo EXCEPT !.files = t]
  /\ UNCHANGED commits
  /\ Leaves

AgentCommits ==
  /\ Open /\ Enters
  /\ Dirty /\ Len(commits) < MaxCommits
  /\ Commit(HeadAt, Nowhere)
  /\ Leaves

Amend ==
  /\ Open /\ Enters
  /\ Parent(HeadAt) # 0 /\ Len(commits) < MaxCommits
  /\ Commit(Parent(HeadAt), Nowhere)
  /\ Leaves

Wander ==
  /\ Open /\ Enters
  /\ ~Dirty
  /\ \/ \E k \in Past[HeadAt] : Checkout(Detached, k)
     \/ Branch \in DOMAIN repo.refs /\ Checkout(Branch, repo.refs[Branch])
  /\ UNCHANGED commits
  /\ Leaves

\* Somebody else builds on the chat's branch.
OthersPush ==
  /\ Branch \in DOMAIN remote /\ Len(commits) < MaxCommits
  /\ commits' = Append(commits, [tree |-> Tree(remote[Branch]),
                                 parent |-> remote[Branch], cut |-> Nowhere])
  /\ remote' = [remote EXCEPT ![Branch] = Len(commits) + 1]
  /\ UNCHANGED <<repo, manifest, gate, stamp, left, passed, crowded>>

(***************************************************************************)
(* revive(): a fresh clone of the chat's branch, back on the commit it     *)
(* was archived at where the branch still carries it, on its tip if not.   *)
(* It runs under a claim; one that fails leaves the chat archived.         *)
(***************************************************************************)
Revive ==
  /\ ~Open /\ Enters
  /\ Branch \in DOMAIN remote
  /\ Clone(IF manifest.commit \in Past[remote[Branch]] THEN manifest.commit
                                                       ELSE remote[Branch])
  /\ manifest' = [manifest EXCEPT !.state = "open"]
  /\ left' = [head |-> repo'.refs[Branch], files |-> repo'.files]
  /\ UNCHANGED <<commits, remote, gate, stamp, passed>>

\* The client of an archive goes away while its gate is at work.
Hangup(g) ==
  /\ May("hangup")
  /\ g \in Working /\ ~gate[g].abandoned /\ ~At(g, "record")
  /\ gate' = [gate EXCEPT ![g].abandoned = TRUE]
  /\ UNCHANGED gitVars /\ Quietly

\* The core dies with whatever gates it had.
Crash ==
  /\ May("crash")
  /\ gate' = [g \in Gates |-> Fresh]
  /\ UNCHANGED gitVars /\ Quietly

\* The chat at rest, which the bounds on commits and stamps bring about.
Idle == Working = {} /\ UNCHANGED vars

Next ==
  \/ \E g \in Gates : Begin(g) \/ GateStep(g) \/ Hangup(g)
  \/ Edit \/ AgentCommits \/ Amend \/ Wander
  \/ OthersPush \/ Revive \/ Crash \/ Idle

Spec == Init /\ [][Next]_vars

(***************************************************************************)
(* What the gate is for.  A gate whose client hung up works on in a tree   *)
(* that nothing keeps others out of; once the chat has been used beside    *)
(* one, all that follows is left open (`crowded`), and none of this is so. *)
(***************************************************************************)
\* k holds the work the agent left: it is what was left, or its files
\* committed on top of it.
HoldsTheWork(k) ==
  /\ Tree(k) = left.files
  /\ left.head \in {k, Parent(k)}

\* The commits out of harm's way: what the remote reaches, and while the chat is
\* open what its branches do.
Saved == Reach(remote) \cup (IF Open THEN Reach(repo.refs) ELSE {})

\* What the agent left is never out of reach: not of the working tree, its
\* branches, or the remote while the chat is open; not of the remote once it
\* is archived (push_for_archive: "get everything in workspace onto the remote
\* so the directory can be deleted").
NothingLost ==
  ~crowded =>
    /\ left.head \in Saved
    /\ \/ Open /\ repo.files = left.files
       \/ \E k \in Saved : HoldsTheWork(k)

\* What an archive found, its tip and its checkpoint, holds the work.
LeadsToWork(found) ==
  \/ found.commit = left.head /\ HoldsTheWork(found.commit)
  \/ found.checkpoint # Nowhere /\ HoldsTheWork(remote[found.checkpoint])

\* The two ways in which the code may still close on nothing: the remote lists
\* the checkpoint and will not hand it over, or the agent had left HEAD off
\* the branch's tip before an earlier attempt.
Unread == \E b \in passed : HoldsTheWork(remote[b])
Strayed == \E g \in Gates : /\ At(g, "record")
                           /\ gate[g].checkpoint = Nowhere
                           /\ left.head # gate[g].tip

\* The third: two checkpoints were cut off one commit, and the work is in the
\* earlier, which a later attempt adopted.
Superseded ==
  \E b, c \in Minted("chkpt") : /\ b.stamp < c.stamp
                                /\ HoldsTheWork(remote[b])
                                /\ Parent(remote[c]) = left.head

\* The manifest an archive writes leads to what the agent left, by its commit
\* or by its checkpoint, also where an earlier attempt has committed it away
\* (issue #105), but for the three ways above.
ManifestLeadsToWork ==
  [][~crowded' /\ Open /\ manifest'.state = "archived"
       => LeadsToWork(manifest') \/ Unread \/ Strayed \/ Superseded]_vars

\* Of two checkpoints that are pushed by the attempt that committed them, each
\* holds work of its own, but for one some lookup could not read; what a crash
\* left committed under HEAD is the agent's to the next attempt.  No two rescue
\* branches stand on one commit.
MintedOfTheirOwn ==
  LET own == {b \in Minted("chkpt") : commits[remote[b]].cut = b} IN
  /\ \A b, c \in own :
       b.stamp < c.stamp /\ WorkOf(remote[b]) = WorkOf(remote[c]) => b \in passed
  /\ \A b, c \in Minted("rescue") : remote[b] = remote[c] => b = c

\* An archive that is retried mints no second checkpoint of the same work
\* (issue #99), unless the remote would not hand over the first, and no second
\* rescue of one commit (issue #82).
NothingMintedTwice == ~crowded => MintedOfTheirOwn

\* A gate that rolled its checkpoint back to the end left the workspace as it
\* found it.
RolledBack ==
  [][~crowded' => \A g \in Gates :
       (At(g, "undo_branch") /\ gate[g].checkpoint \notin DOMAIN repo'.refs)
       => /\ repo'.at = gate[g].standing.at
          /\ HeadAt' = gate[g].standing.head
          /\ repo'.files = left.files]_vars
=============================================================================
