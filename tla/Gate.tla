-------------------------------- MODULE Gate --------------------------------
(***************************************************************************)
(* The gate an archive passes before a working tree is deleted:            *)
(* push_for_archive of src/git.rs, one git command a step, with what may   *)
(* stop it at any of them, and the manifest write that follows it in       *)
(* src/chats.rs.  Archiving!Push is this gate in one step.  ArchiveGate    *)
(* adds the agent, the others on the remote, the retries and the revival.  *)
(*                                                                         *)
(* A gate runs on the blocking pool: a client that hangs up drops the      *)
(* archive and its claim, and the gate works on, abandoned.                *)
(***************************************************************************)
EXTENDS GitState

CONSTANTS
  Gates,       \* attempts that may be under way
  MaxCommits,  \* bound: commits of the agent's and of others
  MaxStamp,    \* bound: branches minted
  Faults       \* which faults happen

FaultKinds ==
  {"git",     \* a command fails, or git cannot be run
   "refused", \* the remote does not take the chat's branch
   "answer",  \* a push lands and its answer is lost
   "fetch",   \* the remote lists a branch and does not hand it over
   "store",   \* the manifest cannot be written
   "hangup",  \* the client goes away
   "crash"}   \* the core dies and is started again

ASSUME GateConstantsOK ==
  /\ MaxCommits \in Nat /\ MaxStamp \in Nat
  /\ Faults \subseteq FaultKinds

VARIABLES
  manifest,  \* [state, commit, checkpoint] of the chat
  gate,      \* the locals of each gate
  stamp,     \* STAMPED_THROUGH; the clock itself never goes back
  left,      \* auxiliary: HEAD's commit and the files as the agent left them
  passed,    \* auxiliary: checkpoints some lookup could not read
  crowded    \* auxiliary: the chat was used beside an abandoned gate

vars == <<gitVars, manifest, gate, stamp, left, passed, crowded>>

Fresh == [pc |-> "idle", standing |-> [head |-> 0, at |-> Nowhere],
          checkpoint |-> Nowhere, committed |-> FALSE, tip |-> 0,
          landed |-> Nowhere, abandoned |-> FALSE]

May(fault) == fault \in Faults
Open == manifest.state = "open"
Working == {g \in Gates : gate[g].pc # "idle"}
At(g, pc) == gate[g].pc = pc

\* The chat is used: nobody is in its tree but gates that were abandoned, which
\* hold nothing that would keep anybody out.
Enters == /\ \A g \in Working : gate[g].abandoned
          /\ crowded' = (crowded \/ Working # {})

\* The gate goes on at pc.
Goto(g, pc) == gate' = [gate EXCEPT ![g].pc = pc]

\* push_for_archive ends; so does the archive, unless it is to be recorded.
Over(g) == gate' = [gate EXCEPT ![g] = Fresh]

(***************************************************************************)
(* A gate that stops before push_branches leaves the tree as it is; one    *)
(* that stops in it rolls its checkpoint back, if it cut one.              *)
(***************************************************************************)
Stop(g) ==
  IF gate[g].checkpoint = Nowhere THEN Over(g) ELSE Goto(g, "undo_reset")

\* A gate that has passed is over with the archive that awaits it.
Passed(g, landed) ==
  IF gate[g].abandoned
  THEN Over(g)
  ELSE gate' = [gate EXCEPT ![g].pc = "record", ![g].landed = landed]

Quietly == UNCHANGED <<manifest, stamp, left, passed, crowded>>

(***************************************************************************)
(* Cutting the checkpoint.                                                 *)
(***************************************************************************)
Begin(g) ==
  /\ Open /\ Enters /\ At(g, "idle")
  /\ stamp + 2 * Cardinality(Working) + 2 <= MaxStamp
  /\ Goto(g, "standing")
  /\ UNCHANGED <<gitVars, manifest, stamp, left, passed>>

\* standing()
Standing(g) ==
  /\ At(g, "standing")
  /\ \/ /\ Open
        /\ gate' = [gate EXCEPT ![g].pc = "status",
                                 ![g].standing = [head |-> HeadAt, at |-> repo.at]]
     \/ /\ May("git") \/ ~Open
        /\ Over(g)
  /\ UNCHANGED gitVars /\ Quietly

\* Faulty variant: only a dirty tree is checkpointed (as before ADR-0005's
\* first amendment).
StatusDirtyOnly(g) ==
  /\ At(g, "status")
  /\ \/ /\ Open
        /\ IF Dirty
           THEN gate' = [gate EXCEPT ![g].pc = "cut", ![g].committed = TRUE]
           ELSE Goto(g, "tip")
     \/ /\ May("git") \/ ~Open
        /\ Over(g)
  /\ UNCHANGED gitVars /\ Quietly

\* checkpoint_unpushed_work(): is there anything the branch does not carry?
Status(g) ==
  /\ At(g, "status")
  /\ \/ /\ Open
        /\ IF Dirty \/ gate[g].standing.at # Branch
           THEN gate' = [gate EXCEPT ![g].pc = "cut", ![g].committed = Dirty]
           ELSE Goto(g, "tip")
     \/ /\ May("git") \/ ~Open
        /\ Over(g)
  /\ UNCHANGED gitVars /\ Quietly

\* cut_checkpoint(), under a name minted now
Cut(g) ==
  LET name == Name("chkpt", stamp + 1) IN
  /\ At(g, "cut")
  /\ stamp' = stamp + 1
  /\ \/ /\ Open
        /\ CutBranch(name)
        /\ gate' = [gate EXCEPT ![g].pc = IF gate[g].committed THEN "commit" ELSE "lookup",
                                 ![g].checkpoint = name]
     \/ /\ May("git") \/ ~Open
        /\ Over(g)
        /\ UNCHANGED repo
  /\ UNCHANGED <<commits, remote, manifest, left, passed, crowded>>

\* commit_everything(); one that fails leaves the tree on the checkpoint
CommitEverything(g) ==
  /\ At(g, "commit")
  /\ \/ /\ Open /\ Dirty
        /\ Commit(HeadAt, gate[g].checkpoint)
        /\ Goto(g, "lookup")
     \/ /\ May("git") \/ ~Open \/ ~Dirty
        /\ Over(g)
        /\ UNCHANGED <<commits, repo>>
  /\ UNCHANGED remote /\ Quietly

(***************************************************************************)
(* push_branches(): the checkpoint, the chat's branch, a rescue.           *)
(***************************************************************************)
\* work_on_remote(): a lookup reads the checkpoints listed, but for some the
\* remote does not hand over, and passes over those.
Readable(g, listed, read) ==
  /\ read \subseteq listed
  /\ May("fetch") \/ read = listed
  /\ passed' = passed \cup (listed \ read)

Earliest(names) == CHOOSE b \in names : \A c \in names : b.stamp <= c.stamp
Latest(names) == CHOOSE b \in names : \A c \in names : b.stamp >= c.stamp

\* Faulty variant: what the core commits is looked for by its sha (as before
\* issue #99).
HoldingBySha(g, read) ==
  {b \in read : remote[b] = repo.refs[gate[g].checkpoint]}

\* checkpoint_holding(): the same commit, or for one the core made the same work
Holding(g, read) ==
  LET mine == repo.refs[gate[g].checkpoint] IN
  {b \in read : IF gate[g].committed THEN WorkOf(remote[b]) = WorkOf(mine)
                                     ELSE remote[b] = mine}

\* checkpointed(): adopt the checkpoint that holds this already, or push
Lookup(g) ==
  /\ At(g, "lookup")
  /\ \/ /\ Open /\ gate[g].checkpoint \in DOMAIN repo.refs
        /\ \E read \in SUBSET Minted("chkpt") :
             /\ IF gate[g].committed THEN Readable(g, Minted("chkpt"), read)
                ELSE read = Minted("chkpt") /\ UNCHANGED passed
             /\ IF Holding(g, read) = {}
                THEN Goto(g, "push_checkpoint")
                ELSE gate' = [gate EXCEPT ![g].pc = "tip",
                                          ![g].landed = Earliest(Holding(g, read))]
     \/ /\ May("git") \/ ~Open \/ gate[g].checkpoint \notin DOMAIN repo.refs
        /\ Stop(g)
        /\ UNCHANGED passed
  /\ UNCHANGED <<gitVars, manifest, stamp, left, crowded>>

PushCheckpoint(g) ==
  LET name == gate[g].checkpoint
      can == Open /\ Takes(name, name)
  IN
  /\ At(g, "push_checkpoint")
  /\ \/ /\ can
        /\ Lands(name, name)
        /\ gate' = [gate EXCEPT ![g].pc = "tip", ![g].landed = name]
     \/ /\ can /\ May("answer")
        /\ Lands(name, name)
        /\ Stop(g)
     \/ /\ May("git") \/ ~can
        /\ Stop(g)
        /\ UNCHANGED remote
  /\ UNCHANGED <<commits, repo>> /\ Quietly

\* tip_of()
Tip(g) ==
  /\ At(g, "tip")
  /\ \/ /\ Open /\ Branch \in DOMAIN repo.refs
        /\ gate' = [gate EXCEPT ![g].pc = "push", ![g].tip = repo.refs[Branch]]
     \/ /\ May("git") \/ ~Open \/ Branch \notin DOMAIN repo.refs
        /\ Stop(g)
  /\ UNCHANGED gitVars /\ Quietly

\* The chat's own branch.  Whatever git exits on is a refusal, a push whose
\* answer was lost included; only a git that cannot be run stops the gate.
PushBranch(g) ==
  LET can == Open /\ Takes(Branch, Branch) IN
  /\ At(g, "push")
  /\ \/ /\ can
        /\ Lands(Branch, Branch)
        /\ Goto(g, "stand_on")
     \/ /\ can /\ May("answer")
        /\ Lands(Branch, Branch)
        /\ Goto(g, "rescue_lookup")
     \/ /\ May("refused") \/ May("git") \/ ~can
        /\ Goto(g, "rescue_lookup")
        /\ UNCHANGED remote
     \/ /\ May("git")
        /\ Stop(g)
        /\ UNCHANGED remote
  /\ UNCHANGED <<commits, repo>> /\ Quietly

\* Faulty variant: a name per attempt (as before issue #82).
RescueUnseen(g) ==
  /\ At(g, "rescue_lookup")
  /\ \/ Goto(g, "push_rescue")
     \/ May("git") /\ Stop(g)
  /\ UNCHANGED gitVars /\ Quietly

\* rescue_holding(): the rescue an earlier gate already put the tip on
RescueLookup(g) ==
  LET held == {b \in Minted("rescue") : remote[b] = gate[g].tip} IN
  /\ At(g, "rescue_lookup")
  /\ \/ /\ Open
        /\ Goto(g, IF held = {} THEN "push_rescue" ELSE "stand_on")
     \/ /\ May("git") \/ ~Open
        /\ Stop(g)
  /\ UNCHANGED gitVars /\ Quietly

\* rescue(): the branch once more, under a name minted now
PushRescue(g) ==
  LET name == Name("rescue", stamp + 1)
      can == Open /\ Takes(Branch, name)
  IN
  /\ At(g, "push_rescue")
  /\ stamp' = stamp + 1
  /\ \/ /\ can
        /\ Lands(Branch, name)
        /\ Goto(g, "stand_on")
     \/ /\ can /\ May("answer")
        /\ Lands(Branch, name)
        /\ Stop(g)
     \/ /\ May("git") \/ ~can
        /\ Stop(g)
        /\ UNCHANGED remote
  /\ UNCHANGED <<commits, repo, manifest, left, passed, crowded>>

(***************************************************************************)
(* The branch is safe: back onto it, and name a checkpoint if none was cut.*)
(***************************************************************************)
\* stand_on(); one that fails leaves the tree where it stands
StandOn(g) ==
  LET can == Open /\ Branch \in DOMAIN repo.refs IN
  /\ At(g, "stand_on")
  /\ \/ /\ can /\ Checkout(Branch, repo.refs[Branch])
        /\ IF gate[g].landed = Nowhere
           THEN Goto(g, "look_back")
           ELSE Passed(g, gate[g].landed)
     \/ /\ May("git") \/ ~can \/ InTheWay(repo.refs[Branch])
        /\ Over(g)
        /\ UNCHANGED repo
  /\ UNCHANGED <<commits, remote>> /\ Quietly

\* Faulty variant: an archive that cut no checkpoint names none (as before
\* issue #105).
LookNowhere(g) ==
  /\ At(g, "look_back")
  /\ Passed(g, gate[g].landed)
  /\ UNCHANGED gitVars /\ Quietly

CutFrom(names, tip) == {b \in names : Parent(remote[b]) = tip}

\* checkpoint_cut_off(): the latest checkpoint cut off the very tip
LookBack(g) ==
  /\ At(g, "look_back")
  /\ \/ \E read \in SUBSET Minted("chkpt") :
          LET found == CutFrom(read, gate[g].tip) IN
          /\ Open
          /\ Readable(g, Minted("chkpt"), read)
          /\ Passed(g, IF found = {} THEN gate[g].landed ELSE Latest(found))
     \/ /\ May("git") \/ ~Open
        /\ Over(g)
        /\ UNCHANGED passed
  /\ UNCHANGED <<gitVars, manifest, stamp, left, crowded>>

(***************************************************************************)
(* undo_checkpoint(): three commands, and the first to fail ends it.       *)
(***************************************************************************)
UndoReset(g) ==
  /\ At(g, "undo_reset")
  /\ \/ /\ Open
        /\ ResetMixed(gate[g].standing.head)
        /\ Goto(g, "undo_checkout")
     \/ /\ May("git") \/ ~Open
        /\ Over(g)
        /\ UNCHANGED repo
  /\ UNCHANGED <<commits, remote>> /\ Quietly

UndoCheckout(g) ==
  LET at == gate[g].standing.at
      can == Open /\ at \in DOMAIN Named \cup {Detached}
      to == IF at \in DOMAIN Named THEN repo.refs[at] ELSE gate[g].standing.head
  IN
  /\ At(g, "undo_checkout")
  /\ \/ /\ can /\ Checkout(at, to)
        /\ Goto(g, "undo_branch")
     \/ /\ May("git") \/ ~can \/ InTheWay(to)
        /\ Over(g)
        /\ UNCHANGED repo
  /\ UNCHANGED <<commits, remote>> /\ Quietly

UndoBranch(g) ==
  /\ At(g, "undo_branch")
  /\ Over(g)
  /\ \/ Open /\ DeleteBranch(gate[g].checkpoint)
     \/ /\ May("git") \/ ~Open \/ ~Deletable(gate[g].checkpoint)
        /\ UNCHANGED repo
  /\ UNCHANGED <<commits, remote>> /\ Quietly

(***************************************************************************)
(* close(), after the gate: the manifest, then the tree goes.  What        *)
(* happens in between is in Archiving; here it is one step.                *)
(***************************************************************************)
Record(g) ==
  /\ At(g, "record")
  /\ Over(g)
  /\ \/ manifest' = [state |-> "archived", commit |-> gate[g].tip,
                      checkpoint |-> gate[g].landed]
     \/ May("store") /\ UNCHANGED manifest
  /\ UNCHANGED <<gitVars, stamp, left, passed, crowded>>

GateStep(g) ==
  \/ Standing(g) \/ Status(g) \/ Cut(g) \/ CommitEverything(g)
  \/ Lookup(g) \/ PushCheckpoint(g) \/ Tip(g) \/ PushBranch(g)
  \/ RescueLookup(g) \/ PushRescue(g) \/ StandOn(g) \/ LookBack(g)
  \/ UndoReset(g) \/ UndoCheckout(g) \/ UndoBranch(g) \/ Record(g)
=============================================================================
