------------------------------ MODULE GitState ------------------------------
(***************************************************************************)
(* What git keeps for one chat: the commits there are, the chat's working  *)
(* tree and the remote, and what the git commands of src/git.rs do to      *)
(* them.  A commit is the tree it captured and the commit it was cut from; *)
(* its place in `commits` is its name, so no two commits are one.  A tree  *)
(* is a number: two are the same work or they are not.                     *)
(***************************************************************************)
EXTENDS Naturals, Sequences, FiniteSets

CONSTANT Trees   \* the contents a working tree may have

ASSUME TreesOK == 0 \in Trees

VARIABLES
  commits,  \* commits[k] = [tree, parent, cut]; parent 0 is none, cut the
            \* checkpoint branch a commit of the core's was made on
  repo,     \* the chat's clone: [refs, at, files]
  remote    \* the remote's branches, each the commit it stands on

gitVars == <<commits, repo, remote>>

(***************************************************************************)
(* A branch is named by what it is for and when it was minted.  A detached *)
(* HEAD is kept as a ref of its own.                                       *)
(***************************************************************************)
Name(mark, stamp) == [mark |-> mark, stamp |-> stamp]
Branch   == Name("chat", 0)    \* the chat's branch
Base     == Name("base", 0)    \* what it was cut from
Detached == Name("HEAD", 0)
Nowhere  == Name("none", 0)    \* no branch at all

Names == [mark : {"chat", "base", "HEAD", "chkpt", "rescue"}, stamp : Nat]

Tree(k) == commits[k].tree
Parent(k) == commits[k].parent

\* The work a commit holds (work_of): its tree and what it was cut from.
WorkOf(k) == <<Tree(k), Parent(k)>>

\* Past[k]: the commit k and everything before it.
PastIn(history) ==
  LET past[k \in 0..Len(history)] ==
        IF k = 0 THEN {} ELSE {k} \cup past[history[k].parent]
  IN past
Past == PastIn(commits)

Reach(refs) == UNION {Past[refs[b]] : b \in DOMAIN refs}

\* The branches `refs` with b on the commit k.
Put(refs, b, k) == [r \in DOMAIN refs \cup {b} |-> IF r = b THEN k ELSE refs[r]]
Only(b, k) == [r \in {b} |-> k]

HeadAt == repo.refs[repo.at]
Dirty == repo.files # Tree(HeadAt)

\* A tree, a commit and a HEAD to begin with.
GitInit ==
  /\ commits = <<[tree |-> 0, parent |-> 0, cut |-> Nowhere]>>
  /\ repo = [refs |-> Only(Branch, 1), at |-> Branch, files |-> 0]
  /\ remote = Only(Base, 1)

(***************************************************************************)
(* The commands.                                                           *)
(***************************************************************************)
\* The branches proper: a detached HEAD is forgotten when it is left.
Named == [b \in DOMAIN repo.refs \ {Detached} |-> repo.refs[b]]

\* git checkout -b
CutBranch(b) ==
  /\ b \notin DOMAIN repo.refs
  /\ repo' = [repo EXCEPT !.refs = Put(Named, b, HeadAt), !.at = b]

\* git checkout of the commit k as `at`.  Uncommitted work is carried over
\* where k holds the files HEAD holds, and the checkout refused otherwise.
InTheWay(k) == Dirty /\ Tree(k) # Tree(HeadAt)
Checkout(at, k) ==
  /\ ~InTheWay(k)
  /\ repo' = [refs  |-> Put(Named, at, k),
              at    |-> at,
              files |-> IF Dirty THEN repo.files ELSE Tree(k)]

\* git commit of everything in the tree, on top of the commit `parent`
Commit(parent, cut) ==
  /\ commits' = Append(commits, [tree |-> repo.files, parent |-> parent, cut |-> cut])
  /\ repo' = [repo EXCEPT !.refs[repo.at] = Len(commits) + 1]

\* Faulty variant: git reset --hard.
ResetHard(k) == repo' = [repo EXCEPT !.refs[repo.at] = k, !.files = Tree(k)]

\* git reset --mixed: HEAD's branch goes to k, the files stay
ResetMixed(k) == repo' = [repo EXCEPT !.refs[repo.at] = k]

\* git branch -d: not the branch HEAD is on, nor one HEAD does not carry
Deletable(b) ==
  /\ b \in DOMAIN repo.refs \ {repo.at}
  /\ repo.refs[b] \in Past[HeadAt]
DeleteBranch(b) ==
  /\ Deletable(b)
  /\ repo' = [repo EXCEPT !.refs = [r \in DOMAIN @ \ {b} |-> @[r]]]

\* git push b:onto.  A remote takes what adds to it and nothing else.
Takes(b, onto) ==
  /\ b \in DOMAIN repo.refs
  /\ onto \in DOMAIN remote => remote[onto] \in Past[repo.refs[b]]
Lands(b, onto) == remote' = Put(remote, onto, repo.refs[b])

\* git ls-remote of the branches minted for `mark`
Minted(mark) == {b \in DOMAIN remote : b.mark = mark}

\* git clone of the chat's branch, and a HEAD set at k
Clone(k) ==
  repo' = [refs |-> Only(Branch, k), at |-> Branch, files |-> Tree(k)]
=============================================================================
