----------------------------- MODULE GateProofs -----------------------------
(***************************************************************************)
(* Proofs about the archive's gate (ArchiveGate.tla), for any number of    *)
(* gates, trees, commits, stamps and faults, while an abandoned gate is    *)
(* left to itself (~crowded').                                              *)
(*                                                                         *)
(* The invariant says where the work is at every step of a gate: in the    *)
(* tree as it was left, or on a checkpoint HEAD is on, until the remote    *)
(* has it and HEAD is back on the chat's branch.  IInv is that; MInv adds  *)
(* what a gate has seen of the remote, which the names it mints rest on.   *)
(* Each step is a lemma of its own.                                        *)
(*                                                                         *)
(* Reachability is a recursion over git's history, so what is said of it   *)
(* is proved by induction on a commit's place in it (Induction, from the   *)
(* well-foundedness of the numbers); the rest unfolds it at most once.     *)
(***************************************************************************)
EXTENDS ArchiveGate, WellFoundedInduction, TLAPS

-----------------------------------------------------------------------------
\* Every set of numbers has a least.
LEMMA LeastNumber ==
  ASSUME NEW S \in SUBSET Nat, S # {}
  PROVE  \E n \in S : \A m \in S : n <= m
<1>1. PICK n \in S : \A m \in S : <<m, n>> \notin OpToRel(<, Nat)
  BY NatLessThanWellFounded, WFMin
<1>2. \A m \in S : ~(m < n)
  BY <1>1 DEF OpToRel
<1>3. ASSUME NEW m \in S PROVE n <= m
  <2>1. m \in Nat /\ n \in Nat
    OBVIOUS
  <2> QED BY <1>2, <2>1
<1> QED BY <1>3

\* What holds of a number once it holds of all that are smaller holds of all.
LEMMA Induction ==
  ASSUME NEW S \in SUBSET Nat,
         \A n \in Nat : (\A m \in Nat : m < n => m \in S) => n \in S
  PROVE  S = Nat
<1>1. SUFFICES ASSUME Nat \ S # {} PROVE FALSE
  OBVIOUS
<1>2. PICK n \in Nat \ S : \A m \in Nat \ S : n <= m
  BY <1>1, LeastNumber
<1>3. \A m \in Nat : m < n => m \in S
  BY <1>2
<1> QED BY <1>2, <1>3

-----------------------------------------------------------------------------
(***************************************************************************)
(* Histories.                                                              *)
(***************************************************************************)
\* The shape of git's history: commits, each cut from one before it.
IsHistory(cs) ==
  /\ Len(cs) \in Nat
  /\ \A k \in 1..Len(cs) : cs[k].parent \in 0..(k - 1)

IsPast(f, cs, n) ==
  f = [k \in 0..n |-> IF k = 0 THEN {} ELSE {k} \cup f[cs[k].parent]]

\* Such a history has a past for each of its commits: the recursion `PastIn`
\* chooses a function by has one.
LEMMA PastExists ==
  ASSUME NEW cs, IsHistory(cs)
  PROVE  \E f : IsPast(f, cs, Len(cs))
<1> DEFINE S == {n \in Nat : n <= Len(cs) => \E f : IsPast(f, cs, n)}
<1>1. ASSUME NEW n \in Nat, \A m \in Nat : m < n => m \in S PROVE n \in S
  <2>1. CASE n = 0
    <3> DEFINE f == [k \in {0} |-> {}]
    <3>1. IsPast(f, cs, 0)
      BY DEF IsPast
    <3> QED BY <2>1, <3>1
  <2>2. CASE n # 0 /\ n <= Len(cs)
    <3>1. n - 1 \in S /\ n - 1 \in Nat
      BY <1>1, <2>2
    <3>2. PICK g : IsPast(g, cs, n - 1)
      BY <3>1, <2>2 DEF IsHistory
    <3> DEFINE f == [k \in 0..n |-> IF k = n THEN {n} \cup g[cs[n].parent] ELSE g[k]]
    <3>3. cs[n].parent \in 0..(n - 1)
      BY <2>2 DEF IsHistory
    <3>4. ASSUME NEW k \in 0..n
          PROVE  f[k] = IF k = 0 THEN {} ELSE {k} \cup f[cs[k].parent]
      <4>1. CASE k = n
        BY <4>1, <3>3, <2>2
      <4>2. CASE k # n
        <5>1. k \in 0..(n - 1) /\ f[k] = g[k]
          BY <4>2
        <5>2. g[k] = IF k = 0 THEN {} ELSE {k} \cup g[cs[k].parent]
          BY <3>2, <5>1 DEF IsPast
        <5>3. CASE k = 0
          BY <5>1, <5>2, <5>3
        <5>4. CASE k # 0
          <6>1. cs[k].parent \in 0..n /\ cs[k].parent # n
            BY <5>1, <5>4, <2>2 DEF IsHistory
          <6>2. f[cs[k].parent] = g[cs[k].parent]
            BY <6>1
          <6> QED BY <5>1, <5>2, <5>4, <6>2
        <5> QED BY <5>3, <5>4
      <4> QED BY <4>1, <4>2
    <3>5. IsPast(f, cs, n)
      BY <3>4 DEF IsPast
    <3> QED BY <3>5
  <2> QED BY <2>1, <2>2 DEF IsHistory
<1>2. S = Nat
  BY <1>1, Induction
<1> QED BY <1>2 DEF IsHistory

\* The past of a commit is itself and the past of what it was cut from.
LEMMA PastUnfolds ==
  ASSUME NEW cs, IsHistory(cs)
  PROVE  /\ PastIn(cs)[0] = {}
         /\ \A k \in 1..Len(cs) : PastIn(cs)[k] = {k} \cup PastIn(cs)[cs[k].parent]
<1>1. PICK f : IsPast(f, cs, Len(cs))
  BY PastExists
<1>2. IsPast(PastIn(cs), cs, Len(cs))
  BY <1>1 DEF PastIn, IsPast
<1> QED BY <1>2 DEF IsPast, IsHistory

\* A past holds commits there are, none of them later, and the past of each.
LEMMA PastIsPast ==
  ASSUME NEW cs, IsHistory(cs), NEW k \in 0..Len(cs)
  PROVE  /\ PastIn(cs)[k] \subseteq 1..k
         /\ \A j \in PastIn(cs)[k] : PastIn(cs)[j] \subseteq PastIn(cs)[k]
<1> DEFINE Good(n) == /\ PastIn(cs)[n] \subseteq 1..n
                      /\ \A j \in PastIn(cs)[n] : PastIn(cs)[j] \subseteq PastIn(cs)[n]
           S == {n \in Nat : n <= Len(cs) => Good(n)}
<1>1. ASSUME NEW n \in Nat, \A m \in Nat : m < n => m \in S PROVE n \in S
  <2>1. CASE n = 0
    BY <2>1, PastUnfolds
  <2>2. CASE n # 0 /\ n <= Len(cs)
    <3> DEFINE p == cs[n].parent
    <3>1. p \in 0..(n - 1) /\ p \in S
      BY <1>1, <2>2 DEF IsHistory
    <3>2. Good(p)
      BY <3>1, <2>2 DEF IsHistory
    <3>0. n \in 1..Len(cs)
      BY <2>2 DEF IsHistory
    <3>3. PastIn(cs)[n] = {n} \cup PastIn(cs)[p]
      BY PastUnfolds, <3>0
    <3> HIDE DEF p
    <3>4. PastIn(cs)[n] \subseteq 1..n
      BY <3>1, <3>2, <3>3
    <3>5. ASSUME NEW j \in PastIn(cs)[n] PROVE PastIn(cs)[j] \subseteq PastIn(cs)[n]
      BY <3>2, <3>3
    <3> QED BY <3>4, <3>5
  <2> QED BY <2>1, <2>2 DEF IsHistory
<1>2. S = Nat
  <2> HIDE DEF S
  <2>1. S \in SUBSET Nat
    BY DEF S
  <2> QED BY <1>1, <2>1, Induction
<1>3. k \in S /\ k <= Len(cs)
  BY <1>2 DEF IsHistory
<1>4. Good(k)
  BY <1>3
<1> QED BY <1>4

\* More commits leave the past of the earlier ones as it was.
LEMMA PastStays ==
  ASSUME NEW cs, NEW ds, IsHistory(cs), IsHistory(ds), Len(cs) <= Len(ds),
         \A i \in 1..Len(cs) : ds[i].parent = cs[i].parent,
         NEW k \in 0..Len(cs)
  PROVE  PastIn(ds)[k] = PastIn(cs)[k]
<1> DEFINE S == {n \in Nat : n <= Len(cs) => PastIn(ds)[n] = PastIn(cs)[n]}
<1>1. ASSUME NEW n \in Nat, \A m \in Nat : m < n => m \in S PROVE n \in S
  <2>1. CASE n = 0
    BY <2>1, PastUnfolds
  <2>2. CASE n # 0 /\ n <= Len(cs)
    <3> DEFINE p == cs[n].parent
    <3>1. p \in 0..(n - 1) /\ p \in S
      BY <1>1, <2>2 DEF IsHistory
    <3>2. PastIn(ds)[p] = PastIn(cs)[p]
      BY <3>1, <2>2 DEF IsHistory
    <3>3. n \in 1..Len(cs) /\ n \in 1..Len(ds) /\ ds[n].parent = p
      BY <2>2 DEF IsHistory
    <3>4. PastIn(cs)[n] = {n} \cup PastIn(cs)[p]
      BY PastUnfolds, <3>3
    <3>5. PastIn(ds)[n] = {n} \cup PastIn(ds)[ds[n].parent]
      BY PastUnfolds, <3>3
    <3> QED BY <3>2, <3>3, <3>4, <3>5
  <2> QED BY <2>1, <2>2 DEF IsHistory
<1>2. S = Nat
  <2> HIDE DEF S
  <2>1. S \in SUBSET Nat
    BY DEF S
  <2> QED BY <1>1, <2>1, Induction
<1> QED BY <1>2 DEF IsHistory

-----------------------------------------------------------------------------
(***************************************************************************)
(* The invariant.                                                          *)
(***************************************************************************)
\* Branches that stand on the first n commits.
Upto(n) == UNION {[D -> 1..n] : D \in SUBSET Names}

Sound ==
  /\ commits \in Seq([tree : Trees, parent : Nat, cut : Names \cup {Nowhere}])
  /\ IsHistory(commits)
  /\ repo \in [refs : Upto(Len(commits)), at : Names, files : Trees]
  /\ repo.at \in DOMAIN repo.refs
  /\ remote \in Upto(Len(commits))
  /\ left \in [head : 1..Len(commits), files : Trees]

Pcs == {"idle", "standing", "status", "cut", "commit", "lookup",
        "push_checkpoint", "tip", "push", "rescue_lookup", "push_rescue",
        "stand_on", "look_back", "record", "undo_reset", "undo_checkout",
        "undo_branch"}

Somewhere == Names \cup {Nowhere}

Locals == [pc : Pcs, standing : [head : Nat, at : Somewhere],
           checkpoint : Somewhere, committed : BOOLEAN, tip : Nat,
           landed : Somewhere, abandoned : BOOLEAN]

Typed ==
  /\ manifest \in [state : {"open", "archived"}, commit : Nat,
                   checkpoint : Names \cup {Nowhere}]
  /\ gate \in [Gates -> Locals]
  /\ stamp \in Nat
  /\ passed \subseteq Names

Alone == \A g, h \in Working : g = h

\* The tree is as the agent left it, and HEAD where it was left or on a commit
\* of what was there.
Untouched ==
  /\ repo.files = left.files
  /\ \/ HeadAt = left.head
     \/ ~Dirty /\ Parent(HeadAt) = left.head

\* HEAD is back on the chat's branch, and a checkpoint on the remote holds
\* what the agent left.
Landed ==
  /\ repo.at = Branch /\ ~Dirty
  /\ \E b \in Minted("chkpt") : HoldsTheWork(remote[b])

\* Once the chat is archived its work is on the remote.
Closed ==
  /\ Working = {}
  /\ left.head \in Reach(remote)
  /\ \E k \in Reach(remote) : HoldsTheWork(k)

Kept == /\ Open => Untouched \/ Landed
        /\ ~Open => Closed

(***************************************************************************)
(* What a gate knows where it is.                                          *)
(***************************************************************************)
\* It has cut no checkpoint yet.
Uncut(g) == gate[g].checkpoint = Nowhere /\ gate[g].landed = Nowhere

\* The workspace is where it stood.
Stands(g) ==
  /\ HeadAt = gate[g].standing.head
  /\ repo.at = gate[g].standing.at

\* The way back is open: the branch it stood on stands as it stood.
WayBack(g) ==
  /\ Untouched
  /\ gate[g].standing.head \in 1..Len(commits)
  /\ gate[g].standing.at # gate[g].checkpoint
  /\ gate[g].checkpoint.mark = "chkpt"
  /\ gate[g].standing.at \in DOMAIN Named
        => repo.refs[gate[g].standing.at] = gate[g].standing.head
  /\ repo.at = gate[g].checkpoint

\* The checkpoint is cut and committed, and HEAD on it.
OnCheckpoint(g) ==
  /\ WayBack(g)
  /\ ~Dirty
  /\ gate[g].committed => /\ Parent(HeadAt) = gate[g].standing.head
                          /\ gate[g].standing.head = left.head
  /\ ~gate[g].committed => HeadAt = gate[g].standing.head

\* There was nothing to commit, on the chat's own branch.
NoCheckpoint(g) == Uncut(g) /\ repo.at = Branch /\ ~Dirty

\* The checkpoint that landed holds the work.
Landing(g) ==
  /\ gate[g].landed \in Minted("chkpt")
  /\ HoldsTheWork(remote[gate[g].landed])

OnTip(g) == /\ Branch \in DOMAIN repo.refs
            /\ gate[g].tip = repo.refs[Branch]

TipLanded(g) == OnTip(g) /\ gate[g].tip \in Reach(remote)

Knows(g) ==
  LET pc == gate[g].pc IN
  /\ pc = "idle" => gate[g] = Fresh
  /\ pc \in {"standing", "status", "cut"} => Uncut(g)
  /\ pc \in {"status", "cut"} => Stands(g)
  /\ pc = "cut" => /\ gate[g].committed = Dirty
                   /\ Dirty \/ repo.at # Branch
  /\ pc = "commit" => /\ WayBack(g) /\ HeadAt = gate[g].standing.head
                      /\ gate[g].committed
  /\ pc \in {"commit", "lookup", "push_checkpoint"} => gate[g].landed = Nowhere
  /\ pc \in {"lookup", "push_checkpoint", "undo_reset"} => OnCheckpoint(g)
  /\ pc \in {"tip", "push", "rescue_lookup", "push_rescue"}
        => NoCheckpoint(g) \/ (OnCheckpoint(g) /\ Landing(g))
  /\ pc \in {"push", "rescue_lookup", "push_rescue"} => OnTip(g)
  /\ pc \in {"stand_on", "look_back", "record"} => TipLanded(g)
  /\ pc = "stand_on" => \/ NoCheckpoint(g)
                        \/ /\ gate[g].checkpoint # Nowhere
                           /\ ~Dirty /\ Untouched /\ Landing(g)
  /\ pc = "look_back" => NoCheckpoint(g)
  /\ pc = "record" => /\ repo.at = Branch /\ ~Dirty
                      /\ gate[g].checkpoint # Nowhere => Landing(g)
  /\ pc = "undo_checkout" => WayBack(g) /\ HeadAt = gate[g].standing.head
  /\ pc = "undo_branch" => Untouched /\ Stands(g)

\* No branch is named later than the last stamp, nor ever was.
Stamped ==
  /\ \A b \in DOMAIN repo.refs \cup DOMAIN remote : b.stamp <= stamp
  /\ \A k \in 1..Len(commits) : commits[k].cut.stamp <= stamp

IInv == Sound /\ Typed /\ Alone /\ Kept /\ \A g \in Gates : Knows(g)

-----------------------------------------------------------------------------
(***************************************************************************)
(* What the commands leave.                                                *)
(***************************************************************************)
LEMMA UptoFacts ==
  ASSUME NEW n \in Nat, NEW refs \in Upto(n)
  PROVE  /\ DOMAIN refs \subseteq Names
         /\ \A b \in DOMAIN refs : refs[b] \in 1..n
         /\ refs \in [DOMAIN refs -> 1..n]
  BY DEF Upto

\* One more commit, and the branches still stand on commits there are.
LEMMA UptoGrows ==
  ASSUME NEW n \in Nat
  PROVE  Upto(n) \subseteq Upto(n + 1)
<1>1. ASSUME NEW refs \in Upto(n) PROVE refs \in Upto(n + 1)
  <2>1. /\ DOMAIN refs \in SUBSET Names
        /\ refs \in [DOMAIN refs -> 1..n]
        /\ \A b \in DOMAIN refs : refs[b] \in 1..(n + 1)
    BY UptoFacts
  <2>2. refs \in [DOMAIN refs -> 1..(n + 1)]
    BY <2>1
  <2> QED BY <2>1, <2>2 DEF Upto
<1> QED BY <1>1

\* A branch put on a commit there is stands there, and no other is moved.
LEMMA PutOnto ==
  ASSUME NEW n \in Nat, NEW refs \in Upto(n), NEW b \in Names, NEW k \in 1..n
  PROVE  /\ Put(refs, b, k) \in Upto(n)
         /\ DOMAIN Put(refs, b, k) = DOMAIN refs \cup {b}
         /\ Put(refs, b, k)[b] = k
         /\ \A c \in DOMAIN refs \ {b} : Put(refs, b, k)[c] = refs[c]
<1>1. DOMAIN refs \subseteq Names /\ \A c \in DOMAIN refs : refs[c] \in 1..n
  BY UptoFacts
<1>2. Put(refs, b, k) \in [DOMAIN refs \cup {b} -> 1..n]
  BY <1>1 DEF Put
<1>3. DOMAIN refs \cup {b} \in SUBSET Names
  BY <1>1
<1>4. Put(refs, b, k) \in Upto(n)
  BY <1>2, <1>3 DEF Upto
<1> QED BY <1>4 DEF Put

\* What is reached by no fewer branches, none of them moved but forward, is
\* reached still.
LEMMA ReachGrows ==
  ASSUME Sound, Sound', UNCHANGED commits,
         \A b \in DOMAIN remote : /\ b \in DOMAIN remote'
                                  /\ remote[b] \in Past[remote'[b]]
  PROVE  Reach(remote) \subseteq Reach(remote')
<1>1. ASSUME NEW b \in DOMAIN remote PROVE Past[remote[b]] \subseteq Past[remote'[b]]
  <2>1. remote'[b] \in 0..Len(commits)
    BY UptoFacts, <1>1 DEF Sound, IsHistory
  <2> QED BY <2>1, <1>1, PastIsPast DEF Sound, Past
<1>2. Past' = Past
  BY DEF Past
<1> QED BY <1>1, <1>2 DEF Reach

\* A gate at work is the only one, and its chat is open.
LEMMA AtWork ==
  ASSUME IInv, NEW g \in Gates, gate[g].pc # "idle"
  PROVE  /\ Open
         /\ g \in Working
         /\ \A h \in Gates \ {g} : gate[h] = Fresh
  BY DEF IInv, Alone, Working, Kept, Closed, Knows

\* A step of one gate that leaves it with what it is to know keeps what all
\* of them know.
LEMMA OneSteps ==
  ASSUME IInv, NEW g \in Gates, \A h \in Gates \ {g} : gate[h] = Fresh,
         gate' \in [Gates -> Locals],
         \A h \in Gates \ {g} : gate'[h] = gate[h],
         Knows(g)'
  PROVE  /\ Alone'
         /\ \A h \in Gates : Knows(h)'
<1>1. \A h \in Gates \ {g} : gate'[h] = Fresh /\ gate'[h].pc = "idle"
  BY DEF Fresh
<1>2. Alone'
  BY <1>1 DEF Alone, Working
<1>3. ASSUME NEW h \in Gates PROVE Knows(h)'
  BY <1>1, <1>3 DEF Knows
<1> QED BY <1>2, <1>3

\* Where HEAD is.
LEMMA HeadIsThere ==
  ASSUME Sound
  PROVE  /\ HeadAt \in 1..Len(commits) /\ HeadAt \in Nat
         /\ repo.at \in Names /\ repo.at \in Somewhere
<1>1. /\ repo.refs \in Upto(Len(commits)) /\ Len(commits) \in Nat
      /\ repo.at \in DOMAIN repo.refs /\ repo.at \in Names
  BY DEF Sound, IsHistory
<1>2. repo.refs[repo.at] \in 1..Len(commits)
  BY <1>1, UptoFacts
<1> QED BY <1>1, <1>2 DEF HeadAt, Somewhere

\* What is true of a gate's locals once one step has set them to r.
LEMMA SetIs ==
  ASSUME Typed, NEW g \in Gates, NEW r \in Locals, gate' = [gate EXCEPT ![g] = r]
  PROVE  /\ gate' \in [Gates -> Locals]
         /\ \A h \in Gates \ {g} : gate'[h] = gate[h]
         /\ gate'[g] = r
  BY DEF Typed

\* A gate that goes on is at the pc it went to, with the locals it had.
LEMMA GotoIs ==
  ASSUME Typed, NEW g \in Gates, NEW pc \in Pcs, Goto(g, pc)
  PROVE  /\ gate' \in [Gates -> Locals]
         /\ \A h \in Gates \ {g} : gate'[h] = gate[h]
         /\ gate'[g] = [gate[g] EXCEPT !.pc = pc]
         /\ gate'[g].pc = pc
         /\ gate'[g].standing = gate[g].standing
         /\ gate'[g].checkpoint = gate[g].checkpoint
         /\ gate'[g].committed = gate[g].committed
         /\ gate'[g].tip = gate[g].tip
         /\ gate'[g].landed = gate[g].landed
  BY DEF Goto, Typed, Locals

\* A gate that is over knows nothing.
LEMMA OverIs ==
  ASSUME Typed, NEW g \in Gates, Over(g)
  PROVE  /\ gate' \in [Gates -> Locals]
         /\ \A h \in Gates \ {g} : gate'[h] = gate[h]
         /\ gate'[g] = Fresh
         /\ Knows(g)'
<1>1. Fresh \in Locals
  BY DEF Fresh, Locals, Pcs, Somewhere, Nowhere, Name
<1>2. gate'[g] = Fresh /\ gate'[g].pc = "idle"
  BY DEF Over, Typed, Fresh
<1>3. Knows(g)'
  BY <1>2 DEF Knows
<1> QED BY <1>1, <1>2, <1>3 DEF Over, Typed

\* Where git stays as it is, so does what is said of it.
LEMMA GitStays ==
  ASSUME UNCHANGED <<gitVars, left>>
  PROVE  /\ Sound => Sound'
         /\ Untouched' = Untouched /\ Landed' = Landed
         /\ HeadAt' = HeadAt /\ Dirty' = Dirty /\ Named' = Named
         /\ Reach(remote)' = Reach(remote) /\ Minted("chkpt")' = Minted("chkpt")
         /\ \A k : HoldsTheWork(k)' = HoldsTheWork(k)
  BY DEF gitVars, Sound, Untouched, Landed, HeadAt, Dirty, Named, Reach,
         Minted, HoldsTheWork, Tree, Parent, Past

\* And so does what a gate knows that keeps its locals.
LEMMA KnownStays ==
  ASSUME UNCHANGED <<commits, repo, left>>, NEW g,
         gate'[g].standing = gate[g].standing,
         gate'[g].checkpoint = gate[g].checkpoint,
         gate'[g].committed = gate[g].committed,
         gate'[g].landed = gate[g].landed
  PROVE  /\ Uncut(g) => Uncut(g)'
         /\ Stands(g) => Stands(g)'
         /\ WayBack(g) => WayBack(g)'
         /\ OnCheckpoint(g) => OnCheckpoint(g)'
         /\ NoCheckpoint(g) => NoCheckpoint(g)'
         /\ remote' = remote /\ Landing(g) => Landing(g)'
         /\ gate'[g].tip = gate[g].tip /\ OnTip(g) => OnTip(g)'
         /\ remote' = remote /\ gate'[g].tip = gate[g].tip /\ TipLanded(g)
              => TipLanded(g)'
  BY DEF Uncut, Stands, WayBack, OnCheckpoint, NoCheckpoint, Landing,
     OnTip, TipLanded, Untouched, HeadAt, Dirty, Named, Minted, Reach, Past,
     HoldsTheWork, Tree, Parent

\* A gate's step under an open chat keeps the invariant if git is sound
\* after it, the work in the tree or on a checkpoint, and the gate knows what
\* it is to know.
LEMMA StepKeeps ==
  ASSUME IInv, NEW g \in Gates, gate[g].pc # "idle",
         UNCHANGED manifest, stamp' \in Nat, passed' \subseteq Names,
         Sound', Untouched' \/ Landed',
         gate' \in [Gates -> Locals],
         \A h \in Gates \ {g} : gate'[h] = gate[h],
         Knows(g)'
  PROVE  IInv'
<1>1. Typed'
  BY DEF IInv, Typed
<1>2. Open'
  BY AtWork DEF Open
<1>3. Kept'
  BY <1>2 DEF Kept
<1>4. Alone' /\ \A h \in Gates : Knows(h)'
  BY AtWork, OneSteps
<1> QED BY <1>1, <1>3, <1>4 DEF IInv

\* So does one that leaves git as it is.
LEMMA MovesOn ==
  ASSUME IInv, NEW g \in Gates, gate[g].pc # "idle",
         UNCHANGED <<gitVars, left, manifest>>, stamp' \in Nat, passed' \subseteq Names,
         gate' \in [Gates -> Locals],
         \A h \in Gates \ {g} : gate'[h] = gate[h],
         Knows(g)'
  PROVE  IInv'
<1>1. Sound'
  BY GitStays DEF IInv
<1>2. Untouched' \/ Landed'
  BY AtWork, GitStays DEF IInv, Kept
<1> QED BY <1>1, <1>2, StepKeeps

\* A gate that is over, with git as it is, keeps the invariant.
LEMMA OverKeeps ==
  ASSUME IInv, NEW g \in Gates, gate[g].pc # "idle",
         UNCHANGED <<gitVars, left, manifest>>, stamp' \in Nat, passed' \subseteq Names,
         Over(g)
  PROVE  IInv'
  BY OverIs, MovesOn DEF IInv

\* A gate that stops in push_branches rolls back from its checkpoint.
LEMMA StopKeeps ==
  ASSUME IInv, NEW g \in Gates, gate[g].pc # "idle",
         UNCHANGED <<commits, repo, left, manifest>>,
         stamp' \in Nat, passed' \subseteq Names,
         Sound', Untouched' \/ Landed',
         Stop(g),
         gate[g].checkpoint # Nowhere => OnCheckpoint(g)
  PROVE  IInv'
<1>1. CASE gate[g].checkpoint = Nowhere
  <2>1. Over(g) /\ Typed
    BY <1>1 DEF Stop, IInv
  <2> QED BY <2>1, OverIs, StepKeeps
<1>2. CASE gate[g].checkpoint # Nowhere
  <2>1. Goto(g, "undo_reset") /\ OnCheckpoint(g)
    BY <1>2 DEF Stop
  <2>2. Typed /\ "undo_reset" \in Pcs
    BY DEF IInv, Pcs
  <2>3. OnCheckpoint(g)'
    BY <2>1, <2>2, GotoIs, KnownStays
  <2>4. Knows(g)'
    BY <2>1, <2>2, <2>3, GotoIs DEF Knows
  <2> QED BY <2>1, <2>2, <2>4, GotoIs, StepKeeps
<1> QED BY <1>1, <1>2

-----------------------------------------------------------------------------
(***************************************************************************)
(* The steps of a gate.                                                    *)
(***************************************************************************)
\* Who comes in and crowds nobody comes into a tree nobody is in.
LEMMA EntersAlone == ASSUME ~crowded', Enters PROVE Working = {}
  BY Zenon DEF Enters

\* A chat that was used beside an abandoned gate stays one that was.
LEMMA CrowdedStays == ASSUME crowded, [Next]_vars PROVE crowded'
<1>1. CASE UNCHANGED crowded
  BY <1>1, Zenon
<1>2. CASE Enters
  BY <1>2, Zenon DEF Enters
<1>3. ASSUME NEW g \in Gates, GateStep(g) PROVE crowded' = crowded
  BY <1>3, Zenon
  DEF GateStep, Standing, Status, Cut, CommitEverything, Lookup, PushCheckpoint,
      Tip, PushBranch, RescueLookup, PushRescue, StandOn, LookBack, UndoReset,
      UndoCheckout, UndoBranch, Record, Quietly
<1> QED
  BY <1>1, <1>2, <1>3, Zenon
  DEF Next, Begin, Hangup, Edit, AgentCommits, Amend, Wander, OthersPush, Revive,
      Crash, Idle, Quietly, vars

LEMMA BeginKeeps ==
  ASSUME ~crowded', IInv, NEW g \in Gates, Begin(g)
  PROVE  IInv'
<1>1. /\ Open /\ Working = {} /\ gate[g] = Fresh
      /\ UNCHANGED <<gitVars, left, manifest, stamp, passed>>
  BY EntersAlone DEF Begin, At, IInv, Knows
<1>2. Typed /\ "standing" \in Pcs /\ Goto(g, "standing")
  BY DEF IInv, Pcs, Begin
<1>3. Knows(g)'
  <2>1. /\ gate'[g].pc = "standing"
        /\ gate'[g].checkpoint = Nowhere /\ gate'[g].landed = Nowhere
    <3>1. gate[g].checkpoint = Nowhere /\ gate[g].landed = Nowhere
      BY <1>1 DEF Fresh
    <3> QED BY <1>2, <3>1, GotoIs
  <2> QED BY <2>1 DEF Knows, Uncut
<1>4. \A h \in Gates \ {g} : gate[h] = Fresh
  BY <1>1 DEF Working, IInv, Knows
<1>5. Alone' /\ \A h \in Gates : Knows(h)'
  BY <1>2, <1>3, <1>4, GotoIs, OneSteps
<1>6. Sound' /\ Typed'
  BY <1>1, <1>2, GotoIs, GitStays DEF IInv, Typed
<1>7. Kept'
  BY <1>1, GitStays DEF IInv, Kept, Open
<1> QED BY <1>5, <1>6, <1>7 DEF IInv

\* standing() reads where HEAD is and changes nothing.
LEMMA StandingKeeps ==
  ASSUME IInv, NEW g \in Gates, Standing(g)
  PROVE  IInv'
<1>1. /\ gate[g].pc = "standing" /\ gate[g].pc # "idle"
      /\ UNCHANGED <<gitVars, left, manifest, stamp, passed>>
      /\ stamp' \in Nat /\ passed' \subseteq Names
  BY DEF Standing, At, Quietly, IInv, Typed
<1>2. CASE Over(g)
  BY <1>1, <1>2, OverKeeps
<1>3. CASE gate' = [gate EXCEPT ![g].pc = "status",
                                ![g].standing = [head |-> HeadAt, at |-> repo.at]]
  <2> DEFINE s == [head |-> HeadAt, at |-> repo.at]
             r == [gate[g] EXCEPT !.pc = "status", !.standing = s]
  <2>0. gate[g] \in Locals
    BY DEF IInv, Typed
  <2>1. r \in Locals /\ gate' = [gate EXCEPT ![g] = r]
    <3>1. s \in [head : Nat, at : Somewhere]
      BY HeadIsThere DEF IInv
    <3> HIDE DEF s
    <3>2. r \in Locals
      BY <2>0, <3>1 DEF Locals, Pcs
    <3> QED BY <1>3, <3>2 DEF IInv, Typed, s
  <2>2. /\ gate' \in [Gates -> Locals]
        /\ \A h \in Gates \ {g} : gate'[h] = gate[h]
        /\ gate'[g] = r
    BY <2>1, SetIs DEF IInv
  <2>3. /\ gate'[g].pc = "status" /\ gate'[g].standing = s
        /\ gate'[g].checkpoint = gate[g].checkpoint
        /\ gate'[g].landed = gate[g].landed
    BY <2>0, <2>2 DEF Locals
  <2>4. Uncut(g)' /\ Stands(g)'
    BY <1>1, <2>3, GitStays DEF IInv, Knows, Uncut, Stands, gitVars
  <2>5. Knows(g)'
    BY <2>3, <2>4 DEF Knows
  <2> QED BY <1>1, <2>2, <2>5, MovesOn
<1> QED BY <1>1, <1>2, <1>3 DEF Standing

\* checkpoint_unpushed_work() reads the tree: what it decides on is what is
\* cut next.
LEMMA StatusKeeps ==
  ASSUME IInv, NEW g \in Gates, Status(g)
  PROVE  IInv'
<1>1. /\ gate[g].pc = "status" /\ gate[g].pc # "idle"
      /\ UNCHANGED <<gitVars, left, manifest, stamp, passed>>
      /\ stamp' \in Nat /\ passed' \subseteq Names
  BY DEF Status, At, Quietly, IInv, Typed
<1>2. Uncut(g) /\ Stands(g) /\ Typed
  BY <1>1 DEF IInv, Knows
<1>3. CASE Over(g)
  BY <1>1, <1>3, OverKeeps
<1>4. CASE /\ Dirty \/ gate[g].standing.at # Branch
           /\ gate' = [gate EXCEPT ![g].pc = "cut", ![g].committed = Dirty]
  <2>1. Dirty \in BOOLEAN
    BY DEF Dirty
  <2> DEFINE r == [gate[g] EXCEPT !.pc = "cut", !.committed = Dirty]
  <2>0. gate[g] \in Locals
    BY <1>2 DEF Typed
  <2>2. r \in Locals /\ gate' = [gate EXCEPT ![g] = r]
    <3>1. r \in Locals
      BY <2>0, <2>1 DEF Locals, Pcs
    <3> QED BY <1>2, <1>4, <3>1 DEF Typed
  <2>3. /\ gate' \in [Gates -> Locals]
        /\ \A h \in Gates \ {g} : gate'[h] = gate[h]
        /\ gate'[g] = r
    BY <1>2, <2>2, SetIs
  <2>3a. /\ gate'[g].pc = "cut"
        /\ gate'[g].committed = Dirty
        /\ gate'[g].standing = gate[g].standing
        /\ gate'[g].checkpoint = gate[g].checkpoint
        /\ gate'[g].landed = gate[g].landed
    BY <2>0, <2>3 DEF Locals
  <2>4. Uncut(g)' /\ Stands(g)'
    BY <1>1, <1>2, <2>3a, GitStays DEF Uncut, Stands, gitVars
  <2>5. gate'[g].committed = Dirty' /\ (Dirty' \/ repo'.at # Branch)
    BY <1>1, <1>2, <1>4, <2>3a, GitStays DEF Stands, gitVars
  <2>6. Knows(g)'
    BY <2>3a, <2>4, <2>5 DEF Knows
  <2> QED BY <1>1, <2>3, <2>6, MovesOn
<1>5. CASE ~(Dirty \/ gate[g].standing.at # Branch) /\ Goto(g, "tip")
  <2>1. "tip" \in Pcs
    BY DEF Pcs
  <2>2. NoCheckpoint(g)'
    <3>1. NoCheckpoint(g)
      BY <1>2, <1>5 DEF NoCheckpoint, Stands
    <3> QED BY <1>1, <1>2, <1>5, <2>1, <3>1, GotoIs, KnownStays DEF gitVars
  <2>3. Knows(g)'
    BY <1>2, <1>5, <2>1, <2>2, GotoIs DEF Knows
  <2> QED BY <1>1, <1>2, <1>5, <2>1, <2>3, GotoIs, MovesOn
<1> QED BY <1>1, <1>3, <1>4, <1>5 DEF Status

-----------------------------------------------------------------------------
(***************************************************************************)
(* The commands that write in the tree.                                    *)
(***************************************************************************)
LEMMA CommitIsTyped ==
  ASSUME Sound, NEW k \in 1..Len(commits)
  PROVE  /\ commits[k] \in [tree : Trees, parent : Nat, cut : Somewhere]
         /\ Tree(k) \in Trees /\ Parent(k) \in 0..(k - 1)
<1> DEFINE S == [tree : Trees, parent : Nat, cut : Somewhere]
<1>1. commits \in Seq(S)
  BY DEF Sound, Somewhere
<1> HIDE DEF S
<1>2. commits[k] \in S
  BY <1>1
<1> QED BY <1>2 DEF Sound, IsHistory, Tree, Parent, S

\* The branches without a detached HEAD stand where they stood.
LEMMA NamedIs ==
  ASSUME Sound
  PROVE  /\ Named \in Upto(Len(commits))
         /\ DOMAIN Named = DOMAIN repo.refs \ {Detached}
         /\ \A b \in DOMAIN Named : Named[b] = repo.refs[b]
<1>1. repo.refs \in Upto(Len(commits)) /\ Len(commits) \in Nat
  BY DEF Sound, IsHistory
<1>2. /\ DOMAIN repo.refs \subseteq Names
      /\ \A b \in DOMAIN repo.refs : repo.refs[b] \in 1..Len(commits)
  BY <1>1, UptoFacts
<1>3. /\ Named \in [DOMAIN repo.refs \ {Detached} -> 1..Len(commits)]
      /\ DOMAIN repo.refs \ {Detached} \in SUBSET Names
  BY <1>2 DEF Named
<1>4. Named \in Upto(Len(commits))
  BY <1>3 DEF Upto
<1> QED BY <1>4 DEF Named

\* A branch is cut where HEAD is; HEAD is on it, nothing else changes.
LEMMA CutDoes ==
  ASSUME Sound, NEW b \in Names, CutBranch(b), UNCHANGED <<commits, remote, left>>
  PROVE  /\ Sound'
         /\ b \notin DOMAIN repo.refs
         /\ repo'.at = b /\ HeadAt' = HeadAt /\ repo'.files = repo.files
         /\ Dirty' = Dirty /\ Untouched' = Untouched
         /\ DOMAIN repo'.refs = DOMAIN Named \cup {b}
         /\ \A c \in DOMAIN Named : c # b => repo'.refs[c] = repo.refs[c]
<1> DEFINE refs == Put(Named, b, HeadAt)
<1>1. /\ repo \in [refs : Upto(Len(commits)), at : Names, files : Trees]
      /\ Len(commits) \in Nat
      /\ HeadAt \in 1..Len(commits)
  BY HeadIsThere DEF Sound, IsHistory
<1>2. /\ refs \in Upto(Len(commits))
      /\ DOMAIN refs = DOMAIN Named \cup {b} /\ refs[b] = HeadAt
      /\ \A c \in DOMAIN Named \ {b} : refs[c] = repo.refs[c]
  <2>1. Named \in Upto(Len(commits)) /\ \A c \in DOMAIN Named : Named[c] = repo.refs[c]
    BY NamedIs
  <2>2. Len(commits) \in Nat /\ HeadAt \in 1..Len(commits)
    BY HeadIsThere DEF Sound, IsHistory
  <2>3. refs \in Upto(Len(commits))
    BY <2>1, <2>2, PutOnto
  <2>4. DOMAIN refs = DOMAIN Named \cup {b} /\ refs[b] = HeadAt
    BY DEF Put
  <2>5. \A c \in DOMAIN Named \ {b} : refs[c] = Named[c]
    BY DEF Put
  <2> QED BY <2>1, <2>3, <2>4, <2>5
<1> HIDE DEF refs
<1>3. /\ repo'.refs = refs /\ repo'.at = b /\ repo'.files = repo.files
      /\ repo' \in [refs : Upto(Len(commits)), at : Names, files : Trees]
      /\ b \notin DOMAIN repo.refs
  BY <1>1, <1>2 DEF CutBranch, refs
<1>4. HeadAt' = HeadAt
  BY <1>2, <1>3 DEF HeadAt
<1>5. Dirty' = Dirty /\ Untouched' = Untouched
  BY <1>3, <1>4 DEF Dirty, Untouched, Tree, Parent
<1>6. Sound'
  BY <1>2, <1>3 DEF Sound, IsHistory
<1> QED BY <1>2, <1>3, <1>4, <1>5, <1>6

\* A checkout keeps what is uncommitted, and takes the commit's files where
\* nothing is.
LEMMA CheckoutDoes ==
  ASSUME Sound, NEW at \in Names, NEW k \in 1..Len(commits), Checkout(at, k),
         UNCHANGED <<commits, remote>>
  PROVE  /\ UNCHANGED left => Sound'
         /\ repo' \in [refs : Upto(Len(commits)), at : Names, files : Trees]
         /\ repo'.at = at /\ repo'.at \in DOMAIN repo'.refs /\ HeadAt' = k
         /\ Dirty => repo'.files = repo.files /\ Tree(k) = Tree(HeadAt)
         /\ ~Dirty => repo'.files = Tree(k)
         /\ Dirty' = Dirty
         /\ DOMAIN repo'.refs = DOMAIN Named \cup {at}
         /\ \A c \in DOMAIN Named : c # at => repo'.refs[c] = repo.refs[c]
<1> DEFINE refs == Put(Named, at, k)
<1>1. /\ repo \in [refs : Upto(Len(commits)), at : Names, files : Trees]
      /\ Len(commits) \in Nat
      /\ Tree(k) \in Trees
  BY CommitIsTyped DEF Sound, IsHistory
<1>2. /\ refs \in Upto(Len(commits))
      /\ DOMAIN refs = DOMAIN Named \cup {at} /\ refs[at] = k
      /\ \A c \in DOMAIN Named \ {at} : refs[c] = repo.refs[c]
  <2>1. Named \in Upto(Len(commits)) /\ \A c \in DOMAIN Named : Named[c] = repo.refs[c]
    BY NamedIs
  <2>2. Len(commits) \in Nat /\ HeadAt \in 1..Len(commits)
    BY HeadIsThere DEF Sound, IsHistory
  <2>3. refs \in Upto(Len(commits))
    BY <2>1, <2>2, PutOnto
  <2>4. DOMAIN refs = DOMAIN Named \cup {at} /\ refs[at] = k
    BY DEF Put
  <2>5. \A c \in DOMAIN Named \ {at} : refs[c] = Named[c]
    BY DEF Put
  <2> QED BY <2>1, <2>3, <2>4, <2>5
<1> HIDE DEF refs
<1>3. /\ repo'.refs = refs /\ repo'.at = at
      /\ repo'.files = IF Dirty THEN repo.files ELSE Tree(k)
      /\ repo' \in [refs : Upto(Len(commits)), at : Names, files : Trees]
  BY <1>1, <1>2 DEF Checkout, refs
<1>4. HeadAt' = k
  BY <1>2, <1>3 DEF HeadAt
<1>5. Dirty => Tree(k) = Tree(HeadAt)
  BY DEF Checkout, InTheWay
<1>6. Dirty' = Dirty
  BY <1>3, <1>4, <1>5 DEF Dirty, Tree
<1>7. UNCHANGED left => Sound'
  BY <1>2, <1>3 DEF Sound, IsHistory
<1> QED BY <1>2, <1>3, <1>4, <1>5, <1>6, <1>7

\* A commit adds one commit, on `parent`, and takes HEAD there; the tree is
\* One more commit, cut from one there is, leaves the earlier as they were and
\* what came before each of them.
LEMMA MoreCommits ==
  ASSUME Sound, NEW new \in [tree : Trees, parent : Nat, cut : Somewhere],
         new.parent \in 1..Len(commits), commits' = Append(commits, new)
  PROVE  /\ Len(commits') = Len(commits) + 1 /\ Len(commits) \in Nat
         /\ \A k \in 1..Len(commits) : commits'[k] = commits[k]
         /\ commits'[Len(commits) + 1] = new
         /\ commits' \in Seq([tree : Trees, parent : Nat, cut : Somewhere])
         /\ IsHistory(commits')
         /\ \A k \in 0..Len(commits) : Past'[k] = Past[k]
<1> DEFINE n == Len(commits)
<1>1. /\ n \in Nat /\ IsHistory(commits)
      /\ commits \in Seq([tree : Trees, parent : Nat, cut : Somewhere])
  BY DEF Sound, IsHistory, Somewhere
<1>2. /\ Len(commits') = n + 1
      /\ \A k \in 1..n : commits'[k] = commits[k]
      /\ commits'[n + 1] = new
      /\ commits' \in Seq([tree : Trees, parent : Nat, cut : Somewhere])
  <2> DEFINE S == [tree : Trees, parent : Nat, cut : Somewhere]
  <2>1. commits \in Seq(S) /\ new \in S
    BY <1>1
  <2> HIDE DEF S
  <2>2. /\ Len(commits') = n + 1
        /\ \A k \in 1..n : commits'[k] = commits[k]
        /\ commits'[n + 1] = new
        /\ commits' \in Seq(S)
    BY <2>1
  <2> QED BY <2>2 DEF S
<1>3. IsHistory(commits')
  <2>1. ASSUME NEW k \in 1..(n + 1) PROVE commits'[k].parent \in 0..(k - 1)
    <3>1. CASE k = n + 1
      <4>1. commits'[k].parent = new.parent /\ n \in Nat
        BY <1>1, <1>2, <3>1
      <4> QED BY <4>1, <3>1
    <3>2. CASE k \in 1..n
      <4>1. commits'[k] = commits[k]
        BY <1>2, <3>2
      <4>2. commits[k].parent \in 0..(k - 1)
        BY <1>1, <3>2 DEF IsHistory
      <4> QED BY <4>1, <4>2
    <3>3. n \in Nat
      BY <1>1
    <3> QED BY <3>1, <3>2, <3>3
  <2> QED BY <1>1, <1>2, <2>1 DEF IsHistory
<1>4. ASSUME NEW k \in 0..n PROVE Past'[k] = Past[k]
  <2>1. /\ Len(commits) <= Len(commits')
        /\ \A i \in 1..Len(commits) : commits'[i].parent = commits[i].parent
    BY <1>1, <1>2
  <2>2. PastIn(commits')[k] = PastIn(commits)[k]
    BY <1>1, <1>3, <2>1, PastStays
  <2> QED BY <2>2 DEF Past
<1> QED BY <1>1, <1>2, <1>3, <1>4

\* clean after it, and what was there before stays.
LEMMA CommitDoes ==
  ASSUME Sound, NEW parent \in 1..Len(commits), NEW cut \in Somewhere,
         Commit(parent, cut), UNCHANGED remote
  PROVE  /\ Len(commits') = Len(commits) + 1 /\ Len(commits) \in Nat
         /\ \A k \in 1..Len(commits) : commits'[k] = commits[k]
         /\ commits'[Len(commits) + 1] = [tree |-> repo.files, parent |-> parent, cut |-> cut]
         /\ HeadAt' = Len(commits) + 1 /\ ~Dirty'
         /\ Tree(HeadAt)' = repo.files /\ Parent(HeadAt)' = parent
         /\ repo'.at = repo.at /\ repo'.files = repo.files
         /\ DOMAIN repo'.refs = DOMAIN repo.refs
         /\ \A c \in DOMAIN repo.refs : c # repo.at => repo'.refs[c] = repo.refs[c]
         /\ left' \in [head : 1..Len(commits'), files : Trees] => Sound'
<1> DEFINE n == Len(commits)
           new == [tree |-> repo.files, parent |-> parent, cut |-> cut]
           refs == [repo.refs EXCEPT ![repo.at] = n + 1]
<1>1. /\ repo \in [refs : Upto(n), at : Names, files : Trees]
      /\ repo.at \in DOMAIN repo.refs /\ repo.at \in Names
      /\ n \in Nat /\ repo.files \in Trees /\ IsHistory(commits)
      /\ commits \in Seq([tree : Trees, parent : Nat, cut : Somewhere])
      /\ remote \in Upto(n)
  BY DEF Sound, IsHistory, Somewhere
<1>2. new \in [tree : Trees, parent : Nat, cut : Somewhere]
  BY <1>1
<1>3. commits' = Append(commits, new)
  BY DEF Commit
<1> HIDE DEF new
<1>4. /\ Len(commits') = n + 1
      /\ \A k \in 1..n : commits'[k] = commits[k]
      /\ commits'[n + 1] = new
      /\ commits' \in Seq([tree : Trees, parent : Nat, cut : Somewhere])
      /\ IsHistory(commits')
  <2>1. new.parent \in 1..n
    BY DEF new
  <2> QED BY <1>2, <1>3, <2>1, MoreCommits
<1>6. /\ DOMAIN repo.refs \subseteq Names
      /\ \A b \in DOMAIN repo.refs : repo.refs[b] \in 1..n
      /\ repo.refs \in [DOMAIN repo.refs -> 1..n]
  BY <1>1, UptoFacts
<1>7. refs \in Upto(n + 1) /\ DOMAIN refs = DOMAIN repo.refs /\ refs[repo.at] = n + 1
  <2>1. refs \in [DOMAIN repo.refs -> 1..(n + 1)]
    BY <1>1, <1>6
  <2> QED BY <1>1, <1>6, <2>1 DEF Upto
<1>8. /\ repo'.refs = refs /\ repo'.at = repo.at /\ repo'.files = repo.files
      /\ repo' \in [refs : Upto(n + 1), at : Names, files : Trees]
  <2>1. repo' = [repo EXCEPT !.refs = refs]
    BY <1>1 DEF Commit
  <2> HIDE DEF refs
  <2>2. Upto(n) \subseteq Upto(n + 1)
    BY <1>1, UptoGrows
  <2> QED BY <1>1, <1>7, <2>1
<1>9. HeadAt' = n + 1
  BY <1>7, <1>8 DEF HeadAt
<1>10. Tree(HeadAt)' = repo.files /\ Parent(HeadAt)' = parent /\ ~Dirty'
  BY <1>4, <1>8, <1>9 DEF Tree, Parent, Dirty, new
<1>11. ASSUME left' \in [head : 1..Len(commits'), files : Trees] PROVE Sound'
  <2>1. remote' \in Upto(n + 1)
    BY <1>1, UptoGrows
  <2> HIDE DEF refs
  <2>2. repo'.at \in DOMAIN repo'.refs
    BY <1>1, <1>7, <1>8
  <2> QED BY <1>4, <1>8, <1>11, <2>1, <2>2 DEF Sound, Somewhere
<1> QED BY <1>1, <1>4, <1>6, <1>7, <1>8, <1>9, <1>10, <1>11 DEF new

\* A reset takes the branch HEAD is on to k and leaves the files.
LEMMA ResetDoes ==
  ASSUME Sound, NEW k \in 1..Len(commits), ResetMixed(k),
         UNCHANGED <<commits, remote, left>>
  PROVE  /\ Sound' /\ HeadAt' = k
         /\ repo'.at = repo.at /\ repo'.files = repo.files
         /\ DOMAIN repo'.refs = DOMAIN repo.refs
         /\ \A c \in DOMAIN repo.refs : c # repo.at => repo'.refs[c] = repo.refs[c]
<1> DEFINE refs == [repo.refs EXCEPT ![repo.at] = k]
<1>1. /\ repo \in [refs : Upto(Len(commits)), at : Names, files : Trees]
      /\ repo.at \in DOMAIN repo.refs
      /\ Len(commits) \in Nat
  BY DEF Sound, IsHistory
<1>2. /\ DOMAIN repo.refs \subseteq Names
      /\ \A b \in DOMAIN repo.refs : repo.refs[b] \in 1..Len(commits)
      /\ repo.refs \in [DOMAIN repo.refs -> 1..Len(commits)]
  BY <1>1, UptoFacts
<1>3. refs \in Upto(Len(commits)) /\ DOMAIN refs = DOMAIN repo.refs /\ refs[repo.at] = k
  <2>1. refs \in [DOMAIN repo.refs -> 1..Len(commits)]
    BY <1>1, <1>2
  <2> QED BY <1>1, <1>2, <2>1 DEF Upto
<1>4. /\ repo'.refs = refs /\ repo'.at = repo.at /\ repo'.files = repo.files
      /\ repo' \in [refs : Upto(Len(commits)), at : Names, files : Trees]
  <2>1. repo' = [repo EXCEPT !.refs = refs]
    BY <1>1 DEF ResetMixed
  <2> HIDE DEF refs
  <2> QED BY <1>1, <1>3, <2>1
<1>5. HeadAt' = k
  BY <1>3, <1>4 DEF HeadAt
<1>6. Sound'
  <2> HIDE DEF refs
  <2> QED BY <1>1, <1>3, <1>4 DEF Sound, IsHistory
<1> QED BY <1>2, <1>3, <1>4, <1>5, <1>6

\* The branch that is deleted is not HEAD's.
LEMMA DeleteDoes ==
  ASSUME Sound, NEW b, DeleteBranch(b), UNCHANGED <<commits, remote, left>>
  PROVE  /\ Sound' /\ HeadAt' = HeadAt
         /\ repo'.at = repo.at /\ repo'.files = repo.files
<1> DEFINE refs == [r \in DOMAIN repo.refs \ {b} |-> repo.refs[r]]
<1>1. /\ repo \in [refs : Upto(Len(commits)), at : Names, files : Trees]
      /\ repo.at \in DOMAIN repo.refs /\ b # repo.at
      /\ Len(commits) \in Nat
  BY DEF Sound, IsHistory, DeleteBranch, Deletable
<1>2. /\ DOMAIN repo.refs \subseteq Names
      /\ \A c \in DOMAIN repo.refs : repo.refs[c] \in 1..Len(commits)
  BY <1>1, UptoFacts
<1>3. refs \in Upto(Len(commits)) /\ repo.at \in DOMAIN refs /\ refs[repo.at] = repo.refs[repo.at]
  <2>1. /\ refs \in [DOMAIN repo.refs \ {b} -> 1..Len(commits)]
        /\ DOMAIN repo.refs \ {b} \in SUBSET Names
    BY <1>2
  <2> QED BY <1>1, <2>1 DEF Upto
<1>4. /\ repo'.refs = refs /\ repo'.at = repo.at /\ repo'.files = repo.files
      /\ repo' \in [refs : Upto(Len(commits)), at : Names, files : Trees]
  <2>1. repo' = [repo EXCEPT !.refs = refs]
    BY <1>1 DEF DeleteBranch
  <2> HIDE DEF refs
  <2> QED BY <1>1, <1>3, <2>1
<1> HIDE DEF refs
<1>5. HeadAt' = HeadAt
  BY <1>3, <1>4 DEF HeadAt
<1>6. Sound'
  BY <1>1, <1>3, <1>4 DEF Sound, IsHistory
<1> QED BY <1>4, <1>5, <1>6

-----------------------------------------------------------------------------
(***************************************************************************)
(* The remote.                                                             *)
(***************************************************************************)
LEMMA EarliestIs ==
  ASSUME NEW names \in SUBSET Names, names # {}
  PROVE  /\ Earliest(names) \in names
         /\ \A c \in names : Earliest(names).stamp <= c.stamp
<1> DEFINE S == {b.stamp : b \in names}
<1>1. S \in SUBSET Nat /\ S # {}
  BY DEF Names
<1>2. PICK n \in S : \A m \in S : n <= m
  <2> HIDE DEF S
  <2> QED BY <1>1, LeastNumber
<1>3. PICK b \in names : b.stamp = n
  BY <1>2
<1>4. \A c \in names : b.stamp <= c.stamp
  BY <1>2, <1>3
<1> QED BY <1>4 DEF Earliest

\* A commit is in its own past, and the past of its parent is too.
LEMMA PastHoldsItself ==
  ASSUME Sound, NEW k \in 1..Len(commits)
  PROVE  k \in Past[k] /\ Past[Parent(k)] \subseteq Past[k]
         /\ Past[k] \subseteq 1..Len(commits)
<1>1. IsHistory(commits) /\ k \in 0..Len(commits)
  BY DEF Sound, IsHistory
<1>2. Past[k] = {k} \cup Past[Parent(k)]
  BY <1>1, PastUnfolds DEF Past, Parent
<1>3. Past[k] \subseteq 1..k
  BY <1>1, PastIsPast DEF Past
<1>4. 1..k \subseteq 1..Len(commits)
  BY <1>1 DEF IsHistory
<1> QED BY <1>2, <1>3, <1>4

\* A push puts what was pushed within reach, takes nothing out of reach, and
\* moves no other branch.
LEMMA LandsDoes ==
  ASSUME Sound, NEW b, NEW onto \in Names, Takes(b, onto), Lands(b, onto),
         UNCHANGED <<commits, repo, left>>
  PROVE  /\ Sound'
         /\ DOMAIN remote' = DOMAIN remote \cup {onto}
         /\ remote'[onto] = repo.refs[b]
         /\ \A c \in DOMAIN remote : c # onto => remote'[c] = remote[c]
         /\ Reach(remote) \subseteq Reach(remote')
         /\ repo.refs[b] \in Reach(remote')
<1>1. /\ repo.refs \in Upto(Len(commits)) /\ remote \in Upto(Len(commits))
      /\ Len(commits) \in Nat /\ b \in DOMAIN repo.refs
  BY DEF Sound, IsHistory, Takes
<1>2. repo.refs[b] \in 1..Len(commits)
  BY <1>1, UptoFacts
<1>3. \A c \in DOMAIN remote : remote[c] \in 1..Len(commits)
  BY <1>1, UptoFacts
<1>4. remote' \in Upto(Len(commits))
  BY <1>1, <1>2, PutOnto DEF Lands
<1>5. /\ DOMAIN remote' = DOMAIN remote \cup {onto}
      /\ remote'[onto] = repo.refs[b]
      /\ \A c \in DOMAIN remote : c # onto => remote'[c] = remote[c]
  BY DEF Lands, Put
<1>6. Sound'
  BY <1>4 DEF Sound
<1>7. \A c \in DOMAIN remote : c \in DOMAIN remote' /\ remote[c] \in Past[remote'[c]]
  BY <1>3, <1>5, PastHoldsItself DEF Takes
<1>8. Reach(remote) \subseteq Reach(remote')
  BY <1>6, <1>7, ReachGrows
<1>9. repo.refs[b] \in Reach(remote')
  BY <1>2, <1>5, PastHoldsItself DEF Reach, Past
<1> QED BY <1>5, <1>6, <1>8, <1>9

\* Checkpoints stay where they are while some other branch is pushed.
LEMMA OthersStay ==
  ASSUME UNCHANGED <<commits, repo, left>>, NEW onto, onto.mark # "chkpt",
         DOMAIN remote' = DOMAIN remote \cup {onto},
         \A c \in DOMAIN remote : c # onto => remote'[c] = remote[c]
  PROVE  /\ Minted("chkpt")' = Minted("chkpt")
         /\ \A c \in Minted("chkpt") : remote'[c] = remote[c]
         /\ Untouched' = Untouched
         /\ Landed => Landed'
         /\ \A g \in Gates : gate'[g].landed = gate[g].landed /\ Landing(g)
                             => Landing(g)'
<1>1. Minted("chkpt")' = Minted("chkpt")
  BY DEF Minted
<1>2. \A c \in Minted("chkpt") : remote'[c] = remote[c]
  BY DEF Minted
<1>3. \A c \in Minted("chkpt") : HoldsTheWork(remote[c]) <=> HoldsTheWork(remote[c])'
  BY <1>2 DEF HoldsTheWork, Tree, Parent
<1>4. Untouched' = Untouched
  BY DEF Untouched, HeadAt, Dirty, Parent, Tree
<1>5. Landed => Landed'
  BY <1>1, <1>3 DEF Landed, Dirty, HeadAt, Tree
<1>6. ASSUME NEW g \in Gates, gate'[g].landed = gate[g].landed, Landing(g)
      PROVE  Landing(g)'
  BY <1>1, <1>3, <1>6 DEF Landing
<1> QED BY <1>1, <1>2, <1>4, <1>5, <1>6

\* HEAD on a checkpoint of a gate's holds the work; so does whatever holds
\* what it holds, which puts what the agent left within reach.
LEMMA CheckpointHolds ==
  ASSUME IInv, NEW g \in Gates, OnCheckpoint(g)
  PROVE  /\ HoldsTheWork(HeadAt)
         /\ gate[g].committed => \A k : WorkOf(k) = WorkOf(HeadAt) => HoldsTheWork(k)
<1>1. Tree(HeadAt) = left.files /\ left.head \in {HeadAt, Parent(HeadAt)}
  BY DEF OnCheckpoint, WayBack, Untouched, Dirty
<1>2. gate[g].committed => left.head = Parent(HeadAt)
  BY DEF OnCheckpoint
<1> QED BY <1>1, <1>2 DEF HoldsTheWork, WorkOf

-----------------------------------------------------------------------------
(***************************************************************************)
(* The steps of a gate that write in the tree.                             *)
(***************************************************************************)
LEMMA CutKeeps ==
  ASSUME IInv, NEW g \in Gates, Cut(g)
  PROVE  IInv'
<1> DEFINE name == Name("chkpt", stamp + 1)
<1>1. /\ gate[g].pc = "cut" /\ gate[g].pc # "idle"
      /\ UNCHANGED <<commits, remote, left, manifest, passed>>
      /\ stamp' \in Nat /\ passed' \subseteq Names
      /\ Sound /\ Typed /\ Open
      /\ name \in Names /\ name \in Somewhere /\ name.mark = "chkpt" /\ name # Nowhere
  BY AtWork DEF Cut, At, IInv, Typed, Names, Name, Somewhere, Nowhere
<1>2. /\ Uncut(g) /\ Stands(g) /\ Untouched
      /\ gate[g].committed = Dirty
  BY <1>1 DEF IInv, Knows, Kept, Landed
<1>3. CASE Over(g) /\ UNCHANGED repo
  BY <1>1, <1>3, OverKeeps DEF gitVars
<1>4. CASE /\ CutBranch(name)
           /\ gate' = [gate EXCEPT ![g].pc = IF gate[g].committed THEN "commit" ELSE "lookup",
                                   ![g].checkpoint = name]
  <2> HIDE DEF name
  <2> DEFINE pc == IF gate[g].committed THEN "commit" ELSE "lookup"
             r == [gate[g] EXCEPT !.pc = pc, !.checkpoint = name]
  <2>1. gate[g] \in Locals /\ pc \in Pcs
    BY <1>1 DEF Typed, Pcs
  <2>2. r \in Locals /\ gate' = [gate EXCEPT ![g] = r]
    <3>1. r \in Locals
      BY <1>1, <2>1 DEF Locals
    <3> QED BY <1>1, <1>4, <3>1 DEF Typed
  <2>3. /\ gate' \in [Gates -> Locals]
        /\ \A h \in Gates \ {g} : gate'[h] = gate[h]
        /\ gate'[g] = r
    BY <1>1, <2>2, SetIs
  <2>4. /\ gate'[g].pc = pc /\ gate'[g].checkpoint = name
        /\ gate'[g].standing = gate[g].standing
        /\ gate'[g].committed = gate[g].committed
        /\ gate'[g].landed = gate[g].landed
    BY <2>1, <2>3 DEF Locals
  <2>5. /\ Sound' /\ name \notin DOMAIN repo.refs
        /\ repo'.at = name /\ HeadAt' = HeadAt /\ repo'.files = repo.files
        /\ Dirty' = Dirty /\ Untouched' = Untouched
        /\ DOMAIN repo'.refs = DOMAIN Named \cup {name}
        /\ \A c \in DOMAIN Named : c # name => repo'.refs[c] = repo.refs[c]
    BY <1>1, <1>4, CutDoes
  <2>6. /\ gate[g].standing.head = HeadAt /\ HeadAt \in 1..Len(commits)
        /\ gate[g].standing.at = repo.at /\ repo.at \in DOMAIN repo.refs
    BY <1>1, <1>2, HeadIsThere DEF Stands, Sound
  <2>7. repo.at \in DOMAIN Named' => repo'.refs[repo.at] = HeadAt
    <3>1. repo.at \in DOMAIN Named' => repo.at \in DOMAIN Named
      BY <2>5, <2>6 DEF Named
    <3> QED BY <2>5, <2>6, <3>1 DEF HeadAt
  <2>8. WayBack(g)'
    BY <1>1, <1>2, <2>4, <2>5, <2>6, <2>7 DEF WayBack
  <2>9. HeadAt' = gate'[g].standing.head
    BY <2>4, <2>5, <2>6
  <2>10. gate'[g].landed = Nowhere
    BY <1>2, <2>4 DEF Uncut
  <2>11. ~gate'[g].committed => OnCheckpoint(g)'
    BY <1>2, <2>4, <2>5, <2>8, <2>9 DEF OnCheckpoint
  <2>12. Knows(g)'
    <3>1. CASE gate[g].committed
      BY <2>4, <2>8, <2>9, <2>10, <3>1 DEF Knows
    <3>2. CASE ~gate[g].committed
      BY <2>4, <2>10, <2>11, <3>2 DEF Knows
    <3> QED BY <3>1, <3>2
  <2> QED BY <1>1, <1>2, <2>3, <2>5, <2>12, StepKeeps
<1> QED BY <1>1, <1>3, <1>4 DEF Cut

\* commit_everything(): a checkpoint that holds the tree, cut from where HEAD
\* stood.
LEMMA CommitKeeps ==
  ASSUME IInv, NEW g \in Gates, CommitEverything(g)
  PROVE  IInv'
<1>1. /\ gate[g].pc = "commit" /\ gate[g].pc # "idle"
      /\ UNCHANGED <<remote, left, manifest, stamp, passed>>
      /\ stamp' \in Nat /\ passed' \subseteq Names
      /\ Sound /\ Typed
  BY DEF CommitEverything, At, IInv, Typed, Quietly
<1>2. /\ WayBack(g) /\ HeadAt = gate[g].standing.head
      /\ gate[g].committed /\ gate[g].landed = Nowhere
      /\ gate[g].checkpoint \in Somewhere
  BY <1>1 DEF IInv, Knows, Typed, Locals
<1>3. CASE Over(g) /\ UNCHANGED <<commits, repo>>
  BY <1>1, <1>3, OverKeeps DEF gitVars
<1>4. CASE Dirty /\ Commit(HeadAt, gate[g].checkpoint) /\ Goto(g, "lookup")
  <2>1. HeadAt = left.head /\ HeadAt \in 1..Len(commits)
    BY <1>1, <1>2, <1>4, HeadIsThere DEF WayBack, Untouched
  <2>2. /\ Len(commits') = Len(commits) + 1 /\ Len(commits) \in Nat
        /\ HeadAt' = Len(commits) + 1 /\ ~Dirty'
        /\ Parent(HeadAt)' = HeadAt
        /\ repo'.at = repo.at /\ repo'.files = repo.files
        /\ DOMAIN repo'.refs = DOMAIN repo.refs
        /\ \A c \in DOMAIN repo.refs : c # repo.at => repo'.refs[c] = repo.refs[c]
        /\ left' \in [head : 1..Len(commits'), files : Trees] => Sound'
    BY <1>1, <1>2, <1>4, <2>1, CommitDoes
  <2>3. Sound'
    <3>1. left \in [head : 1..Len(commits), files : Trees] /\ left' = left
      BY <1>1 DEF Sound
    <3> QED BY <2>2, <3>1
  <2>4. Untouched'
    BY <1>1, <1>2, <2>1, <2>2 DEF Untouched, WayBack
  <2>5. "lookup" \in Pcs
    BY DEF Pcs
  <2>6. /\ gate' \in [Gates -> Locals]
        /\ \A h \in Gates \ {g} : gate'[h] = gate[h]
        /\ gate'[g].pc = "lookup"
        /\ gate'[g].standing = gate[g].standing
        /\ gate'[g].checkpoint = gate[g].checkpoint
        /\ gate'[g].committed = gate[g].committed
        /\ gate'[g].landed = gate[g].landed
    BY <1>1, <1>4, <2>5, GotoIs
  <2>7. gate[g].standing.at \in DOMAIN Named'
          => repo'.refs[gate[g].standing.at] = gate[g].standing.head
    <3>1. DOMAIN Named' = DOMAIN Named /\ DOMAIN Named \subseteq DOMAIN repo.refs
      BY <2>2 DEF Named
    <3> QED BY <1>2, <2>2, <3>1 DEF WayBack
  <2>8. gate[g].standing.head \in 1..Len(commits')
    BY <1>2, <2>1, <2>2
  <2>9. OnCheckpoint(g)'
    BY <1>1, <1>2, <2>1, <2>2, <2>4, <2>6, <2>7, <2>8 DEF OnCheckpoint, WayBack
  <2>10. Knows(g)'
    BY <1>2, <2>6, <2>9 DEF Knows
  <2> QED BY <1>1, <2>3, <2>4, <2>6, <2>10, StepKeeps
<1> QED BY <1>1, <1>3, <1>4 DEF CommitEverything

\* git reset --mixed: HEAD's branch is where it stood, the work in the tree
\* again.
LEMMA UndoResetKeeps ==
  ASSUME IInv, NEW g \in Gates, UndoReset(g)
  PROVE  IInv'
<1>1. /\ gate[g].pc = "undo_reset" /\ gate[g].pc # "idle"
      /\ UNCHANGED <<commits, remote, left, manifest, stamp, passed>>
      /\ stamp' \in Nat /\ passed' \subseteq Names
      /\ Sound /\ Typed
  BY DEF UndoReset, At, IInv, Typed, Quietly
<1>2. OnCheckpoint(g)
  BY <1>1 DEF IInv, Knows
<1>3. CASE Over(g) /\ UNCHANGED repo
  BY <1>1, <1>3, OverKeeps DEF gitVars
<1>4. CASE ResetMixed(gate[g].standing.head) /\ Goto(g, "undo_checkout")
  <2> DEFINE h == gate[g].standing.head
  <2>1. h \in 1..Len(commits)
    BY <1>2 DEF OnCheckpoint, WayBack
  <2>2. /\ Sound' /\ HeadAt' = h
        /\ repo'.at = repo.at /\ repo'.files = repo.files
        /\ DOMAIN repo'.refs = DOMAIN repo.refs
        /\ \A c \in DOMAIN repo.refs : c # repo.at => repo'.refs[c] = repo.refs[c]
    BY <1>1, <1>4, <2>1, ResetDoes
  <2>3. Untouched'
    <3>1. CASE gate[g].committed
      BY <1>1, <1>2, <2>2, <3>1 DEF OnCheckpoint, WayBack, Untouched
    <3>2. CASE ~gate[g].committed
      BY <1>1, <1>2, <2>2, <3>2
      DEF OnCheckpoint, WayBack, Untouched, Dirty, Tree, Parent
    <3> QED BY <3>1, <3>2
  <2>4. "undo_checkout" \in Pcs
    BY DEF Pcs
  <2>5. /\ gate' \in [Gates -> Locals]
        /\ \A i \in Gates \ {g} : gate'[i] = gate[i]
        /\ gate'[g].pc = "undo_checkout"
        /\ gate'[g].standing = gate[g].standing
        /\ gate'[g].checkpoint = gate[g].checkpoint
    BY <1>1, <1>4, <2>4, GotoIs
  <2>6. gate[g].standing.at \in DOMAIN Named'
          => repo'.refs[gate[g].standing.at] = h
    <3>1. DOMAIN Named' = DOMAIN Named /\ DOMAIN Named \subseteq DOMAIN repo.refs
      BY <2>2 DEF Named
    <3> QED BY <1>2, <2>2, <3>1 DEF OnCheckpoint, WayBack
  <2>7. WayBack(g)' /\ HeadAt' = gate'[g].standing.head
    BY <1>1, <1>2, <2>1, <2>2, <2>3, <2>5, <2>6 DEF OnCheckpoint, WayBack
  <2>8. Knows(g)'
    BY <2>5, <2>7 DEF Knows
  <2> QED BY <1>1, <2>2, <2>3, <2>5, <2>8, StepKeeps
<1> QED BY <1>1, <1>3, <1>4 DEF UndoReset

\* git checkout of where HEAD stood, with the work carried over: what it goes
\* to holds the files HEAD holds.
LEMMA UndoCheckoutKeeps ==
  ASSUME IInv, NEW g \in Gates, UndoCheckout(g)
  PROVE  IInv'
<1>1. /\ gate[g].pc = "undo_checkout" /\ gate[g].pc # "idle"
      /\ UNCHANGED <<commits, remote, left, manifest, stamp, passed>>
      /\ stamp' \in Nat /\ passed' \subseteq Names
      /\ Sound /\ Typed
  BY DEF UndoCheckout, At, IInv, Typed, Quietly
<1>2. WayBack(g) /\ HeadAt = gate[g].standing.head
  BY <1>1 DEF IInv, Knows
<1>3. CASE Over(g) /\ UNCHANGED repo
  BY <1>1, <1>3, OverKeeps DEF gitVars
<1> DEFINE at == gate[g].standing.at
           to == IF at \in DOMAIN Named THEN repo.refs[at] ELSE gate[g].standing.head
<1>4. CASE at \in DOMAIN Named \cup {Detached} /\ Checkout(at, to) /\ Goto(g, "undo_branch")
  <2>1. to = HeadAt /\ HeadAt \in 1..Len(commits)
    BY <1>1, <1>2, HeadIsThere DEF WayBack
  <2>2. at \in Names
    <3>1. Named \in Upto(Len(commits)) /\ Len(commits) \in Nat
      BY <1>1, NamedIs DEF Sound, IsHistory
    <3>2. DOMAIN Named \subseteq Names /\ Detached \in Names
      BY <3>1, UptoFacts DEF Names, Detached, Name
    <3> QED BY <1>4, <3>2
  <2> HIDE DEF at, to
  <2>3. /\ Sound'
        /\ repo'.at = at /\ HeadAt' = to
        /\ Dirty => repo'.files = repo.files
        /\ ~Dirty => repo'.files = Tree(to)
        /\ Dirty' = Dirty
    BY <1>1, <1>4, <2>1, <2>2, CheckoutDoes
  <2>4. repo'.files = repo.files /\ HeadAt' = HeadAt
    BY <2>1, <2>3 DEF Dirty
  <2>5. Untouched'
    BY <1>1, <1>2, <2>3, <2>4 DEF WayBack, Untouched, Parent
  <2>6. "undo_branch" \in Pcs
    BY DEF Pcs
  <2>7. /\ gate' \in [Gates -> Locals]
        /\ \A i \in Gates \ {g} : gate'[i] = gate[i]
        /\ gate'[g].pc = "undo_branch"
        /\ gate'[g].standing = gate[g].standing
    BY <1>1, <1>4, <2>6, GotoIs
  <2>8. Stands(g)'
    BY <1>2, <2>3, <2>4, <2>7 DEF Stands, at
  <2>9. Knows(g)'
    BY <2>5, <2>7, <2>8 DEF Knows
  <2> QED BY <1>1, <2>3, <2>5, <2>7, <2>9, StepKeeps
<1> QED BY <1>1, <1>3, <1>4 DEF UndoCheckout

\* git branch -d of the checkpoint leaves HEAD and the tree.
LEMMA UndoBranchKeeps ==
  ASSUME IInv, NEW g \in Gates, UndoBranch(g)
  PROVE  IInv'
<1>1. /\ gate[g].pc = "undo_branch" /\ gate[g].pc # "idle"
      /\ UNCHANGED <<commits, remote, left, manifest, stamp, passed>>
      /\ stamp' \in Nat /\ passed' \subseteq Names
      /\ Sound /\ Typed /\ Over(g)
  BY DEF UndoBranch, At, IInv, Typed, Quietly
<1>2. Untouched
  BY <1>1 DEF IInv, Knows
<1>3. CASE UNCHANGED repo
  BY <1>1, <1>3, OverKeeps DEF gitVars
<1>4. CASE DeleteBranch(gate[g].checkpoint)
  <2>1. /\ Sound' /\ HeadAt' = HeadAt
        /\ repo'.at = repo.at /\ repo'.files = repo.files
    BY <1>1, <1>4, DeleteDoes
  <2>2. Untouched'
    BY <1>1, <1>2, <2>1 DEF Untouched, Dirty, Tree, Parent
  <2> QED BY <1>1, <2>1, <2>2, OverIs, StepKeeps
<1> QED BY <1>3, <1>4 DEF UndoBranch

\* A gate that is recorded next, or over.
LEMMA PassedIs ==
  ASSUME Typed, NEW g \in Gates, NEW landed \in Somewhere, Passed(g, landed)
  PROVE  /\ gate' \in [Gates -> Locals]
         /\ \A h \in Gates \ {g} : gate'[h] = gate[h]
         /\ gate[g].abandoned => Knows(g)'
         /\ ~gate[g].abandoned =>
              /\ gate'[g].pc = "record" /\ gate'[g].landed = landed
              /\ gate'[g].checkpoint = gate[g].checkpoint
              /\ gate'[g].tip = gate[g].tip
<1>1. CASE gate[g].abandoned
  BY <1>1, OverIs DEF Passed
<1>2. CASE ~gate[g].abandoned
  <2> DEFINE r == [gate[g] EXCEPT !.pc = "record", !.landed = landed]
  <2>1. gate[g] \in Locals
    BY DEF Typed
  <2>2. r \in Locals
    BY <2>1 DEF Locals, Pcs
  <2>3. gate' = [gate EXCEPT ![g] = r]
    BY <1>2 DEF Passed, Typed
  <2>4. /\ gate' \in [Gates -> Locals]
        /\ \A h \in Gates \ {g} : gate'[h] = gate[h]
        /\ gate'[g] = r
    BY <2>2, <2>3, SetIs
  <2> QED BY <1>2, <2>1, <2>4 DEF Locals
<1> QED BY <1>1, <1>2

\* stand_on(): the tree is clean, so the checkout of the chat's branch takes
\* nothing, and what it leaves is on the remote.
LEMMA StandOnKeeps ==
  ASSUME IInv, NEW g \in Gates, StandOn(g)
  PROVE  IInv'
<1>1. /\ gate[g].pc = "stand_on" /\ gate[g].pc # "idle"
      /\ UNCHANGED <<commits, remote, left, manifest, stamp, passed>>
      /\ stamp' \in Nat /\ passed' \subseteq Names
      /\ Sound /\ Typed /\ Open
  BY AtWork DEF StandOn, At, IInv, Typed, Quietly
<1>2. /\ TipLanded(g) /\ (Untouched \/ Landed)
      /\ \/ NoCheckpoint(g)
         \/ gate[g].checkpoint # Nowhere /\ ~Dirty /\ Untouched /\ Landing(g)
  BY <1>1 DEF IInv, Knows, Kept
<1>3. CASE Over(g) /\ UNCHANGED repo
  BY <1>1, <1>3, OverKeeps DEF gitVars
<1>4. CASE /\ Checkout(Branch, repo.refs[Branch])
           /\ IF gate[g].landed = Nowhere
              THEN Goto(g, "look_back")
              ELSE Passed(g, gate[g].landed)
  <2> DEFINE k == repo.refs[Branch]
  <2>1. /\ k \in 1..Len(commits) /\ Branch \in Names
        /\ k = gate[g].tip /\ ~Dirty
    <3>1. repo.refs \in Upto(Len(commits)) /\ Len(commits) \in Nat
      BY <1>1 DEF Sound, IsHistory
    <3>2. Branch \in DOMAIN repo.refs /\ k = gate[g].tip /\ ~Dirty
      BY <1>2 DEF TipLanded, OnTip, NoCheckpoint
    <3> QED BY <3>1, <3>2, UptoFacts
  <2>2. /\ Sound'
        /\ repo'.at = Branch /\ repo'.at \in DOMAIN repo'.refs /\ HeadAt' = k
        /\ repo'.files = Tree(k) /\ ~Dirty'
    BY <1>1, <1>4, <2>1, CheckoutDoes
  <2>3. Branch \in DOMAIN repo'.refs /\ repo'.refs[Branch] = gate[g].tip
    BY <2>1, <2>2 DEF HeadAt
  <2>4. Reach(remote)' = Reach(remote)
    BY <1>1 DEF Reach, Past
  <2>5. CASE NoCheckpoint(g)
    <3>1. gate[g].landed = Nowhere /\ gate[g].checkpoint = Nowhere /\ "look_back" \in Pcs
      BY <2>5 DEF NoCheckpoint, Uncut, Pcs
    <3>2. /\ gate' \in [Gates -> Locals]
          /\ \A i \in Gates \ {g} : gate'[i] = gate[i]
          /\ gate'[g].pc = "look_back"
          /\ gate'[g].landed = Nowhere /\ gate'[g].checkpoint = Nowhere
          /\ gate'[g].tip = gate[g].tip
      BY <1>1, <1>4, <3>1, GotoIs
    <3>3. repo.at = Branch /\ HeadAt' = HeadAt /\ repo'.files = repo.files
      BY <2>1, <2>2, <2>5 DEF NoCheckpoint, HeadAt, Dirty
    <3>4. Untouched' \/ Landed'
      BY <1>1, <1>2, <2>2, <3>3
      DEF Untouched, Landed, Minted, HoldsTheWork, Tree, Parent
    <3>5. NoCheckpoint(g)' /\ TipLanded(g)'
      BY <1>2, <2>2, <2>3, <2>4, <3>2 DEF NoCheckpoint, Uncut, TipLanded, OnTip
    <3>6. Knows(g)'
      BY <3>2, <3>5 DEF Knows
    <3> QED BY <1>1, <2>2, <3>2, <3>4, <3>6, StepKeeps
  <2>6. CASE Landing(g)
    <3>1. gate[g].landed # Nowhere /\ gate[g].landed \in Somewhere
      BY <1>1, <2>6 DEF Landing, Minted, Nowhere, Name, Typed, Locals
    <3>2. Passed(g, gate[g].landed)
      BY <1>4, <3>1
    <3>3. /\ gate' \in [Gates -> Locals]
          /\ \A h \in Gates \ {g} : gate'[h] = gate[h]
          /\ gate[g].abandoned => Knows(g)'
          /\ ~gate[g].abandoned =>
              /\ gate'[g].pc = "record" /\ gate'[g].landed = gate[g].landed
              /\ gate'[g].tip = gate[g].tip
      BY <1>1, <3>1, <3>2, PassedIs
    <3>4. Landed'
      BY <1>1, <2>2, <2>6 DEF Landing, Landed, Minted, HoldsTheWork, Tree, Parent
    <3>5. ~gate[g].abandoned => Knows(g)'
      <4>1. ~gate[g].abandoned => TipLanded(g)'
        BY <1>2, <2>3, <2>4, <3>3 DEF TipLanded, OnTip
      <4>2. ~gate[g].abandoned => Landing(g)'
        BY <1>1, <2>6, <3>3 DEF Landing, Minted, HoldsTheWork, Tree, Parent
      <4> QED BY <2>2, <3>3, <4>1, <4>2 DEF Knows
    <3> QED BY <1>1, <2>2, <3>3, <3>4, <3>5, StepKeeps
  <2> QED BY <1>2, <2>5, <2>6
<1> QED BY <1>1, <1>3, <1>4 DEF StandOn

-----------------------------------------------------------------------------
(***************************************************************************)
(* The steps of a gate at the remote.                                      *)
(***************************************************************************)
LEMMA LookupKeeps ==
  ASSUME IInv, NEW g \in Gates, Lookup(g)
  PROVE  IInv'
<1>1. /\ gate[g].pc = "lookup" /\ gate[g].pc # "idle"
      /\ UNCHANGED <<gitVars, left, manifest, stamp>>
      /\ UNCHANGED <<commits, repo, remote, left>>
      /\ stamp' \in Nat
      /\ Sound /\ Typed /\ Open /\ Sound' /\ Untouched' = Untouched
  BY AtWork, GitStays DEF Lookup, At, IInv, Typed, gitVars
<1>2. OnCheckpoint(g) /\ Untouched /\ gate[g].landed = Nowhere
  BY <1>1 DEF IInv, Knows, OnCheckpoint, WayBack
<1>3. Minted("chkpt") \subseteq Names
  <2>1. remote \in Upto(Len(commits)) /\ Len(commits) \in Nat
    BY <1>1 DEF Sound, IsHistory
  <2> QED BY <2>1, UptoFacts DEF Minted
<1>4. CASE Stop(g) /\ UNCHANGED passed
  BY <1>1, <1>2, <1>4, StopKeeps DEF IInv, Typed
<1>5. ASSUME NEW read \in SUBSET Minted("chkpt"),
             IF gate[g].committed THEN Readable(g, Minted("chkpt"), read)
             ELSE read = Minted("chkpt") /\ UNCHANGED passed
      PROVE  passed' \subseteq Names
  BY <1>1, <1>3, <1>5 DEF Readable, Typed
<1>6. ASSUME NEW read \in SUBSET Minted("chkpt"), passed' \subseteq Names,
             Holding(g, read) = {}, Goto(g, "push_checkpoint")
      PROVE  IInv'
  <2>1. "push_checkpoint" \in Pcs
    BY DEF Pcs
  <2>2. OnCheckpoint(g)'
    BY <1>1, <1>2, <1>6, <2>1, GotoIs, KnownStays
  <2>3. Knows(g)'
    BY <1>1, <1>2, <1>6, <2>1, <2>2, GotoIs DEF Knows
  <2> QED BY <1>1, <1>2, <1>6, <2>1, <2>3, GotoIs, StepKeeps
<1>7. ASSUME NEW read \in SUBSET Minted("chkpt"), passed' \subseteq Names,
             Holding(g, read) # {},
             gate' = [gate EXCEPT ![g].pc = "tip",
                                  ![g].landed = Earliest(Holding(g, read))]
      PROVE  IInv'
  <2> DEFINE b == Earliest(Holding(g, read))
             r == [gate[g] EXCEPT !.pc = "tip", !.landed = b]
  <2>1. b \in Holding(g, read) /\ b \in Minted("chkpt") /\ b \in Somewhere
    <3>1. Holding(g, read) \in SUBSET Names /\ Holding(g, read) \subseteq Minted("chkpt")
      BY <1>3 DEF Holding
    <3> QED BY <1>7, <3>1, EarliestIs DEF Somewhere
  <2>2. HoldsTheWork(remote[b])
    <3>1. repo.refs[gate[g].checkpoint] = HeadAt
      BY <1>2 DEF OnCheckpoint, WayBack, HeadAt
    <3>2. IF gate[g].committed THEN WorkOf(remote[b]) = WorkOf(HeadAt)
                               ELSE remote[b] = HeadAt
      BY <2>1, <3>1 DEF Holding
    <3> QED BY <1>2, <3>2, CheckpointHolds
  <2> HIDE DEF b
  <2>3. gate[g] \in Locals
    BY <1>1 DEF Typed
  <2>4. r \in Locals /\ gate' = [gate EXCEPT ![g] = r]
    <3>1. r \in Locals
      BY <2>1, <2>3 DEF Locals, Pcs
    <3> QED BY <1>1, <1>7, <3>1 DEF Typed, b
  <2>5. /\ gate' \in [Gates -> Locals]
        /\ \A h \in Gates \ {g} : gate'[h] = gate[h]
        /\ gate'[g] = r
    BY <1>1, <2>4, SetIs
  <2>6. /\ gate'[g].pc = "tip" /\ gate'[g].landed = b
        /\ gate'[g].standing = gate[g].standing
        /\ gate'[g].checkpoint = gate[g].checkpoint
        /\ gate'[g].committed = gate[g].committed
    BY <2>3, <2>5 DEF Locals
  <2>7. OnCheckpoint(g)' /\ Landing(g)'
    BY <1>1, <1>2, <2>1, <2>2, <2>6
    DEF OnCheckpoint, WayBack, Landing, Untouched, HeadAt, Dirty, Named, Minted,
        HoldsTheWork, Tree, Parent
  <2>8. Knows(g)'
    BY <2>6, <2>7 DEF Knows
  <2> QED BY <1>1, <1>2, <1>7, <2>5, <2>8, StepKeeps
<1> QED BY <1>1, <1>4, <1>5, <1>6, <1>7 DEF Lookup

\* The push of a checkpoint, landed or not: HEAD stays on it until it has.
LEMMA PushCheckpointKeeps ==
  ASSUME IInv, NEW g \in Gates, PushCheckpoint(g)
  PROVE  IInv'
<1> DEFINE name == gate[g].checkpoint
<1>1. /\ gate[g].pc = "push_checkpoint" /\ gate[g].pc # "idle"
      /\ UNCHANGED <<commits, repo, left, manifest, stamp, passed>>
      /\ stamp' \in Nat /\ passed' \subseteq Names
      /\ Sound /\ Typed /\ Open
  BY AtWork DEF PushCheckpoint, At, IInv, Typed, Quietly
<1>2. OnCheckpoint(g) /\ Untouched
  BY <1>1 DEF IInv, Knows, OnCheckpoint, WayBack
<1>3. Untouched'
  BY <1>1, <1>2 DEF Untouched, HeadAt, Dirty, Tree, Parent
<1>4. CASE Stop(g) /\ UNCHANGED remote
  <2>1. Sound'
    BY <1>1, <1>4 DEF Sound, IsHistory
  <2> QED BY <1>1, <1>2, <1>3, <1>4, <2>1, StopKeeps
<1>5. CASE Takes(name, name) /\ Lands(name, name)
  <2>1. name \in Names /\ name.mark = "chkpt"
    <3>1. repo.refs \in Upto(Len(commits)) /\ Len(commits) \in Nat
      BY <1>1 DEF Sound, IsHistory
    <3>2. name \in DOMAIN repo.refs
      BY <1>5 DEF Takes
    <3> QED BY <1>2, <3>1, <3>2, UptoFacts DEF OnCheckpoint, WayBack
  <2>2. /\ Sound'
        /\ DOMAIN remote' = DOMAIN remote \cup {name}
        /\ remote'[name] = repo.refs[name]
    BY <1>1, <1>5, <2>1, LandsDoes
  <2>3. CASE Stop(g)
    BY <1>1, <1>2, <1>3, <2>2, <2>3, StopKeeps
  <2>4. CASE gate' = [gate EXCEPT ![g].pc = "tip", ![g].landed = name]
    <3> DEFINE r == [gate[g] EXCEPT !.pc = "tip", !.landed = name]
    <3>1. gate[g] \in Locals
      BY <1>1 DEF Typed
    <3>2. r \in Locals /\ gate' = [gate EXCEPT ![g] = r]
      <4>1. r \in Locals
        BY <3>1 DEF Locals, Pcs
      <4> QED BY <1>1, <2>4, <4>1 DEF Typed
    <3>3. /\ gate' \in [Gates -> Locals]
          /\ \A h \in Gates \ {g} : gate'[h] = gate[h]
          /\ gate'[g] = r
      BY <1>1, <3>2, SetIs
    <3>4. /\ gate'[g].pc = "tip" /\ gate'[g].landed = name
          /\ gate'[g].standing = gate[g].standing
          /\ gate'[g].checkpoint = gate[g].checkpoint
          /\ gate'[g].committed = gate[g].committed
      BY <3>1, <3>3 DEF Locals
    <3>5. remote'[name] = HeadAt
      BY <1>2, <2>2 DEF OnCheckpoint, WayBack, HeadAt
    <3>6. Landing(g)'
      <4>1. HoldsTheWork(HeadAt)
        BY <1>2, CheckpointHolds
      <4> QED BY <1>1, <2>1, <2>2, <3>4, <3>5, <4>1
              DEF Landing, Minted, HoldsTheWork, Tree, Parent
    <3>7. OnCheckpoint(g)'
      BY <1>1, <1>2, <3>4
      DEF OnCheckpoint, WayBack, Untouched, HeadAt, Dirty, Named, Tree, Parent
    <3>8. Knows(g)'
      BY <3>4, <3>6, <3>7 DEF Knows
    <3> QED BY <1>1, <1>3, <2>2, <3>3, <3>8, StepKeeps
  <2> QED BY <1>1, <1>5, <2>3, <2>4 DEF PushCheckpoint
<1> QED BY <1>1, <1>4, <1>5 DEF PushCheckpoint

\* tip_of() reads the commit the chat's branch is on.
LEMMA TipKeeps ==
  ASSUME IInv, NEW g \in Gates, Tip(g)
  PROVE  IInv'
<1>1. /\ gate[g].pc = "tip" /\ gate[g].pc # "idle"
      /\ UNCHANGED <<gitVars, left, manifest, stamp, passed>>
      /\ UNCHANGED <<commits, repo, remote, left>>
      /\ stamp' \in Nat /\ passed' \subseteq Names
      /\ Sound /\ Typed /\ Sound'
      /\ Untouched' = Untouched /\ Landed' = Landed /\ (Untouched \/ Landed)
  BY AtWork, GitStays DEF Tip, At, IInv, Typed, Quietly, gitVars, Kept
<1>2. NoCheckpoint(g) \/ (OnCheckpoint(g) /\ Landing(g))
  BY <1>1 DEF IInv, Knows
<1>3. CASE Stop(g)
  <2>1. gate[g].checkpoint # Nowhere => OnCheckpoint(g)
    BY <1>2 DEF NoCheckpoint, Uncut
  <2> QED BY <1>1, <1>3, <2>1, StopKeeps
<1>4. CASE /\ Branch \in DOMAIN repo.refs
           /\ gate' = [gate EXCEPT ![g].pc = "push", ![g].tip = repo.refs[Branch]]
  <2> DEFINE k == repo.refs[Branch]
             r == [gate[g] EXCEPT !.pc = "push", !.tip = k]
  <2>1. k \in Nat
    <3>1. repo.refs \in Upto(Len(commits)) /\ Len(commits) \in Nat
      BY <1>1 DEF Sound, IsHistory
    <3> QED BY <1>4, <3>1, UptoFacts
  <2>2. gate[g] \in Locals
    BY <1>1 DEF Typed
  <2> HIDE DEF k
  <2>3. r \in Locals /\ gate' = [gate EXCEPT ![g] = r]
    <3>1. r \in Locals
      BY <2>1, <2>2 DEF Locals, Pcs
    <3> QED BY <1>1, <1>4, <3>1 DEF Typed, k
  <2>4. /\ gate' \in [Gates -> Locals]
        /\ \A h \in Gates \ {g} : gate'[h] = gate[h]
        /\ gate'[g] = r
    BY <1>1, <2>3, SetIs
  <2>5. /\ gate'[g].pc = "push" /\ gate'[g].tip = k
        /\ gate'[g].landed = gate[g].landed
        /\ gate'[g].standing = gate[g].standing
        /\ gate'[g].checkpoint = gate[g].checkpoint
        /\ gate'[g].committed = gate[g].committed
    BY <2>2, <2>4 DEF Locals
  <2>6. NoCheckpoint(g)' \/ (OnCheckpoint(g)' /\ Landing(g)')
    BY <1>1, <1>2, <2>5, KnownStays
  <2>7. OnTip(g)'
    BY <1>1, <1>4, <2>5 DEF OnTip, k
  <2>8. Knows(g)'
    BY <2>5, <2>6, <2>7 DEF Knows
  <2> QED BY <1>1, <2>4, <2>8, StepKeeps
<1> QED BY <1>1, <1>3, <1>4 DEF Tip

\* Where the chat's branch is pushed, a gate moves on with what it knows.
LEMMA PushingKeeps ==
  ASSUME IInv, NEW g \in Gates,
         gate[g].pc \in {"push", "rescue_lookup", "push_rescue"},
         UNCHANGED <<commits, repo, left, manifest>>,
         stamp' \in Nat, passed' \subseteq Names,
         NEW onto \in Names, onto.mark # "chkpt",
         UNCHANGED remote \/ (Takes(Branch, onto) /\ Lands(Branch, onto)),
         \/ Stop(g)
         \/ Goto(g, "rescue_lookup") \/ Goto(g, "push_rescue")
         \/ Goto(g, "stand_on") /\ gate[g].tip \in Reach(remote)'
  PROVE  IInv'
<1>1. /\ gate[g].pc # "idle" /\ Sound /\ Typed
      /\ Untouched \/ Landed
  BY AtWork DEF IInv, Kept
<1>2. /\ OnTip(g)
      /\ NoCheckpoint(g) \/ (OnCheckpoint(g) /\ Landing(g))
  BY DEF IInv, Knows
<1>3. /\ Sound'
      /\ Untouched' = Untouched
      /\ Landed => Landed'
      /\ gate'[g].landed = gate[g].landed /\ Landing(g) => Landing(g)'
  <2>1. CASE UNCHANGED remote
    BY <1>1, <2>1
    DEF Sound, IsHistory, Untouched, Landed, Landing, Minted, HeadAt, Dirty,
        HoldsTheWork, Tree, Parent
  <2>2. CASE Takes(Branch, onto) /\ Lands(Branch, onto)
    <3>1. /\ Sound'
          /\ DOMAIN remote' = DOMAIN remote \cup {onto}
          /\ \A c \in DOMAIN remote : c # onto => remote'[c] = remote[c]
      BY <1>1, <2>2, LandsDoes
    <3> QED BY <3>1, OthersStay
  <2> QED BY <2>1, <2>2
<1>4. CASE Stop(g)
  <2>1. gate[g].checkpoint # Nowhere => OnCheckpoint(g)
    BY <1>2 DEF NoCheckpoint, Uncut
  <2> QED BY <1>1, <1>3, <1>4, <2>1, StopKeeps
<1>5. ASSUME NEW pc \in {"rescue_lookup", "push_rescue", "stand_on"}, Goto(g, pc),
             pc = "stand_on" => gate[g].tip \in Reach(remote)'
      PROVE  IInv'
  <2>1. pc \in Pcs
    BY DEF Pcs
  <2>2. /\ gate' \in [Gates -> Locals]
        /\ \A h \in Gates \ {g} : gate'[h] = gate[h]
        /\ gate'[g].pc = pc
        /\ gate'[g].standing = gate[g].standing
        /\ gate'[g].checkpoint = gate[g].checkpoint
        /\ gate'[g].committed = gate[g].committed
        /\ gate'[g].tip = gate[g].tip
        /\ gate'[g].landed = gate[g].landed
    BY <1>1, <1>5, <2>1, GotoIs
  <2>3. /\ NoCheckpoint(g) => NoCheckpoint(g)'
        /\ OnCheckpoint(g) => OnCheckpoint(g)'
        /\ OnTip(g)'
    BY <1>2, <2>2, KnownStays
  <2>4. NoCheckpoint(g)' \/ (OnCheckpoint(g)' /\ Landing(g)')
    BY <1>2, <1>3, <2>2, <2>3
  <2>5. pc = "stand_on" => /\ TipLanded(g)'
                           /\ \/ NoCheckpoint(g)'
                              \/ /\ gate'[g].checkpoint # Nowhere
                                 /\ ~Dirty' /\ Untouched' /\ Landing(g)'
    <3>1. OnCheckpoint(g)' => gate'[g].checkpoint # Nowhere /\ ~Dirty' /\ Untouched'
      BY DEF OnCheckpoint, WayBack, Nowhere, Name
    <3> QED BY <1>5, <2>2, <2>3, <2>4, <3>1 DEF TipLanded
  <2>6. Knows(g)'
    BY <2>2, <2>3, <2>4, <2>5 DEF Knows
  <2> QED BY <1>1, <1>3, <2>2, <2>6, StepKeeps
<1> QED BY <1>4, <1>5

\* The push of the chat's branch puts its tip within reach, or is refused.
LEMMA PushBranchKeeps ==
  ASSUME IInv, NEW g \in Gates, PushBranch(g)
  PROVE  IInv'
<1>1. /\ gate[g].pc = "push"
      /\ UNCHANGED <<commits, repo, left, manifest, stamp, passed>>
      /\ stamp' \in Nat /\ passed' \subseteq Names
      /\ Branch \in Names /\ Branch.mark # "chkpt"
      /\ Sound /\ OnTip(g)
  BY DEF PushBranch, At, IInv, Typed, Quietly, Knows, Names, Branch, Name
<1>2. CASE /\ Takes(Branch, Branch) /\ Lands(Branch, Branch)
           /\ Stop(g) \/ Goto(g, "rescue_lookup") \/ Goto(g, "stand_on")
  <2>1. gate[g].tip \in Reach(remote)'
    <3>1. repo.refs[Branch] \in Reach(remote')
      BY <1>1, <1>2, LandsDoes
    <3> QED BY <1>1, <3>1 DEF OnTip, Reach, Past
  <2> QED BY <1>1, <1>2, <2>1, PushingKeeps
<1>3. CASE UNCHANGED remote /\ (Stop(g) \/ Goto(g, "rescue_lookup"))
  BY <1>1, <1>3, PushingKeeps
<1> QED BY <1>2, <1>3 DEF PushBranch

\* rescue_holding(): a rescue that stands on the tip keeps it within reach.
LEMMA RescueLookupKeeps ==
  ASSUME IInv, NEW g \in Gates, RescueLookup(g)
  PROVE  IInv'
<1>1. /\ gate[g].pc = "rescue_lookup"
      /\ UNCHANGED <<commits, repo, remote, left, manifest, stamp, passed>>
      /\ stamp' \in Nat /\ passed' \subseteq Names
      /\ Branch \in Names /\ Branch.mark # "chkpt"
      /\ Sound
  BY DEF RescueLookup, At, IInv, Typed, Quietly, gitVars, Names, Branch, Name
<1>2. CASE Stop(g) \/ Goto(g, "push_rescue")
  BY <1>1, <1>2, PushingKeeps
<1>3. ASSUME NEW b \in Minted("rescue"), remote[b] = gate[g].tip, Goto(g, "stand_on")
      PROVE  IInv'
  <2>1. remote[b] \in Reach(remote)'
    <3>1. remote \in Upto(Len(commits)) /\ Len(commits) \in Nat /\ b \in DOMAIN remote
      BY <1>1, <1>3 DEF Sound, IsHistory, Minted
    <3>2. remote[b] \in 1..Len(commits)
      BY <3>1, UptoFacts
    <3> QED BY <1>1, <3>1, <3>2, PastHoldsItself DEF Reach, Past
  <2> QED BY <1>1, <1>3, <2>1, PushingKeeps
<1> QED BY <1>2, <1>3 DEF RescueLookup

\* rescue() puts the tip within reach under another name.
LEMMA PushRescueKeeps ==
  ASSUME IInv, NEW g \in Gates, PushRescue(g)
  PROVE  IInv'
<1> DEFINE name == Name("rescue", stamp + 1)
<1>1. /\ gate[g].pc = "push_rescue"
      /\ UNCHANGED <<commits, repo, left, manifest, passed>>
      /\ stamp' \in Nat /\ passed' \subseteq Names
      /\ name \in Names /\ name.mark # "chkpt"
      /\ Sound /\ OnTip(g)
  BY DEF PushRescue, At, IInv, Typed, Knows, Names, Name
<1>2. CASE /\ Takes(Branch, name) /\ Lands(Branch, name)
           /\ Stop(g) \/ Goto(g, "stand_on")
  <2>1. gate[g].tip \in Reach(remote)'
    <3>1. repo.refs[Branch] \in Reach(remote')
      BY <1>1, <1>2, LandsDoes
    <3> QED BY <1>1, <3>1 DEF OnTip, Reach, Past
  <2> QED BY <1>1, <1>2, <2>1, PushingKeeps
<1>3. CASE UNCHANGED remote /\ Stop(g)
  BY <1>1, <1>3, PushingKeeps
<1> QED BY <1>2, <1>3 DEF PushRescue

\* Of branches whose stamps are bounded there is a latest.
LEMMA LatestIs ==
  ASSUME NEW names \in SUBSET Names, names # {}, NEW n \in Nat,
         \A b \in names : b.stamp <= n
  PROVE  /\ Latest(names) \in names
         /\ \A c \in names : Latest(names).stamp >= c.stamp
<1>0. \A b \in names : b.stamp \in Nat
  BY DEF Names
<1> DEFINE S == {n - b.stamp : b \in names}
<1>1. S \in SUBSET Nat /\ S # {}
  BY <1>0
<1>2. PICK m \in S : \A i \in S : m <= i
  <2> HIDE DEF S
  <2> QED BY <1>1, LeastNumber
<1>3. PICK b \in names : n - b.stamp = m
  BY <1>2
<1>4. ASSUME NEW c \in names PROVE b.stamp >= c.stamp
  <2>1. n - c.stamp \in S
    OBVIOUS
  <2>2. n - b.stamp <= n - c.stamp
    BY <1>2, <1>3, <2>1
  <2> QED BY <1>0, <2>2
<1> QED BY <1>4 DEF Latest

\* checkpoint_cut_off() names a checkpoint there is, or none.
LEMMA LookBackKeeps ==
  ASSUME IInv, Stamped, NEW g \in Gates, LookBack(g)
  PROVE  IInv'
<1>1. /\ gate[g].pc = "look_back" /\ gate[g].pc # "idle"
      /\ UNCHANGED <<gitVars, left, manifest, stamp>>
      /\ UNCHANGED <<commits, repo, remote, left>>
      /\ stamp' \in Nat /\ stamp \in Nat
      /\ Sound /\ Typed
  BY DEF LookBack, At, IInv, Typed, gitVars
<1>2. TipLanded(g) /\ NoCheckpoint(g)
  BY <1>1 DEF IInv, Knows
<1>3. Minted("chkpt") \subseteq Names
  <2>1. remote \in Upto(Len(commits)) /\ Len(commits) \in Nat
    BY <1>1 DEF Sound, IsHistory
  <2> QED BY <2>1, UptoFacts DEF Minted
<1>4. CASE Over(g) /\ UNCHANGED passed
  BY <1>1, <1>4, OverKeeps DEF IInv, Typed
<1>5. ASSUME NEW read \in SUBSET Minted("chkpt"),
             Readable(g, Minted("chkpt"), read),
             NEW found, found = CutFrom(read, gate[g].tip),
             Passed(g, IF found = {} THEN gate[g].landed ELSE Latest(found))
      PROVE  IInv'
  <2>1. passed' \subseteq Names
    BY <1>1, <1>3, <1>5 DEF Readable, Typed
  <2> DEFINE landed == IF found = {} THEN gate[g].landed ELSE Latest(found)
  <2>2. landed \in Somewhere
    <3>1. CASE found = {}
      BY <1>1, <3>1 DEF Typed, Locals
    <3>2. CASE found # {}
      <4>1. found \in SUBSET Names /\ found \subseteq DOMAIN remote
        BY <1>3, <1>5 DEF CutFrom, Minted
      <4>2. \A b \in found : b.stamp <= stamp
        BY <4>1 DEF Stamped
      <4> QED BY <1>1, <3>2, <4>1, <4>2, LatestIs DEF Somewhere
    <3> QED BY <3>1, <3>2
  <2>3. /\ gate' \in [Gates -> Locals]
        /\ \A h \in Gates \ {g} : gate'[h] = gate[h]
        /\ gate[g].abandoned => Knows(g)'
        /\ ~gate[g].abandoned =>
             /\ gate'[g].pc = "record"
             /\ gate'[g].checkpoint = gate[g].checkpoint
             /\ gate'[g].tip = gate[g].tip
    <3> HIDE DEF landed
    <3>1. Passed(g, landed)
      BY <1>5 DEF landed
    <3> QED BY <1>1, <2>2, <3>1, PassedIs
  <2>4. ASSUME ~gate[g].abandoned PROVE Knows(g)'
    <3>1. TipLanded(g)' /\ repo'.at = Branch /\ ~Dirty' /\ gate'[g].checkpoint = Nowhere
      BY <1>1, <1>2, <2>3, <2>4
      DEF TipLanded, OnTip, Reach, Past, NoCheckpoint, Uncut, Dirty, HeadAt, Tree
    <3> QED BY <2>3, <2>4, <3>1 DEF Knows
  <2> QED BY <1>1, <2>1, <2>3, <2>4, MovesOn
<1> QED BY <1>1, <1>4, <1>5 DEF LookBack

\* Whatever holds the work and is within reach puts within reach what the
\* agent left HEAD on.
LEMMA ReachHolds ==
  ASSUME Sound, NEW k \in Reach(remote), HoldsTheWork(k)
  PROVE  left.head \in Reach(remote)
<1>1. PICK b \in DOMAIN remote : k \in Past[remote[b]]
  BY DEF Reach
<1>2. remote[b] \in 1..Len(commits)
  <2>1. remote \in Upto(Len(commits)) /\ Len(commits) \in Nat
    BY DEF Sound, IsHistory
  <2> QED BY <2>1, UptoFacts
<1>3. k \in 1..Len(commits)
  BY <1>1, <1>2, PastHoldsItself
<1>4. Past[k] \subseteq Past[remote[b]]
  <2>1. IsHistory(commits) /\ remote[b] \in 0..Len(commits)
    BY <1>2 DEF Sound, IsHistory
  <2> QED BY <1>1, <2>1, PastIsPast DEF Past
<1>5. left.head \in Past[k]
  <2>1. left.head \in 1..Len(commits) /\ left.head \in {k, Parent(k)}
    BY DEF Sound, HoldsTheWork
  <2> QED BY <1>3, <2>1, PastHoldsItself
<1> QED BY <1>4, <1>5 DEF Reach

\* A checkpoint on the remote is within reach.
LEMMA RemoteIsReached ==
  ASSUME Sound, NEW b \in DOMAIN remote
  PROVE  remote[b] \in Reach(remote) /\ remote[b] \in 1..Len(commits)
<1>1. remote \in Upto(Len(commits)) /\ Len(commits) \in Nat
  BY DEF Sound, IsHistory
<1>2. remote[b] \in 1..Len(commits)
  BY <1>1, UptoFacts
<1> QED BY <1>2, PastHoldsItself DEF Reach

\* The archive is recorded only with what the agent left on the remote.
LEMMA RecordKeeps ==
  ASSUME IInv, NEW g \in Gates, Record(g)
  PROVE  IInv'
<1>1. /\ gate[g].pc = "record" /\ gate[g].pc # "idle"
      /\ UNCHANGED <<gitVars, left, stamp, passed>>
      /\ stamp' \in Nat /\ passed' \subseteq Names
      /\ Sound /\ Typed /\ Over(g) /\ (Untouched \/ Landed)
      /\ \A h \in Gates \ {g} : gate[h] = Fresh
  BY AtWork DEF Record, At, IInv, Typed, Kept
<1>2. TipLanded(g) /\ repo.at = Branch /\ ~Dirty
  BY <1>1 DEF IInv, Knows
<1>3. CASE UNCHANGED manifest
  BY <1>1, <1>3, OverKeeps
<1>4. CASE manifest' = [state |-> "archived", commit |-> gate[g].tip,
                        checkpoint |-> gate[g].landed]
  <2>1. \E k \in Reach(remote) : HoldsTheWork(k)
    <3>1. CASE Untouched
      <4>1. HeadAt \in Reach(remote)
        BY <1>2 DEF TipLanded, OnTip, HeadAt
      <4>2. HoldsTheWork(HeadAt)
        BY <1>2, <3>1 DEF HoldsTheWork, Untouched, Dirty
      <4> QED BY <4>1, <4>2
    <3>2. CASE Landed
      BY <1>1, <3>2, RemoteIsReached DEF Landed, Minted
    <3> QED BY <1>1, <3>1, <3>2
  <2>2. left.head \in Reach(remote)
    BY <1>1, <2>1, ReachHolds
  <2>3. /\ gate' \in [Gates -> Locals]
        /\ \A h \in Gates \ {g} : gate'[h] = gate[h]
        /\ gate'[g] = Fresh
        /\ Knows(g)'
    BY <1>1, OverIs
  <2>4. Working' = {}
    BY <1>1, <2>3 DEF Working, Fresh
  <2>5. Closed'
    BY <1>1, <2>1, <2>2, <2>4, GitStays DEF Closed
  <2>6. Kept'
    BY <1>4, <2>5 DEF Kept, Open
  <2>7. Alone' /\ \A h \in Gates : Knows(h)'
    BY <1>1, <2>3, OneSteps
  <2>8. Typed'
    BY <1>1, <1>4, <2>3 DEF Typed, Locals, Somewhere
  <2> QED BY <1>1, <2>6, <2>7, <2>8, GitStays DEF IInv
<1> QED BY <1>1, <1>3, <1>4 DEF Record

\* Every step of a gate keeps the invariant.
LEMMA GateStepKeeps ==
  ASSUME IInv, Stamped, NEW g \in Gates, GateStep(g)
  PROVE  IInv'
  BY StandingKeeps, StatusKeeps, CutKeeps, CommitKeeps, LookupKeeps,
     PushCheckpointKeeps, TipKeeps, PushBranchKeeps, RescueLookupKeeps,
     PushRescueKeeps, StandOnKeeps, LookBackKeeps, UndoResetKeeps,
     UndoCheckoutKeeps, UndoBranchKeeps, RecordKeeps DEF GateStep

\* A client that goes away changes nothing but what becomes of its archive.
LEMMA HangupKeeps ==
  ASSUME IInv, NEW g \in Gates, Hangup(g)
  PROVE  IInv'
<1>1. /\ gate[g].pc # "idle"
      /\ UNCHANGED <<gitVars, left, manifest, stamp, passed>>
      /\ UNCHANGED <<commits, repo, remote, left>>
      /\ stamp' \in Nat /\ passed' \subseteq Names
      /\ Typed /\ gate[g] \in Locals
  BY DEF Hangup, Working, Quietly, IInv, Typed, gitVars
<1> DEFINE r == [gate[g] EXCEPT !.abandoned = TRUE]
<1>2. r \in Locals /\ gate' = [gate EXCEPT ![g] = r]
  <2>1. r \in Locals
    BY <1>1 DEF Locals
  <2> QED BY <1>1, <2>1 DEF Hangup, Typed
<1>3. /\ gate' \in [Gates -> Locals]
      /\ \A h \in Gates \ {g} : gate'[h] = gate[h]
      /\ gate'[g] = r
  BY <1>1, <1>2, SetIs
<1>4. /\ gate'[g].pc = gate[g].pc
      /\ gate'[g].standing = gate[g].standing
      /\ gate'[g].checkpoint = gate[g].checkpoint
      /\ gate'[g].committed = gate[g].committed
      /\ gate'[g].tip = gate[g].tip
      /\ gate'[g].landed = gate[g].landed
  BY <1>1, <1>3 DEF Locals
<1>5. Knows(g)'
  BY <1>1, <1>4, KnownStays, GitStays DEF IInv, Knows
<1> QED BY <1>1, <1>3, <1>5, MovesOn

\* A core that dies leaves git as it is, wherever its gates were.
LEMMA CrashKeeps ==
  ASSUME IInv, Crash
  PROVE  IInv'
<1>1. UNCHANGED <<gitVars, left, manifest, stamp, passed>>
  BY DEF Crash, Quietly
<1>2. Fresh \in Locals
  BY DEF Fresh, Locals, Pcs, Somewhere, Nowhere, Name
<1>3. gate' \in [Gates -> Locals] /\ \A g \in Gates : gate'[g] = Fresh
  BY <1>2 DEF Crash
<1>4. Working' = {}
  BY <1>3 DEF Working, Fresh
<1>5. \A g \in Gates : Knows(g)'
  BY <1>3 DEF Knows, Fresh
<1>6. Sound' /\ Typed' /\ Alone'
  BY <1>1, <1>3, <1>4, GitStays DEF IInv, Typed, Alone
<1>7. Kept'
  BY <1>1, <1>4, GitStays DEF IInv, Kept, Open, Closed
<1> QED BY <1>5, <1>6, <1>7 DEF IInv

-----------------------------------------------------------------------------
(***************************************************************************)
(* The steps of the agent and of the others.                               *)
(***************************************************************************)
\* While nobody is in the tree, no gate knows anything but to begin.
LEMMA NobodyIn ==
  ASSUME IInv, Working = {}, UNCHANGED gate
  PROVE  /\ Alone'
         /\ \A g \in Gates : Knows(g)'
<1>1. \A g \in Gates : gate'[g] = Fresh
  BY DEF IInv, Knows, Working
<1>2. \A g \in Gates : gate'[g].pc = "idle"
  BY <1>1 DEF Fresh
<1>3. \A g \in Gates : Knows(g)'
  BY <1>1, <1>2 DEF Knows
<1> QED BY <1>3 DEF IInv, Alone, Working

\* What the agent does while nobody else is in the tree is what it leaves.
LEMMA AgentKeeps ==
  ASSUME ~crowded', IInv, Open, Enters, Leaves, Sound'
  PROVE  IInv'
<1>1. /\ Working = {} /\ UNCHANGED <<remote, manifest, gate, stamp, passed>>
      /\ left' = [head |-> HeadAt', files |-> repo'.files]
  BY EntersAlone DEF Leaves
<1>2. Alone' /\ \A g \in Gates : Knows(g)'
  BY <1>1, NobodyIn
<1>3. Untouched'
  BY <1>1 DEF Untouched
<1>4. Typed' /\ Kept'
  BY <1>1, <1>3 DEF IInv, Typed, Kept, Open
<1> QED BY <1>2, <1>4 DEF IInv

\* The agent writes a file.
LEMMA EditKeeps ==
  ASSUME ~crowded', IInv, Edit
  PROVE  IInv'
<1>1. PICK t \in Trees : repo' = [repo EXCEPT !.files = t]
  BY DEF Edit
<1>2. /\ Sound /\ Open /\ Enters /\ Leaves
      /\ UNCHANGED <<commits, remote>>
      /\ left' = [head |-> HeadAt', files |-> repo'.files]
  BY DEF Edit, IInv, Leaves
<1>3. /\ repo' \in [refs : Upto(Len(commits)), at : Names, files : Trees]
      /\ repo'.refs = repo.refs /\ repo'.at = repo.at
  BY <1>1, <1>2 DEF Sound
<1>4. HeadAt' = HeadAt /\ HeadAt \in 1..Len(commits)
  BY <1>2, <1>3, HeadIsThere DEF HeadAt
<1>5. Sound'
  BY <1>2, <1>3, <1>4 DEF Sound
<1> QED BY <1>2, <1>5, AgentKeeps

\* A commit of the agent's, on whatever commit there is.
LEMMA CommittedKeeps ==
  ASSUME ~crowded', IInv, Open, Enters, Leaves,
         NEW parent \in 1..Len(commits), Commit(parent, Nowhere)
  PROVE  IInv'
<1>1. /\ Sound /\ UNCHANGED remote /\ Nowhere \in Somewhere
      /\ left' = [head |-> HeadAt', files |-> repo'.files]
      /\ repo.files \in Trees
  BY DEF IInv, Leaves, Somewhere, Sound
<1>2. /\ Len(commits') = Len(commits) + 1 /\ Len(commits) \in Nat
      /\ HeadAt' = Len(commits) + 1
      /\ repo'.files = repo.files
      /\ left' \in [head : 1..Len(commits'), files : Trees] => Sound'
  BY <1>1, CommitDoes
<1>3. left' \in [head : 1..Len(commits'), files : Trees]
  BY <1>1, <1>2
<1> QED BY <1>2, <1>3, AgentKeeps

\* The agent commits.
LEMMA AgentCommitsKeeps ==
  ASSUME ~crowded', IInv, AgentCommits
  PROVE  IInv'
<1>1. HeadAt \in 1..Len(commits)
  BY HeadIsThere DEF IInv
<1> QED BY <1>1, CommittedKeeps DEF AgentCommits

\* The agent amends: the new commit stands on the old one's parent.
LEMMA AmendKeeps ==
  ASSUME ~crowded', IInv, Amend
  PROVE  IInv'
<1>1. /\ HeadAt \in 1..Len(commits) /\ Sound /\ Len(commits) \in Nat
  BY HeadIsThere DEF IInv, Sound, IsHistory
<1>2. Parent(HeadAt) \in 0..(HeadAt - 1)
  BY <1>1, CommitIsTyped
<1>3. Parent(HeadAt) \in 1..Len(commits)
  BY <1>1, <1>2 DEF Amend
<1> QED BY <1>3, CommittedKeeps DEF Amend

\* The agent checks out an older commit, or the chat's branch.
LEMMA WanderKeeps ==
  ASSUME ~crowded', IInv, Wander
  PROVE  IInv'
<1>1. /\ Sound /\ Open /\ Enters /\ Leaves
      /\ UNCHANGED <<commits, remote>>
      /\ left' = [head |-> HeadAt', files |-> repo'.files]
  BY DEF Wander, IInv, Leaves
<1>2. /\ repo.refs \in Upto(Len(commits)) /\ Len(commits) \in Nat
      /\ HeadAt \in 1..Len(commits)
      /\ Branch \in Names /\ Detached \in Names
  BY <1>1, HeadIsThere DEF Sound, IsHistory, Names, Branch, Detached, Name
<1>3. ASSUME NEW at \in Names, NEW k \in 1..Len(commits), Checkout(at, k)
      PROVE  IInv'
  <2>1. /\ repo' \in [refs : Upto(Len(commits)), at : Names, files : Trees]
        /\ repo'.at \in DOMAIN repo'.refs /\ HeadAt' = k
    BY <1>1, <1>3, CheckoutDoes
  <2>2. Sound'
    BY <1>1, <2>1 DEF Sound
  <2> QED BY <1>1, <2>2, AgentKeeps
<1>4. CASE \E k \in Past[HeadAt] : Checkout(Detached, k)
  <2>1. Past[HeadAt] \subseteq 1..Len(commits)
    BY <1>1, <1>2, PastHoldsItself
  <2> QED BY <1>2, <1>3, <1>4, <2>1
<1>5. CASE Checkout(Branch, repo.refs[Branch]) /\ Branch \in DOMAIN repo.refs
  <2>1. repo.refs[Branch] \in 1..Len(commits)
    BY <1>2, <1>5, UptoFacts
  <2> QED BY <1>2, <1>3, <1>5, <2>1
<1> QED BY <1>4, <1>5 DEF Wander

\* What others push to the chat's branch takes nothing out of reach, and
\* leaves the commits there were, the clone and the checkpoints as they are.
LEMMA OthersDo ==
  ASSUME Sound, OthersPush
  PROVE  /\ Sound'
         /\ Len(commits') = Len(commits) + 1 /\ Len(commits) \in Nat
         /\ \A k \in 1..Len(commits) : commits'[k] = commits[k]
         /\ commits'[Len(commits) + 1].cut = Nowhere
         /\ DOMAIN remote' = DOMAIN remote
         /\ \A b \in DOMAIN remote \ {Branch} : remote'[b] = remote[b]
         /\ remote'[Branch] = Len(commits) + 1
         /\ Reach(remote) \subseteq Reach(remote)'
<1> DEFINE n == Len(commits)
           at == remote[Branch]
           new == [tree |-> Tree(at), parent |-> at, cut |-> Nowhere]
<1>1. /\ remote \in Upto(n) /\ n \in Nat /\ Branch \in DOMAIN remote
      /\ UNCHANGED <<repo, left>>
      /\ commits' = Append(commits, new)
      /\ remote' = [remote EXCEPT ![Branch] = n + 1]
  BY DEF Sound, IsHistory, OthersPush
<1>2. /\ \A b \in DOMAIN remote : remote[b] \in 1..n
      /\ DOMAIN remote \in SUBSET Names
      /\ remote \in [DOMAIN remote -> 1..n]
  BY <1>1, UptoFacts
<1>3. at \in 1..n /\ Tree(at) \in Trees
  BY <1>1, <1>2, CommitIsTyped
<1> HIDE DEF at
<1>4. new \in [tree : Trees, parent : Nat, cut : Somewhere] /\ new.parent = at /\ new.cut = Nowhere
  BY <1>1, <1>3 DEF Somewhere
<1>5. new.parent \in 1..Len(commits)
  BY <1>3, <1>4
<1> HIDE DEF new
<1>6. /\ Len(commits') = n + 1
      /\ \A k \in 1..n : commits'[k] = commits[k]
      /\ commits'[n + 1] = new
      /\ commits' \in Seq([tree : Trees, parent : Nat, cut : Somewhere])
      /\ IsHistory(commits')
      /\ \A k \in 0..n : Past'[k] = Past[k]
  BY <1>1, <1>4, <1>5, MoreCommits
<1>7. /\ remote' \in [DOMAIN remote -> 1..(n + 1)]
      /\ DOMAIN remote' = DOMAIN remote
      /\ \A b \in DOMAIN remote \ {Branch} : remote'[b] = remote[b]
      /\ remote'[Branch] = n + 1
  BY <1>1, <1>2
<1>8. Sound'
  <2>1. remote' \in Upto(n + 1)
    BY <1>2, <1>7 DEF Upto
  <2>2. repo' \in [refs : Upto(n + 1), at : Names, files : Trees]
    BY <1>1, UptoGrows DEF Sound
  <2>3. left' \in [head : 1..(n + 1), files : Trees]
    BY <1>1 DEF Sound
  <2> QED BY <1>1, <1>6, <2>1, <2>2, <2>3 DEF Sound, Somewhere
<1>9. Past[at] \subseteq Past'[n + 1]
  <2>1. IsHistory(commits') /\ n + 1 \in 1..Len(commits')
    BY <1>1, <1>6
  <2>2. Past'[n + 1] = {n + 1} \cup Past'[at]
    BY <1>4, <1>6, <2>1, PastUnfolds DEF Past
  <2> QED BY <1>3, <1>6, <2>2
<1>10. ASSUME NEW b \in DOMAIN remote PROVE Past[remote[b]] \subseteq Past'[remote'[b]]
  <2>1. CASE b = Branch
    BY <1>7, <1>9, <2>1 DEF at
  <2>2. CASE b # Branch
    BY <1>2, <1>6, <1>7, <2>2
  <2> QED BY <2>1, <2>2
<1>11. Reach(remote) \subseteq Reach(remote)'
  BY <1>7, <1>10 DEF Reach
<1> QED BY <1>1, <1>4, <1>6, <1>7, <1>8, <1>11

\* So no gate is put out by it, nor what an archive has closed on.
LEMMA OthersPushKeeps ==
  ASSUME IInv, OthersPush
  PROVE  IInv'
<1>1. /\ UNCHANGED <<repo, manifest, gate, stamp, left, passed>>
      /\ Sound
  BY DEF OthersPush, IInv
<1>2. /\ Sound'
      /\ Len(commits') = Len(commits) + 1 /\ Len(commits) \in Nat
      /\ \A k \in 1..Len(commits) : commits'[k] = commits[k]
      /\ DOMAIN remote' = DOMAIN remote
      /\ \A b \in DOMAIN remote \ {Branch} : remote'[b] = remote[b]
      /\ Reach(remote) \subseteq Reach(remote)'
  BY <1>1, OthersDo
<1>3. \A k \in 1..Len(commits) : /\ Tree(k)' = Tree(k) /\ Parent(k)' = Parent(k)
                                 /\ HoldsTheWork(k)' = HoldsTheWork(k)
  BY <1>1, <1>2 DEF Tree, Parent, HoldsTheWork
<1>4. HeadAt' = HeadAt /\ HeadAt \in 1..Len(commits)
  BY <1>1, HeadIsThere DEF HeadAt
<1>5. Dirty' = Dirty /\ Untouched' = Untouched
  <2>1. Tree(HeadAt)' = Tree(HeadAt) /\ Parent(HeadAt)' = Parent(HeadAt)
    BY <1>3, <1>4 DEF Tree, Parent
  <2> QED BY <1>1, <1>4, <2>1 DEF Dirty, Untouched
<1>6. /\ Minted("chkpt")' = Minted("chkpt")
      /\ \A b \in Minted("chkpt") : /\ remote'[b] = remote[b]
                                    /\ HoldsTheWork(remote[b])' = HoldsTheWork(remote[b])
  <2>1. \A b \in Minted("chkpt") : b \in DOMAIN remote /\ b # Branch
    BY DEF Minted, Branch, Name
  <2>2. \A b \in Minted("chkpt") : remote'[b] = remote[b] /\ remote[b] \in 1..Len(commits)
    BY <1>1, <1>2, <2>1, RemoteIsReached
  <2> QED BY <1>2, <1>3, <2>2 DEF Minted, HoldsTheWork, Tree, Parent
<1>7. Landed => Landed'
  BY <1>1, <1>5, <1>6 DEF Landed
<1>8. Closed => Closed'
  <2>1. ASSUME NEW k \in Reach(remote), HoldsTheWork(k) PROVE HoldsTheWork(k)'
    <3>1. PICK b \in DOMAIN remote : k \in Past[remote[b]]
      BY DEF Reach
    <3>2. k \in 1..Len(commits)
      BY <1>1, <3>1, RemoteIsReached, PastHoldsItself
    <3> QED BY <1>3, <2>1, <3>2
  <2> QED BY <1>1, <1>2, <2>1 DEF Closed, Working
<1>9. Kept'
  BY <1>1, <1>5, <1>7, <1>8 DEF IInv, Kept, Open
<1>10. Typed' /\ Alone'
  BY <1>1 DEF IInv, Typed, Alone, Working
<1>11. ASSUME NEW g \in Gates PROVE Knows(g)'
  <2>1. Uncut(g)' = Uncut(g) /\ Stands(g)' = Stands(g)
    BY <1>1, <1>4 DEF Uncut, Stands
  <2>2. WayBack(g) => WayBack(g)'
    BY <1>1, <1>2, <1>5 DEF WayBack, Named
  <2>3. OnCheckpoint(g) => OnCheckpoint(g)'
    <3>1. Parent(HeadAt)' = Parent(HeadAt)
      BY <1>3, <1>4 DEF Parent
    <3> QED BY <1>1, <1>4, <1>5, <2>2, <3>1 DEF OnCheckpoint
  <2>4. NoCheckpoint(g)' = NoCheckpoint(g)
    BY <1>1, <1>5, <2>1 DEF NoCheckpoint
  <2>5. Landing(g) => Landing(g)'
    BY <1>1, <1>6 DEF Landing
  <2>6. OnTip(g)' = OnTip(g) /\ (TipLanded(g) => TipLanded(g)')
    BY <1>1, <1>2 DEF OnTip, TipLanded
  <2>7. Knows(g)
    BY DEF IInv
  <2> QED BY <1>1, <1>4, <1>5, <2>1, <2>2, <2>3, <2>4, <2>5, <2>6, <2>7 DEF Knows
<1> QED BY <1>2, <1>9, <1>10, <1>11 DEF IInv

\* revive_at(): the clone is on a commit there is, and clean.
LEMMA ReviveKeeps ==
  ASSUME IInv, Revive
  PROVE  IInv'
<1>1. /\ UNCHANGED <<commits, remote, gate, stamp, passed>>
      /\ Sound /\ Working = {} /\ Branch \in DOMAIN remote
      /\ manifest' = [manifest EXCEPT !.state = "open"]
      /\ left' = [head |-> repo'.refs[Branch], files |-> repo'.files]
  BY DEF Revive, IInv, Kept, Closed
<1> DEFINE k == IF manifest.commit \in Past[remote[Branch]] THEN manifest.commit
                                                            ELSE remote[Branch]
<1>2. k \in 1..Len(commits) /\ Tree(k) \in Trees
  BY <1>1, RemoteIsReached, PastHoldsItself, CommitIsTyped
<1>3. Clone(k)
  BY DEF Revive
<1> HIDE DEF k
<1>4. /\ repo'.refs = Only(Branch, k) /\ repo'.at = Branch /\ repo'.files = Tree(k)
      /\ repo' \in [refs : Upto(Len(commits)), at : Names, files : Trees]
      /\ Branch \in DOMAIN repo'.refs /\ repo'.refs[Branch] = k
  <2>1. Branch \in Names
    BY DEF Names, Branch, Name
  <2>2. Only(Branch, k) \in [{Branch} -> 1..Len(commits)] /\ {Branch} \in SUBSET Names
    BY <1>2, <2>1 DEF Only
  <2>3. Only(Branch, k) \in Upto(Len(commits))
    BY <2>2 DEF Upto
  <2> QED BY <1>2, <1>3, <2>1, <2>3 DEF Clone, Only
<1>5. Sound'
  BY <1>1, <1>2, <1>4 DEF Sound
<1>6. Untouched'
  BY <1>1, <1>4 DEF Untouched, HeadAt
<1>7. Typed' /\ Kept'
  BY <1>1, <1>6 DEF IInv, Typed, Kept, Open
<1> QED BY <1>1, <1>5, <1>7, NobodyIn DEF IInv

-----------------------------------------------------------------------------
\* A fresh clone has it.
LEMMA InitKeeps == Init => IInv
<1> SUFFICES ASSUME Init PROVE IInv
  OBVIOUS
<1>1. /\ commits = <<[tree |-> 0, parent |-> 0, cut |-> Nowhere]>>
      /\ repo = [refs |-> Only(Branch, 1), at |-> Branch, files |-> 0]
      /\ remote = Only(Base, 1)
      /\ manifest = [state |-> "open", commit |-> 0, checkpoint |-> Nowhere]
      /\ gate = [g \in Gates |-> Fresh]
      /\ stamp = 0
      /\ left = [head |-> 1, files |-> 0]
      /\ passed = {}
  BY DEF Init, GitInit
<1>2. Branch \in Names /\ Base \in Names
  BY DEF Names, Branch, Base, Name
<1>3. \A b \in Names : Only(b, 1) \in Upto(1)
  <2>1. ASSUME NEW b \in Names PROVE Only(b, 1) \in Upto(1)
    <3>1. Only(b, 1) \in [{b} -> 1..1] /\ {b} \in SUBSET Names
      BY DEF Only
    <3> QED BY <3>1 DEF Upto
  <2> QED BY <2>1
<1>4. /\ Len(commits) = 1 /\ commits[1].parent = 0
      /\ commits \in Seq([tree : Trees, parent : Nat, cut : Names \cup {Nowhere}])
  <2> DEFINE c == [tree |-> 0, parent |-> 0, cut |-> Nowhere]
             S == [tree : Trees, parent : Nat, cut : Names \cup {Nowhere}]
  <2>1. c \in S /\ c.parent = 0
    BY TreesOK
  <2> HIDE DEF c, S
  <2>2. commits = <<c>>
    BY <1>1 DEF c
  <2>3. Len(commits) = 1 /\ commits[1] = c /\ commits \in Seq(S)
    BY <2>1, <2>2
  <2> QED BY <2>1, <2>3 DEF S
<1>5. IsHistory(commits)
  BY <1>4 DEF IsHistory
<1>6. Sound
  BY <1>1, <1>2, <1>3, <1>4, <1>5, TreesOK DEF Sound, Only
<1>7. Fresh \in Locals
  BY DEF Fresh, Locals, Pcs, Somewhere, Nowhere, Name
<1>8. Typed
  BY <1>1, <1>7 DEF Typed
<1>9. \A g \in Gates : gate[g] = Fresh /\ gate[g].pc = "idle"
  BY <1>1 DEF Fresh
<1>10. Alone /\ \A g \in Gates : Knows(g)
  BY <1>9 DEF Alone, Working, Knows
<1>11. Untouched
  BY <1>1 DEF Untouched, HeadAt, Only
<1>12. Kept
  BY <1>1, <1>11 DEF Kept, Open
<1> QED BY <1>6, <1>8, <1>10, <1>12 DEF IInv

\* And nothing happening keeps it.
LEMMA StutterKeeps ==
  ASSUME IInv, UNCHANGED vars
  PROVE  IInv'
<1>1. /\ UNCHANGED <<gitVars, left>> /\ UNCHANGED <<commits, repo, left, remote>>
      /\ UNCHANGED <<manifest, gate, stamp, passed>>
  BY DEF vars, gitVars
<1>2. Sound' /\ Typed' /\ Alone' /\ Kept'
  BY <1>1, GitStays DEF IInv, Typed, Alone, Working, Kept, Closed, Open
<1>3. ASSUME NEW g \in Gates PROVE Knows(g)'
  BY <1>1, KnownStays, GitStays DEF IInv, Knows
<1> QED BY <1>2, <1>3 DEF IInv

\* The first half of the invariant: what the workspace and the remote hold.
LEMMA StepsKeep ==
  ASSUME ~crowded', IInv, Stamped, [Next]_vars
  PROVE  IInv'
<1>1. CASE UNCHANGED vars
  BY <1>1, StutterKeeps
<1>2. ASSUME NEW g \in Gates, Begin(g) \/ GateStep(g) \/ Hangup(g)
      PROVE  IInv'
  BY <1>2, BeginKeeps, GateStepKeeps, HangupKeeps
<1>3. CASE Edit \/ AgentCommits \/ Amend \/ Wander
  BY <1>3, EditKeeps, AgentCommitsKeeps, AmendKeeps, WanderKeeps
<1>4. CASE OthersPush \/ Revive \/ Crash \/ Idle
  BY <1>1, <1>4, OthersPushKeeps, ReviveKeeps, CrashKeeps DEF Idle
<1> QED BY <1>1, <1>2, <1>3, <1>4 DEF Next

-----------------------------------------------------------------------------
(***************************************************************************)
(* What is minted.                                                         *)
(***************************************************************************)
\* The checkpoint of an attempt is newer than any on the remote, and nothing
\* the core committed before is named after it.
NewName(g) ==
  /\ \A b \in Minted("chkpt") : b.stamp < gate[g].checkpoint.stamp
  /\ ~gate[g].committed => \A k \in 1..Len(commits) : commits[k].cut # gate[g].checkpoint

\* No checkpoint a lookup could read holds this work.
Unheld(g) ==
  \A b \in Minted("chkpt") : WorkOf(remote[b]) = WorkOf(HeadAt) => b \in passed

\* The checkpoint found is the latest that was cut off the tip.
LookedBack(g) ==
  \A b \in CutFrom(Minted("chkpt"), gate[g].tip) :
     \/ b \in passed
     \/ /\ gate[g].landed \in CutFrom(Minted("chkpt"), gate[g].tip)
        /\ b.stamp <= gate[g].landed.stamp

\* What a gate has seen of the remote.
Remembers(g) ==
  LET pc == gate[g].pc IN
  /\ pc \in {"commit", "lookup", "push_checkpoint"} => NewName(g)
  /\ pc = "push_checkpoint" /\ gate[g].committed => Unheld(g)
  /\ pc = "push_rescue" => \A b \in Minted("rescue") : remote[b] # gate[g].tip
  /\ pc = "record" /\ gate[g].checkpoint = Nowhere => LookedBack(g)

MInv == IInv /\ Stamped /\ MintedOfTheirOwn /\ \A g \in Gates : Remembers(g)

\* Git's history is only ever added to, and a checkpoint passed over is not
\* taken back.
LEMMA HistoryStands ==
  ASSUME IInv, [Next]_vars
  PROVE  /\ Len(commits) \in Nat /\ Len(commits') \in Nat /\ Len(commits) <= Len(commits')
         /\ \A k \in 1..Len(commits) : commits'[k] = commits[k]
         /\ passed \subseteq passed'
<1>1. Sound /\ Len(commits) \in Nat
  BY DEF IInv, Sound, IsHistory
<1>2. CASE UNCHANGED commits /\ passed \subseteq passed'
  BY <1>1, <1>2
<1>3. ASSUME NEW parent \in 1..Len(commits), NEW cut \in Somewhere,
             Commit(parent, cut), UNCHANGED <<remote, passed>>
      PROVE  /\ Len(commits') = Len(commits) + 1
             /\ \A k \in 1..Len(commits) : commits'[k] = commits[k]
             /\ passed \subseteq passed'
  BY <1>1, <1>3, CommitDoes
<1>4. /\ HeadAt \in 1..Len(commits)
      /\ Parent(HeadAt) \in 0..(HeadAt - 1)
      /\ Nowhere \in Somewhere
      /\ \A g \in Gates : gate[g].checkpoint \in Somewhere
  BY <1>1, HeadIsThere, CommitIsTyped DEF Somewhere, IInv, Typed, Locals
<1>5. ASSUME NEW g \in Gates, CommitEverything(g), ~UNCHANGED commits
      PROVE  /\ Len(commits') = Len(commits) + 1
             /\ \A k \in 1..Len(commits) : commits'[k] = commits[k]
             /\ passed \subseteq passed'
  <2>1. Commit(HeadAt, gate[g].checkpoint) /\ UNCHANGED <<remote, passed>>
    BY <1>5 DEF CommitEverything, Quietly
  <2> QED BY <1>3, <1>4, <2>1
<1>6. CASE AgentCommits
  BY <1>3, <1>4, <1>6 DEF AgentCommits, Leaves
<1>7. CASE Amend
  <2>1. Parent(HeadAt) \in 1..Len(commits)
    BY <1>1, <1>4, <1>7 DEF Amend
  <2> QED BY <1>3, <1>4, <1>7, <2>1 DEF Amend, Leaves
<1>8. CASE OthersPush
  BY <1>1, <1>8, OthersDo DEF OthersPush
<1>9. ASSUME NEW g \in Gates, Begin(g) \/ GateStep(g) \/ Hangup(g)
      PROVE  passed \subseteq passed' /\ (CommitEverything(g) \/ UNCHANGED commits)
  <2>1. CASE Begin(g) \/ Hangup(g)
    BY <2>1 DEF Begin, Hangup, Quietly, gitVars
  <2>2. CASE GateStep(g)
    <3>1. CASE Standing(g) \/ Status(g) \/ Cut(g) \/ CommitEverything(g)
      BY <3>1 DEF Standing, Status, Cut, CommitEverything, Quietly, gitVars
    <3>2. CASE Lookup(g) \/ LookBack(g)
      BY <3>2 DEF Lookup, LookBack, Readable, gitVars
    <3>3. CASE PushCheckpoint(g) \/ PushBranch(g) \/ PushRescue(g)
      BY <3>3 DEF PushCheckpoint, PushBranch, PushRescue, Quietly
    <3>4. CASE Tip(g) \/ RescueLookup(g) \/ StandOn(g)
      BY <3>4 DEF Tip, RescueLookup, StandOn, Quietly, gitVars
    <3>5. CASE UndoReset(g) \/ UndoCheckout(g) \/ UndoBranch(g) \/ Record(g)
      BY <3>5 DEF UndoReset, UndoCheckout, UndoBranch, Record, Quietly, gitVars
    <3> QED BY <2>2, <3>1, <3>2, <3>3, <3>4, <3>5 DEF GateStep
  <2> QED BY <1>9, <2>1, <2>2
<1>10. CASE Edit \/ Wander \/ Revive \/ Crash \/ Idle \/ UNCHANGED vars
  BY <1>2, <1>10 DEF Edit, Wander, Revive, Crash, Idle, Leaves, Quietly, vars, gitVars
<1> QED BY <1>1, <1>2, <1>5, <1>6, <1>7, <1>8, <1>9, <1>10 DEF Next

\* Stamps are numbers, those of the branches there are and those kept in the
\* commits.
LEMMA StampsAre ==
  ASSUME Sound
  PROVE  /\ \A b \in DOMAIN repo.refs \cup DOMAIN remote : b \in Names /\ b.stamp \in Nat
         /\ \A k \in 1..Len(commits) : commits[k].cut.stamp \in Nat
<1>1. /\ repo.refs \in Upto(Len(commits)) /\ remote \in Upto(Len(commits))
      /\ Len(commits) \in Nat
  BY DEF Sound, IsHistory
<1>2. DOMAIN repo.refs \subseteq Names /\ DOMAIN remote \subseteq Names
  BY <1>1, UptoFacts
<1>3. \A k \in 1..Len(commits) : commits[k].cut \in Somewhere
  BY CommitIsTyped
<1>4. \A c \in Somewhere : c.stamp \in Nat
  BY DEF Somewhere, Names, Nowhere, Name
<1>5. \A b \in Names : b.stamp \in Nat
  BY DEF Names
<1>6. \A k \in 1..Len(commits) : commits[k].cut.stamp \in Nat
  BY <1>3, <1>4
<1> QED BY <1>2, <1>5, <1>6

\* A step that mints nothing later than the new stamp leaves nothing later.
LEMMA MintsInOrder ==
  ASSUME Sound, Stamped, stamp \in Nat, stamp' \in Nat, stamp <= stamp',
         \A b \in DOMAIN repo'.refs \cup DOMAIN remote' :
           b \in DOMAIN repo.refs \cup DOMAIN remote \/ b.stamp <= stamp',
         \A k \in 1..Len(commits') :
           \/ k \in 1..Len(commits) /\ commits'[k] = commits[k]
           \/ commits'[k].cut.stamp <= stamp'
  PROVE  Stamped'
<1>1. ASSUME NEW b \in DOMAIN repo'.refs \cup DOMAIN remote' PROVE b.stamp <= stamp'
  BY StampsAre DEF Stamped
<1>2. ASSUME NEW k \in 1..Len(commits') PROVE commits'[k].cut.stamp <= stamp'
  BY StampsAre DEF Stamped
<1> QED BY <1>1, <1>2 DEF Stamped

\* A commit mints no stamp.
LEMMA CommitStamps ==
  ASSUME Sound, Stamped, stamp \in Nat, UNCHANGED <<remote, stamp>>,
         NEW parent \in 1..Len(commits), NEW cut \in Somewhere, cut.stamp <= stamp,
         Commit(parent, cut)
  PROVE  Stamped'
<1>1. /\ Len(commits') = Len(commits) + 1 /\ Len(commits) \in Nat
      /\ \A k \in 1..Len(commits) : commits'[k] = commits[k]
      /\ commits'[Len(commits) + 1] = [tree |-> repo.files, parent |-> parent, cut |-> cut]
      /\ DOMAIN repo'.refs = DOMAIN repo.refs
  BY CommitDoes
<1>2. commits'[Len(commits) + 1].cut = cut
  BY <1>1
<1>3. \A k \in 1..Len(commits') : k \in 1..Len(commits) \/ k = Len(commits) + 1
  BY <1>1
<1>4. \A k \in 1..Len(commits') :
        \/ k \in 1..Len(commits) /\ commits'[k] = commits[k]
        \/ commits'[k].cut.stamp <= stamp'
  BY <1>1, <1>2, <1>3
<1> QED BY <1>1, <1>4, MintsInOrder

\* Every step mints names later than the names there are, or none.
LEMMA StampedKeeps ==
  ASSUME IInv, Stamped, [Next]_vars
  PROVE  Stamped'
<1>1. Sound /\ stamp \in Nat /\ Typed
  BY DEF IInv, Typed
<1>2. /\ HeadAt \in 1..Len(commits) /\ Nowhere \in Somewhere /\ Nowhere.stamp <= stamp
      /\ Parent(HeadAt) \in 0..(HeadAt - 1) /\ Len(commits) \in Nat
      /\ DOMAIN Named \subseteq DOMAIN repo.refs
      /\ Branch \in Names /\ Branch.stamp <= stamp
      /\ Detached \in Names /\ Detached.stamp <= stamp
  BY <1>1, HeadIsThere, CommitIsTyped, NamedIs
  DEF Somewhere, Nowhere, Branch, Detached, Names, Name, Sound, IsHistory
<1>3. CASE /\ UNCHANGED <<commits, stamp>>
           /\ \A b \in DOMAIN repo'.refs \cup DOMAIN remote' :
                b \in DOMAIN repo.refs \cup DOMAIN remote \/ b.stamp <= stamp
  BY <1>1, <1>3, MintsInOrder
<1>4. CASE UNCHANGED <<gitVars, stamp>>
  BY <1>3, <1>4 DEF gitVars
<1>5. ASSUME NEW b, NEW onto \in Names, onto.stamp <= stamp,
             Takes(b, onto), Lands(b, onto), UNCHANGED <<commits, repo, left, stamp>>
      PROVE  Stamped'
  <2>1. DOMAIN remote' = DOMAIN remote \cup {onto}
    BY <1>1, <1>5, LandsDoes
  <2> QED BY <1>3, <1>5, <2>1
<1>6. ASSUME NEW at \in Names, NEW k \in 1..Len(commits), Checkout(at, k),
             at \in DOMAIN repo.refs \/ at.stamp <= stamp,
             UNCHANGED <<commits, remote, stamp>>
      PROVE  Stamped'
  <2>1. DOMAIN repo'.refs = DOMAIN Named \cup {at}
    BY <1>1, <1>6, CheckoutDoes
  <2> QED BY <1>2, <1>3, <1>6, <2>1
<1>7. ASSUME NEW g \in Gates, GateStep(g) PROVE Stamped'
  <2>1. CASE Standing(g) \/ Status(g) \/ Lookup(g) \/ Tip(g) \/ RescueLookup(g)
             \/ LookBack(g) \/ Record(g)
    BY <1>4, <2>1
    DEF Standing, Status, Lookup, Tip, RescueLookup, LookBack, Record, Quietly
  <2>2. CASE Cut(g)
    <3> DEFINE name == Name("chkpt", stamp + 1)
    <3>1. /\ name \in Names /\ name.stamp = stamp + 1 /\ stamp' = stamp + 1
          /\ UNCHANGED <<commits, remote, left>>
      BY <1>1, <2>2 DEF Cut, Names, Name
    <3>2. CASE UNCHANGED repo
      BY <1>1, <3>1, <3>2, MintsInOrder
    <3>3. CASE CutBranch(name)
      <4> HIDE DEF name
      <4>1. DOMAIN repo'.refs = DOMAIN Named \cup {name}
        BY <1>1, <3>1, <3>3, CutDoes
      <4> QED BY <1>1, <1>2, <3>1, <4>1, MintsInOrder
    <3> QED BY <2>2, <3>2, <3>3 DEF Cut
  <2>3. CASE CommitEverything(g)
    <3>1. UNCHANGED <<remote, stamp>> /\ gate[g].pc = "commit"
      BY <2>3 DEF CommitEverything, Quietly, At
    <3>2. CASE UNCHANGED <<commits, repo>>
      BY <1>4, <3>1, <3>2 DEF gitVars
    <3>3. CASE Commit(HeadAt, gate[g].checkpoint)
      <4>1. gate[g].checkpoint \in DOMAIN repo.refs
        BY <1>1, <3>1 DEF IInv, Knows, WayBack, Sound
      <4>2. gate[g].checkpoint \in Somewhere /\ gate[g].checkpoint.stamp <= stamp
        BY <1>1, <4>1, StampsAre DEF Stamped, Somewhere
      <4> QED BY <1>1, <1>2, <3>1, <3>3, <4>2, CommitStamps
    <3> QED BY <2>3, <3>2, <3>3 DEF CommitEverything
  <2>4. CASE PushCheckpoint(g)
    <3> DEFINE name == gate[g].checkpoint
    <3>1. UNCHANGED <<commits, repo, left, stamp>>
      BY <2>4 DEF PushCheckpoint, Quietly
    <3>2. CASE UNCHANGED remote
      BY <1>4, <3>1, <3>2 DEF gitVars
    <3>3. CASE Takes(name, name) /\ Lands(name, name)
      <4>1. name \in DOMAIN repo.refs
        BY <3>3 DEF Takes
      <4>2. name \in Names /\ name.stamp <= stamp
        BY <1>1, <4>1, StampsAre DEF Stamped
      <4> QED BY <1>5, <3>1, <3>3, <4>2
    <3> QED BY <2>4, <3>2, <3>3 DEF PushCheckpoint
  <2>5. CASE PushBranch(g)
    <3>1. UNCHANGED <<commits, repo, left, stamp>>
      BY <2>5 DEF PushBranch, Quietly
    <3>2. CASE UNCHANGED remote
      BY <1>4, <3>1, <3>2 DEF gitVars
    <3>3. CASE Takes(Branch, Branch) /\ Lands(Branch, Branch)
      BY <1>2, <1>5, <3>1, <3>3
    <3> QED BY <2>5, <3>2, <3>3 DEF PushBranch
  <2>6. CASE PushRescue(g)
    <3> DEFINE name == Name("rescue", stamp + 1)
    <3>1. /\ name \in Names /\ name.stamp = stamp + 1 /\ stamp' = stamp + 1
          /\ UNCHANGED <<commits, repo, left>>
      BY <1>1, <2>6 DEF PushRescue, Names, Name
    <3>2. CASE UNCHANGED remote
      BY <1>1, <3>1, <3>2, MintsInOrder
    <3>3. CASE Takes(Branch, name) /\ Lands(Branch, name)
      <4> HIDE DEF name
      <4>1. DOMAIN remote' = DOMAIN remote \cup {name}
        BY <1>1, <3>1, <3>3, LandsDoes
      <4> QED BY <1>1, <3>1, <4>1, MintsInOrder
    <3> QED BY <2>6, <3>2, <3>3 DEF PushRescue
  <2>7. CASE StandOn(g)
    <3>1. UNCHANGED <<commits, remote, stamp>> /\ gate[g].pc = "stand_on"
      BY <2>7 DEF StandOn, Quietly, At
    <3>2. CASE UNCHANGED repo
      BY <1>4, <3>1, <3>2 DEF gitVars
    <3>3. CASE Checkout(Branch, repo.refs[Branch])
      <4>1. Branch \in DOMAIN repo.refs /\ repo.refs \in Upto(Len(commits))
        BY <1>1, <3>1 DEF IInv, Knows, TipLanded, OnTip, Sound
      <4>2. repo.refs[Branch] \in 1..Len(commits)
        BY <1>2, <4>1, UptoFacts
      <4> QED BY <1>2, <1>6, <3>1, <3>3, <4>2
    <3> QED BY <2>7, <3>2, <3>3 DEF StandOn
  <2>8. CASE UndoReset(g)
    <3>1. UNCHANGED <<commits, remote, left, stamp>> /\ gate[g].pc = "undo_reset"
      BY <2>8 DEF UndoReset, Quietly, At
    <3>2. CASE UNCHANGED repo
      BY <1>4, <3>1, <3>2 DEF gitVars
    <3>3. CASE ResetMixed(gate[g].standing.head)
      <4>1. gate[g].standing.head \in 1..Len(commits)
        BY <3>1 DEF IInv, Knows, OnCheckpoint, WayBack
      <4>2. DOMAIN repo'.refs = DOMAIN repo.refs
        BY <1>1, <3>1, <3>3, <4>1, ResetDoes
      <4> QED BY <1>3, <3>1, <4>2
    <3> QED BY <2>8, <3>2, <3>3 DEF UndoReset
  <2>9. CASE UndoCheckout(g)
    <3> DEFINE at == gate[g].standing.at
               to == IF at \in DOMAIN Named THEN repo.refs[at] ELSE gate[g].standing.head
    <3>1. UNCHANGED <<commits, remote, stamp>> /\ gate[g].pc = "undo_checkout"
      BY <2>9 DEF UndoCheckout, Quietly, At
    <3>2. CASE UNCHANGED repo
      BY <1>4, <3>1, <3>2 DEF gitVars
    <3>3. CASE at \in DOMAIN Named \cup {Detached} /\ Checkout(at, to)
      <4>1. to = HeadAt
        BY <3>1 DEF IInv, Knows, WayBack
      <4>2. at \in Names /\ (at \in DOMAIN repo.refs \/ at.stamp <= stamp)
        BY <1>1, <1>2, <3>3, StampsAre
      <4> HIDE DEF at, to
      <4> QED BY <1>2, <1>6, <3>1, <3>3, <4>1, <4>2
    <3> QED BY <2>9, <3>2, <3>3 DEF UndoCheckout
  <2>10. CASE UndoBranch(g)
    <3>1. UNCHANGED <<commits, remote, stamp>>
      BY <2>10 DEF UndoBranch, Quietly
    <3>2. DOMAIN repo'.refs \subseteq DOMAIN repo.refs
      <4>1. CASE DeleteBranch(gate[g].checkpoint)
        <5> DEFINE refs == [r \in DOMAIN repo.refs \ {gate[g].checkpoint} |-> repo.refs[r]]
        <5>1. repo' = [repo EXCEPT !.refs = refs]
          BY <4>1 DEF DeleteBranch
        <5>2. DOMAIN refs \subseteq DOMAIN repo.refs
          OBVIOUS
        <5> HIDE DEF refs
        <5> QED BY <1>1, <5>1, <5>2 DEF Sound
      <4> QED BY <2>10, <4>1 DEF UndoBranch
    <3> QED BY <1>3, <3>1, <3>2
  <2> QED BY <1>7, <2>1, <2>2, <2>3, <2>4, <2>5, <2>6, <2>7, <2>8, <2>9, <2>10 DEF GateStep
<1>8. ASSUME NEW g \in Gates, Begin(g) \/ Hangup(g) PROVE Stamped'
  BY <1>4, <1>8 DEF Begin, Hangup, Quietly
<1>9. CASE Edit
  <2>1. repo'.refs = repo.refs /\ UNCHANGED <<commits, remote, stamp>>
    BY <1>1, <1>9 DEF Edit, Leaves, Sound
  <2> QED BY <1>3, <2>1
<1>10. CASE AgentCommits \/ Amend
  <2>1. PICK parent \in 1..Len(commits) : Commit(parent, Nowhere)
    BY <1>2, <1>10 DEF AgentCommits, Amend
  <2> QED BY <1>1, <1>2, <1>10, <2>1, CommitStamps DEF AgentCommits, Amend, Leaves
<1>11. CASE Wander
  <2>1. Past[HeadAt] \subseteq 1..Len(commits)
    BY <1>1, <1>2, PastHoldsItself
  <2>2. Branch \in DOMAIN repo.refs => repo.refs[Branch] \in 1..Len(commits)
    BY <1>1, <1>2, UptoFacts DEF Sound
  <2>3. UNCHANGED <<commits, remote, stamp>>
    BY <1>11 DEF Wander, Leaves
  <2> QED BY <1>2, <1>6, <1>11, <2>1, <2>2, <2>3 DEF Wander
<1>12. CASE OthersPush
  <2>1. /\ Len(commits') = Len(commits) + 1
        /\ \A k \in 1..Len(commits) : commits'[k] = commits[k]
        /\ commits'[Len(commits) + 1].cut = Nowhere
        /\ DOMAIN remote' = DOMAIN remote
        /\ UNCHANGED <<repo, stamp>>
    BY <1>1, <1>12, OthersDo DEF OthersPush
  <2>2. \A k \in 1..Len(commits') : k \in 1..Len(commits) \/ k = Len(commits) + 1
    BY <1>2, <2>1
  <2>3. \A k \in 1..Len(commits') :
          \/ k \in 1..Len(commits) /\ commits'[k] = commits[k]
          \/ commits'[k].cut.stamp <= stamp'
    BY <1>2, <2>1, <2>2
  <2> QED BY <1>1, <2>1, <2>3, MintsInOrder
<1>13. CASE Revive
  <2>1. DOMAIN repo'.refs = {Branch} /\ UNCHANGED <<commits, remote, stamp>>
    BY <1>13 DEF Revive, Clone, Only
  <2> QED BY <1>2, <1>3, <2>1
<1>14. CASE Crash \/ Idle \/ UNCHANGED vars
  BY <1>4, <1>14 DEF Crash, Idle, Quietly, vars
<1> QED BY <1>7, <1>8, <1>9, <1>10, <1>11, <1>12, <1>13, <1>14 DEF Next

\* Where the remote's checkpoints and rescues stand as they stood, none has
\* been minted twice that was not before.
LEMMA NoneMinted ==
  ASSUME IInv, MintedOfTheirOwn,
         \A k \in 1..Len(commits) : commits'[k] = commits[k],
         passed \subseteq passed',
         \A mark \in {"chkpt", "rescue"} :
            /\ Minted(mark)' = Minted(mark)
            /\ \A b \in Minted(mark) : remote'[b] = remote[b]
  PROVE  MintedOfTheirOwn'
<1>1. \A mark \in {"chkpt", "rescue"} : \A b \in Minted(mark) :
        remote[b] \in 1..Len(commits)
  BY RemoteIsReached DEF IInv, Minted
<1>2. \A b \in Minted("chkpt") :
        /\ remote'[b] = remote[b]
        /\ commits'[remote'[b]] = commits[remote[b]]
        /\ WorkOf(remote[b])' = WorkOf(remote[b])
  BY <1>1 DEF WorkOf, Tree, Parent
<1>3. ASSUME NEW b \in Minted("chkpt")', NEW c \in Minted("chkpt")',
             commits'[remote'[b]].cut = b, commits'[remote'[c]].cut = c,
             b.stamp < c.stamp, WorkOf(remote[b])' = WorkOf(remote[c])'
      PROVE  b \in passed'
  <2>1. /\ b \in Minted("chkpt") /\ c \in Minted("chkpt")
        /\ commits[remote[b]].cut = b /\ commits[remote[c]].cut = c
        /\ WorkOf(remote[b]) = WorkOf(remote[c])
    BY <1>2, <1>3
  <2>2. b \in passed
    BY <1>3, <2>1 DEF MintedOfTheirOwn
  <2> QED BY <2>2
<1>4. \A b, c \in Minted("rescue")' : remote'[b] = remote'[c] => b = c
  BY DEF MintedOfTheirOwn
<1> QED BY <1>3, <1>4 DEF MintedOfTheirOwn

\* A gate at a pc where it need remember nothing.
LEMMA NothingToRemember ==
  ASSUME NEW g, gate'[g].pc \notin {"commit", "lookup", "push_checkpoint", "push_rescue", "record"}
  PROVE  Remembers(g)'
  BY DEF Remembers

\* A gate that stops is over or rolls back.
LEMMA StopIs ==
  ASSUME Typed, NEW g \in Gates, Stop(g)
  PROVE  gate'[g].pc \in {"idle", "undo_reset"}
<1>1. CASE gate[g].checkpoint = Nowhere
  BY <1>1, OverIs DEF Stop, Fresh
<1>2. CASE gate[g].checkpoint # Nowhere
  <2>1. "undo_reset" \in Pcs
    BY DEF Pcs
  <2> QED BY <1>2, <2>1, GotoIs DEF Stop
<1> QED BY <1>1, <1>2

\* The steps after which a gate need remember nothing.
LEMMA MostForget ==
  ASSUME IInv, NEW g \in Gates,
         \/ Begin(g) \/ Standing(g) \/ Status(g) \/ PushCheckpoint(g) \/ Tip(g)
         \/ PushBranch(g) \/ PushRescue(g)
         \/ UndoReset(g) \/ UndoCheckout(g) \/ UndoBranch(g) \/ Record(g)
  PROVE  Remembers(g)'
<1>1. Typed /\ gate \in [Gates -> Locals]
  BY DEF IInv, Typed
<1>2. Over(g) \/ Stop(g) => Remembers(g)'
  BY <1>1, OverIs, StopIs, NothingToRemember DEF Fresh
<1>3. ASSUME NEW pc \in {"standing", "tip", "stand_on", "rescue_lookup",
                         "undo_checkout", "undo_branch"}, Goto(g, pc)
      PROVE  Remembers(g)'
  <2>1. pc \in Pcs
    BY DEF Pcs
  <2>2. gate'[g].pc = pc
    BY <1>1, <1>3, <2>1, GotoIs
  <2> QED BY <2>2, NothingToRemember
<1>4. CASE Begin(g) \/ UndoReset(g) \/ UndoCheckout(g) \/ UndoBranch(g) \/ Record(g)
           \/ PushRescue(g) \/ PushBranch(g)
  BY <1>2, <1>3, <1>4
  DEF Begin, UndoReset, UndoCheckout, UndoBranch, Record, PushRescue, PushBranch
<1>5. CASE Standing(g)
  <2>1. CASE gate' = [gate EXCEPT ![g].pc = "status",
                                  ![g].standing = [head |-> HeadAt, at |-> repo.at]]
    <3>1. gate'[g].pc = "status"
      BY <1>1, <2>1 DEF Locals
    <3> QED BY <3>1, NothingToRemember
  <2> QED BY <1>2, <1>5, <2>1 DEF Standing
<1>6. CASE Status(g)
  <2>1. CASE gate' = [gate EXCEPT ![g].pc = "cut", ![g].committed = Dirty]
    <3>1. gate'[g].pc = "cut"
      BY <1>1, <2>1 DEF Locals
    <3> QED BY <3>1, NothingToRemember
  <2> QED BY <1>2, <1>3, <1>6, <2>1 DEF Status
<1>7. CASE PushCheckpoint(g)
  <2>1. CASE gate' = [gate EXCEPT ![g].pc = "tip", ![g].landed = gate[g].checkpoint]
    <3>1. gate'[g].pc = "tip"
      BY <1>1, <2>1 DEF Locals
    <3> QED BY <3>1, NothingToRemember
  <2> QED BY <1>2, <1>7, <2>1 DEF PushCheckpoint
<1>8. CASE Tip(g)
  <2>1. CASE gate' = [gate EXCEPT ![g].pc = "push", ![g].tip = repo.refs[Branch]]
    <3>1. gate'[g].pc = "push"
      BY <1>1, <2>1 DEF Locals
    <3> QED BY <3>1, NothingToRemember
  <2> QED BY <1>2, <1>8, <2>1 DEF Tip
<1> QED BY <1>4, <1>5, <1>6, <1>7, <1>8

\* A checkpoint is named after a new stamp.
LEMMA CutRemembers ==
  ASSUME MInv, NEW g \in Gates, Cut(g)
  PROVE  Remembers(g)'
<1> DEFINE name == Name("chkpt", stamp + 1)
<1>1. /\ Typed /\ Sound /\ gate \in [Gates -> Locals] /\ stamp \in Nat
      /\ UNCHANGED <<commits, remote>>
      /\ name.mark = "chkpt" /\ name.stamp = stamp + 1
  BY DEF MInv, IInv, Typed, Cut, Name
<1>2. CASE Over(g)
  BY <1>1, <1>2, OverIs, NothingToRemember DEF Fresh
<1>3. CASE gate' = [gate EXCEPT ![g].pc = IF gate[g].committed THEN "commit" ELSE "lookup",
                                ![g].checkpoint = name]
  <2> HIDE DEF name
  <2>1. gate'[g].checkpoint = name /\ gate'[g].pc \in {"commit", "lookup"}
    BY <1>1, <1>3 DEF Locals
  <2>2. \A b \in Minted("chkpt")' : b.stamp < name.stamp
    <3>1. ASSUME NEW b \in Minted("chkpt") PROVE b.stamp < name.stamp
      <4>1. b \in DOMAIN remote
        BY DEF Minted
      <4>2. b.stamp <= stamp /\ b.stamp \in Nat
        BY <1>1, <4>1, StampsAre DEF MInv, Stamped
      <4> QED BY <1>1, <4>2
    <3> QED BY <1>1, <3>1 DEF Minted
  <2>3. \A k \in 1..Len(commits') : commits'[k].cut # name
    <3>1. ASSUME NEW k \in 1..Len(commits) PROVE commits[k].cut # name
      <4>1. commits[k].cut.stamp <= stamp /\ commits[k].cut.stamp \in Nat
        BY <1>1, StampsAre DEF MInv, Stamped
      <4>2. commits[k].cut.stamp # stamp + 1
        BY <1>1, <4>1
      <4> QED BY <1>1, <4>2
    <3> QED BY <1>1, <3>1
  <2>4. NewName(g)'
    BY <2>1, <2>2, <2>3 DEF NewName
  <2> QED BY <2>1, <2>4 DEF Remembers
<1> QED BY <1>2, <1>3 DEF Cut

\* Its commit mints no other.
LEMMA CommitRemembers ==
  ASSUME MInv, NEW g \in Gates, CommitEverything(g)
  PROVE  Remembers(g)'
<1>1. /\ Typed /\ UNCHANGED remote /\ gate[g].pc = "commit"
      /\ gate[g].committed /\ NewName(g) /\ "lookup" \in Pcs
  BY DEF MInv, IInv, Knows, Remembers, CommitEverything, At, Pcs
<1>2. CASE Over(g)
  BY <1>1, <1>2, OverIs, NothingToRemember DEF Fresh
<1>3. CASE Goto(g, "lookup")
  <2>1. /\ gate'[g].pc = "lookup" /\ gate'[g].committed
        /\ gate'[g].checkpoint = gate[g].checkpoint
    BY <1>1, <1>3, GotoIs
  <2>2. NewName(g)'
    BY <1>1, <2>1 DEF NewName, Minted
  <2> QED BY <2>1, <2>2 DEF Remembers
<1> QED BY <1>2, <1>3 DEF CommitEverything

\* checkpointed(): a checkpoint is pushed only where the lookup saw none that
\* holds the work.
LEMMA LookupRemembers ==
  ASSUME MInv, NEW g \in Gates, Lookup(g)
  PROVE  Remembers(g)'
<1>1. /\ Typed /\ gate \in [Gates -> Locals] /\ UNCHANGED <<commits, repo, remote>>
      /\ NewName(g) /\ OnCheckpoint(g) /\ "push_checkpoint" \in Pcs
  BY DEF MInv, IInv, Typed, Knows, Remembers, Lookup, At, gitVars, Pcs
<1>2. CASE Stop(g)
  BY <1>1, <1>2, StopIs, NothingToRemember
<1>3. ASSUME NEW read, gate' = [gate EXCEPT ![g].pc = "tip",
                                  ![g].landed = Earliest(Holding(g, read))]
      PROVE  Remembers(g)'
  <2>1. gate'[g].pc = "tip"
    BY <1>1, <1>3 DEF Locals
  <2> QED BY <2>1, NothingToRemember
<1>4. ASSUME NEW read \in SUBSET Minted("chkpt"),
             gate[g].committed => Readable(g, Minted("chkpt"), read),
             Holding(g, read) = {}, Goto(g, "push_checkpoint")
      PROVE  Remembers(g)'
  <2>1. /\ gate'[g].pc = "push_checkpoint"
        /\ gate'[g].committed = gate[g].committed
        /\ gate'[g].checkpoint = gate[g].checkpoint
    BY <1>1, <1>4, GotoIs
  <2>2. NewName(g)'
    BY <1>1, <2>1 DEF NewName, Minted
  <2>3. ASSUME gate[g].committed, NEW b \in Minted("chkpt"),
               WorkOf(remote[b]) = WorkOf(HeadAt)
        PROVE  b \in passed'
    <3>1. repo.refs[gate[g].checkpoint] = HeadAt
      BY <1>1 DEF OnCheckpoint, WayBack, HeadAt
    <3>2. b \notin read
      BY <1>4, <2>3, <3>1 DEF Holding
    <3> QED BY <1>4, <2>3, <3>2 DEF Readable
  <2>4. gate[g].committed => Unheld(g)'
    BY <1>1, <2>3 DEF Unheld, Minted, WorkOf, Tree, Parent, HeadAt
  <2> QED BY <2>1, <2>2, <2>4 DEF Remembers
<1> QED BY <1>2, <1>3, <1>4 DEF Lookup

\* A rescue is pushed only where none stands on the tip.
LEMMA RescueLookupRemembers ==
  ASSUME MInv, NEW g \in Gates, RescueLookup(g)
  PROVE  Remembers(g)'
<1>1. /\ Typed /\ UNCHANGED remote /\ "push_rescue" \in Pcs /\ "stand_on" \in Pcs
  BY DEF MInv, IInv, RescueLookup, gitVars, Pcs
<1>2. CASE Stop(g)
  BY <1>1, <1>2, StopIs, NothingToRemember
<1>3. CASE Goto(g, "stand_on")
  <2>1. gate'[g].pc = "stand_on"
    BY <1>1, <1>3, GotoIs
  <2> QED BY <2>1, NothingToRemember
<1>4. CASE /\ \A b \in Minted("rescue") : remote[b] # gate[g].tip
           /\ Goto(g, "push_rescue")
  <2>1. gate'[g].pc = "push_rescue" /\ gate'[g].tip = gate[g].tip
    BY <1>1, <1>4, GotoIs
  <2> QED BY <1>1, <1>4, <2>1 DEF Remembers, Minted
<1> QED BY <1>2, <1>3, <1>4 DEF RescueLookup

\* stand_on() passes an archive on that cut a checkpoint, and no other.
LEMMA StandOnRemembers ==
  ASSUME MInv, NEW g \in Gates, StandOn(g)
  PROVE  Remembers(g)'
<1>1. /\ Typed /\ gate[g] \in Locals /\ "look_back" \in Pcs
      /\ gate[g].landed = Nowhere \/ gate[g].checkpoint # Nowhere
  BY DEF MInv, IInv, Typed, Knows, NoCheckpoint, Uncut, StandOn, At, Pcs
<1>2. CASE Over(g)
  BY <1>1, <1>2, OverIs, NothingToRemember DEF Fresh
<1>3. CASE Goto(g, "look_back")
  <2>1. gate'[g].pc = "look_back"
    BY <1>1, <1>3, GotoIs
  <2> QED BY <2>1, NothingToRemember
<1>4. CASE gate[g].landed # Nowhere /\ Passed(g, gate[g].landed)
  <2>1. gate[g].landed \in Somewhere
    BY <1>1 DEF Locals
  <2>2. CASE gate[g].abandoned
    BY <1>1, <1>4, <2>2, OverIs, NothingToRemember DEF Passed, Fresh
  <2>3. CASE ~gate[g].abandoned
    <3>1. gate'[g].pc = "record" /\ gate'[g].checkpoint = gate[g].checkpoint
      BY <1>1, <1>4, <2>1, <2>3, PassedIs
    <3> QED BY <1>1, <1>4, <3>1 DEF Remembers
  <2> QED BY <2>2, <2>3
<1> QED BY <1>2, <1>3, <1>4 DEF StandOn

\* checkpoint_cut_off() has found the latest of those it could read.
LEMMA LookBackRemembers ==
  ASSUME MInv, NEW g \in Gates, LookBack(g)
  PROVE  Remembers(g)'
<1>1. /\ Typed /\ Sound /\ gate[g] \in Locals /\ stamp \in Nat
      /\ UNCHANGED <<commits, repo, remote>>
  BY DEF MInv, IInv, Typed, LookBack, gitVars
<1>2. CASE Over(g)
  BY <1>1, <1>2, OverIs, NothingToRemember DEF Fresh
<1>3. ASSUME NEW read \in SUBSET Minted("chkpt"),
             Readable(g, Minted("chkpt"), read),
             NEW found, found = CutFrom(read, gate[g].tip),
             Passed(g, IF found = {} THEN gate[g].landed ELSE Latest(found))
      PROVE  Remembers(g)'
  <2> DEFINE landed == IF found = {} THEN gate[g].landed ELSE Latest(found)
  <2>1. /\ landed \in Somewhere
        /\ found # {} => /\ landed \in found
                         /\ \A c \in found : c.stamp <= landed.stamp
    <3>1. CASE found = {}
      BY <1>1, <3>1 DEF Locals
    <3>2. CASE found # {}
      <4>1. found \subseteq DOMAIN remote
        BY <1>3 DEF CutFrom, Minted
      <4>2. /\ found \in SUBSET Names
            /\ \A b \in found : b.stamp <= stamp /\ b.stamp \in Nat
        BY <1>1, <4>1, StampsAre DEF MInv, Stamped
      <4>3. /\ Latest(found) \in found
            /\ \A c \in found : Latest(found).stamp >= c.stamp
        BY <1>1, <3>2, <4>2, LatestIs
      <4> QED BY <3>2, <4>2, <4>3 DEF Somewhere
    <3> QED BY <3>1, <3>2
  <2>2. Passed(g, landed)
    BY <1>3
  <2> HIDE DEF landed
  <2>3. CASE gate[g].abandoned
    BY <1>1, <2>2, <2>3, OverIs, NothingToRemember DEF Passed, Fresh
  <2>4. CASE ~gate[g].abandoned
    <3>1. /\ gate'[g].pc = "record" /\ gate'[g].landed = landed
          /\ gate'[g].tip = gate[g].tip
      BY <1>1, <2>1, <2>2, <2>4, PassedIs
    <3>2. CutFrom(Minted("chkpt"), gate[g].tip)' = CutFrom(Minted("chkpt"), gate[g].tip)
      BY <1>1, <3>1 DEF CutFrom, Minted, Parent
    <3>3. ASSUME NEW b \in CutFrom(Minted("chkpt"), gate[g].tip), b \notin passed'
          PROVE  /\ landed \in CutFrom(Minted("chkpt"), gate[g].tip)
                 /\ b.stamp <= landed.stamp
      <4>1. b \in read
        BY <1>3, <3>3 DEF Readable, CutFrom
      <4>2. b \in found /\ found \subseteq CutFrom(Minted("chkpt"), gate[g].tip)
        BY <1>3, <3>3, <4>1 DEF CutFrom
      <4> QED BY <2>1, <4>2
    <3>4. LookedBack(g)'
      BY <3>1, <3>2, <3>3 DEF LookedBack
    <3> QED BY <3>1, <3>4 DEF Remembers
  <2> QED BY <2>3, <2>4
<1> QED BY <1>2, <1>3 DEF LookBack

\* A gate that is not at work has nothing to remember, whoever takes a step.
LEMMA IdleForget ==
  ASSUME NEW g, gate'[g] = Fresh
  PROVE  Remembers(g)'
<1>1. gate'[g].pc = "idle"
  BY DEF Fresh
<1> QED BY <1>1, NothingToRemember

\* What others push is no checkpoint and no rescue.
LEMMA OthersPushRemember ==
  ASSUME MInv, OthersPush, NEW g \in Gates
  PROVE  Remembers(g)'
<1>1. /\ UNCHANGED <<repo, gate, stamp, left, passed>> /\ Sound /\ Remembers(g)
      /\ gate'[g] = gate[g]
  BY DEF OthersPush, MInv, IInv
<1>2. /\ Len(commits') = Len(commits) + 1 /\ Len(commits) \in Nat
      /\ \A k \in 1..Len(commits) : commits'[k] = commits[k]
      /\ commits'[Len(commits) + 1].cut = Nowhere
      /\ DOMAIN remote' = DOMAIN remote
      /\ \A b \in DOMAIN remote \ {Branch} : remote'[b] = remote[b]
  BY <1>1, OthersDo
<1>3. \A mark \in {"chkpt", "rescue"} :
        /\ Minted(mark)' = Minted(mark)
        /\ \A b \in Minted(mark) : remote'[b] = remote[b] /\ remote[b] \in 1..Len(commits)
  <2>1. \A mark \in {"chkpt", "rescue"} : \A b \in Minted(mark) : b \in DOMAIN remote /\ b # Branch
    BY DEF Minted, Branch, Name
  <2> QED BY <1>1, <1>2, <2>1, RemoteIsReached DEF Minted
<1>4. HeadAt' = HeadAt /\ HeadAt \in 1..Len(commits)
  BY <1>1, HeadIsThere DEF HeadAt
<1>5. ASSUME gate[g].pc \in {"commit", "lookup", "push_checkpoint"}
      PROVE  NewName(g)'
  <2>1. NewName(g)
    BY <1>1, <1>5 DEF Remembers
  <2>2. gate[g].checkpoint # Nowhere
    BY <1>5 DEF MInv, IInv, Knows, OnCheckpoint, WayBack, Nowhere, Name
  <2>3. \A k \in 1..Len(commits') : k \in 1..Len(commits) \/ k = Len(commits) + 1
    BY <1>2
  <2>4. ~gate[g].committed => \A k \in 1..Len(commits') : commits'[k].cut # gate[g].checkpoint
    BY <1>2, <2>1, <2>2, <2>3 DEF NewName
  <2>5. \A b \in Minted("chkpt")' : b.stamp < gate[g].checkpoint.stamp
    BY <1>3, <2>1 DEF NewName
  <2> QED BY <1>1, <2>4, <2>5 DEF NewName
<1>6. Unheld(g) => Unheld(g)'
  BY <1>1, <1>2, <1>3, <1>4 DEF Unheld, WorkOf, Tree, Parent
<1>7. LookedBack(g) => LookedBack(g)'
  <2>1. CutFrom(Minted("chkpt"), gate[g].tip)' = CutFrom(Minted("chkpt"), gate[g].tip)
    BY <1>1, <1>2, <1>3 DEF CutFrom, Parent
  <2> QED BY <1>1, <2>1 DEF LookedBack
<1> QED BY <1>1, <1>3, <1>5, <1>6, <1>7 DEF Remembers

\* A client that goes away is not the gate.
LEMMA HangupRemembers ==
  ASSUME MInv, NEW g \in Gates, Hangup(g)
  PROVE  Remembers(g)'
<1>1. /\ UNCHANGED <<commits, repo, remote, passed>> /\ Remembers(g)
      /\ gate[g] \in Locals /\ gate' = [gate EXCEPT ![g].abandoned = TRUE]
      /\ gate \in [Gates -> Locals]
  BY DEF Hangup, Quietly, gitVars, MInv, IInv, Typed
<1>2. /\ gate'[g].pc = gate[g].pc /\ gate'[g].checkpoint = gate[g].checkpoint
      /\ gate'[g].committed = gate[g].committed /\ gate'[g].tip = gate[g].tip
      /\ gate'[g].landed = gate[g].landed
  BY <1>1 DEF Locals
<1>3. /\ NewName(g) => NewName(g)'
      /\ Unheld(g) => Unheld(g)'
      /\ LookedBack(g) => LookedBack(g)'
  BY <1>1, <1>2 DEF NewName, Unheld, LookedBack, Minted, CutFrom, WorkOf, Tree, Parent, HeadAt
<1> QED BY <1>1, <1>2, <1>3 DEF Remembers, Minted

\* Nothing happening is forgotten.
LEMMA StutterRemembers ==
  ASSUME MInv, UNCHANGED vars, NEW g \in Gates
  PROVE  Remembers(g)'
<1>1. UNCHANGED <<commits, repo, remote, passed, gate>> /\ Remembers(g)
  BY DEF vars, gitVars, MInv
<1>2. /\ NewName(g) => NewName(g)'
      /\ Unheld(g) => Unheld(g)'
      /\ LookedBack(g) => LookedBack(g)'
  BY <1>1 DEF NewName, Unheld, LookedBack, Minted, CutFrom, WorkOf, Tree, Parent, HeadAt
<1> QED BY <1>1, <1>2 DEF Remembers, Minted

\* A step of a gate is one of that gate: the others stay as they are.
LEMMA OthersStand ==
  ASSUME IInv, NEW g \in Gates, GateStep(g) \/ Hangup(g) \/ Begin(g),
         NEW h \in Gates \ {g}
  PROVE  gate'[h] = gate[h]
<1>1. Typed /\ gate \in [Gates -> Locals]
  BY DEF IInv, Typed
<1>2. \/ Over(g)
      \/ \E pc : Goto(g, pc)
      \/ gate'[h] = gate[h]
  <2>1. CASE Begin(g) \/ Hangup(g)
    BY <1>1, <2>1 DEF Begin, Hangup
  <2>2. CASE Standing(g) \/ Status(g) \/ Cut(g) \/ CommitEverything(g)
    BY <1>1, <2>2 DEF Standing, Status, Cut, CommitEverything
  <2>3. CASE Lookup(g) \/ PushCheckpoint(g) \/ Tip(g)
    BY <1>1, <2>3 DEF Lookup, PushCheckpoint, Tip, Stop
  <2>4. CASE PushBranch(g) \/ RescueLookup(g) \/ PushRescue(g)
    BY <1>1, <2>4 DEF PushBranch, RescueLookup, PushRescue, Stop
  <2>5. CASE StandOn(g) \/ LookBack(g)
    BY <1>1, <2>5 DEF StandOn, LookBack, Passed
  <2>6. CASE UndoReset(g) \/ UndoCheckout(g) \/ UndoBranch(g) \/ Record(g)
    BY <1>1, <2>6 DEF UndoReset, UndoCheckout, UndoBranch, Record
  <2> QED BY <2>1, <2>2, <2>3, <2>4, <2>5, <2>6 DEF GateStep
<1> QED BY <1>1, <1>2 DEF Over, Goto

\* What a gate has seen of the remote is true until it has acted on it.
LEMMA RemembersKeeps ==
  ASSUME ~crowded', MInv, [Next]_vars, NEW g \in Gates
  PROVE  Remembers(g)'
<1>0. IInv
  BY DEF MInv
<1>1. CASE UNCHANGED vars
  BY <1>1, StutterRemembers
<1>2. CASE GateStep(g) \/ Hangup(g) \/ Begin(g)
  BY <1>0, <1>2, MostForget, CutRemembers, CommitRemembers, LookupRemembers,
     RescueLookupRemembers, StandOnRemembers, LookBackRemembers, HangupRemembers
  DEF GateStep
<1>3. ASSUME NEW h \in Gates \ {g}, GateStep(h) \/ Hangup(h)
      PROVE  Remembers(g)'
  <2>1. gate[h].pc # "idle"
    BY <1>3 DEF GateStep, Standing, Status, Cut, CommitEverything, Lookup,
       PushCheckpoint, Tip, PushBranch, RescueLookup, PushRescue, StandOn, LookBack,
       UndoReset, UndoCheckout, UndoBranch, Record, At, Hangup, Working
  <2>2. gate[g] = Fresh
    BY <1>0, <2>1, AtWork
  <2> QED BY <1>0, <1>3, <2>2, OthersStand, IdleForget
<1>4. ASSUME NEW h \in Gates \ {g}, Begin(h)
      PROVE  Remembers(g)'
  <2>1. gate[g] = Fresh
    BY <1>0, <1>4, EntersAlone DEF Begin, Working, IInv, Knows
  <2> QED BY <1>0, <1>4, <2>1, OthersStand, IdleForget
<1>5. CASE Edit \/ AgentCommits \/ Amend \/ Wander \/ Revive
  <2>1. UNCHANGED gate /\ Working = {}
    BY <1>5, EntersAlone DEF Edit, AgentCommits, Amend, Wander, Revive, Leaves
  <2>2. gate'[g] = Fresh
    BY <1>0, <2>1 DEF Working, IInv, Knows
  <2> QED BY <2>2, IdleForget
<1>6. CASE Crash
  BY <1>6, IdleForget DEF Crash
<1>7. CASE OthersPush \/ Idle
  BY <1>1, <1>7, OthersPushRemember DEF Idle
<1> QED BY <1>1, <1>2, <1>3, <1>4, <1>5, <1>6, <1>7 DEF Next

\* The push of a checkpoint the remote did not hold mints no second.
LEMMA PushCheckpointMints ==
  ASSUME MInv, NEW g \in Gates, PushCheckpoint(g)
  PROVE  MintedOfTheirOwn'
<1> DEFINE name == gate[g].checkpoint
<1>1. /\ UNCHANGED <<commits, repo, left, passed>> /\ Sound /\ IInv
      /\ MintedOfTheirOwn
      /\ OnCheckpoint(g) /\ NewName(g)
      /\ gate[g].committed => Unheld(g)
  BY DEF PushCheckpoint, Quietly, At, MInv, IInv, Knows, Remembers
<1>2. CASE UNCHANGED remote
  BY <1>1, <1>2, NoneMinted DEF Minted
<1>3. CASE Takes(name, name) /\ Lands(name, name)
  <2>1. /\ name \in Names /\ name.mark = "chkpt" /\ HeadAt \in 1..Len(commits)
        /\ repo.refs[name] = HeadAt
    <3>1. name \in DOMAIN repo.refs
      BY <1>3 DEF Takes
    <3> QED BY <1>1, <3>1, StampsAre, HeadIsThere DEF OnCheckpoint, WayBack, HeadAt
  <2>2. /\ DOMAIN remote' = DOMAIN remote \cup {name}
        /\ remote'[name] = HeadAt
        /\ \A c \in DOMAIN remote : c # name => remote'[c] = remote[c]
    BY <1>1, <1>3, <2>1, LandsDoes
  <2> HIDE DEF name
  <2>3. /\ Minted("chkpt")' = Minted("chkpt") \cup {name}
        /\ Minted("rescue")' = Minted("rescue")
    BY <2>1, <2>2 DEF Minted
  <2>4. \A b \in Minted("chkpt") : b.stamp < name.stamp /\ b.stamp \in Nat /\ b # name
    <3>1. \A b \in Minted("chkpt") : b.stamp < name.stamp /\ b.stamp \in Nat
      BY <1>1, StampsAre DEF NewName, name, Minted
    <3> QED BY <2>1, <3>1 DEF Names
  <2>5. \A b \in Minted("chkpt") : remote'[b] = remote[b]
    BY <2>2, <2>4 DEF Minted
  <2>6. \A b \in Minted("rescue") : remote'[b] = remote[b]
    BY <2>1, <2>2 DEF Minted
  <2>7. ASSUME NEW b \in Minted("chkpt")', NEW c \in Minted("chkpt")',
               commits'[remote'[b]].cut = b, commits'[remote'[c]].cut = c,
               b.stamp < c.stamp, WorkOf(remote[b])' = WorkOf(remote[c])'
        PROVE  b \in passed'
    <3>0. name.stamp \in Nat
      BY <2>1 DEF Names
    <3>1. b \in Minted("chkpt")
      <4>1. /\ c.stamp \in Nat
            /\ b = name => (c = name \/ c.stamp < b.stamp)
        BY <2>3, <2>4, <3>0
      <4>2. b # name
        BY <2>7, <3>0, <4>1
      <4> QED BY <2>3, <4>2
    <3>2. WorkOf(remote'[b]) = WorkOf(remote'[c])
      BY <1>1, <2>7 DEF WorkOf, Tree, Parent
    <3>3. CASE c = name
      <4>1. gate[g].committed
        BY <1>1, <2>1, <2>2, <2>7, <3>3 DEF NewName, name
      <4>2. WorkOf(remote[b]) = WorkOf(HeadAt)
        BY <2>2, <2>5, <3>1, <3>2, <3>3
      <4> QED BY <1>1, <3>1, <4>1, <4>2 DEF Unheld
    <3>4. CASE c \in Minted("chkpt")
      <4>1. /\ commits[remote[b]].cut = b /\ commits[remote[c]].cut = c
            /\ WorkOf(remote[b]) = WorkOf(remote[c])
        BY <1>1, <2>5, <2>7, <3>1, <3>2, <3>4
      <4> QED BY <1>1, <2>7, <3>1, <3>4, <4>1 DEF MintedOfTheirOwn
    <3> QED BY <2>3, <3>3, <3>4
  <2>8. \A b, c \in Minted("rescue")' : remote'[b] = remote'[c] => b = c
    BY <1>1, <2>3, <2>6 DEF MintedOfTheirOwn
  <2> QED BY <2>7, <2>8 DEF MintedOfTheirOwn
<1> QED BY <1>2, <1>3 DEF PushCheckpoint

\* Nor does the push of a rescue.
LEMMA PushRescueMints ==
  ASSUME MInv, NEW g \in Gates, PushRescue(g)
  PROVE  MintedOfTheirOwn'
<1> DEFINE name == Name("rescue", stamp + 1)
<1>1. /\ UNCHANGED <<commits, repo, left, passed>> /\ Sound /\ IInv
      /\ MintedOfTheirOwn
      /\ gate[g].tip = repo.refs[Branch]
      /\ \A b \in Minted("rescue") : remote[b] # gate[g].tip
      /\ stamp \in Nat
      /\ name \in Names /\ name.mark = "rescue" /\ name.stamp = stamp + 1
  BY DEF PushRescue, At, MInv, IInv, Typed, Knows, OnTip, Remembers, Names, Name
<1>2. CASE UNCHANGED remote
  BY <1>1, <1>2, NoneMinted DEF Minted
<1>3. CASE Takes(Branch, name) /\ Lands(Branch, name)
  <2> HIDE DEF name
  <2>1. /\ DOMAIN remote' = DOMAIN remote \cup {name}
        /\ remote'[name] = gate[g].tip
        /\ \A c \in DOMAIN remote : c # name => remote'[c] = remote[c]
    BY <1>1, <1>3, LandsDoes
  <2>2. name \notin DOMAIN remote
    <3>1. \A b \in DOMAIN remote : b.stamp <= stamp /\ b.stamp \in Nat
      BY <1>1, StampsAre DEF MInv, Stamped
    <3> QED BY <1>1, <3>1
  <2>3. /\ Minted("rescue")' = Minted("rescue") \cup {name}
        /\ Minted("chkpt")' = Minted("chkpt")
        /\ \A b \in Minted("rescue") \cup Minted("chkpt") : remote'[b] = remote[b]
    BY <1>1, <2>1, <2>2 DEF Minted
  <2>4. \A b, c \in Minted("rescue")' : remote'[b] = remote'[c] => b = c
    BY <1>1, <2>1, <2>3 DEF MintedOfTheirOwn
  <2>5. ASSUME NEW b \in Minted("chkpt")', NEW c \in Minted("chkpt")',
               commits'[remote'[b]].cut = b, commits'[remote'[c]].cut = c,
               b.stamp < c.stamp, WorkOf(remote[b])' = WorkOf(remote[c])'
        PROVE  b \in passed'
    <3>1. /\ b \in Minted("chkpt") /\ c \in Minted("chkpt")
          /\ commits[remote[b]].cut = b /\ commits[remote[c]].cut = c
          /\ WorkOf(remote[b]) = WorkOf(remote[c])
      BY <1>1, <2>3, <2>5 DEF WorkOf, Tree, Parent
    <3> QED BY <1>1, <2>5, <3>1 DEF MintedOfTheirOwn
  <2> QED BY <2>4, <2>5 DEF MintedOfTheirOwn
<1> QED BY <1>2, <1>3 DEF PushRescue

\* No step mints twice.
LEMMA MintedKeeps ==
  ASSUME MInv, [Next]_vars
  PROVE  MintedOfTheirOwn'
<1>1. /\ IInv /\ MintedOfTheirOwn /\ Sound
      /\ \A k \in 1..Len(commits) : commits'[k] = commits[k]
      /\ passed \subseteq passed'
  BY HistoryStands DEF MInv, IInv
<1>2. CASE UNCHANGED remote
  BY <1>1, <1>2, NoneMinted DEF Minted
<1>3. ASSUME DOMAIN remote' \in {DOMAIN remote, DOMAIN remote \cup {Branch}},
             \A b \in DOMAIN remote \ {Branch} : remote'[b] = remote[b]
      PROVE  MintedOfTheirOwn'
  <2>1. \A mark \in {"chkpt", "rescue"} :
          /\ Minted(mark)' = Minted(mark)
          /\ \A b \in Minted(mark) : remote'[b] = remote[b]
    BY <1>3 DEF Minted, Branch, Name
  <2> QED BY <1>1, <2>1, NoneMinted
<1>4. ASSUME NEW g \in Gates, PushBranch(g), ~UNCHANGED remote
      PROVE  MintedOfTheirOwn'
  <2>1. /\ Takes(Branch, Branch) /\ Lands(Branch, Branch) /\ Branch \in Names
        /\ UNCHANGED <<commits, repo, left>>
    BY <1>4 DEF PushBranch, Quietly, Names, Branch, Name
  <2>2. /\ DOMAIN remote' = DOMAIN remote \cup {Branch}
        /\ \A c \in DOMAIN remote : c # Branch => remote'[c] = remote[c]
    BY <1>1, <2>1, LandsDoes
  <2> QED BY <1>3, <2>2
<1>5. CASE OthersPush
  <2>1. /\ DOMAIN remote' = DOMAIN remote
        /\ \A b \in DOMAIN remote \ {Branch} : remote'[b] = remote[b]
    BY <1>1, <1>5, OthersDo
  <2> QED BY <1>3, <2>1
<1>6. ASSUME NEW g \in Gates, Begin(g) \/ GateStep(g) \/ Hangup(g)
      PROVE  MintedOfTheirOwn'
  <2>1. CASE PushCheckpoint(g) \/ PushRescue(g)
    BY <2>1, PushCheckpointMints, PushRescueMints
  <2>2. CASE PushBranch(g)
    BY <1>2, <1>4, <2>2
  <2>3. CASE Begin(g) \/ Hangup(g)
    BY <1>2, <2>3 DEF Begin, Hangup, gitVars
  <2>4. CASE \/ Standing(g) \/ Status(g) \/ Cut(g) \/ CommitEverything(g)
             \/ Lookup(g) \/ Tip(g) \/ RescueLookup(g) \/ StandOn(g) \/ LookBack(g)
    BY <1>2, <2>4
    DEF Standing, Status, Cut, CommitEverything, Lookup, Tip, RescueLookup,
        StandOn, LookBack, gitVars
  <2>5. CASE UndoReset(g) \/ UndoCheckout(g) \/ UndoBranch(g) \/ Record(g)
    BY <1>2, <2>5 DEF UndoReset, UndoCheckout, UndoBranch, Record, gitVars
  <2> QED BY <1>6, <2>1, <2>2, <2>3, <2>4, <2>5 DEF GateStep
<1>7. CASE \/ Edit \/ AgentCommits \/ Amend \/ Wander \/ Revive
           \/ Crash \/ Idle \/ UNCHANGED vars
  BY <1>2, <1>7
  DEF Edit, AgentCommits, Amend, Wander, Revive, Crash, Idle, Leaves, vars, gitVars
<1> QED BY <1>5, <1>6, <1>7 DEF Next

\* The invariant to begin with.
LEMMA MInvInit == Init => MInv
<1> SUFFICES ASSUME Init PROVE MInv
  OBVIOUS
<1>1. IInv
  BY InitKeeps
<1>2. /\ commits = <<[tree |-> 0, parent |-> 0, cut |-> Nowhere]>>
      /\ DOMAIN repo.refs = {Branch} /\ DOMAIN remote = {Base}
      /\ stamp = 0 /\ gate = [g \in Gates |-> Fresh]
  BY DEF Init, GitInit, Only
<1>3. Stamped
  <2>1. \A k \in 1..Len(commits) : commits[k].cut.stamp = 0
    BY <1>2 DEF Nowhere, Name
  <2> QED BY <1>2, <2>1 DEF Stamped, Branch, Base, Name
<1>4. MintedOfTheirOwn
  <2>1. Minted("chkpt") = {} /\ Minted("rescue") = {}
    BY <1>2 DEF Minted, Base, Name
  <2> QED BY <2>1 DEF MintedOfTheirOwn
<1>5. \A g \in Gates : Remembers(g)
  <2>1. \A g \in Gates : gate[g].pc = "idle"
    BY <1>2 DEF Fresh
  <2> QED BY <2>1 DEF Remembers
<1> QED BY <1>1, <1>3, <1>4, <1>5 DEF MInv

\* And at every step.
LEMMA MInvStep ==
  ASSUME ~crowded', MInv, [Next]_vars
  PROVE  MInv'
<1>1. IInv /\ Stamped
  BY DEF MInv
<1>2. IInv' /\ Stamped'
  BY <1>1, StepsKeep, StampedKeeps
<1>3. MintedOfTheirOwn' /\ \A g \in Gates : Remembers(g)'
  BY MintedKeeps, RemembersKeeps
<1> QED BY <1>2, <1>3 DEF MInv

\* The inductive invariant, for every number of gates, commits and faults: it
\* stands until the chat is used beside an abandoned gate.
THEOREM GateInvariant == Spec => [](~crowded => MInv)
<1>1. Init => (~crowded => MInv)
  BY MInvInit
<1>2. (~crowded => MInv) /\ [Next]_vars => (~crowded => MInv)'
  BY MInvStep, CrowdedStays
<1> QED BY <1>1, <1>2, PTL DEF Spec

-----------------------------------------------------------------------------
\* push_for_archive, "get everything in workspace onto the remote so the
\* directory can be deleted": what the agent left is in the tree, on its
\* branches or on the remote while the chat is open, and on the remote once it
\* is archived, whatever of git, the remote, the disk, the client or the core
\* fails and whenever; but once the chat is used while an abandoned gate is at
\* work in its tree, nothing is said any more.
THEOREM NothingIsLost == Spec => []NothingLost
<1>1. (~crowded => MInv) => NothingLost
  <2> SUFFICES ASSUME MInv PROVE NothingLost
    BY Zenon DEF NothingLost
  <2> DEFINE kept == Saved
  <2>1. Sound /\ Kept
    BY DEF MInv, IInv
  <2>2. CASE ~Open
    BY <2>1, <2>2 DEF Kept, Closed, NothingLost, Saved
  <2>3. CASE Open /\ Landed
    <3>1. PICK b \in Minted("chkpt") : HoldsTheWork(remote[b])
      BY <2>3 DEF Landed
    <3>2. remote[b] \in Reach(remote)
      BY <2>1, RemoteIsReached DEF Minted
    <3>3. left.head \in Reach(remote)
      BY <2>1, <3>1, <3>2, ReachHolds
    <3> QED BY <3>1, <3>2, <3>3 DEF NothingLost, Saved
  <2>4. CASE Open /\ Untouched
    <3>1. HeadAt \in 1..Len(commits) /\ repo.at \in DOMAIN repo.refs
      BY <2>1, HeadIsThere DEF Sound
    <3>2. Past[HeadAt] \subseteq Reach(repo.refs)
      BY <3>1 DEF Reach, HeadAt
    <3>3. left.head \in 1..Len(commits)
      BY <2>1 DEF Sound
    <3>4. left.head \in Past[HeadAt]
      BY <2>1, <2>4, <3>1, <3>3, PastHoldsItself DEF Untouched
    <3> QED BY <2>4, <3>2, <3>4 DEF NothingLost, Untouched, Saved
  <2> QED BY <2>1, <2>2, <2>3, <2>4 DEF Kept
<1> QED BY <1>1, GateInvariant, PTL

\* Archives that are retried mint no second rescue of one tip (issue #82), and no
\* second checkpoint of one work (issue #99), of those that stand on what their
\* own attempt committed and but for those a lookup passed over unread, until
\* the chat is used beside an abandoned gate.
THEOREM MintedOnce == Spec => []NothingMintedTwice
<1>1. (~crowded => MInv) => NothingMintedTwice
  BY DEF MInv, NothingMintedTwice
<1> QED BY <1>1, GateInvariant, PTL

\* undo_checkpoint: a gate that rolled its checkpoint back to the end, all three
\* commands, left HEAD where the gate found it and the files as the agent left
\* them, until the chat is used beside an abandoned gate.
THEOREM RollsBack == Spec => RolledBack
<1> DEFINE Back == ~crowded' => \A g \in Gates :
       (At(g, "undo_branch") /\ gate[g].checkpoint \notin DOMAIN repo'.refs)
       => /\ repo'.at = gate[g].standing.at
          /\ HeadAt' = gate[g].standing.head
          /\ repo'.files = left.files
<1>1. ASSUME MInv, [Next]_vars, ~crowded' PROVE [Back]_vars
  <2>0. IInv /\ Sound
    BY <1>1 DEF MInv, IInv
  <2>1. ASSUME NEW g \in Gates, At(g, "undo_branch")
        PROVE  /\ repo'.at = gate[g].standing.at
               /\ HeadAt' = gate[g].standing.head
               /\ repo'.files = left.files
    <3>1. Untouched /\ Stands(g) /\ gate[g].pc # "idle" /\ g \in Working
      BY <2>0, <2>1 DEF IInv, Knows, At, Working
    <3>2. CASE UNCHANGED repo /\ HeadAt' = HeadAt
      BY <3>1, <3>2 DEF Untouched, Stands
    <3>3. Open /\ \A h \in Gates \ {g} : gate[h].pc = "idle"
      BY <2>0, <3>1, AtWork DEF Fresh
    <3>4. UNCHANGED repo \/ UndoBranch(g)
      <4>1. ASSUME NEW h \in Gates, GateStep(h) PROVE UNCHANGED repo \/ UndoBranch(g)
        <5>1. gate[h].pc # "idle" /\ (gate[h].pc = "undo_branch" => UndoBranch(h))
          BY <4>1 DEF GateStep, Standing, Status, Cut, CommitEverything, Lookup,
             PushCheckpoint, Tip, PushBranch, RescueLookup, PushRescue, StandOn,
             LookBack, UndoReset, UndoCheckout, UndoBranch, Record, At
        <5>2. h = g
          BY <3>3, <5>1
        <5> QED BY <2>1, <5>1, <5>2 DEF At
      <4>2. ~(Edit \/ AgentCommits \/ Amend \/ Wander \/ Revive)
        <5>1. ~Enters
          BY <1>1, <3>1, EntersAlone
        <5> QED BY <5>1 DEF Edit, AgentCommits, Amend, Wander, Revive
      <4>3. CASE OthersPush \/ Crash \/ Idle \/ UNCHANGED vars
        BY <4>3 DEF OthersPush, Crash, Idle, Quietly, vars, gitVars
      <4>4. ASSUME NEW h \in Gates, Begin(h) \/ Hangup(h) PROVE UNCHANGED repo
        BY <4>4 DEF Begin, Hangup, gitVars
      <4> QED BY <1>1, <4>1, <4>2, <4>3, <4>4 DEF Next
    <3>5. CASE UNCHANGED repo
      BY <3>1, <3>5 DEF Untouched, Stands, HeadAt
    <3>6. CASE DeleteBranch(gate[g].checkpoint) /\ UNCHANGED <<commits, remote, left>>
      BY <2>0, <3>1, <3>6, DeleteDoes DEF Untouched, Stands
    <3> QED BY <3>4, <3>5, <3>6 DEF UndoBranch, Quietly
  <2> QED BY <2>1
<1>2. (~crowded => MInv) /\ [Next]_vars => [Back]_vars
  BY <1>1, CrowdedStays, Zenon
<1>3. Spec => [][Back]_vars
  <2> HIDE DEF Back
  <2> QED BY <1>2, GateInvariant, PTL DEF Spec
<1> QED BY <1>3 DEF RolledBack

\* The manifest an archive writes leads to what the agent left, by its commit or
\* by its checkpoint (issue #105), but for the three ways ManifestLeadsToWork
\* names, and until the chat is used beside an abandoned gate.
THEOREM LeadsBack == Spec => ManifestLeadsToWork
<1> DEFINE Leads == ~crowded' /\ Open /\ manifest'.state = "archived"
                      => LeadsToWork(manifest') \/ Unread \/ Strayed \/ Superseded
<1>1. ASSUME MInv, [Next]_vars, ~crowded' PROVE [Leads]_vars
  <2>0. IInv /\ Sound
    BY <1>1 DEF MInv, IInv
  <2>1. ASSUME Open, manifest'.state = "archived"
        PROVE  \E g \in Gates :
                 /\ At(g, "record")
                 /\ manifest' = [state |-> "archived", commit |-> gate[g].tip,
                                 checkpoint |-> gate[g].landed]
    <3>1. ~UNCHANGED manifest
      BY <2>1 DEF Open
    <3>2. ~(Edit \/ AgentCommits \/ Amend \/ Wander \/ OthersPush \/ Crash
              \/ Idle \/ UNCHANGED vars)
      BY <3>1
      DEF Edit, AgentCommits, Amend, Wander, OthersPush, Crash, Idle, Leaves, Quietly, vars
    <3>3. ~Revive
      BY <2>1 DEF Revive
    <3>4. ASSUME NEW g \in Gates, Begin(g) \/ Hangup(g) PROVE UNCHANGED manifest
      BY <3>4 DEF Begin, Hangup, Quietly
    <3>5. ASSUME NEW g \in Gates, GateStep(g), ~UNCHANGED manifest PROVE Record(g)
      BY <3>5 DEF GateStep, Standing, Status, Cut, CommitEverything, Lookup,
         PushCheckpoint, Tip, PushBranch, RescueLookup, PushRescue, StandOn,
         LookBack, UndoReset, UndoCheckout, UndoBranch, Quietly
    <3>6. PICK g \in Gates : Begin(g) \/ GateStep(g) \/ Hangup(g)
      <4>1. Next
        BY <1>1, <3>2
      <4> QED BY <3>2, <3>3, <4>1 DEF Next
    <3>7. Record(g)
      BY <3>1, <3>4, <3>5, <3>6
    <3> QED BY <3>1, <3>7 DEF Record
  <2>2. ASSUME NEW g \in Gates, At(g, "record"), Open,
               manifest' = [state |-> "archived", commit |-> gate[g].tip,
                            checkpoint |-> gate[g].landed]
        PROVE  LeadsToWork(manifest') \/ Unread \/ Strayed \/ Superseded
    <3> DEFINE tip == gate[g].tip
               landed == gate[g].landed
    <3>1. /\ tip = HeadAt /\ ~Dirty /\ HeadAt \in 1..Len(commits)
          /\ gate[g].checkpoint # Nowhere => Landing(g)
          /\ Untouched \/ Landed
          /\ gate[g].checkpoint = Nowhere => LookedBack(g)
      BY <1>1, <2>0, <2>2, HeadIsThere
      DEF MInv, IInv, Knows, Remembers, Kept, At, TipLanded, OnTip, HeadAt
    <3>2. manifest'.commit = tip /\ manifest'.checkpoint = landed
      BY <2>2
    <3>3. CASE gate[g].checkpoint # Nowhere
      <4>1. Landing(g) /\ landed # Nowhere
        BY <3>1, <3>3 DEF Landing, Minted, Nowhere, Name
      <4> QED BY <3>2, <4>1 DEF Landing, LeadsToWork
    <3>4. CASE gate[g].checkpoint = Nowhere /\ left.head # tip
      BY <2>2, <3>4 DEF Strayed
    <3>5. CASE gate[g].checkpoint = Nowhere /\ left.head = tip
      <4>1. CASE Untouched
        BY <3>1, <3>2, <3>5, <4>1 DEF Untouched, LeadsToWork, HoldsTheWork, Dirty
      <4>2. ASSUME NEW b \in Minted("chkpt"), HoldsTheWork(remote[b])
            PROVE  LeadsToWork(manifest') \/ Unread \/ Superseded
        <5>1. CASE remote[b] = tip
          BY <3>2, <3>5, <4>2, <5>1 DEF LeadsToWork
        <5>2. CASE remote[b] # tip
          <6>1. Parent(remote[b]) = tip
            BY <3>5, <4>2, <5>2 DEF HoldsTheWork
          <6>2. b \in CutFrom(Minted("chkpt"), tip)
            BY <4>2, <6>1 DEF CutFrom
          <6>3. CASE b \in passed
            BY <4>2, <6>3 DEF Unread
          <6>4. CASE landed \in CutFrom(Minted("chkpt"), tip) /\ b.stamp <= landed.stamp
            <7>1. landed \in Minted("chkpt") /\ Parent(remote[landed]) = tip
              BY <6>4 DEF CutFrom
            <7>2. /\ b \in Names /\ landed \in Names
                  /\ b.mark = "chkpt" /\ landed.mark = "chkpt"
              BY <2>0, <7>1, StampsAre DEF Minted
            <7>3. CASE b.stamp < landed.stamp
              BY <3>5, <4>2, <7>1, <7>3 DEF Superseded
            <7>4. CASE ~(b.stamp < landed.stamp)
              <8>1. b.stamp = landed.stamp
                BY <6>4, <7>2, <7>4 DEF Names
              <8>2. b = landed
                BY <7>2, <8>1 DEF Names
              <8>3. landed # Nowhere
                BY <7>2 DEF Nowhere, Name
              <8> QED BY <3>2, <4>2, <8>2, <8>3 DEF LeadsToWork
            <7> QED BY <7>3, <7>4
          <6> QED BY <3>1, <3>5, <6>2, <6>3, <6>4 DEF LookedBack
        <5> QED BY <5>1, <5>2
      <4> QED BY <3>1, <4>1, <4>2 DEF Landed
    <3> QED BY <3>3, <3>4, <3>5
  <2> QED BY <2>1, <2>2
<1>2. (~crowded => MInv) /\ [Next]_vars => [Leads]_vars
  BY <1>1, CrowdedStays, Zenon
<1>3. Spec => [][Leads]_vars
  <2> HIDE DEF Leads
  <2> QED BY <1>2, GateInvariant, PTL DEF Spec
<1> QED BY <1>3 DEF ManifestLeadsToWork
=============================================================================
