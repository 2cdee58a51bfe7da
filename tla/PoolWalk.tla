------------------------------ MODULE PoolWalk ------------------------------
(***************************************************************************)
(* beyond_the_pool as src/pool.rs writes it, one pass over the holders     *)
(* with a running count, beside the count-free form the lifecycle is       *)
(* modelled with (Pool), over every pool it can be asked about.            *)
(***************************************************************************)
EXTENDS Pool

CONSTANTS Pooled,  \* the chats
          Stamps,  \* moments of last activity
          Caps     \* warm pools that may be configured

\* The dataset holds finitely many chats; time and the cap are counted.
PoolsOK == IsFiniteSet(Pooled) /\ Stamps \subseteq Nat /\ Caps \subseteq Nat

VARIABLE pool  \* a scan, the chats live, the chats occupied and the cap

\* What one scan may come to: no two chats were last active at one moment,
\* as Utc::now() makes the stamps.
Scans ==
  {s \in [Pooled -> [state : {"absent", "open", "archived"}, active : Stamps]] :
     \A c, d \in Pooled : c # d => s[c].active # s[d].active}

Pools == [scan : Scans, live : SUBSET Pooled, busy : SUBSET Pooled, cap : Caps]

\* sort_by_key: the holders, freshest first.
FreshestFirst(scan, chats) ==
  CHOOSE s \in [1..Cardinality(chats) -> chats] :
     \A i, j \in 1..Cardinality(chats) : i < j => Fresher(scan, s[i], s[j])

\* Slip: the cap itself is still kept.
KeepsOneMore(scan, busy, cap, kept, c) ==
  c \in busy \/ (scan[c].state = "open" /\ kept <= cap)

\* Whether a chat keeps its container, when so many were kept before it.
Keeps(scan, busy, cap, kept, c) ==
  c \in busy \/ (scan[c].state = "open" /\ kept < cap)

\* The filter's closure: one chat of the walk.
Visit(scan, busy, cap, sofar, c) ==
  IF Keeps(scan, busy, cap, sofar.kept, c)
    THEN [kept |-> sofar.kept + 1, beyond |-> sofar.beyond]
    ELSE [kept |-> sofar.kept, beyond |-> sofar.beyond \cup {c}]

\* The code's walk, counting what was kept so far.
Walk(scan, live, busy, cap) ==
  LET holders == Holders(scan, live)
      order == FreshestFirst(scan, holders)
      walked[n \in 0..Cardinality(holders)] ==
        IF n = 0 THEN [kept |-> 0, beyond |-> {}]
                 ELSE Visit(scan, busy, cap, walked[n - 1], order[n])
  IN  walked[Cardinality(holders)].beyond

-----------------------------------------------------------------------------
PoolInit == pool \in Pools

Beyond(p) == BeyondThePool(p.scan, p.live, p.busy, p.cap)

\* The pool the capping leaves behind when nothing else happens.
LetGo == pool' = [pool EXCEPT !.live = @ \ Beyond(pool)]

PoolSpec == PoolInit /\ [][LetGo]_pool

-----------------------------------------------------------------------------
\* The set form of the pool's rule, which the lifecycle is modelled with, is
\* the walk of the code, for every pool: off by one in either, a cap of zero,
\* occupied chats over the cap and archived ones that still hold a container
\* included; and a second capping finds nothing left to park (pool.rs).
WalkAgrees ==
  /\ Walk(pool.scan, pool.live, pool.busy, pool.cap) = Beyond(pool)
  /\ BeyondThePool(pool.scan, pool.live \ Beyond(pool), pool.busy, pool.cap) = {}

=============================================================================
