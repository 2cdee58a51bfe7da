-------------------------------- MODULE Pool --------------------------------
(***************************************************************************)
(* The warm pool's rule (src/pool.rs): which live chats give their         *)
(* container up.  A pool is read off the manifests of one scan, the chats  *)
(* the plane listed as live, and the chats that are occupied.              *)
(*                                                                         *)
(* The code walks the live chats from the freshest to the stalest with a   *)
(* running count of the ones kept (PoolWalk).  The lifecycle modules use   *)
(* the count-free form BeyondThePool; PoolWalk has both, and says that     *)
(* they agree.                                                             *)
(***************************************************************************)
EXTENDS Naturals, FiniteSets

(***************************************************************************)
(* The chats of the scan that hold a container.  A chat the scan did not   *)
(* meet is no holder, whatever the plane says.                             *)
(***************************************************************************)
Holders(scan, live) == {c \in live : scan[c].state # "absent"}

(***************************************************************************)
(* Fresher in the pool's only order: the last activity on the manifest.    *)
(***************************************************************************)
Fresher(scan, c, d) == scan[c].active > scan[d].active

(***************************************************************************)
(* A chat that may keep its container: it is occupied, or it is open.      *)
(***************************************************************************)
Entitled(scan, busy, c) == c \in busy \/ scan[c].state = "open"

(***************************************************************************)
(* The chats beyond the pool.  An occupied chat is never one.  Any other   *)
(* is one when it is not open, or when cap holders fresher than it are     *)
(* entitled to theirs.                                                     *)
(***************************************************************************)
BeyondThePool(scan, live, busy, cap) ==
  {c \in Holders(scan, live) \ busy :
     \/ scan[c].state # "open"
     \/ Cardinality({d \in Holders(scan, live) :
                       Fresher(scan, d, c) /\ Entitled(scan, busy, d)}) >= cap}

=============================================================================
