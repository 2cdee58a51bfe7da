------------------------------- MODULE MCChats -------------------------------
(***************************************************************************)
(* The lifecycle on small instances.  The bounds are the sets the cfg      *)
(* files give: how many chats, requests and connections there are.         *)
(***************************************************************************)
EXTENDS Chats, TLC

\* Chats, requests and connections are interchangeable.  Used by the runs
\* that check no liveness.
Symmetry ==
  Permutations(Chats) \cup Permutations(Requests) \cup Permutations(Conns)

=============================================================================
