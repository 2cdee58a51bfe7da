------------------------------- MODULE MCTurns -------------------------------
(***************************************************************************)
(* Conversations with an adapter on small instances.                       *)
(***************************************************************************)
EXTENDS Acp
=============================================================================
