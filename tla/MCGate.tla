------------------------------- MODULE MCGate -------------------------------
(***************************************************************************)
(* The archive gate on small instances.  A chat that was used beside an    *)
(* abandoned gate is followed no further: nothing is said of it.           *)
(***************************************************************************)
EXTENDS ArchiveGate

Followed == ~crowded
=============================================================================
