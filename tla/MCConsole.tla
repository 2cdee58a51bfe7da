----------------------------- MODULE MCConsole -----------------------------
(***************************************************************************)
(* What the core keeps for itself on the dataset, on small instances: the  *)
(* secrets, and the signing key with the sessions under it.  The two share *)
(* no state, so a behaviour is one of either and the other stands still.   *)
(***************************************************************************)
EXTENDS Secrets, Access, TLC

CONSTANTS bootstrapped, old

VARIABLE part  \* which of the two moves

ASSUME RequestsDoNotOpenTheStore == KeysOK
ASSUME TheLimiterCounts == LoginsOK

\* One secret the environment bootstrapped, the others it did not.
Bootstrapped == [slot \in Slots |-> IF slot = bootstrapped THEN old ELSE Nothing]

ConsoleInit ==
  /\ part \in {"access", "secrets"}
  /\ Init /\ (part = "secrets" \/ \A c \in Clients : Slot(c) = bootstrapped)
  /\ AccessInit
ConsoleNext ==
  \/ part = "access" /\ AccessNext /\ UNCHANGED <<vars, part>>
  \/ part = "secrets" /\ Next /\ UNCHANGED <<accessVars, part>>
ConsoleSpec == ConsoleInit /\ [][ConsoleNext]_<<accessVars, vars, part>>

\* The requests of the two are the same ones: Tasks = Clients.
Symmetry == Permutations(Clients)

=============================================================================
