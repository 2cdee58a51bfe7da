------------------------------ MODULE Register ------------------------------
(***************************************************************************)
(* What the secrets promise the rest of the core: each is a register.  A   *)
(* change takes effect at one moment, whole and once, or not at all; a     *)
(* read gets what stands at one moment, which is what was last set, or     *)
(* what the environment gave.                                              *)
(***************************************************************************)
CONSTANTS Clients, Slots, Values,
          Nothing,      \* no value
          Environment   \* per slot, the value the deployment was started with

VARIABLES written,  \* per slot, the value set from the console
          wanted,   \* per client, the change it is about to make
          given     \* per client, the last value it was given

NoChange == [slot |-> Nothing, value |-> Nothing]
Changes == [slot : Slots, value : Values \cup {Nothing}]

Init == /\ written = [slot \in Slots |-> Nothing]
        /\ wanted = [c \in Clients |-> NoChange]
        /\ given = [c \in Clients |-> Nothing]

InForce(slot) ==
  IF written[slot] # Nothing THEN written[slot] ELSE Environment[slot]

\* A client comes with a change, or with none, having been given nothing yet.
Come(c, change) ==
  /\ wanted' = [wanted EXCEPT ![c] = change]
  /\ given' = [given EXCEPT ![c] = Nothing]
  /\ UNCHANGED written

Change(c) ==
  /\ wanted[c] # NoChange
  /\ written' = [written EXCEPT ![wanted[c].slot] = wanted[c].value]
  /\ wanted' = [wanted EXCEPT ![c] = NoChange]
  /\ UNCHANGED given

Read(c, slot) ==
  /\ given' = [given EXCEPT ![c] = InForce(slot)]
  /\ UNCHANGED <<written, wanted>>

GiveUp(c) ==
  wanted' = [wanted EXCEPT ![c] = NoChange] /\ UNCHANGED <<written, given>>

Restart ==
  /\ wanted' = [c \in Clients |-> NoChange]
  /\ given' = [c \in Clients |-> Nothing]
  /\ UNCHANGED written

Next == \/ \E c \in Clients :
             \/ \E change \in Changes \cup {NoChange} : Come(c, change)
             \/ Change(c) \/ GiveUp(c)
             \/ \E slot \in Slots : Read(c, slot)
        \/ Restart

Spec == Init /\ [][Next]_<<written, wanted, given>>

=============================================================================
