------------------------------ MODULE Secrets ------------------------------
(***************************************************************************)
(* The operational secrets (src/secrets.rs), kept in a file each over what *)
(* the environment bootstrapped, and the settings panel that sets, clears  *)
(* and verifies them (src/settings.rs, the secret handlers of              *)
(* src/server.rs).  A write is staged in a file with a name of its own and *)
(* renamed; every read opens the file.                                     *)
(***************************************************************************)
EXTENDS Naturals

CONSTANTS Clients,      \* requests of the console, and spawns, clones, pushes
          Slots,        \* the secrets: Secret::ALL
          Values,       \* what an operator may set
          Nothing,      \* no value, and what a file of only whitespace holds
          Environment,  \* per slot, what the environment bootstrapped
          Faults        \* what may happen: "store" refuses, "crash"

ASSUME SecretsOK ==
  /\ Nothing \notin Values \cup Slots
  /\ Environment \in [Slots -> Values \cup {Nothing}]
  /\ Faults \subseteq {"store", "crash"}

VARIABLES held,    \* per slot, what its file holds; Nothing if there is none
          staged,  \* per client, what its pending file holds
          client,  \* per client: its slot, what it is to set, its next step
          given,   \* per client, the value in_force last gave it
          panel,   \* per client, the section it was answered with
          moved    \* auxiliary: clients whose slot changed since they read it

vars == <<held, staged, client, given, panel, moved>>

Steps == {"idle", "open", "write", "rename", "remove", "read", "ask", "draw"}
Outcomes == {"Untouched", "Saved", "NothingGiven", "Cleared",
             "NothingToVerify", "Verified", "Failed"}
Sources == {"Unset", "Environment", "Settings"}

NoPanel == [outcome |-> "Untouched", source |-> "Unset", value |-> Nothing,
            asked |-> Nothing]
NoClient(slot) == [slot |-> slot, value |-> Nothing, at |-> "idle"]

Init == /\ held = [slot \in Slots |-> Nothing]
        /\ staged = [c \in Clients |-> Nothing]
        /\ client \in [Clients -> {NoClient(slot) : slot \in Slots}]
        /\ given = [c \in Clients |-> Nothing]
        /\ panel = [c \in Clients |-> NoPanel]
        /\ moved = {}

-----------------------------------------------------------------------------
At(c, step) == client[c].at = step
Slot(c) == client[c].slot
Goto(c, step) == client' = [client EXCEPT ![c].at = step]

\* in_force: one read of the file, else the environment.
InForce(slot) == IF held[slot] # Nothing THEN held[slot] ELSE Environment[slot]

Source(slot) == CASE held[slot] # Nothing -> "Settings"
                  [] held[slot] = Nothing /\ Environment[slot] # Nothing ->
                       "Environment"
                  [] OTHER -> "Unset"

\* answer and section: the section is drawn after what was done, over how the
\* secret then stands; a failure is answered with what broke.
Draw(c, outcome) ==
  panel' = [panel EXCEPT ![c] =
              [outcome |-> outcome, source |-> Source(Slot(c)),
               value |-> InForce(Slot(c)), asked |-> given[c]]]

Fail(c) == /\ panel' = [panel EXCEPT ![c] = [NoPanel EXCEPT !.outcome = "Failed"]]
           /\ Goto(c, "idle")

-----------------------------------------------------------------------------
(* save and write.                                                         *)

Begin(c, slot, step) ==
  /\ At(c, "idle")
  /\ \E value \in IF step = "open" THEN Values ELSE {Nothing} :
        client' = [client EXCEPT ![c] = [slot |-> slot, value |-> value,
                                         at |-> step]]
  /\ panel' = [panel EXCEPT ![c] = NoPanel]
  /\ given' = [given EXCEPT ![c] = Nothing]
  /\ moved' = moved \ {c}
  /\ UNCHANGED <<held, staged>>

\* A box that was left blank changes nothing.
SaveNothing(c, slot) ==
  /\ At(c, "idle")
  /\ panel' = [panel EXCEPT ![c] =
                 [outcome |-> "NothingGiven", source |-> Source(slot),
                  value |-> InForce(slot), asked |-> Nothing]]
  /\ client' = [client EXCEPT ![c] = NoClient(slot)]
  /\ given' = [given EXCEPT ![c] = Nothing]
  /\ moved' = moved \ {c}
  /\ UNCHANGED <<held, staged>>

\* Slip: every write of a secret is staged in the one file.
OpenPendingShared(c) ==
  /\ At(c, "open") /\ Goto(c, "write")
  /\ staged' = [d \in Clients |-> IF Slot(d) = Slot(c) THEN Nothing
                                                       ELSE staged[d]]
  /\ UNCHANGED <<held, given, panel, moved>>

OpenPending(c) ==
  /\ At(c, "open") /\ Goto(c, "write")
  /\ staged' = [staged EXCEPT ![c] = Nothing]
  /\ UNCHANGED <<held, given, panel, moved>>

WritePending(c) ==
  /\ At(c, "write") /\ Goto(c, "rename")
  /\ staged' = [staged EXCEPT ![c] = client[c].value]
  /\ UNCHANGED <<held, given, panel, moved>>

Set(c, value) ==
  /\ held' = [held EXCEPT ![Slot(c)] = value]
  /\ moved' = (moved \ {c}) \cup {d \in Clients \ {c} : Slot(d) = Slot(c)}

Rename(c) ==
  /\ At(c, "rename") /\ Goto(c, "draw")
  /\ Set(c, staged[c])
  /\ staged' = [staged EXCEPT ![c] = Nothing]
  /\ UNCHANGED <<given, panel>>

Remove(c) ==
  /\ At(c, "remove") /\ Goto(c, "draw")
  /\ Set(c, Nothing)
  /\ UNCHANGED <<staged, given, panel>>

\* The dataset refuses: a pending file that was made stays where it is, and what
\* landed stays done, though the section cannot be read to tell of it.
Refuse(c) ==
  /\ "store" \in Faults /\ ~At(c, "idle")
  /\ Fail(c)
  /\ UNCHANGED <<held, staged, given, moved>>

-----------------------------------------------------------------------------
(* verify, and whoever spends the secret: a value is read, then carried.   *)

\* Slip: a value that is set counts only where the environment gave none.
InForceUnset(slot) ==
  IF Environment[slot] # Nothing THEN Environment[slot] ELSE held[slot]

ReadUnset(c) ==
  /\ At(c, "read") /\ Goto(c, "ask")
  /\ given' = [given EXCEPT ![c] = InForceUnset(Slot(c))]
  /\ moved' = moved \ {c}
  /\ UNCHANGED <<held, staged, panel>>

Read(c) ==
  /\ At(c, "read") /\ Goto(c, "ask")
  /\ given' = [given EXCEPT ![c] = InForce(Slot(c))]
  /\ moved' = moved \ {c}
  /\ UNCHANGED <<held, staged, panel>>

\* The service answered for the value it was asked about.
Ask(c) ==
  /\ At(c, "ask") /\ Goto(c, "idle")
  /\ Draw(c, IF given[c] = Nothing THEN "NothingToVerify" ELSE "Verified")
  /\ UNCHANGED <<held, staged, given, moved>>

Answer(c) ==
  /\ At(c, "draw") /\ Goto(c, "idle")
  /\ \E outcome \in {"Saved", "Cleared"} :
        /\ outcome = "Cleared" <=> client[c].value = Nothing
        /\ Draw(c, outcome)
  /\ UNCHANGED <<held, staged, given, moved>>

\* A restart forgets every request; files stay, and no one reads a pending one.
Crash ==
  /\ "crash" \in Faults
  /\ client' = [c \in Clients |-> [client[c] EXCEPT !.at = "idle"]]
  /\ given' = [c \in Clients |-> Nothing]
  /\ panel' = [c \in Clients |-> NoPanel]
  /\ moved' = {}
  /\ UNCHANGED <<held, staged>>

Next == \/ \E c \in Clients :
             \/ \E slot \in Slots : \/ SaveNothing(c, slot)
                                    \/ \E step \in {"open", "remove", "read"} :
                                         Begin(c, slot, step)
             \/ OpenPending(c) \/ WritePending(c) \/ Rename(c) \/ Remove(c)
             \/ Refuse(c) \/ Read(c) \/ Ask(c) \/ Answer(c)
        \/ Crash

Spec == Init /\ [][Next]_vars

-----------------------------------------------------------------------------
\* The change a client is about to make.
Wanted(c) ==
  IF client[c].at \in {"open", "write", "rename", "remove"}
    THEN [slot |-> client[c].slot, value |-> client[c].value]
    ELSE [slot |-> Nothing, value |-> Nothing]

Abstract == INSTANCE Register WITH written <- held,
                                   wanted <- [c \in Clients |-> Wanted(c)]

\* Each secret is a register: what is set takes effect whole and at one
\* moment, and every read gets what then stands, whoever writes beside it and
\* wherever a write stops (a name of its own, so two writes at once cannot
\* publish half of each other; a crash cannot leave half a credential behind).
IsARegister == Abstract!Spec

\* A section says of a secret what was done to it and how it stands: the value
\* it describes is the one that was just set, cleared to, or verified, unless
\* the secret was changed in between.
SectionsTellOfOneValue ==
  \A c \in Clients \ moved :
     CASE panel[c].outcome = "Saved" -> panel[c].value = client[c].value
       [] panel[c].outcome = "Cleared" -> panel[c].value = Environment[Slot(c)]
       [] panel[c].outcome \in {"Verified", "NothingToVerify"} ->
            panel[c].value = panel[c].asked
       [] OTHER -> TRUE

=============================================================================
