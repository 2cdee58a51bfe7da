---------------------------- MODULE ConsoleProofs ----------------------------
(***************************************************************************)
(* Proofs about the console: its secrets (Secrets.tla), who gets in        *)
(* (Access.tla over Keys.tla), and how it marks a text it shows            *)
(* (Marked.tla), for a text of any length.  Each secret is a register      *)
(* (Register.tla) and a section of the settings panel tells of one value;  *)
(* the key on disk stands, and a rotation that succeeded logs everybody    *)
(* out; for any secrets, values, environment, requests, devices, keys,     *)
(* visits and faults.                                                      *)
(***************************************************************************)
EXTENDS Secrets, Access, Marked, SequenceTheorems, WellFoundedInduction, TLAPS

\* A text is its atoms' characters, one after the other.
MarksAre == INSTANCE Folding WITH Base <- <<>>, Step <- M!Token

-----------------------------------------------------------------------------
(***************************************************************************)
(* The secrets: what is staged is what was to be set.                      *)
(***************************************************************************)

HeldValues == Values \cup {Nothing}

SecretTypes ==
  /\ held \in [Slots -> HeldValues]
  /\ staged \in [Clients -> HeldValues]
  /\ client \in [Clients -> [slot : Slots, value : HeldValues, at : Steps]]
  /\ given \in [Clients -> HeldValues]
  /\ panel \in [Clients -> [outcome : Outcomes, source : Sources,
                            value : HeldValues, asked : HeldValues]]

\* What is to be renamed is what was to be set, and what is to be removed is
\* to be set to nothing.
StagedIsWanted ==
  \A c \in Clients :
     /\ At(c, "rename") => staged[c] = client[c].value
     /\ At(c, "remove") => client[c].value = Nothing

SecretInv == SecretTypes /\ StagedIsWanted

-----------------------------------------------------------------------------
(* The invariant: a step is taken apart by the request that takes it.     *)

\* One disjunct of Next, for one client.
RequestStep(c) ==
  \/ \E slot \in Slots : SaveNothing(c, slot)
  \/ \E slot \in Slots : \E step \in {"open", "remove", "read"} :
        Begin(c, slot, step)
  \/ OpenPending(c) \/ WritePending(c) \/ Rename(c) \/ Remove(c)
  \/ Refuse(c) \/ Read(c) \/ Ask(c) \/ Answer(c)

\* A step of the secrets is a step of one client, or a crash.
LEMMA NextIsAStep == ASSUME Next PROVE (\E c \in Clients : RequestStep(c)) \/ Crash
  BY DEF Next, RequestStep

\* What a read of a secret gives is a value or nothing.
LEMMA InForceTyped ==
  ASSUME SecretTypes, NEW slot \in Slots PROVE InForce(slot) \in HeldValues
  BY SecretsOK DEF SecretTypes, HeldValues, InForce

\* Where a secret comes from is one of the three sources.
LEMMA SourceTyped == ASSUME NEW slot \in Slots PROVE Source(slot) \in Sources
  BY DEF Source, Sources

\* A section drawn for a known outcome is a panel.
LEMMA DrawTyped ==
  ASSUME SecretTypes, NEW c \in Clients, NEW outcome \in Outcomes, Draw(c, outcome)
  PROVE  panel' \in [Clients -> [outcome : Outcomes, source : Sources,
                                 value : HeldValues, asked : HeldValues]]
<1>1. Slot(c) \in Slots BY DEF SecretTypes, Slot
<1>2. InForce(Slot(c)) \in HeldValues /\ Source(Slot(c)) \in Sources
  BY <1>1, InForceTyped, SourceTyped
<1>3. given[c] \in HeldValues BY DEF SecretTypes
<1> QED BY <1>2, <1>3 DEF SecretTypes, Draw

\* The section a request starts from is a panel.
LEMMA NoPanelTyped ==
  NoPanel \in [outcome : Outcomes, source : Sources, value : HeldValues, asked : HeldValues]
  BY DEF NoPanel, Outcomes, Sources, HeldValues

\* The invariant holds before anything was set.
LEMMA SecretInitInv == Init => SecretInv
<1> SUFFICES ASSUME Init PROVE SecretInv OBVIOUS
<1>1. ASSUME NEW c \in Clients
      PROVE  /\ client[c].at = "idle"
             /\ client[c] \in [slot : Slots, value : HeldValues, at : Steps]
  <2>1. client[c] \in {NoClient(slot) : slot \in Slots} BY DEF Init
  <2>2. PICK slot \in Slots : client[c] = NoClient(slot) BY <2>1
  <2> QED BY <2>2 DEF NoClient, HeldValues, Steps
<1>2. client \in [Clients -> [slot : Slots, value : HeldValues, at : Steps]]
  BY <1>1 DEF Init
<1>3. SecretTypes BY <1>2, NoPanelTyped DEF Init, SecretTypes, HeldValues
<1>4. StagedIsWanted BY <1>1 DEF StagedIsWanted, At
<1> QED BY <1>3, <1>4 DEF SecretInv

\* Every step of a client keeps the types.
LEMMA TypeStep ==
  ASSUME SecretInv, NEW c \in Clients, RequestStep(c) PROVE SecretTypes'
<1> USE DEF SecretInv
<1> Nothing \in HeldValues BY DEF HeldValues
<1>1. ASSUME NEW slot \in Slots, SaveNothing(c, slot) PROVE SecretTypes'
  <2>1. InForce(slot) \in HeldValues /\ Source(slot) \in Sources
    BY InForceTyped, SourceTyped
  <2> QED BY <1>1, <2>1 DEF SaveNothing, SecretTypes, NoClient, Outcomes, Steps
<1>2. ASSUME NEW slot \in Slots, NEW step \in {"open", "remove", "read"},
             Begin(c, slot, step)
      PROVE  SecretTypes'
  <2>1. PICK value \in HeldValues :
           client' = [client EXCEPT ![c] = [slot |-> slot, value |-> value,
                                            at |-> step]]
    BY <1>2 DEF Begin, HeldValues
  <2>2. step \in Steps BY DEF Steps
  <2> QED BY <1>2, <2>1, <2>2, NoPanelTyped DEF Begin, SecretTypes
<1>3. ASSUME OpenPending(c) PROVE SecretTypes'
  BY <1>3 DEF OpenPending, Goto, SecretTypes, Steps
<1>4. ASSUME WritePending(c) PROVE SecretTypes'
  BY <1>4 DEF WritePending, Goto, SecretTypes, Steps
<1>5. ASSUME Rename(c) PROVE SecretTypes'
  BY <1>5 DEF Rename, Set, Slot, Goto, SecretTypes, Steps
<1>6. ASSUME Remove(c) PROVE SecretTypes'
  BY <1>6 DEF Remove, Set, Slot, Goto, SecretTypes, Steps
<1>7. ASSUME Refuse(c) PROVE SecretTypes'
  <2>1. [NoPanel EXCEPT !.outcome = "Failed"] \in
          [outcome : Outcomes, source : Sources, value : HeldValues, asked : HeldValues]
    BY NoPanelTyped DEF Outcomes
  <2> QED BY <1>7, <2>1 DEF Refuse, Fail, Goto, SecretTypes, Steps
<1>8. ASSUME Read(c) PROVE SecretTypes'
  <2>1. InForce(Slot(c)) \in HeldValues BY InForceTyped DEF SecretTypes, Slot
  <2> QED BY <1>8, <2>1 DEF Read, Goto, SecretTypes, Steps
<1>9. ASSUME Ask(c) PROVE SecretTypes'
  <2>1. PICK outcome \in Outcomes : Draw(c, outcome)
    BY <1>9 DEF Ask, Outcomes
  <2> QED BY <1>9, <2>1, DrawTyped DEF Ask, Goto, SecretTypes, Steps
<1>10. ASSUME Answer(c) PROVE SecretTypes'
  <2>1. PICK outcome \in Outcomes : Draw(c, outcome)
    BY <1>10 DEF Answer, Outcomes
  <2> QED BY <1>10, <2>1, DrawTyped DEF Answer, Goto, SecretTypes, Steps
<1> QED BY <1>1, <1>2, <1>3, <1>4, <1>5, <1>6, <1>7, <1>8, <1>9, <1>10
        DEF RequestStep

\* Every step of a client keeps what is staged.
LEMMA StagedStep ==
  ASSUME SecretInv, NEW c \in Clients, RequestStep(c) PROVE StagedIsWanted'
<1> USE DEF SecretInv
<1> SUFFICES ASSUME NEW d \in Clients
             PROVE  /\ At(d, "rename")' => staged'[d] = client'[d].value
                    /\ At(d, "remove")' => client'[d].value = Nothing
  BY DEF StagedIsWanted
<1>1. CASE \E slot \in Slots : SaveNothing(c, slot)
  BY <1>1 DEF SaveNothing, NoClient, SecretTypes, StagedIsWanted, At
<1>2. CASE \E slot \in Slots : \E step \in {"open", "remove", "read"} :
              Begin(c, slot, step)
  <2>1. PICK slot \in Slots, step \in {"open", "remove", "read"} :
           Begin(c, slot, step)
    BY <1>2
  <2>2. PICK value \in IF step = "open" THEN Values ELSE {Nothing} :
           client' = [client EXCEPT ![c] = [slot |-> slot, value |-> value,
                                            at |-> step]]
    BY <2>1 DEF Begin
  <2> QED BY <2>1, <2>2 DEF Begin, SecretTypes, StagedIsWanted, At
<1>3. CASE OpenPending(c)
  BY <1>3 DEF OpenPending, Goto, SecretTypes, StagedIsWanted, At
<1>4. CASE WritePending(c)
  BY <1>4 DEF WritePending, Goto, SecretTypes, StagedIsWanted, At
<1>5. CASE Rename(c)
  BY <1>5 DEF Rename, Set, Goto, SecretTypes, StagedIsWanted, At
<1>6. CASE Remove(c)
  BY <1>6 DEF Remove, Set, Goto, SecretTypes, StagedIsWanted, At
<1>7. CASE Refuse(c)
  BY <1>7 DEF Refuse, Fail, Goto, SecretTypes, StagedIsWanted, At
<1>8. CASE Read(c)
  BY <1>8 DEF Read, Goto, SecretTypes, StagedIsWanted, At
<1>9. CASE Ask(c)
  BY <1>9 DEF Ask, Goto, SecretTypes, StagedIsWanted, At
<1>10. CASE Answer(c)
  BY <1>10 DEF Answer, Goto, SecretTypes, StagedIsWanted, At
<1> QED BY <1>1, <1>2, <1>3, <1>4, <1>5, <1>6, <1>7, <1>8, <1>9, <1>10
        DEF RequestStep

\* A crash keeps both: it stops every request where it stands.
LEMMA SecretCrashStep == ASSUME SecretInv, Crash PROVE SecretInv'
<1> USE DEF SecretInv
<1>1. ASSUME NEW c \in Clients
      PROVE  /\ client'[c].at = "idle"
             /\ client'[c] \in [slot : Slots, value : HeldValues, at : Steps]
  <2>1. client'[c] = [client[c] EXCEPT !.at = "idle"] BY DEF Crash
  <2>2. client[c] \in [slot : Slots, value : HeldValues, at : Steps] BY DEF SecretTypes
  <2> QED BY <2>1, <2>2 DEF Steps
<1>2. client' \in [Clients -> [slot : Slots, value : HeldValues, at : Steps]]
  BY <1>1 DEF Crash
<1>3. SecretTypes'
  BY <1>2, NoPanelTyped DEF Crash, SecretTypes, HeldValues
<1>4. \A c \in Clients : client'[c].at = "idle" BY <1>1
<1>5. StagedIsWanted'
  <2> SUFFICES ASSUME NEW c \in Clients
               PROVE  /\ At(c, "rename")' => staged'[c] = client'[c].value
                      /\ At(c, "remove")' => client'[c].value = Nothing
    BY DEF StagedIsWanted
  <2> QED BY <1>4 DEF At
<1> QED BY <1>3, <1>5

\* The invariant is inductive.
LEMMA InvStep == SecretInv /\ [Next]_vars => SecretInv'
<1> SUFFICES ASSUME SecretInv, [Next]_vars PROVE SecretInv' OBVIOUS
<1>1. CASE Next BY <1>1, NextIsAStep, TypeStep, StagedStep, SecretCrashStep DEF SecretInv
<1>2. CASE UNCHANGED vars
  BY <1>2 DEF vars, SecretInv, SecretTypes, StagedIsWanted, At
<1> QED BY <1>1, <1>2

\* In every reachable state the values are of their types, and what a write is
\* about to rename is the value it was given.
LEMMA Invariant == Spec => []SecretInv
BY SecretInitInv, InvStep, PTL DEF Spec

-----------------------------------------------------------------------------
(* Each secret is a register.                                              *)

Promises == [c \in Clients |-> Wanted(c)]

\* A request that is not about to change anything promises nothing.
LEMMA NoWish ==
  ASSUME SecretTypes, NEW c \in Clients,
         client[c].at \notin {"open", "write", "rename", "remove"}
  PROVE  Wanted(c) = Abstract!NoChange
  BY DEF Wanted, Abstract!NoChange

\* Nobody has come to a register that was not used yet.
LEMMA RegisterInit == Init => Abstract!Init
<1> SUFFICES ASSUME Init PROVE Abstract!Init OBVIOUS
<1>1. SecretTypes BY SecretInitInv DEF SecretInv
<1>2. ASSUME NEW c \in Clients PROVE Wanted(c) = Abstract!NoChange
  <2>1. client[c].at = "idle"
    <3>1. client[c] \in {NoClient(slot) : slot \in Slots} BY DEF Init
    <3>2. PICK slot \in Slots : client[c] = NoClient(slot) BY <3>1
    <3> QED BY <3>2 DEF NoClient
  <2> QED BY <1>1, <2>1, NoWish
<1>3. Promises = [c \in Clients |-> Abstract!NoChange] BY <1>2 DEF Promises
<1> QED BY <1>3 DEF Init, Abstract!Init, Promises

\* What one request does leaves the promises to the others alone.
LEMMA Others ==
  ASSUME SecretTypes, NEW c \in Clients, NEW x, client' = [client EXCEPT ![c] = x]
  PROVE  Promises' = [Promises EXCEPT ![c] = Wanted(c)']
<1>1. \A d \in Clients \ {c} : client'[d] = client[d] BY DEF SecretTypes
<1>2. \A d \in Clients \ {c} : Wanted(d)' = Wanted(d) BY <1>1 DEF Wanted
<1> QED BY <1>2 DEF Promises

\* A request that goes on without changing what it wants is not noticed.
LEMMA Unnoticed ==
  ASSUME SecretTypes, NEW c \in Clients, NEW step, Goto(c, step),
         step \in {"open", "write", "rename", "remove"}
           <=> client[c].at \in {"open", "write", "rename", "remove"}
  PROVE  Promises' = Promises
<1>1. client'[c] = [client[c] EXCEPT !.at = step] BY DEF SecretTypes, Goto
<1>2. /\ client'[c].at = step /\ client'[c].slot = client[c].slot
      /\ client'[c].value = client[c].value
  <2>1. client[c] \in [slot : Slots, value : HeldValues, at : Steps] BY DEF SecretTypes
  <2> QED BY <1>1, <2>1
<1>3. Wanted(c)' = Wanted(c) BY <1>2 DEF Wanted
<1>4. Promises' = [Promises EXCEPT ![c] = Wanted(c)]
  BY <1>3, Others DEF Goto
<1> QED BY <1>4 DEF Promises

\* A request that is through, or gave up, wants nothing any more.
LEMMA Over ==
  ASSUME SecretTypes, NEW c \in Clients, NEW step, Goto(c, step),
         step \notin {"open", "write", "rename", "remove"}
  PROVE  Promises' = [Promises EXCEPT ![c] = Abstract!NoChange]
<1>1. client'[c].at = step
  <2>1. client[c] \in [slot : Slots, value : HeldValues, at : Steps] BY DEF SecretTypes
  <2> QED BY <2>1 DEF SecretTypes, Goto
<1>2. Wanted(c)' = Abstract!NoChange
  BY <1>1 DEF Wanted, Abstract!NoChange
<1> QED BY <1>2, Others DEF Goto

\* Every step of a client is a step of the register, or nothing to it.
LEMMA RegisterStep ==
  ASSUME SecretInv, NEW c \in Clients, RequestStep(c)
  PROVE  \/ Abstract!Next
         \/ UNCHANGED <<held, Promises, given>>
<1> USE DEF SecretInv
<1>1. ASSUME NEW slot \in Slots, SaveNothing(c, slot)
      PROVE  Abstract!Come(c, Abstract!NoChange)
  <2>1. client'[c].at = "idle" BY <1>1 DEF SaveNothing, SecretTypes, NoClient
  <2>2. Wanted(c)' = Abstract!NoChange
    BY <2>1 DEF Wanted, Abstract!NoChange
  <2>3. Promises' = [Promises EXCEPT ![c] = Abstract!NoChange]
    BY <1>1, <2>2, Others DEF SaveNothing
  <2> QED BY <1>1, <2>3 DEF SaveNothing, Abstract!Come, Promises
<1>2. ASSUME NEW slot \in Slots, NEW step \in {"open", "remove", "read"},
             Begin(c, slot, step)
      PROVE  \E change \in Abstract!Changes \cup {Abstract!NoChange} :
               Abstract!Come(c, change)
  <2>1. PICK value \in HeldValues :
           client' = [client EXCEPT ![c] = [slot |-> slot, value |-> value,
                                            at |-> step]]
    BY <1>2 DEF Begin, HeldValues
  <2>2. client'[c] = [slot |-> slot, value |-> value, at |-> step]
    BY <2>1 DEF SecretTypes
  <2>3. Wanted(c)' \in Abstract!Changes \cup {Abstract!NoChange}
    BY <2>2 DEF Wanted, Abstract!Changes, Abstract!NoChange, HeldValues
  <2>4. Promises' = [Promises EXCEPT ![c] = Wanted(c)'] BY <2>1, Others
  <2>5. Abstract!Come(c, Wanted(c)')
    BY <1>2, <2>4 DEF Begin, Abstract!Come, Promises
  <2> QED BY <2>3, <2>5
<1>3. ASSUME OpenPending(c) \/ WritePending(c)
      PROVE  UNCHANGED <<held, Promises, given>>
  BY <1>3, Unnoticed DEF OpenPending, WritePending, At
<1>4. ASSUME Rename(c) \/ Remove(c) PROVE Abstract!Change(c)
  <2>1. Promises' = [Promises EXCEPT ![c] = Abstract!NoChange]
    BY <1>4, Over DEF Rename, Remove
  <2>2. held' = [held EXCEPT ![client[c].slot] = client[c].value]
    BY <1>4 DEF Rename, Remove, Set, Slot, StagedIsWanted
  <2>3. Promises[c] = [slot |-> client[c].slot, value |-> client[c].value]
    BY <1>4 DEF Promises, Wanted, Rename, Remove, At
  <2>4. Promises[c] # Abstract!NoChange
    <3>1. client[c].slot \in Slots BY DEF SecretTypes
    <3>2. client[c].slot # Nothing BY <3>1, SecretsOK
    <3>3. Promises[c].slot # Abstract!NoChange.slot
      BY <2>3, <3>2 DEF Abstract!NoChange
    <3> QED BY <3>3
  <2>5. held' = [held EXCEPT ![Promises[c].slot] = Promises[c].value]
    BY <2>2, <2>3
  <2> QED BY <1>4, <2>1, <2>4, <2>5
          DEF Rename, Remove, Abstract!Change, Promises
<1>5. ASSUME Refuse(c) PROVE Abstract!GiveUp(c)
  BY <1>5, Over DEF Refuse, Fail, Abstract!GiveUp, Promises
<1>6. ASSUME Read(c) PROVE \E slot \in Slots : Abstract!Read(c, slot)
  <2>1. Slot(c) \in Slots BY DEF Slot, SecretTypes
  <2>2. Promises' = Promises BY <1>6, Unnoticed DEF Read, At
  <2>3. Abstract!Read(c, Slot(c))
    BY <1>6, <2>2 DEF Read, Abstract!Read, InForce, Abstract!InForce, Promises
  <2> QED BY <2>1, <2>3
<1>7. ASSUME Ask(c) \/ Answer(c) PROVE UNCHANGED <<held, Promises, given>>
  BY <1>7, Unnoticed DEF Ask, Answer, At
<1> QED BY <1>1, <1>2, <1>3, <1>4, <1>5, <1>6, <1>7
        DEF RequestStep, Abstract!Next

\* A crash is a restart of the register: nobody wants anything any more.
LEMMA RegisterCrash == ASSUME SecretInv, Crash PROVE Abstract!Restart
<1>1. ASSUME NEW c \in Clients PROVE Wanted(c)' = Abstract!NoChange
  <2>1. client[c] \in [slot : Slots, value : HeldValues, at : Steps]
    BY DEF SecretInv, SecretTypes
  <2>2. client'[c].at = "idle" BY <2>1 DEF Crash
  <2> QED BY <2>2 DEF Wanted, Abstract!NoChange
<1>2. Promises' = [c \in Clients |-> Abstract!NoChange]
  BY <1>1 DEF Promises
<1> QED BY <1>2 DEF Crash, Abstract!Restart, Promises

\* Secrets set, cleared, read and verified at once, writes that fail and a
\* crash at any step come to a register each: save's pending file of its own
\* and its rename are what an atomic write takes.
THEOREM SecretsAreRegisters == Spec => IsARegister
<1>1. Init => Abstract!Init BY RegisterInit
<1>2. SecretInv /\ [Next]_vars
        => [Abstract!Next]_<<held, [c \in Clients |-> Wanted(c)], given>>
  <2> SUFFICES ASSUME SecretInv, [Next]_vars
               PROVE  [Abstract!Next]_<<held, Promises, given>>
    BY DEF Promises
  <2>1. CASE \E c \in Clients : RequestStep(c) BY <2>1, RegisterStep
  <2>2. CASE Crash BY <2>2, RegisterCrash DEF Abstract!Next
  <2>3. CASE UNCHANGED vars BY <2>3 DEF vars, Promises, Wanted
  <2> QED BY <2>1, <2>2, <2>3, NextIsAStep
<1> QED BY <1>1, <1>2, Invariant, PTL DEF Spec, IsARegister, Abstract!Spec

-----------------------------------------------------------------------------
(* A section of the panel tells of one value.                              *)

\* The section of one request, as SectionsTellOfOneValue says it.
TellsOfOneValue(c) ==
  CASE panel[c].outcome = "Saved" -> panel[c].value = client[c].value
    [] panel[c].outcome = "Cleared" -> panel[c].value = Environment[Slot(c)]
    [] panel[c].outcome \in {"Verified", "NothingToVerify"} ->
         panel[c].value = panel[c].asked
    [] OTHER -> TRUE

\* What it rests on: no section is drawn before its request is through, and
\* until the secret is changed, what was set stands and what was read is in
\* force.
Standing(c) ==
  /\ At(c, "draw") => held[Slot(c)] = client[c].value
  /\ At(c, "ask") => given[c] = InForce(Slot(c))
  /\ TellsOfOneValue(c)

SInv == \A c \in Clients : /\ ~At(c, "idle") => panel[c] = NoPanel
                           /\ c \notin moved => Standing(c)

\* The empty section tells of nothing.
LEMMA Blank == ASSUME NEW c \in Clients, panel[c] = NoPanel
               PROVE  TellsOfOneValue(c)
BY DEF TellsOfOneValue, NoPanel

\* It holds before anything was set.
LEMMA SInvInit == Init => SInv
<1> SUFFICES ASSUME Init, NEW c \in Clients
             PROVE  At(c, "idle") /\ Standing(c)
  BY DEF SInv
<1>1. client[c] \in {NoClient(slot) : slot \in Slots} BY DEF Init
<1>2. PICK slot \in Slots : client[c] = NoClient(slot) BY <1>1
<1>3. At(c, "idle") BY <1>2 DEF NoClient, At
<1>4. TellsOfOneValue(c) BY Blank DEF Init
<1> QED BY <1>3, <1>4 DEF Standing, At

\* What one request does leaves what another's section rests on, unless it
\* changed the other's secret.
LEMMA Untouched ==
  ASSUME SecretInv, SInv, NEW c \in Clients, RequestStep(c), NEW d \in Clients \ {c}
  PROVE  /\ client'[d] = client[d] /\ panel'[d] = panel[d]
         /\ given'[d] = given[d]
         /\ d \notin moved' => d \notin moved /\ held'[Slot(d)] = held[Slot(d)]
<1> USE DEF SecretInv, SecretTypes
<1>1. CASE \E slot \in Slots : SaveNothing(c, slot)
  BY <1>1 DEF SaveNothing
<1>2. CASE \E slot \in Slots : \E step \in {"open", "remove", "read"} :
              Begin(c, slot, step)
  BY <1>2 DEF Begin
<1>3. CASE OpenPending(c) \/ WritePending(c)
  BY <1>3 DEF OpenPending, WritePending, Goto
<1>4. CASE Rename(c) \/ Remove(c)
  <2>1. PICK value \in HeldValues : Set(c, value)
    BY <1>4 DEF Rename, Remove, HeldValues
  <2>2. d \notin moved' => d \notin moved /\ Slot(d) # Slot(c)
    BY <2>1 DEF Set
  <2>3. d \notin moved' => held'[Slot(d)] = held[Slot(d)]
    BY <2>1, <2>2 DEF Set, Slot
  <2> QED BY <1>4, <2>2, <2>3 DEF Rename, Remove, Goto
<1>5. CASE Refuse(c)
  BY <1>5 DEF Refuse, Fail, Goto
<1>6. CASE Read(c)
  BY <1>6 DEF Read, Goto
<1>7. CASE Ask(c) \/ Answer(c)
  BY <1>7 DEF Ask, Answer, Draw, Goto
<1> QED BY <1>1, <1>2, <1>3, <1>4, <1>5, <1>6, <1>7 DEF RequestStep

\* What it does for itself keeps what its own section rests on.
LEMMA Itself ==
  ASSUME SecretInv, SInv, NEW c \in Clients, RequestStep(c)
  PROVE  /\ ~At(c, "idle")' => panel'[c] = NoPanel
         /\ c \notin moved' => Standing(c)'
<1> USE DEF SecretInv
<1>0. /\ client[c] \in [slot : Slots, value : HeldValues, at : Steps]
      /\ client[c].slot \in Slots
      /\ panel[c] \in [outcome : Outcomes, source : Sources,
                       value : HeldValues, asked : HeldValues]
  BY DEF SecretTypes
<1>1. CASE \E slot \in Slots : SaveNothing(c, slot)
  <2>1. client'[c].at = "idle" /\ panel'[c].outcome = "NothingGiven"
    BY <1>1 DEF SaveNothing, NoClient, SecretTypes
  <2>2. TellsOfOneValue(c)' BY <2>1 DEF TellsOfOneValue
  <2> QED BY <2>1, <2>2 DEF Standing, At
<1>2. CASE \E slot \in Slots : \E step \in {"open", "remove", "read"} :
              Begin(c, slot, step)
  <2>1. client'[c].at \in {"open", "remove", "read"} /\ panel'[c] = NoPanel
    BY <1>2 DEF Begin, SecretTypes
  <2>2. TellsOfOneValue(c)' BY <2>1 DEF TellsOfOneValue, NoPanel
  <2> QED BY <2>1, <2>2 DEF Standing, At
<1>3. CASE OpenPending(c) \/ WritePending(c)
  <2>1. client'[c].at \in {"write", "rename"} /\ panel'[c] = NoPanel
    BY <1>0, <1>3 DEF OpenPending, WritePending, Goto, SInv, At, SecretTypes
  <2>2. TellsOfOneValue(c)' BY <2>1 DEF TellsOfOneValue, NoPanel
  <2> QED BY <2>1, <2>2 DEF Standing, At
<1>4. CASE Rename(c) \/ Remove(c)
  <2>1. /\ client'[c].at = "draw" /\ panel'[c] = NoPanel
        /\ client'[c].slot = client[c].slot
        /\ client'[c].value = client[c].value
    BY <1>0, <1>4 DEF Rename, Remove, Goto, SInv, At, SecretTypes
  <2>2. held'[client[c].slot] = client[c].value
    BY <1>0, <1>4 DEF Rename, Remove, Set, Slot, StagedIsWanted, SecretTypes
  <2>3. TellsOfOneValue(c)' BY <2>1 DEF TellsOfOneValue, NoPanel
  <2> QED BY <2>1, <2>2, <2>3 DEF Standing, At, Slot
<1>5. CASE Refuse(c)
  <2>1. client'[c].at = "idle" /\ panel'[c].outcome = "Failed"
    BY <1>0, <1>5 DEF Refuse, Fail, Goto, SecretTypes, NoPanel
  <2>2. TellsOfOneValue(c)' BY <2>1 DEF TellsOfOneValue
  <2> QED BY <2>1, <2>2 DEF Standing, At
<1>6. CASE Read(c)
  <2>1. /\ client'[c].at = "ask" /\ panel'[c] = NoPanel
        /\ client'[c].slot = client[c].slot
    BY <1>0, <1>6 DEF Read, Goto, SInv, At, SecretTypes
  <2>2. given'[c] = InForce(client[c].slot)
    BY <1>6 DEF Read, Slot, SecretTypes
  <2>3. InForce(client[c].slot)' = InForce(client[c].slot)
    BY <1>6, <2>1 DEF Read, InForce
  <2>4. TellsOfOneValue(c)' BY <2>1 DEF TellsOfOneValue, NoPanel
  <2> QED BY <2>1, <2>2, <2>3, <2>4 DEF Standing, At, Slot
<1>7. CASE Ask(c)
  <2>1. /\ client'[c].at = "idle"
        /\ panel'[c].outcome \in {"Verified", "NothingToVerify"}
        /\ panel'[c].value = InForce(client[c].slot)
        /\ panel'[c].asked = given[c]
    BY <1>0, <1>7 DEF Ask, Draw, Slot, Goto, SecretTypes
  <2>2. c \notin moved => given[c] = InForce(client[c].slot)
    BY <1>7 DEF Ask, SInv, Standing, Slot
  <2>3. c \notin moved' => TellsOfOneValue(c)'
    BY <1>7, <2>1, <2>2 DEF Ask, TellsOfOneValue
  <2> QED BY <2>1, <2>3 DEF Standing, At
<1>8. CASE Answer(c)
  <2>1. /\ client'[c].at = "idle" /\ client'[c].slot = client[c].slot
        /\ client'[c].value = client[c].value
        /\ panel'[c].outcome \in {"Saved", "Cleared"}
        /\ panel'[c].outcome = "Cleared" <=> client[c].value = Nothing
        /\ panel'[c].value = InForce(client[c].slot)
    BY <1>0, <1>8 DEF Answer, Draw, Slot, Goto, SecretTypes
  <2>2. c \notin moved => held[client[c].slot] = client[c].value
    BY <1>8 DEF Answer, SInv, Standing, Slot
  <2>3. c \notin moved => InForce(client[c].slot) =
          IF client[c].value = Nothing THEN Environment[client[c].slot]
                                       ELSE client[c].value
    BY <2>2 DEF InForce
  <2>4. c \notin moved' => TellsOfOneValue(c)'
    BY <1>8, <2>1, <2>3 DEF Answer, TellsOfOneValue, Slot
  <2> QED BY <2>1, <2>4 DEF Standing, At
<1> QED BY <1>1, <1>2, <1>3, <1>4, <1>5, <1>6, <1>7, <1>8 DEF RequestStep

\* It is inductive, given the types and what is staged.
LEMMA SInvStep == SecretInv /\ SInv /\ [Next]_vars => SInv'
<1> SUFFICES ASSUME SecretInv, SInv, [Next]_vars PROVE SInv' OBVIOUS
<1>1. ASSUME NEW c \in Clients, RequestStep(c) PROVE SInv'
  <2> SUFFICES ASSUME NEW d \in Clients
               PROVE  /\ ~At(d, "idle")' => panel'[d] = NoPanel
                      /\ d \notin moved' => Standing(d)'
    BY DEF SInv
  <2>1. CASE d = c BY <1>1, <2>1, Itself
  <2>2. CASE d # c
    <3>1. /\ client'[d] = client[d] /\ panel'[d] = panel[d]
          /\ given'[d] = given[d]
          /\ d \notin moved' =>
               d \notin moved /\ held'[Slot(d)] = held[Slot(d)]
      BY <1>1, <2>2, Untouched
    <3> QED BY <3>1 DEF SInv, Standing, TellsOfOneValue, At, Slot, InForce
  <2> QED BY <2>1, <2>2
<1>2. CASE Crash
  <2> SUFFICES ASSUME NEW d \in Clients
               PROVE  At(d, "idle")' /\ Standing(d)'
    BY DEF SInv
  <2>1. client'[d].at = "idle" /\ panel'[d] = NoPanel
    BY <1>2 DEF Crash, SecretInv, SecretTypes
  <2>2. TellsOfOneValue(d)' BY <2>1 DEF TellsOfOneValue, NoPanel
  <2> QED BY <2>1, <2>2 DEF Standing, At
<1>3. CASE UNCHANGED vars
  BY <1>3 DEF vars, SInv, Standing, TellsOfOneValue, At, Slot, InForce
<1> QED BY <1>1, <1>2, <1>3, NextIsAStep

\* A section of the panel never shows a value beside the outcome of another,
\* unless the secret was changed while its request was under way: save, clear
\* and verify read again what they draw, and what they read is what they did.
THEOREM SectionsAreTrue == Spec => []SectionsTellOfOneValue
<1>1. SInv => SectionsTellOfOneValue
  BY DEF SInv, Standing, TellsOfOneValue, SectionsTellOfOneValue
<1> QED BY <1>1, SInvInit, SInvStep, Invariant, PTL DEF Spec

-----------------------------------------------------------------------------
(***************************************************************************)
(* Who gets in.  The invariant has a part about the keys (KeyInv) and one  *)
(* about the cookies (AccessInv), of which every one anybody holds is      *)
(* Honest: its key is neither being written nor waiting to be moved into   *)
(* place, and is no longer the key in force, nor the key file, once a      *)
(* rotation it was signed in before has succeeded.  Every step on the keys *)
(* keeps KeyInv and lets no cookie cease to be Honest; the rest moves      *)
(* cookies around.                                                         *)
(***************************************************************************)

\* What a writer has open: no file with a name, the key file, the pending one.
Files == {"none", "signing_key", "signing_key.tmp"}
WriterSteps == {"idle", "write", "move", "set"}
Writing == [key : 0..MaxKeys, at : WriterSteps, file : Files]

\* Types; a file holds a key that was drawn, less than one, or does not exist.
KeyTypes ==
  /\ keyFile \in Nat /\ (keyFile <= drawn \/ keyFile = Half)
  /\ pendingFile \in Nat /\ (pendingFile <= drawn \/ pendingFile = Half)
  /\ current \in 0..drawn /\ done \in 0..drawn /\ drawn \in 0..MaxKeys
  /\ writer \in [Writers -> Writing]
  /\ overlapped \in BOOLEAN

\* Only the core that serves rotates, and only the one that starts opens the
\* store; a key file that is missing has never been there.
Whose ==
  /\ Serving => keyFile # None
  /\ keyFile = None => drawn <= 1 /\ done = 0
  /\ \A t \in Writers : /\ Persisting(t) => writer[t].key \in 1..drawn
                        /\ writer[t].at = "set" => keyFile # None
  /\ Serving => ~Persisting(Boot)
  /\ \A t \in Tasks : Persisting(t) => Serving

\* Unless two rotations ran at once, one task at a time persists a key.
Alone == overlapped \/ \A t, u \in Writers : Persisting(t) /\ Persisting(u) => t = u

\* A key is in one place: to be written, in the pending file or in the key file.
OneCopy ==
  /\ \A t, u \in Writers :
        t # u /\ Persisting(t) /\ Persisting(u) => writer[t].key # writer[u].key
  /\ keyFile \in Keys => pendingFile # keyFile
  /\ \A t \in Writers :
        /\ writer[t].at = "write" => writer[t].key \notin {keyFile, pendingFile}
        /\ writer[t].at = "set" => pendingFile # writer[t].key

\* The key in force is not one that is yet to be moved into place.
NotAhead == Serving => /\ pendingFile # current
                       /\ \A t \in Writers : Persisting(t) => writer[t].key # current

\* Unless two rotations ran at once, the files are where the writer left them,
\* and the key file is the key in force again by the time it is done.
Staged ==
  \/ overlapped
  \/ /\ keyFile # Half
     /\ \A t \in Writers :
           /\ writer[t].at = "write" => writer[t].file = "signing_key.tmp"
           /\ writer[t].at = "move" => pendingFile = writer[t].key
           /\ writer[t].at = "set" => keyFile = writer[t].key
     /\ Serving /\ (\A t \in Writers : writer[t].at # "set") => keyFile = current

KeyInv == KeyTypes /\ Whose /\ Alone /\ OneCopy /\ NotAhead /\ Staged

Cookie == [key : Nat, since : Nat, stray : BOOLEAN]

\* Cookies that do not outlive a rotation that succeeded after their sign-in.
Honest == {c \in Cookie :
  /\ c.key <= drawn /\ c.since <= drawn
  /\ c.key # None =>
       /\ keyFile # None /\ pendingFile # c.key
       /\ \A t \in Writers : Persisting(t) => writer[t].key # c.key
       /\ ~c.stray =>
            /\ done > c.since => c.key \notin {current, keyFile}
            /\ \A t \in Writers :
                 writer[t].at = "set" /\ writer[t].key > c.since => c.key # keyFile}

Waits == {"idle", "session", "issue", "log_out", "rotate", "respond", "locked", "weigh"}
Request == [at : Waits, visit : {"none", "logout"}, device : Devices \cup {"none"},
            cookie : Cookie, fresh : Cookie, now : (0..MaxNow) \cup {0}]
\* Every cookie is honest, and whoever persists a key does it for a log-out.
AccessInv ==
  /\ jar \in [Devices -> Honest]
  /\ request \in [Tasks -> Request]
  /\ \A t \in Tasks : /\ request[t].cookie \in Honest /\ request[t].fresh \in Honest
                      /\ Persisting(t) => request[t].at = "rotate"
\* The inductive invariant.
ConsoleInv == KeyInv /\ AccessInv
-----------------------------------------------------------------------------
\* What the types say in numbers.
LEMMA Facts ==
  ASSUME KeysOK, KeyInv
  PROVE  /\ MaxKeys \in Nat /\ drawn \in Nat /\ drawn <= MaxKeys
         /\ Half = MaxKeys + 1 /\ None = 0
         /\ keyFile \in Nat /\ (keyFile <= drawn \/ keyFile = Half)
         /\ pendingFile \in Nat /\ (pendingFile <= drawn \/ pendingFile = Half)
         /\ current \in Nat /\ current <= drawn /\ done \in Nat /\ done <= drawn
         /\ writer \in [Writers -> Writing]
         /\ \A t \in Writers : /\ writer[t] \in Writing /\ writer[t].key \in Nat
                               /\ Persisting(t) => writer[t].key >= 1 /\ writer[t].key <= drawn
BY SMT DEF KeysOK, KeyInv, KeyTypes, Whose, Half, None, Writing

\* What an honest cookie is, spelt out.
LEMMA Honours ==
  ASSUME NEW c \in Honest
  PROVE  /\ c \in Cookie /\ c.key <= drawn /\ c.since <= drawn /\ c.key \in Nat
         /\ c.since \in Nat
         /\ c.key # None =>
             /\ keyFile # None /\ pendingFile # c.key
             /\ \A u \in Writers : Persisting(u) => writer[u].key # c.key
             /\ ~c.stray =>
                  /\ done > c.since => c.key \notin {current, keyFile}
                  /\ \A u \in Writers :
                       writer[u].at = "set" /\ writer[u].key > c.since => c.key # keyFile
BY DEF Honest, Cookie

\* A key is drawn and the pending file opened: by a log-out, or by the first
\* start (write_owner_only).
LEMMA OpenStep ==
  ASSUME KeysOK, KeyInv, NEW t \in Writers, NEW key, OpenPendingKey(t, key),
         \/ key = drawn + 1 /\ Serving /\ t # Boot
         \/ key = 1 /\ ~Serving /\ keyFile = None /\ t = Boot
  PROVE  KeyInv' /\ Honest \subseteq Honest'
<1> DEFINE w == [key |-> key, at |-> "write", file |-> "signing_key.tmp"]
<1>1. /\ key \in 1..MaxKeys /\ drawn' = key /\ pendingFile' = Half
      /\ keyFile' = keyFile /\ current' = current /\ done' = done
      /\ writer' = [writer EXCEPT ![t] = w]
      /\ overlapped' = (overlapped \/ \E u \in Writers : Persisting(u))
  BY DEF OpenPendingKey, Keys
<1>2. w \in Writing
  BY <1>1 DEF Writing, WriterSteps, Files, KeysOK
<1>3. /\ writer' \in [Writers -> Writing]
      /\ writer'[t] = w /\ \A u \in Writers : u # t => writer'[u] = writer[u]
  BY <1>1, <1>2 DEF KeyInv, KeyTypes
<1>4. /\ key \in Nat /\ key <= MaxKeys /\ key >= 1 /\ drawn <= key /\ drawn \in Nat
      /\ MaxKeys \in Nat
  BY <1>1 DEF KeyInv, KeyTypes, Whose, KeysOK
<1>5. /\ keyFile # key /\ current # key
      /\ \A u \in Writers : Persisting(u) => writer[u].key # key
  <2>1. CASE key = drawn + 1
    BY <2>1, <1>4, SMT DEF KeyInv, KeyTypes, Whose, Half
  <2>2. CASE ~Serving /\ keyFile = None /\ t = Boot
    <3>1. \A u \in Writers : ~Persisting(u)
      BY <2>2 DEF OpenPendingKey, KeyInv, Whose, Writers
    <3> QED
      BY <3>1, <2>2, <1>4, SMT DEF None, Serving
  <2> QED
    BY <2>1, <2>2
<1>6. KeyTypes'
  BY <1>1, <1>3, <1>4, SMT DEF KeyInv, KeyTypes, Half, KeysOK
<1> HIDE DEF w
<1>7. w.key = key /\ w.at = "write" /\ w.file = "signing_key.tmp"
  BY DEF w
<1>8. Whose'
  <2>1. Serving' <=> Serving
    BY <1>1 DEF Serving
  <2>2. /\ (Serving' => keyFile' # None)
        /\ (keyFile' = None => drawn' <= 1 /\ done' = 0)
    BY <1>1, <1>4, <2>1, SMT DEF KeyInv, Whose
  <2>3. \A u \in Writers : /\ Persisting(u)' => writer'[u].key \in 1..drawn'
                           /\ writer'[u].at = "set" => keyFile' # None
    <3> SUFFICES ASSUME NEW u \in Writers
                 PROVE  /\ Persisting(u)' => writer'[u].key \in 1..drawn'
                        /\ writer'[u].at = "set" => keyFile' # None
      OBVIOUS
    <3>1. CASE u = t
      BY <3>1, <1>1, <1>3, <1>4, <1>7
    <3>2. CASE u # t
      BY <3>2, <1>1, <1>3, <1>4 DEF KeyInv, Whose, Persisting
    <3> QED
      BY <3>1, <3>2
  <2>4. Serving' => ~Persisting(Boot)'
    BY <2>1, <1>3 DEF KeyInv, Whose, Persisting, Writers
  <2>5. \A u \in Tasks : Persisting(u)' => Serving'
    BY <2>1, <1>3 DEF KeyInv, Whose, Persisting, Writers, KeysOK
  <2> QED
    BY <2>2, <2>3, <2>4, <2>5 DEF Whose
<1>9. Alone'
  BY <1>1, <1>3, <1>7 DEF KeyInv, Alone, Persisting
<1>10. OneCopy'
  BY <1>1, <1>3, <1>4, <1>5, <1>7, SMT DEF KeyInv, KeyTypes, OneCopy, Whose,
     Persisting, Keys, Half
<1>11. NotAhead'
  BY <1>1, <1>3, <1>4, <1>5, <1>7, SMT DEF KeyInv, KeyTypes, NotAhead, Persisting,
     Serving, Half
<1>12. Staged'
  BY <1>1, <1>3, <1>7, Zenon DEF KeyInv, Staged, Persisting, Serving
<1>13. ASSUME NEW c \in Honest PROVE c \in Honest'
  <2>2. c.key # None => c.key # key
    BY Honours, <1>4, <1>1, <1>5 DEF Whose, KeyInv
  <2>3. c.key <= drawn' /\ c.since <= drawn' /\ Half # c.key
    BY Honours, <1>1, <1>4, SMT DEF Half, KeyInv, KeyTypes
  <2>4. \A u \in Writers : Persisting(u)' => u = t \/ Persisting(u)
    BY <1>3 DEF Persisting
  <2> QED
    BY Honours, <2>2, <2>3, <1>1, <1>3, <1>7, Zenon DEF Honest, Persisting
<1> QED BY <1>6, <1>8, <1>9, <1>10, <1>11, <1>12, <1>13 DEF KeyInv

\* The key is written to whatever the file that was opened now is.
LEMMA WriteStep ==
  ASSUME KeysOK, KeyInv, NEW t \in Writers, WritePendingKey(t)
  PROVE  KeyInv' /\ Honest \subseteq Honest'
<1> DEFINE w == [key |-> writer[t].key, at |-> "move", file |-> "none"]
<1>0. writer[t].at = "write" /\ Persisting(t)
  BY DEF WritePendingKey, Persisting
<1>1. /\ writer' = [writer EXCEPT ![t] = w]
      /\ drawn' = drawn /\ current' = current /\ done' = done
      /\ overlapped' = overlapped
      /\ \/ /\ writer[t].file = "signing_key.tmp"
            /\ pendingFile' = writer[t].key /\ keyFile' = keyFile
         \/ /\ writer[t].file = "signing_key"
            /\ pendingFile' = pendingFile /\ keyFile' = writer[t].key
         \/ /\ writer[t].file = "none"
            /\ pendingFile' = pendingFile /\ keyFile' = keyFile
  <2> QED
    BY Facts DEF WritePendingKey, Writing, Files
<1>2. w \in Writing
  BY Facts DEF Writing, WriterSteps, Files
<1>3. /\ writer' \in [Writers -> Writing]
      /\ writer'[t] = w /\ \A u \in Writers : u # t => writer'[u] = writer[u]
  BY <1>1, <1>2, Facts
<1> HIDE DEF w
<1>4. w.key = writer[t].key /\ w.at = "move" /\ w.file = "none"
  BY DEF w
<1>5. \A u \in Writers : Persisting(u)' => Persisting(u) /\ writer'[u].key = writer[u].key
  BY <1>0, <1>3, <1>4 DEF Persisting
<1>6. \A u \in Writers : writer'[u].at \in {"write", "set"} => u # t /\ writer'[u] = writer[u]
  BY <1>3, <1>4
<1>7. /\ writer[t].key >= 1 /\ writer[t].key <= drawn /\ writer[t].key \in Nat
      /\ writer[t].key # keyFile /\ writer[t].key # pendingFile
  BY <1>0, Facts DEF KeyInv, OneCopy
<1>8. KeyTypes'
  <2>1. MaxKeys + 1 = Half /\ Half' = Half
    BY DEF Half
  <2> QED
    BY <1>1, <1>3, <1>7, <2>1, SMT DEF KeyInv, KeyTypes
<1>9. Whose'
  <2>1. keyFile' = None => keyFile = None
    BY <1>1, <1>7, Facts
  <2>2. \A u \in Writers : /\ Persisting(u)' => writer'[u].key \in 1..drawn'
                           /\ writer'[u].at = "set" => keyFile' # None
    BY <2>1, <1>1, <1>5, <1>6 DEF KeyInv, Whose
  <2> QED
    BY <2>1, <2>2, <1>1, <1>5 DEF KeyInv, Whose, Serving, Writers
<1>10. Alone'
  BY <1>1, <1>5 DEF KeyInv, Alone
<1>11. OneCopy'
  <2>1. \A u, v \in Writers :
           u # v /\ Persisting(u)' /\ Persisting(v)' => writer'[u].key # writer'[v].key
    BY <1>5 DEF KeyInv, OneCopy
  <2>2. keyFile' \in Keys => pendingFile' # keyFile'
    BY <1>1, <1>7 DEF KeyInv, OneCopy
  <2>3. \A u \in Writers : u # t /\ Persisting(u) => writer[u].key # writer[t].key
    BY <1>0 DEF KeyInv, OneCopy
  <2>4. \A u \in Writers :
        /\ writer'[u].at = "write" => writer'[u].key \notin {keyFile', pendingFile'}
        /\ writer'[u].at = "set" => pendingFile' # writer'[u].key
    BY <1>1, <1>6, <2>3 DEF KeyInv, OneCopy, Persisting
  <2> QED
    BY <2>1, <2>2, <2>4 DEF OneCopy, Keys
<1>12. NotAhead'
  <2>1. Serving => writer[t].key # current /\ pendingFile' # current
    BY <1>0, <1>1 DEF KeyInv, NotAhead
  <2> QED
    BY <2>1, <1>1, <1>5 DEF KeyInv, NotAhead, Serving
<1>13. Staged'
  <2>1. CASE overlapped
    BY <2>1, <1>1 DEF Staged
  <2>2. CASE ~overlapped
    <3>1. \A u \in Writers : Persisting(u) => u = t
      BY <2>2, <1>0 DEF KeyInv, Alone
    <3>2. keyFile' = keyFile /\ pendingFile' = writer[t].key
      BY <2>2, <1>0, <1>1 DEF KeyInv, Staged
    <3>3. \A u \in Writers : writer'[u].at \notin {"write", "set"} /\ writer[u].at # "set"
      BY <3>1, <1>0, <1>6 DEF Persisting
    <3> QED
      BY <2>2, <3>1, <3>2, <3>3, <1>1, <1>3, <1>4, <1>5 DEF KeyInv, Staged, Serving,
         Half, Persisting
  <2> QED
    BY <2>1, <2>2
<1>14. ASSUME NEW c \in Honest PROVE c \in Honest'
  <2>1. c.key # None => writer[t].key # c.key
    BY <1>0, Honours
  <2>2. c.key # None => keyFile' # None /\ pendingFile' # c.key
    BY <2>1, <1>1, <1>7, Honours, Facts
  <2>3. c.key # None /\ c.key # keyFile => c.key # keyFile'
    BY <2>1, <1>1
  <2>4. \A u \in Writers : writer'[u].at = "set" =>
           writer[u].at = "set" /\ writer'[u].key = writer[u].key
    BY <1>6
  <2> QED
    BY <2>1, <2>2, <2>3, <2>4, <1>1, <1>5, Honours, Zenon DEF Honest
<1> QED
  BY <1>8, <1>9, <1>10, <1>11, <1>12, <1>13, <1>14 DEF KeyInv

\* The pending file becomes the key file (persist's rename).
LEMMA MoveStep ==
  ASSUME KeysOK, KeyInv, NEW t \in Writers, MovePending(t)
  PROVE  KeyInv' /\ Honest \subseteq Honest'
<1>0. writer[t].at = "move" /\ Persisting(t) /\ pendingFile # None
  BY DEF MovePending, Persisting
<1>1. /\ drawn' = drawn /\ current' = current /\ done' = done
      /\ overlapped' = overlapped
      /\ keyFile' = pendingFile /\ pendingFile' = None
  BY DEF MovePending
<1>2. /\ writer' \in [Writers -> Writing]
      /\ \A u \in Writers : writer'[u].key = writer[u].key
      /\ \A u \in Writers : u # t => writer'[u].at = writer[u].at
      /\ writer'[t].at = "set"
  <2> DEFINE file(u) == IF writer[u].file = "signing_key.tmp" THEN "signing_key" ELSE "none"
             renamed == [u \in Writers |-> [writer[u] EXCEPT !.file = file(u)]]
  <2>1. writer' = [renamed EXCEPT ![t].at = "set"]
    BY DEF MovePending
  <2>2. \A u \in Writers : 
           renamed[u] = [key |-> writer[u].key, at |-> writer[u].at, file |-> file(u)]
    BY Facts DEF Writing
  <2>3. \A u \in Writers : /\ writer[u].key \in 0..MaxKeys /\ writer[u].at \in WriterSteps
                           /\ file(u) \in Files
    BY Facts DEF Writing, Files
  <2>a. renamed = [u \in Writers |-> renamed[u]]
    OBVIOUS
  <2> HIDE DEF renamed, file
  <2>4. renamed \in [Writers -> Writing]
    BY <2>a, <2>2, <2>3 DEF Writing
  <2>5. ASSUME NEW u \in Writers
        PROVE  renamed[u].key = writer[u].key /\ renamed[u].at = writer[u].at
    <3>1. renamed[u] = [key |-> writer[u].key, at |-> writer[u].at, file |-> file(u)]
      BY <2>2
    <3> QED
      BY <3>1
  <2>6. writer' \in [Writers -> Writing]
    BY <2>1, <2>4 DEF Writing, WriterSteps
  <2>7. /\ writer'[t].at = "set" /\ writer'[t].key = renamed[t].key
        /\ \A u \in Writers : u # t => writer'[u] = renamed[u]
    BY <2>1, <2>4 DEF Writing, WriterSteps
  <2> QED
    BY <2>5, <2>6, <2>7
<1>3. \A u \in Writers : Persisting(u)' => Persisting(u)
  BY <1>0, <1>2 DEF Persisting
<1>4. \A u \in Writers : writer'[u].at = "write" => writer[u].at = "write"
  BY <1>2
<1>5. \A u \in Writers : Persisting(u) => writer[u].key # None
  BY Facts
<1>6. KeyTypes'
  <2>1. Half' = Half
    BY DEF Half
  <2> QED
    BY <1>1, <1>2, <2>1, Facts, SMT DEF KeyInv, KeyTypes
<1>7. Whose'
  BY <1>0, <1>1, <1>2, <1>3 DEF KeyInv, Whose, Serving, Writers
<1>8. Alone'
  BY <1>1, <1>3 DEF KeyInv, Alone
<1>9. OneCopy'
  <2>1. \A u, v \in Writers :
           u # v /\ Persisting(u)' /\ Persisting(v)' => writer'[u].key # writer'[v].key
    BY <1>2, <1>3 DEF KeyInv, OneCopy
  <2>2. keyFile' \in Keys => pendingFile' # keyFile'
    BY <1>0, <1>1
  <2>3. \A u \in Writers :
        /\ writer'[u].at = "write" => writer'[u].key \notin {keyFile', pendingFile'}
        /\ writer'[u].at = "set" => pendingFile' # writer'[u].key
    BY <1>1, <1>2, <1>3, <1>4, <1>5 DEF KeyInv, OneCopy, Persisting
  <2> QED
    BY <2>1, <2>2, <2>3 DEF OneCopy, Keys
<1>10. NotAhead'
  BY <1>1, <1>2, <1>3 DEF KeyInv, NotAhead, Serving
<1>11. Staged'
  <2>1. CASE overlapped
    BY <2>1, <1>1 DEF Staged
  <2>2. CASE ~overlapped
    <3>1. \A u \in Writers : Persisting(u) => u = t
      BY <2>2, <1>0 DEF KeyInv, Alone
    <3>2. keyFile' = writer[t].key
      BY <2>2, <1>0, <1>1 DEF KeyInv, Staged
    <3>3. keyFile' # Half
      <4>1. writer[t].key <= drawn /\ writer[t].key \in Nat
        BY <1>0, Facts
      <4>2. /\ drawn \in Nat /\ drawn <= MaxKeys /\ MaxKeys \in Nat
            /\ Half = MaxKeys + 1
        BY Facts
      <4> QED
        BY <3>2, <4>1, <4>2
    <3>4. \A u \in Writers : writer'[u].at \in {"write", "move", "set"} => u = t
      BY <3>1, <1>3 DEF Persisting
    <3> QED
      BY <3>2, <3>3, <3>4, <1>2 DEF Staged, Half
  <2> QED
    BY <2>1, <2>2
<1>12. ASSUME NEW c \in Honest PROVE c \in Honest'
  <2>1. c.key # None => pendingFile # c.key
    BY Honours
  <2>2. c.key # None =>
          /\ keyFile' # None /\ pendingFile' # c.key
          /\ c.key # keyFile'
          /\ \A u \in Writers : Persisting(u)' => writer'[u].key # c.key
    BY <2>1, <1>0, <1>1, <1>2, <1>3, Honours
  <2>3. c.key # None /\ ~c.stray => (done' > c.since => c.key \notin {current', keyFile'})
    BY <2>2, <1>1, Honours
  <2> QED
    BY <2>2, <2>3, <1>1, Honours, Zenon DEF Honest
<1> QED
  BY <1>6, <1>7, <1>8, <1>9, <1>10, <1>11, <1>12 DEF KeyInv

\* A key that cannot be persisted is not put in force.
LEMMA FailStep ==
  ASSUME KeysOK, KeyInv, NEW t \in Writers, PersistFails(t)
  PROVE  KeyInv' /\ Honest \subseteq Honest'
<1>0. writer[t].at \in {"move", "write"}
  BY DEF PersistFails
<1>1. /\ drawn' = drawn /\ current' = current /\ done' = done
      /\ overlapped' = overlapped
      /\ keyFile' = keyFile /\ pendingFile' = pendingFile
      /\ writer' = [writer EXCEPT ![t] = NoWriter]
  BY DEF PersistFails
<1>2. NoWriter \in Writing /\ NoWriter.at = "idle"
  BY Facts DEF NoWriter, Writing, WriterSteps, Files
<1>3. /\ writer' \in [Writers -> Writing]
      /\ writer'[t] = NoWriter /\ \A u \in Writers : u # t => writer'[u] = writer[u]
  BY <1>1, <1>2, Facts
<1>4. \A u \in Writers :
         writer'[u].at \in {"write", "move", "set"} \/ Persisting(u)' =>
           writer'[u] = writer[u] /\ Persisting(u)
  BY <1>2, <1>3 DEF Persisting
<1>5. KeyTypes'
  <2>1. Half' = Half
    BY DEF Half
  <2> QED
    BY <1>1, <1>3, <2>1, Facts, SMT DEF KeyInv, KeyTypes
<1>6. Whose'
  BY <1>1, <1>4 DEF KeyInv, Whose, Serving, Writers
<1>7. Alone'
  BY <1>1, <1>4 DEF KeyInv, Alone
<1>8. OneCopy'
  BY <1>1, <1>4, Zenon DEF KeyInv, OneCopy, Keys
<1>9. NotAhead'
  BY <1>1, <1>4 DEF KeyInv, NotAhead, Serving
<1>10. Staged'
  <2>1. (\A u \in Writers : writer'[u].at # "set") => \A u \in Writers : writer[u].at # "set"
    BY <1>0, <1>3
  <2> QED
    BY <2>1, <1>1, <1>4, Zenon DEF KeyInv, Staged, Serving, Half
<1>11. ASSUME NEW c \in Honest PROVE c \in Honest'
  BY <1>1, <1>4, Honours, Zenon DEF Honest
<1> QED
  BY <1>5, <1>6, <1>7, <1>8, <1>9, <1>10, <1>11 DEF KeyInv

\* The key that was persisted is put in force, and its rotation succeeded.
LEMMA SetStep ==
  ASSUME KeysOK, KeyInv, NEW t \in Writers, SetCurrent(t)
  PROVE  KeyInv' /\ Honest \subseteq Honest'
<1>0. writer[t].at = "set" /\ Persisting(t)
  BY DEF SetCurrent, Persisting
<1>1. /\ drawn' = drawn /\ overlapped' = overlapped /\ current' = writer[t].key
      /\ done' \in {done, writer[t].key}
      /\ keyFile' = keyFile /\ pendingFile' = pendingFile
      /\ writer' = [writer EXCEPT ![t] = NoWriter]
  BY DEF SetCurrent, Later
<1>2. NoWriter \in Writing /\ NoWriter.at = "idle"
  BY Facts DEF NoWriter, Writing, WriterSteps, Files
<1>3. /\ writer' \in [Writers -> Writing]
      /\ writer'[t] = NoWriter /\ \A u \in Writers : u # t => writer'[u] = writer[u]
  BY <1>1, <1>2, Facts
<1>4. \A u \in Writers :
         writer'[u].at \in {"write", "move", "set"} \/ Persisting(u)' =>
           u # t /\ writer'[u] = writer[u] /\ Persisting(u)
  BY <1>2, <1>3 DEF Persisting
<1>5. /\ keyFile # None /\ pendingFile # writer[t].key /\ writer[t].key # None
      /\ \A u \in Writers : u # t /\ Persisting(u) => writer[u].key # writer[t].key
  BY <1>0, Facts DEF KeyInv, Whose, OneCopy
<1>6. KeyTypes'
  <2>1. Half' = Half
    BY DEF Half
  <2>2. writer[t].key \in 0..drawn /\ done' \in 0..drawn
    BY <1>0, <1>1, Facts
  <2> QED
    BY <1>1, <1>3, <2>1, <2>2, Facts, SMT DEF KeyInv, KeyTypes
<1>7. Whose'
  <2>1. ~Persisting(Boot)'
    <3>1. CASE t = Boot
      BY <3>1, <1>2, <1>3 DEF Persisting, Writers
    <3>2. CASE t # Boot
      BY <3>2, <1>0, <1>4 DEF KeyInv, Whose, Writers
    <3> QED
      BY <3>1, <3>2
  <2>2. Serving'
    BY <1>1, <1>5 DEF Serving, None
  <2> QED
    BY <2>1, <2>2, <1>1, <1>4, <1>5 DEF KeyInv, Whose, Writers
<1>8. Alone'
  BY <1>1, <1>4 DEF KeyInv, Alone
<1>9. OneCopy'
  BY <1>1, <1>4, Zenon DEF KeyInv, OneCopy, Keys
<1>10. NotAhead'
  BY <1>1, <1>4, <1>5 DEF KeyInv, NotAhead, Serving
<1>11. Staged'
  <2>1. ~overlapped => keyFile = writer[t].key
    BY <1>0 DEF KeyInv, Staged
  <2> QED
    BY <2>1, <1>1, <1>4, Zenon DEF KeyInv, Staged, Half
<1>12. ASSUME NEW c \in Honest PROVE c \in Honest'
  <2>1. c.key # None => writer[t].key # c.key
    BY <1>0, Honours
  <2>2. c.key # None /\ ~c.stray /\ done' > c.since => c.key \notin {current', keyFile'}
    <3>1. CASE done' = done
      BY <3>1, <2>1, <1>1, Honours
    <3>2. CASE done' = writer[t].key
      BY <3>2, <2>1, <1>0, <1>1, Honours
    <3> QED
      BY <3>1, <3>2, <1>1
  <2> QED
    BY <2>2, <1>1, <1>4, Honours, Zenon DEF Honest
<1> QED
  BY <1>6, <1>7, <1>8, <1>9, <1>10, <1>11, <1>12 DEF KeyInv

\* The core starts on the key it finds (open).
LEMMA AdoptStep ==
  ASSUME KeysOK, KeyInv, Adopt
  PROVE  KeyInv' /\ Honest \subseteq Honest'
<1>0. /\ ~Serving /\ keyFile # None
      /\ \A u \in Writers : ~Persisting(u)
  BY DEF Adopt, KeyInv, Whose, Writers
<1>1. /\ drawn' = drawn /\ overlapped' = overlapped /\ done' = done
      /\ writer' = writer
      /\ keyFile' = keyFile /\ pendingFile' = pendingFile
      /\ current' = IF keyFile = Half THEN None ELSE keyFile
  BY DEF Adopt
<1>2. keyFile # Half => keyFile \in Keys
  BY <1>0, Facts DEF Keys
<1>3. \A u \in Writers : ~Persisting(u)' /\ writer[u].at \notin {"write", "move", "set"}
  BY <1>0, <1>1 DEF Persisting
<1>4. KeyTypes'
  <2>1. Half' = Half
    BY DEF Half
  <2> QED
    BY <1>1, <2>1, Facts, SMT DEF KeyInv, KeyTypes
<1>5. Whose'
  BY <1>0, <1>1, <1>3 DEF KeyInv, Whose, Writers
<1>6. Alone' /\ OneCopy'
  BY <1>1, <1>3, Zenon DEF KeyInv, Alone, OneCopy, Keys, Persisting
<1>7. NotAhead'
  BY <1>1, <1>2, <1>3 DEF KeyInv, NotAhead, OneCopy, Serving
<1>8. Staged'
  BY <1>1, <1>3 DEF KeyInv, Staged, Half, Serving
<1>9. ASSUME NEW c \in Honest PROVE c \in Honest'
  BY <1>1, <1>3, Honours, Zenon DEF Honest
<1> QED
  BY <1>4, <1>5, <1>6, <1>7, <1>8, <1>9 DEF KeyInv

\* A crash leaves the files as they are.
LEMMA KeyCrashStep ==
  ASSUME KeysOK, KeyInv, CrashKeys
  PROVE  KeyInv' /\ Honest \subseteq Honest'
<1>1. /\ drawn' = drawn /\ overlapped' = overlapped /\ done' = done
      /\ current' = None
      /\ keyFile' = keyFile /\ pendingFile' = pendingFile
      /\ writer' = [t \in Writers |-> NoWriter]
  BY DEF CrashKeys
<1>2. NoWriter \in Writing /\ NoWriter.at = "idle"
  BY Facts DEF NoWriter, Writing, WriterSteps, Files
<1>3. \A u \in Writers : ~Persisting(u)' /\ writer'[u].at = "idle"
  BY <1>1, <1>2 DEF Persisting
<1>4. KeyTypes'
  <2>1. Half' = Half
    BY DEF Half
  <2> QED
    BY <1>1, <1>2, <2>1, Facts, SMT DEF KeyInv, KeyTypes
<1>5. Whose'
  BY <1>1, <1>3 DEF KeyInv, Whose, Writers, Serving
<1>6. Alone' /\ OneCopy'
  BY <1>1, <1>3, Zenon DEF KeyInv, Alone, OneCopy, Keys, Persisting
<1>7. NotAhead' /\ Staged'
  BY <1>1, <1>3, Facts DEF KeyInv, NotAhead, Staged, Serving, Half
<1>8. ASSUME NEW c \in Honest PROVE c \in Honest'
  BY <1>1, <1>3, Honours, Zenon DEF Honest
<1> QED
  BY <1>4, <1>5, <1>6, <1>7, <1>8 DEF KeyInv

\* What leaves the keys alone leaves what is said of them alone.
LEMMA SameKeys ==
  ASSUME UNCHANGED keyVars, KeyInv
  PROVE  /\ KeyInv' /\ Honest' = Honest
         /\ Serving' = Serving /\ \A t \in Writers : Persisting(t)' = Persisting(t)
BY DEF keyVars, KeyInv, KeyTypes, Whose, Alone, OneCopy, NotAhead, Staged, Honest,
       Serving, Persisting, Half

\* No cookie at all is an honest one.
LEMMA NoCookieHonest ==
  ASSUME KeysOK, KeyInv
  PROVE  /\ NoCookie \in Honest /\ Idle \in Request /\ Idle.at = "idle"
         /\ Idle.cookie = NoCookie /\ Idle.fresh = NoCookie
<1>1. NoCookie \in Cookie /\ NoCookie.key = None /\ NoCookie.since = 0 /\ None = 0
  BY DEF NoCookie, Cookie, None
<1>2. NoCookie \in Honest
  BY <1>1, Facts DEF Honest
<1>3. Idle \in Request
  BY <1>1 DEF Idle, Request, Waits
<1> QED
  BY <1>2, <1>3 DEF Idle

\* A request that moves on while the keys stand still.
LEMMA RequestMoves ==
  ASSUME KeysOK, ConsoleInv, NEW t \in Tasks, NEW r \in Request,
         UNCHANGED keyVars, request' = [request EXCEPT ![t] = r],
         jar' \in [Devices -> Honest],
         r.cookie \in Honest, r.fresh \in Honest, ~Persisting(t)
  PROVE  ConsoleInv'
<1>1. /\ KeyInv' /\ Honest' = Honest
      /\ \A u \in Writers : Persisting(u)' = Persisting(u)
  BY SameKeys DEF ConsoleInv
<1>2. request' \in [Tasks -> Request] /\ request'[t] = r
      /\ \A u \in Tasks : u # t => request'[u] = request[u]
  BY DEF ConsoleInv, AccessInv
<1>3. \A u \in Tasks : u \in Writers
  BY DEF Writers
<1> QED
  BY <1>1, <1>2, <1>3 DEF ConsoleInv, AccessInv

\* Only a log-out that rotates persists a key.
LEMMA Elsewhere ==
  ASSUME ConsoleInv, NEW t \in Tasks, request[t].at # "rotate"
  PROVE  ~Persisting(t)
BY DEF ConsoleInv, AccessInv

\* A request and the cookies it carries, from the invariant.
LEMMA Requests ==
  ASSUME ConsoleInv, NEW t \in Tasks
  PROVE  request \in [Tasks -> Request] /\ request[t] \in Request
         /\ request[t].cookie \in Honest /\ request[t].fresh \in Honest
         /\ jar \in [Devices -> Honest]
BY DEF ConsoleInv, AccessInv

\* A request that goes on is a request with the cookies it had.
LEMMA Records ==
  ASSUME NEW r \in Request
  PROVE  /\ \A s \in Waits : LET q == [r EXCEPT !.at = s]
                IN q \in Request /\ q.at = s /\ q.cookie = r.cookie /\ q.fresh = r.fresh
         /\ r.at \in Waits /\ r.device \in Devices \cup {"none"}
BY DEF Request

\* A request that is answered is a request, with the cookie it is to set.
LEMMA AnsweringOk ==
  ASSUME KeysOK, ConsoleInv, NEW t \in Tasks, NEW step \in Waits, NEW c \in Honest
  PROVE  LET r == Answering(step, request[t].device, c)
         IN  r \in Request /\ r.cookie = NoCookie /\ r.fresh = c /\ NoCookie \in Honest
<1>1. NoCookie \in Honest /\ c \in Cookie /\ NoCookie \in Cookie
  BY NoCookieHonest DEF ConsoleInv, Honest
<1>2. request[t].device \in Devices \cup {"none"}
  BY Requests, Records
<1> QED
  BY <1>1, <1>2 DEF Answering, Request

\* require_session goes on to the handler.
LEMMA ProceedStep ==
  ASSUME KeysOK, ConsoleInv, NEW t \in Tasks, NEW c \in Honest, Proceed(t, c), ~Persisting(t),
         UNCHANGED <<keyVars, jar>>
  PROVE  ConsoleInv'
<1> DEFINE step == IF request[t].visit = "logout" THEN "log_out" ELSE "respond"
           r == Answering(step, request[t].device, c)
<1>1. request' = [request EXCEPT ![t] = r]
  BY Requests DEF Proceed
<1>2. step \in Waits
  BY DEF Waits
<1> HIDE DEF step
<1>3. r \in Request /\ r.cookie = NoCookie /\ r.fresh = c /\ NoCookie \in Honest
  BY <1>2, AnsweringOk
<1> HIDE DEF r
<1> QED
  BY <1>1, <1>3, RequestMoves, Requests

\* A request arrives with the cookie its device keeps.
LEMMA ArriveStep ==
  ASSUME KeysOK, ConsoleInv, NEW t \in Tasks, NEW d \in Devices, Arrive(t, d)
  PROVE  ConsoleInv'
<1>1. PICK visit \in Visits, now \in 0..MaxNow : request' = [request EXCEPT ![t] =
          [at |-> IF visit = "login" THEN "locked" ELSE "session",
           visit |-> IF visit = "logout" THEN visit ELSE "none", device |-> d,
           cookie |-> IF visit = "login" THEN NoCookie ELSE jar[d],
           fresh |-> NoCookie, now |-> IF visit = "login" THEN now ELSE 0]]
  BY DEF Arrive
<1> DEFINE cookie == IF visit = "login" THEN NoCookie ELSE jar[d]
           r == [at |-> IF visit = "login" THEN "locked" ELSE "session",
                 visit |-> IF visit = "logout" THEN visit ELSE "none",
                 device |-> d, cookie |-> cookie, fresh |-> NoCookie,
                 now |-> IF visit = "login" THEN now ELSE 0]
<1>2. request' = [request EXCEPT ![t] = r]
  BY <1>1
<1>3. /\ NoCookie \in Honest /\ cookie \in Honest /\ cookie \in Cookie
      /\ NoCookie \in Cookie
  BY NoCookieHonest, Requests DEF ConsoleInv, Honest
<1>4. r \in Request /\ r.cookie = cookie /\ r.fresh = NoCookie
  <2> HIDE DEF cookie
  <2> QED
    BY <1>3 DEF Request, Waits
<1>5. ~Persisting(t)
  BY Elsewhere DEF Arrive, AtStep
<1> HIDE DEF r, cookie
<1> QED
  BY <1>2, <1>3, <1>4, <1>5, RequestMoves, Requests DEF Arrive

\* A request goes on by a step.
LEMMA ToStep ==
  ASSUME KeysOK, ConsoleInv, NEW t \in Tasks, NEW step \in Waits, GoOn(t, step), ~Persisting(t),
         UNCHANGED <<keyVars, jar>>
  PROVE  ConsoleInv'
<1> DEFINE r == [request[t] EXCEPT !.at = step]
<1>1. r \in Request /\ r.cookie = request[t].cookie /\ r.fresh = request[t].fresh
  BY Records, Requests
<1>2. request' = [request EXCEPT ![t] = r]
  BY Requests DEF GoOn
<1> HIDE DEF r
<1> QED
  BY <1>1, <1>2, RequestMoves, Requests

\* A request is over.
LEMMA IdleStep ==
  ASSUME KeysOK, ConsoleInv, NEW t \in Tasks, request' = [request EXCEPT ![t] = Idle], ~Persisting(t),
         UNCHANGED keyVars, jar' \in [Devices -> Honest]
  PROVE  ConsoleInv'
BY NoCookieHonest, RequestMoves DEF ConsoleInv

\* require_session's first look at the key.
LEMMA RecogniseStep ==
  ASSUME KeysOK, ConsoleInv, NEW t \in Tasks, Recognise(t)
  PROVE  ConsoleInv'
<1>1. ~Persisting(t)
  BY Elsewhere DEF Recognise, AtStep
<1>2. \/ GoOn(t, "issue") \/ Proceed(t, NoCookie) \/ request' = [request EXCEPT ![t] = Idle]
  BY DEF Recognise
<1>3. /\ UNCHANGED <<keyVars, jar>> /\ jar' \in [Devices -> Honest]
      /\ "issue" \in Waits /\ NoCookie \in Honest
  BY Requests, NoCookieHonest DEF Recognise, Waits, ConsoleInv
<1> QED
  BY <1>1, <1>2, <1>3, ToStep, ProceedStep, IdleStep

\* Its second: a cookie that is refreshed under another key strays, and one
\* that does not stray is the one that was just verified (issue_cookie).
LEMMA IssueStep ==
  ASSUME KeysOK, ConsoleInv, NEW t \in Tasks, IssueRefreshed(t)
  PROVE  ConsoleInv'
<1> DEFINE c == request[t].cookie
           f == [key |-> current, since |-> c.since, stray |-> c.stray \/ c.key # current]
<1>1. ~Persisting(t) /\ Serving /\ UNCHANGED <<keyVars, jar>>
  BY Elsewhere DEF IssueRefreshed, AtStep
<1>2. c \in Honest /\ c \in Cookie
  BY Requests DEF Honest
<1>3. Refreshed(c) = f
  BY DEF Refreshed
<1>4. f \in Honest
  <2>1. /\ f \in Cookie /\ f.key = current /\ f.since = c.since
        /\ f.stray = (c.stray \/ c.key # current)
        /\ current <= drawn /\ c.since <= drawn
    BY <1>2, Facts, Honours DEF Cookie, ConsoleInv
  <2>2. /\ keyFile # None /\ pendingFile # current
        /\ \A u \in Writers : Persisting(u) => writer[u].key # current
    BY <1>1 DEF ConsoleInv, KeyInv, NotAhead, Whose
  <2>3. ~f.stray /\ f.key # None => c.key = current /\ ~c.stray /\ c.key # None
    BY <2>1
  <2>4. c.key = current /\ ~c.stray /\ c.key # None =>
            /\ done > c.since => current \notin {current, keyFile}
            /\ \A u \in Writers :
                 writer[u].at = "set" /\ writer[u].key > c.since => current # keyFile
    BY <1>2, Honours
  <2> HIDE DEF f, c
  <2> QED
    BY <2>1, <2>2, <2>3, <2>4, Zenon DEF Honest
<1> HIDE DEF f
<1> QED
  BY <1>1, <1>3, <1>4, ProceedStep DEF IssueRefreshed

\* A sign-in comes after every rotation that has succeeded (submit_login).
LEMMA GrantStep ==
  ASSUME KeysOK, ConsoleInv, NEW t \in Tasks, Grant(t)
  PROVE  ConsoleInv'
<1> DEFINE f == [key |-> current, since |-> drawn, stray |-> FALSE]
           r == Answering("respond", request[t].device, f)
<1>1. ~Persisting(t) /\ Serving /\ UNCHANGED <<keyVars, jar>>
  BY Elsewhere DEF Grant, AtStep
<1>2. request' = [request EXCEPT ![t] = r]
  BY Requests DEF Grant
<1>3. f \in Honest /\ f \in Cookie
  <2>1. /\ f \in Cookie /\ f.key = current /\ f.since = drawn /\ current <= drawn
        /\ drawn <= drawn /\ ~(done > drawn)
    BY Facts DEF Cookie, ConsoleInv
  <2>2. /\ keyFile # None /\ pendingFile # current
        /\ \A u \in Writers : Persisting(u) => writer[u].key # current
    BY <1>1 DEF ConsoleInv, KeyInv, NotAhead, Whose
  <2>3. \A u \in Writers : writer[u].at = "set" => ~(writer[u].key > drawn)
    <3>1. \A u \in Writers : writer[u].at = "set" => writer[u].key <= drawn /\ writer[u].key \in Nat
      BY Facts DEF ConsoleInv, Persisting
    <3> QED
      BY <3>1, Facts DEF ConsoleInv
  <2> HIDE DEF f
  <2> QED
    BY <2>1, <2>2, <2>3, Zenon DEF Honest
<1> HIDE DEF f
<1>4. "respond" \in Waits
  BY DEF Waits
<1>5. r \in Request /\ r.cookie = NoCookie /\ r.fresh = f /\ NoCookie \in Honest
  BY <1>3, <1>4, AnsweringOk
<1> HIDE DEF r
<1> QED
  BY <1>1, <1>2, <1>3, <1>5, RequestMoves, Requests

\* The device keeps what the response sets.
LEMMA RespondStep ==
  ASSUME KeysOK, ConsoleInv, NEW t \in Tasks, Respond(t)
  PROVE  ConsoleInv'
<1>1. ~Persisting(t) /\ UNCHANGED keyVars
  BY Elsewhere DEF Respond, AtStep
<1>2. jar' \in [Devices -> Honest]
  BY Requests DEF Respond
<1> QED
  BY <1>1, <1>2, IdleStep DEF Respond

\* logout_all begins its rotation.
LEMMA LogOutStep ==
  ASSUME KeysOK, ConsoleInv, NEW t \in Tasks, LogOut(t)
  PROVE  ConsoleInv'
<1>1. t \in Writers /\ t # Boot /\ Serving
  BY DEF KeysOK, Writers, LogOut, AtStep
<1>2. KeyInv' /\ Honest \subseteq Honest'
  BY <1>1, OpenStep DEF LogOut, ConsoleInv
<1> DEFINE r == [request[t] EXCEPT !.at = "rotate"]
<1>3. /\ r \in Request /\ r.cookie = request[t].cookie /\ r.fresh = request[t].fresh
      /\ r.at = "rotate"
  BY Records, Requests DEF Request, Waits
<1>4. request' = [request EXCEPT ![t] = r]
  BY Requests DEF GoOn, LogOut
<1>5. \A u \in Tasks : u # t => (Persisting(u)' => Persisting(u))
  BY DEF LogOut, OpenPendingKey, Persisting, ConsoleInv, KeyInv, KeyTypes, Writers
<1> HIDE DEF r
<1>6. /\ request' \in [Tasks -> Request] /\ request'[t] = r
      /\ \A u \in Tasks : u # t => request'[u] = request[u]
  BY <1>3, <1>4, Requests
<1>7. jar' \in [Devices -> Honest']
  BY <1>2, Requests DEF LogOut
<1> QED
  BY <1>2, <1>3, <1>5, <1>6, <1>7 DEF ConsoleInv, AccessInv

\* rotate_key, a step of it.
LEMMA RotateStep ==
  ASSUME KeysOK, ConsoleInv, NEW t \in Tasks, Rotate(t)
  PROVE  ConsoleInv'
<1>1. t \in Writers /\ t # Boot /\ jar' = jar /\ request[t].at = "rotate"
  BY DEF KeysOK, Writers, Rotate, AtStep
<1>2. KeyInv' /\ Honest \subseteq Honest'
  BY <1>1, WriteStep, MoveStep, FailStep, SetStep DEF Rotate, ConsoleInv
<1>3. jar' \in [Devices -> Honest']
  BY <1>1, <1>2, Requests
<1>4. CASE (WritePendingKey(t) \/ MovePending(t)) /\ UNCHANGED request
  <2>1. \A u \in Tasks : u # t => (Persisting(u)' => Persisting(u))
    <3>1. CASE WritePendingKey(t)
      BY <3>1 DEF WritePendingKey, Persisting, ConsoleInv, KeyInv, KeyTypes, Writers
    <3>2. CASE MovePending(t)
      <4>1. ASSUME NEW u \in Tasks, u # t PROVE writer'[u].at = writer[u].at
        <5>1. writer[u] \in Writing /\ u \in Writers
          BY DEF ConsoleInv, KeyInv, KeyTypes, Writers
        <5> QED
          BY <3>2, <4>1, <5>1 DEF MovePending, Writing
      <4> QED
        BY <4>1 DEF Persisting
    <3> QED
      BY <1>4, <3>1, <3>2
  <2> QED
    BY <1>1, <1>2, <1>3, <1>4, <2>1 DEF ConsoleInv, AccessInv
<1>5. CASE (PersistFails(t) \/ SetCurrent(t)) /\ GoOn(t, "respond")
  <2>1. writer' = [writer EXCEPT ![t] = NoWriter]
    BY <1>5 DEF PersistFails, SetCurrent
  <2>2. \A u \in Tasks : Persisting(u)' => u # t /\ Persisting(u)
    BY <2>1 DEF Persisting, NoWriter, ConsoleInv, KeyInv, KeyTypes, Writers
  <2> DEFINE r == [request[t] EXCEPT !.at = "respond"]
  <2>3. r \in Request /\ r.cookie = request[t].cookie /\ r.fresh = request[t].fresh
    BY Records, Requests DEF Waits
  <2>4. request' = [request EXCEPT ![t] = r]
    BY <1>5, Requests DEF GoOn
  <2> HIDE DEF r
  <2>5. /\ request' \in [Tasks -> Request] /\ request'[t] = r
        /\ \A u \in Tasks : u # t => request'[u] = request[u]
    BY <2>3, <2>4, Requests
  <2> QED
    BY <1>2, <1>3, <2>2, <2>3, <2>5 DEF ConsoleInv, AccessInv
<1> QED
  BY <1>4, <1>5 DEF Rotate

\* A crash: no request survives, every cookie in a jar does.
LEMMA CrashesStep ==
  ASSUME KeysOK, ConsoleInv, CoreCrash
  PROVE  ConsoleInv'
<1>1. KeyInv' /\ Honest \subseteq Honest' /\ NoCookie \in Honest
  BY KeyCrashStep, NoCookieHonest DEF CoreCrash, ConsoleInv
<1>2. request' = [t \in Tasks |-> Idle] /\ jar' \in [Devices -> Honest']
  BY <1>1 DEF CoreCrash, ConsoleInv, AccessInv
<1>3. \A t \in Tasks : ~Persisting(t)'
  BY DEF CoreCrash, CrashKeys, Persisting, NoWriter, Writers
<1> QED
  BY <1>1, <1>2, <1>3, NoCookieHonest DEF ConsoleInv, AccessInv

\* Keystore::open, a step of it.
LEMMA StartStep ==
  ASSUME KeysOK, ConsoleInv, Start
  PROVE  ConsoleInv'
<1>1. Boot \in Writers
  BY DEF Writers
<1>2. KeyInv' /\ Honest \subseteq Honest'
  BY <1>1, OpenStep, WriteStep, MoveStep, FailStep, SetStep, AdoptStep
     DEF Start, OpenStore, FirstKey, ConsoleInv
<1>3. \A u \in Tasks : Persisting(u)' => Persisting(u)
  <2> SUFFICES ASSUME NEW u \in Tasks PROVE writer'[u].at = writer[u].at
    BY DEF Persisting
  <2>1. u # Boot /\ u \in Writers /\ writer[u] \in Writing
    BY DEF KeysOK, Writers, ConsoleInv, KeyInv, KeyTypes
  <2>2. CASE MovePending(Boot)
    BY <2>1, <2>2 DEF MovePending, Writing
  <2>3. CASE Adopt \/ FirstKey \/ WritePendingKey(Boot) \/ PersistFails(Boot) \/ SetCurrent(Boot)
    BY <2>1, <2>3 DEF Adopt, FirstKey, OpenPendingKey, WritePendingKey, PersistFails,
       SetCurrent, ConsoleInv, KeyInv, KeyTypes
  <2> QED
    BY <2>2, <2>3 DEF Start, OpenStore
<1> QED
  BY <1>2, <1>3 DEF Start, ConsoleInv, AccessInv, sessionVars

\* A dataset without a key, and nobody signed in.
LEMMA AccessInitInv == ASSUME KeysOK, AccessInit PROVE ConsoleInv
<1>1. KeyTypes
  <2>1. NoWriter \in Writing
    BY DEF NoWriter, Writing, WriterSteps, Files, None, KeysOK
  <2>2. writer \in [Writers -> Writing]
    BY <2>1 DEF AccessInit, InitKeys
  <2>3. /\ keyFile = 0 /\ pendingFile = 0 /\ current = 0 /\ drawn = 0 /\ done = 0
        /\ overlapped = FALSE /\ MaxKeys \in Nat
    BY DEF AccessInit, InitKeys, None, KeysOK
  <2>4. 0 \in 0..drawn /\ drawn \in 0..MaxKeys /\ 0 <= drawn /\ 0 \in Nat
    BY <2>3
  <2> QED
    BY <2>2, <2>3, <2>4, Zenon DEF KeyTypes
<1>2. \A t \in Writers : ~Persisting(t) /\ writer[t].at = "idle"
  BY DEF AccessInit, InitKeys, NoWriter, Persisting
<1>3. Whose /\ Alone /\ OneCopy /\ NotAhead /\ Staged
  BY <1>2 DEF AccessInit, InitKeys, Whose, Alone, OneCopy, NotAhead, Staged, Serving,
     None, Keys, Half, Writers, KeysOK
<1>4. KeyInv
  BY <1>1, <1>3 DEF KeyInv
<1> QED
  BY <1>2, <1>4, NoCookieHonest DEF AccessInit, ConsoleInv, AccessInv, Writers

\* Every step keeps the invariant.
LEMMA AccessStepInv == ASSUME KeysOK, ConsoleInv, [AccessNext]_accessVars PROVE ConsoleInv'
<1>1. ASSUME UNCHANGED accessVars PROVE ConsoleInv'
  BY <1>1, SameKeys DEF ConsoleInv, AccessInv, accessVars, sessionVars, Writers
<1>2. ASSUME NEW t \in Tasks, NEW d \in Devices, Arrive(t, d) PROVE ConsoleInv'
  BY <1>2, ArriveStep
<1>3. ASSUME NEW t \in Tasks, HangUp(t) PROVE ConsoleInv'
  BY <1>3, IdleStep, Elsewhere, Requests DEF HangUp
<1>4. ASSUME NEW t \in Tasks, AskLock(t) PROVE ConsoleInv'
  <2>1. ~Persisting(t) /\ "weigh" \in Waits
    BY <1>4, Elsewhere DEF AskLock, AtStep, Waits
  <2> QED
    BY <1>4, <2>1, IdleStep, ToStep, Requests DEF AskLock
<1>5. ASSUME NEW t \in Tasks, RefuseLogin(t) PROVE ConsoleInv'
  <2>1. ~Persisting(t)
    BY <1>5, Elsewhere DEF RefuseLogin, AtStep
  <2> QED
    BY <1>5, <2>1, IdleStep, Requests DEF RefuseLogin
<1>6. ASSUME NEW d \in Devices, Expire(d) PROVE ConsoleInv'
  <2>1. jar' \in [Devices -> Honest]
    BY <1>6, NoCookieHonest DEF Expire, ConsoleInv, AccessInv
  <2> QED
    BY <1>6, <2>1, SameKeys DEF Expire, ConsoleInv, AccessInv, Writers
<1> QED
  BY <1>1, <1>2, <1>3, <1>4, <1>5, <1>6, RecogniseStep, IssueStep, GrantStep,
     RespondStep,
     LogOutStep, RotateStep, CrashesStep, StartStep DEF AccessNext

\* Whatever visitors do, whatever fails and whenever the core is killed, the
\* keys and cookies are as the invariant says.
THEOREM AccessInvariant == ASSUME KeysOK PROVE AccessSpec => []ConsoleInv
<1>1. AccessInit => ConsoleInv
  BY AccessInitInv
<1>2. ConsoleInv /\ [AccessNext]_accessVars => ConsoleInv'
  BY AccessStepInv
<1> QED
  BY <1>1, <1>2, PTL DEF AccessSpec

\* The key on disk is a whole one and, between rotations, the one in force, so
\* that a restart logs nobody out: for any number of requests, keys and crashes,
\* unless two rotations ran at once (Keystore::rotate, persist).
THEOREM KeyAlwaysStands == ASSUME KeysOK PROVE AccessSpec => []KeyStands
<1>1. ConsoleInv => KeyStands
  BY DEF ConsoleInv, KeyInv, Staged, KeyStands, Persisting
<1> QED
  BY <1>1, AccessInvariant, PTL

\* Logging out everywhere does: once a rotation succeeded, no cookie of a
\* sign-in before it is accepted, on any device and across restarts, but for
\* one that strayed (rotate_key, verify, require_session).
THEOREM EverybodyIsOut == ASSUME KeysOK PROVE AccessSpec => []LoggedOutEverywhere
<1>1. ConsoleInv => LoggedOutEverywhere
  <2> SUFFICES ASSUME ConsoleInv, NEW c \in Cookies, c.key # None, c.key = current
               PROVE  c.stray \/ done <= c.since
    BY DEF LoggedOutEverywhere
  <2>1. c \in Honest
    BY DEF Cookies, ConsoleInv, AccessInv
  <2>2. c.stray \/ ~(done > c.since)
    BY <2>1, Honours
  <2> QED
    BY <2>1, <2>2, Honours, Facts DEF ConsoleInv
<1> QED
  BY <1>1, AccessInvariant, PTL

-----------------------------------------------------------------------------
(***************************************************************************)
(* The login backoff: each further failure extends the lockout.            *)
(***************************************************************************)

\* A set with zero and with the successor of each of its elements has every
\* number in it.
LEMMA NumbersInduct ==
  ASSUME NEW T, 0 \in T, \A n \in Nat : n \in T => n + 1 \in T
  PROVE  \A n \in Nat : n \in T
<1>1. SUFFICES ASSUME Nat \ T # {} PROVE FALSE
  OBVIOUS
<1>2. PICK n \in Nat \ T : \A m \in Nat \ T : ~ (<<m, n>> \in OpToRel(<, Nat))
  <2>1. Nat \ T \subseteq Nat
    OBVIOUS
  <2> QED
    BY <1>1, <2>1, NatLessThanWellFounded, WFMin, Zenon
<1>3. n # 0 /\ n - 1 \in Nat /\ (n - 1) + 1 = n /\ <<n - 1, n>> \in OpToRel(<, Nat)
  BY <1>2 DEF OpToRel
<1>4. n - 1 \in T
  BY <1>2, <1>3, Zenon
<1> QED
  BY <1>2, <1>3, <1>4

\* As far as some number, a shift is a table.
ShiftsTo(w, n) == w = [k \in 0..n |-> IF k = 0 THEN 1 ELSE 2 * w[k - 1]]

LEMMA ShiftsExist == \A n \in Nat : \E w : ShiftsTo(w, n)
<1> DEFINE T == {n \in Nat : \E w : ShiftsTo(w, n)}
<1>1. 0 \in T
  <2>1. 0..0 = {0}
    OBVIOUS
  <2>2. ShiftsTo([k \in 0..0 |-> 1], 0)
    BY <2>1 DEF ShiftsTo
  <2> QED
    BY <2>2
<1>2. ASSUME NEW n \in Nat, n \in T PROVE n + 1 \in T
  <2>1. PICK w : ShiftsTo(w, n)
    BY <1>2
  <2> DEFINE v == [k \in 0..(n + 1) |-> IF k = 0 THEN 1 ELSE 2 * w[k - 1]]
  <2>2. \A k \in 0..n : w[k] = IF k = 0 THEN 1 ELSE 2 * w[k - 1]
    BY <2>1 DEF ShiftsTo
  <2>3. \A k \in 0..n : v[k] = w[k]
    BY <2>2
  <2>4. \A k \in 0..(n + 1) : k # 0 => v[k] = 2 * v[k - 1]
    <3> SUFFICES ASSUME NEW k \in 0..(n + 1), k # 0 PROVE v[k] = 2 * v[k - 1]
      OBVIOUS
    <3>1. v[k] = 2 * w[k - 1]
      OBVIOUS
    <3> HIDE DEF v
    <3>2. k - 1 \in 0..n
      OBVIOUS
    <3>3. v[k - 1] = w[k - 1]
      BY <2>3, <3>2, Zenon
    <3> QED
      BY <3>1, <3>3, Zenon
  <2>5. v[0] = 1 /\ v = [k \in 0..(n + 1) |-> v[k]]
    OBVIOUS
  <2> HIDE DEF v
  <2>6. ShiftsTo(v, n + 1)
    BY <2>4, <2>5 DEF ShiftsTo
  <2> QED
    BY <2>6
<1> HIDE DEF T
<1>3. \A n \in Nat : n \in T
  BY <1>1, <1>2, NumbersInduct
<1> QED
  BY <1>3 DEF T

LEMMA ShiftsAlike ==
  ASSUME NEW n \in Nat, NEW w, ShiftsTo(w, n), NEW v, ShiftsTo(v, n + 1)
  PROVE  \A k \in 0..n : w[k] = v[k]
<1> DEFINE T == {k \in Nat : k <= n => w[k] = v[k]}
<1>1. /\ \A k \in 0..n : w[k] = IF k = 0 THEN 1 ELSE 2 * w[k - 1]
      /\ \A k \in 0..(n + 1) : v[k] = IF k = 0 THEN 1 ELSE 2 * v[k - 1]
  BY DEF ShiftsTo
<1>2. 0 \in T
  BY <1>1
<1>3. ASSUME NEW k \in Nat, k \in T PROVE k + 1 \in T
  <2> SUFFICES ASSUME k + 1 <= n PROVE w[k + 1] = v[k + 1]
    OBVIOUS
  <2>1. k + 1 \in 0..n /\ k + 1 \in 0..(n + 1) /\ k + 1 # 0 /\ (k + 1) - 1 = k
    OBVIOUS
  <2>2. w[k] = v[k]
    BY <1>3
  <2> QED
    BY <1>1, <2>1, <2>2
<1> HIDE DEF T
<1>4. \A k \in Nat : k \in T
  BY <1>2, <1>3, NumbersInduct
<1> QED
  BY <1>4 DEF T

\* A shift by none is one, and by one more is twice as much.
LEMMA ShiftedIs ==
  Shifted[0] = 1 /\ \A n \in Nat : Shifted[n + 1] = 2 * Shifted[n]
<1> DEFINE w(n) == CHOOSE u : ShiftsTo(u, n)
           all == [n \in Nat |-> w(n)[n]]
           Is(f) == f = [n \in Nat |-> IF n = 0 THEN 1 ELSE 2 * f[n - 1]]
<1>1. \A n \in Nat : ShiftsTo(w(n), n)
  BY ShiftsExist
<1> HIDE DEF w
<1>2. w(0)[0] = 1
  BY <1>1 DEF ShiftsTo
<1>3. ASSUME NEW n \in Nat PROVE w(n + 1)[n + 1] = 2 * w(n)[n]
  <2>1. w(n + 1)[n + 1] = 2 * w(n + 1)[n]
    <3>1. ShiftsTo(w(n + 1), n + 1)
      BY <1>1
    <3>2. n + 1 \in 0..(n + 1) /\ n + 1 # 0 /\ (n + 1) - 1 = n
      OBVIOUS
    <3> QED
      BY <3>1, <3>2 DEF ShiftsTo
  <2>2. w(n)[n] = w(n + 1)[n]
    BY <1>1, ShiftsAlike
  <2> QED
    BY <2>1, <2>2
<1>4. ASSUME NEW n \in Nat PROVE all[n] = IF n = 0 THEN 1 ELSE 2 * all[n - 1]
  <2>1. CASE n = 0
    BY <1>2, <2>1
  <2>2. CASE n # 0
    <3>1. n - 1 \in Nat /\ (n - 1) + 1 = n
      BY <2>2
    <3>2. w((n - 1) + 1)[(n - 1) + 1] = 2 * w(n - 1)[n - 1]
      BY <1>3, <3>1
    <3> QED
      BY <2>2, <3>1, <3>2
  <2> QED
    BY <2>1, <2>2
<1>5. all = [n \in Nat |-> all[n]]
  OBVIOUS
<1> HIDE DEF all
<1>6. Is(all)
  BY <1>4, <1>5
<1>7. Shifted = CHOOSE f : Is(f)
  BY DEF Shifted
<1>8. Is(Shifted)
  <2>1. \E f : Is(f)
    BY <1>6
  <2> HIDE DEF Is
  <2> QED
    BY <1>7, <2>1
<1>9. \A n \in Nat : Shifted[n] = IF n = 0 THEN 1 ELSE 2 * Shifted[n - 1]
  BY <1>8
<1>10. \A n \in Nat : n + 1 \in Nat /\ n + 1 # 0 /\ (n + 1) - 1 = n
  OBVIOUS
<1> QED
  BY <1>9, <1>10

\* A number is shifted to a larger one, whatever it is shifted by.
LEMMA ShiftsGrow ==
  /\ \A n \in Nat : Shifted[n] \in Nat /\ Shifted[n] >= 1
  /\ \A n, m \in Nat : n < m => Shifted[n] < Shifted[m]
<1> DEFINE T == {n \in Nat : Shifted[n] \in Nat /\ Shifted[n] >= 1}
<1>1. 0 \in T
  BY ShiftedIs
<1>2. ASSUME NEW n \in Nat, n \in T PROVE n + 1 \in T
  <2>1. Shifted[n + 1] = 2 * Shifted[n] /\ Shifted[n] \in Nat /\ Shifted[n] >= 1
    BY <1>2, ShiftedIs
  <2> QED
    BY <2>1
<1> HIDE DEF T
<1>3. \A n \in Nat : n \in T
  BY <1>1, <1>2, NumbersInduct
<1>4. \A n \in Nat : Shifted[n] \in Nat /\ Shifted[n] >= 1
  BY <1>3 DEF T
<1>5. ASSUME NEW n \in Nat, NEW m \in Nat, n < m PROVE Shifted[n] < Shifted[m]
  <2> DEFINE U == {k \in Nat : n < k => Shifted[n] < Shifted[k]}
  <2>1. 0 \in U
    OBVIOUS
  <2>2. ASSUME NEW k \in Nat, k \in U PROVE k + 1 \in U
    <3> SUFFICES ASSUME n < k + 1 PROVE Shifted[n] < Shifted[k + 1]
      OBVIOUS
    <3>1. n = k \/ Shifted[n] < Shifted[k]
      BY <2>2
    <3>2. Shifted[k + 1] = 2 * Shifted[k] /\ Shifted[k] \in Nat /\ Shifted[k] >= 1
          /\ Shifted[n] \in Nat
      BY <1>4, ShiftedIs
    <3> QED
      BY <3>1, <3>2
  <2> HIDE DEF U
  <2>3. \A k \in Nat : k \in U
    BY <2>1, <2>2, NumbersInduct
  <2> QED
    BY <1>5, <2>3 DEF U
<1> QED
  BY <1>4, <1>5

\* One failure more earns no shorter a lockout, past the width too.
LEMMA LockoutGrows ==
  ASSUME LoginsOK, NEW k \in Nat
  PROVE  Lockout(k) \in Nat /\ Lockout(k) <= Lockout(k + 1)
<1> DEFINE doubling(n) == IF n < Width THEN Shifted[n] ELSE Shifted[Width] - 1
<1>1. Width \in Nat /\ LongestLockout \in Nat /\ k + 1 \in Nat /\ k < k + 1
  BY DEF LoginsOK
<1>2. /\ Shifted[k] \in Nat /\ Shifted[k + 1] \in Nat /\ Shifted[Width] \in Nat
      /\ Shifted[Width] >= 1 /\ Shifted[k] < Shifted[k + 1]
      /\ k < Width => Shifted[k] < Shifted[Width]
  BY <1>1, ShiftsGrow
<1>3. doubling(k) \in Nat /\ doubling(k + 1) \in Nat /\ doubling(k) <= doubling(k + 1)
  BY <1>1, <1>2
<1>4. Lockout(k) = Least(doubling(k), LongestLockout)
      /\ Lockout(k + 1) = Least(doubling(k + 1), LongestLockout)
  BY DEF Lockout
<1> HIDE DEF doubling
<1> QED
  BY <1>1, <1>3, <1>4 DEF Least

\* A lockout is not past what the last failure earned.
LimiterInv ==
  /\ failures \in Nat /\ lockedUntil \in Nat /\ latest \in Nat
  /\ failures >= FreeAttempts =>
       lockedUntil <= latest + Lockout(failures - FreeAttempts)

Longer ==
  failures' > failures /\ failures >= FreeAttempts =>
     lockedUntil' >= lockedUntil \/ latest' < latest

LEMMA LimiterInit == ASSUME LoginsOK, AccessInit PROVE LimiterInv
<1>1. failures = 0 /\ lockedUntil = 0 /\ latest = 0
  BY DEF AccessInit, InitLogins
<1>2. failures >= FreeAttempts => failures - FreeAttempts = 0
  BY <1>1 DEF LoginsOK
<1>3. Lockout(0) \in Nat
  BY LockoutGrows
<1> QED
  BY <1>1, <1>2, <1>3 DEF LimiterInv

LEMMA FailureCounts ==
  ASSUME LoginsOK, LimiterInv, NEW now \in Nat, RecordFailure(now)
  PROVE  LimiterInv' /\ Longer
<1> DEFINE k == failures - FreeAttempts
<1>1. failures' = failures + 1 /\ latest' = now /\ failures \in Nat /\ lockedUntil \in Nat
      /\ latest \in Nat /\ FreeAttempts \in Nat
  BY DEF RecordFailure, LimiterInv, LoginsOK
<1>2. CASE failures >= FreeAttempts
  <2>1. k \in Nat /\ failures + 1 - FreeAttempts = k + 1 /\ k + 1 \in Nat
        /\ failures' - FreeAttempts = k + 1
    BY <1>1, <1>2
  <2>2. lockedUntil' = now + Lockout(k + 1)
    BY <1>1, <1>2, <2>1 DEF RecordFailure
  <2>3. lockedUntil <= latest + Lockout(k)
    BY <1>2 DEF LimiterInv
  <2> HIDE DEF k
  <2>4. Lockout(k) \in Nat /\ Lockout(k + 1) \in Nat /\ Lockout(k) <= Lockout(k + 1)
    BY <2>1, LockoutGrows
  <2>5. LimiterInv'
    <3>1. (failures - FreeAttempts)' = k + 1
      BY <2>1
    <3>2. Lockout(failures - FreeAttempts)' = Lockout(k + 1)
      BY <3>1 DEF Lockout
    <3> QED
      BY <1>1, <2>2, <2>4, <3>2 DEF LimiterInv
  <2>6. Longer
    BY <1>1, <2>2, <2>3, <2>4 DEF Longer
  <2> QED
    BY <2>5, <2>6
<1>3. CASE failures + 1 = FreeAttempts
  <2>1. failures + 1 - FreeAttempts = 0 /\ failures' - FreeAttempts = 0
    BY <1>1, <1>3
  <2>2. lockedUntil' = now + Lockout(0) /\ Lockout(0) \in Nat
    BY <1>1, <1>3, <2>1, LockoutGrows DEF RecordFailure
  <2>3. LimiterInv'
    <3>1. Lockout(failures - FreeAttempts)' = Lockout(0)
      BY <2>1 DEF Lockout
    <3> QED
      BY <1>1, <2>2, <3>1 DEF LimiterInv
  <2> QED
    BY <1>1, <1>3, <2>3 DEF Longer
<1>4. CASE failures + 1 < FreeAttempts
  BY <1>1, <1>4 DEF RecordFailure, LimiterInv, Longer
<1> QED
  BY <1>1, <1>2, <1>3, <1>4

LEMMA Forgotten ==
  ASSUME LoginsOK, LimiterInv, failures' = 0 /\ lockedUntil' = 0 /\ latest' = 0
  PROVE  LimiterInv' /\ Longer
<1>1. (failures >= FreeAttempts => failures - FreeAttempts = 0)'
  BY DEF LoginsOK
<1>2. Lockout(0) \in Nat
  BY LockoutGrows
<1>3. LimiterInv'
  <2>1. failures' >= FreeAttempts => Lockout(failures - FreeAttempts)' = Lockout(0)
    BY <1>1 DEF Lockout
  <2> QED
    BY <1>2, <2>1 DEF LimiterInv
<1> QED
  BY <1>3 DEF LimiterInv, Longer

LEMMA NotCounted ==
  ASSUME LoginsOK, LimiterInv, UNCHANGED loginVars PROVE LimiterInv' /\ Longer
BY DEF loginVars, LimiterInv, Longer, Lockout

LEMMA LimiterStep ==
  ASSUME KeysOK, LoginsOK, ConsoleInv, LimiterInv, [AccessNext]_accessVars
  PROVE  LimiterInv' /\ Longer
<1>1. CASE UNCHANGED loginVars
  BY <1>1, NotCounted
<1>2. ASSUME NEW t \in Tasks, RefuseLogin(t) PROVE LimiterInv' /\ Longer
  <2>1. request[t].now \in Nat
    <3>1. request[t] \in Request
      BY DEF ConsoleInv, AccessInv
    <3> QED
      BY <3>1 DEF Request
  <2> QED
    BY <1>2, <2>1, FailureCounts DEF RefuseLogin
<1>3. ASSUME NEW t \in Tasks, Grant(t) PROVE LimiterInv' /\ Longer
  BY <1>3, Forgotten DEF Grant, RecordSuccess
<1>4. CASE CoreCrash
  BY <1>4, Forgotten DEF CoreCrash, RestartLogins
<1>5. \/ UNCHANGED loginVars \/ CoreCrash
      \/ \E t \in Tasks : RefuseLogin(t) \/ Grant(t)
  BY DEF AccessNext, accessVars, Arrive, Recognise, IssueRefreshed, LogOut, Rotate,
     Respond, HangUp, AskLock, Expire, Start
<1> QED
  BY <1>1, <1>2, <1>3, <1>4, <1>5

\* Each further failure extends the lockout, however many came before it and
\* however wide a doubling is, unless its attempt was the older one.
THEOREM LockoutsAlwaysGrow ==
  ASSUME KeysOK, LoginsOK PROVE AccessSpec => LockoutsGrow
<1>1. AccessInit => LimiterInv
  BY LimiterInit
<1>2. ConsoleInv /\ LimiterInv /\ [AccessNext]_accessVars => LimiterInv' /\ [Longer]_accessVars
  BY LimiterStep
<1>3. LockoutsGrow <=> [][Longer]_accessVars
  BY DEF LockoutsGrow, Longer
<1> QED
  BY <1>1, <1>2, <1>3, AccessInvariant, PTL DEF AccessSpec

-----------------------------------------------------------------------------
(***************************************************************************)
(* How a text is marked: its pieces are laid end to end over it, and what  *)
(* stands in each tells where the next may start.                          *)
(***************************************************************************)

(* Where a run of characters stops.                                        *)

Stands(s, i, characters, j) ==
  /\ j \in i..(Len(s) + 1)
  /\ j = Len(s) + 1 \/ s[j] \notin characters
  /\ \A k \in i..(j - 1) : s[k] \in characters

LEMMA StopIs ==
  ASSUME NEW C, NEW s \in Seq(C), NEW i \in 1..(Len(s) + 1), NEW characters
  PROVE  /\ Stands(s, i, characters, M!Stop(s, i, characters))
         /\ \A j : Stands(s, i, characters, j) => M!Stop(s, i, characters) = j
<1> DEFINE n == Len(s)
           K == {j \in i..n : s[j] \notin characters}
<1>1. n \in Nat
  OBVIOUS
<1>2. \E j : Stands(s, i, characters, j)
  <2>1. CASE K = {}
    <3>1. Stands(s, i, characters, n + 1)
      BY <1>1, <2>1 DEF Stands
    <3> QED
      BY <3>1
  <2>2. CASE K # {}
    <3>1. K \in SUBSET Nat
      BY <1>1
    <3>2. PICK j \in K : \A k \in K : j <= k
      BY <2>2, <3>1, MarksAre!LeastOf
    <3>3. j \in i..n /\ s[j] \notin characters
      BY <3>2
    <3>4. \A k \in i..(j - 1) : s[k] \in characters
      BY <1>1, <3>2, <3>3
    <3>5. Stands(s, i, characters, j)
      BY <1>1, <3>3, <3>4 DEF Stands
    <3> QED
      BY <3>5
  <2> QED
    BY <2>1, <2>2
<1>3. ASSUME NEW j, NEW k, Stands(s, i, characters, j), Stands(s, i, characters, k) PROVE j = k
  <2>1. j \in i..(n + 1) /\ k \in i..(n + 1)
    BY <1>3 DEF Stands
  <2>2. ~ (j < k)
    <3> SUFFICES ASSUME j < k PROVE FALSE
      OBVIOUS
    <3>1. j \in i..(k - 1) /\ j # n + 1
      BY <1>1, <2>1
    <3> QED
      BY <1>3, <3>1 DEF Stands
  <2>3. ~ (k < j)
    <3> SUFFICES ASSUME k < j PROVE FALSE
      OBVIOUS
    <3>1. k \in i..(j - 1) /\ k # n + 1
      BY <1>1, <2>1
    <3> QED
      BY <1>3, <3>1 DEF Stands
  <2> QED
    BY <1>1, <2>1, <2>2, <2>3
<1>4. Stands(s, i, characters, M!Stop(s, i, characters))
  BY <1>2 DEF M!Stop, Stands
<1> QED
  BY <1>3, <1>4

LEMMA LastIs ==
  ASSUME NEW n \in Nat, NEW s, NEW i \in 1..(n + 1), NEW end \in 1..(n + 1), NEW c
  PROVE  LET k == M!LastOf(s, i, end, c)
         IN  \/ k = 0 /\ \A j \in i..(end - 1) : s[j] # c
             \/ /\ k \in i..(end - 1) /\ s[k] = c
                /\ \A j \in i..(end - 1) : s[j] = c => j <= k
<1> DEFINE K == {j \in i..(end - 1) : s[j] = c}
           k == CHOOSE j \in K : \A m \in K : m <= j
<1>1. M!LastOf(s, i, end, c) = IF K = {} THEN 0 ELSE k
  BY DEF M!LastOf
<1>2. CASE K = {}
  BY <1>1, <1>2
<1>3. CASE K # {}
  <2> DEFINE D == {d \in Nat : n - d \in K}
  <2>1. D # {}
    <3>1. PICK j : j \in K
      BY <1>3
    <3>2. n - j \in Nat /\ n - (n - j) = j
      BY <3>1
    <3> QED
      BY <3>1, <3>2
  <2>2. PICK d \in D : \A e \in D : d <= e
    BY <2>1, MarksAre!LeastOf
  <2>3. ASSUME NEW j \in K PROVE j <= n - d
    <3>1. n - j \in Nat /\ n - (n - j) = j
      OBVIOUS
    <3>2. n - j \in D
      BY <3>1
    <3> QED
      BY <2>2, <3>1, <3>2
  <2>4. k \in K /\ \A m \in K : m <= k
    BY <2>2, <2>3
  <2> HIDE DEF k
  <2>5. k \in i..(end - 1) /\ s[k] = c /\ \A j \in i..(end - 1) : s[j] = c => j <= k
    BY <2>4
  <2> QED
    BY <1>1, <1>3, <2>5
<1> QED
  BY <1>2, <1>3

-----------------------------------------------------------------------------
(* What claims a position of a text, and up to where.                      *)

LEMMA RunIs ==
  ASSUME NEW C, NEW s \in Seq(C), NEW i \in 1..(Len(s) + 1), NEW characters
  PROVE  LET e == i + M!Run(s, i, characters)
         IN  /\ M!Run(s, i, characters) \in Nat
             /\ e = M!Stop(s, i, characters)
             /\ Stands(s, i, characters, e)
<1> DEFINE stop == M!Stop(s, i, characters)
<1>1. Stands(s, i, characters, stop)
  BY StopIs
<1> HIDE DEF stop
<1>2. stop \in i..(Len(s) + 1) /\ Len(s) \in Nat
  BY <1>1 DEF Stands
<1>3. stop - i \in Nat /\ i + (stop - i) = stop
  BY <1>2
<1>4. M!Run(s, i, characters) = stop - i
  BY DEF M!Run, stop
<1> QED
  BY <1>1, <1>3, <1>4 DEF stop

Escape == M!Alphanumeric \cup {"#"}

LEMMA EntityIs ==
  ASSUME NEW C, NEW s \in Seq(C), NEW i \in 1..Len(s)
  PROVE  /\ M!Entity(s, i) \in Nat
         /\ M!Entity(s, i) > 0 =>
              LET e == i + M!Entity(s, i)
              IN  /\ e \in (i + 3)..(Len(s) + 1) /\ s[i] = "&" /\ s[e - 1] = ";"
                  /\ \A k \in (i + 1)..(e - 2) : s[k] \in Escape
         /\ s[i] = "&" /\ i + 4 <= Len(s) /\ s[i + 1] = "#" /\ s[i + 2] = "3" /\ s[i + 3] = "9" /\ s[i + 4] = ";"
              => M!Entity(s, i) > 0
<1> DEFINE n == Len(s)
           end == M!Stop(s, i + 1, Escape)
<1>1. n \in Nat /\ i \in 1..n /\ i + 1 \in 1..(n + 1)
  OBVIOUS
<1>2. Stands(s, i + 1, Escape, end) /\ \A j : Stands(s, i + 1, Escape, j) => end = j
  BY <1>1, StopIs
<1>3. M!Entity(s, i) = IF s[i] = "&" /\ end > i + 1 /\ end <= n /\ s[end] = ";" THEN end + 1 - i ELSE 0
  BY DEF M!Entity, Escape
<1> HIDE DEF end
<1>4. end \in (i + 1)..(n + 1) /\ \A k \in (i + 1)..(end - 1) : s[k] \in Escape
  BY <1>1, <1>2 DEF Stands
<1>5. CASE s[i] = "&" /\ end > i + 1 /\ end <= n /\ s[end] = ";"
  <2>1. M!Entity(s, i) = end + 1 - i
    BY <1>3, <1>5
  <2>2. /\ end + 1 - i \in Nat /\ end + 1 - i > 0 /\ i + (end + 1 - i) = end + 1
        /\ end + 1 \in (i + 3)..(n + 1) /\ (end + 1) - 1 = end /\ (end + 1) - 2 = end - 1
    <3>1. i \in Nat /\ end \in Nat
      BY <1>1, <1>4
    <3>2. end > i + 1 /\ end <= n
      BY <1>5
    <3> HIDE DEF n
    <3> QED
      BY <1>1, <3>1, <3>2
  <2> HIDE DEF n
  <2> QED
    BY <1>4, <1>5, <2>1, <2>2 DEF n
<1>6. CASE ~ (s[i] = "&" /\ end > i + 1 /\ end <= n /\ s[end] = ";")
  <2>1. M!Entity(s, i) = 0
    BY <1>3, <1>6
  <2>2. ASSUME s[i] = "&", i + 4 <= n, s[i + 1] = "#", s[i + 2] = "3", s[i + 3] = "9", s[i + 4] = ";"
        PROVE  FALSE
    <3>1. {"#", "3", "9"} \subseteq Escape /\ ";" \notin Escape
      BY DEF Escape, M!Alphanumeric, M!Letters, M!Digits
    <3>2. i + 4 \in (i + 1)..(n + 1) /\ \A k \in (i + 1)..((i + 4) - 1) : k \in {i + 1, i + 2, i + 3}
      <4>1. i \in Nat
        BY <1>1
      <4>2. i + 4 <= n
        BY <2>2
      <4> HIDE DEF n
      <4> QED
        BY <1>1, <4>1, <4>2
    <3>3. Stands(s, i + 1, Escape, i + 4)
      BY <2>2, <3>1, <3>2 DEF Stands
    <3>4. end = i + 4
      BY <1>2, <3>3
    <3>5. i + 4 > i + 1
      BY <1>1
    <3> QED
      BY <1>6, <2>2, <3>4, <3>5
  <2>3. 0 \in Nat /\ ~ (0 > 0)
    OBVIOUS
  <2> HIDE DEF n
  <2> QED
    BY <2>1, <2>2, <2>3 DEF n
<1> QED
  BY <1>5, <1>6

LEMMA LinkIs ==
  ASSUME NEW C, NEW s \in Seq(C), NEW i \in 1..Len(s)
  PROVE  /\ M!Link(s, i) \in Nat
         /\ M!Link(s, i) > 0 => LET e == i + M!Link(s, i)
                                IN  e \in (i + 1)..(Len(s) + 1) /\ (e = Len(s) + 1 \/ s[e] \in M!Space)
<1> DEFINE n == Len(s)
           words == M!Everything(s) \ M!Space
           run == M!Run(s, i, words)
<1>1. n \in Nat /\ i \in 1..(n + 1) /\ DOMAIN s = 1..n
  OBVIOUS
<1>2. run \in Nat /\ Stands(s, i, words, i + run)
  BY <1>1, RunIs
<1>3. M!Link(s, i) = run \/ M!Link(s, i) = 0
  BY DEF M!Link
<1> HIDE DEF run
<1>4. i + run \in i..(n + 1) /\ (i + run = n + 1 \/ s[i + run] \notin words)
  BY <1>2 DEF Stands
<1>5. i + run # n + 1 => s[i + run] \in M!Everything(s)
  <2>1. i + run # n + 1 => i + run \in 1..n
    BY <1>1, <1>4
  <2> QED
    BY <1>1, <2>1 DEF M!Everything
<1> QED
  BY <1>1, <1>2, <1>3, <1>4, <1>5

LEMMA NumberedIs ==
  ASSUME NEW C, NEW s \in Seq(C), NEW i \in 1..(Len(s) + 1)
  PROVE  LET e == i + M!NumberedLine(s, i)
         IN  /\ M!NumberedLine(s, i) \in Nat /\ e \in i..(Len(s) + 1)
             /\ \A k \in i..(e - 1) : s[k] \in M!Digits \cup {":"}
<1> DEFINE n == Len(s)
           run == M!Run(s, i + 1, M!Digits)
           colon == i < n /\ s[i] = ":"
<1>1. n \in Nat /\ i \in 1..(n + 1)
  OBVIOUS
<1>2. CASE colon /\ run # 0
  <2>1. i + 1 \in 1..(n + 1)
    BY <1>1, <1>2
  <2>2. run \in Nat /\ Stands(s, i + 1, M!Digits, (i + 1) + run)
    BY <2>1, RunIs
  <2>3. M!NumberedLine(s, i) = run + 1
    BY <1>2 DEF M!NumberedLine
  <2> HIDE DEF run
  <2>4. /\ (i + 1) + run \in (i + 1)..(n + 1) /\ i + (run + 1) = (i + 1) + run
        /\ \A k \in (i + 1)..((i + 1) + run - 1) : s[k] \in M!Digits
    BY <1>1, <2>2 DEF Stands
  <2>5. ASSUME NEW k \in i..((i + 1) + run - 1) PROVE s[k] \in M!Digits \cup {":"}
    <3>1. k = i \/ k \in (i + 1)..((i + 1) + run - 1)
      BY <1>1, <2>2
    <3> QED
      BY <1>2, <2>4, <3>1
  <2> QED
    BY <1>1, <2>2, <2>3, <2>4, <2>5
<1>3. CASE ~ (colon /\ run # 0)
  <2>1. M!NumberedLine(s, i) = 0
    BY <1>3 DEF M!NumberedLine
  <2> QED
    BY <1>1, <2>1
<1> QED
  BY <1>2, <1>3

\* What a path is claimed by: where its run stops, and the last slash and the
\* last dot in it.
Spells(s, i, end, slash, dot) ==
  /\ end = M!Stop(s, i, M!PathCharacters)
  /\ slash = M!LastOf(s, i, end, "/")
  /\ dot = M!LastOf(s, slash + 1, end, ".")
  /\ slash # 0 /\ dot > slash + 1
  /\ dot + 1 < end /\ M!Stop(s, dot + 1, M!Alphanumeric) >= end

LEMMA PathSpells ==
  ASSUME NEW C, NEW s \in Seq(C), NEW i \in 1..Len(s)
  PROVE  /\ \A end, slash, dot : Spells(s, i, end, slash, dot) =>
              M!Path(s, i) = end + M!NumberedLine(s, end) - i
         /\ M!Path(s, i) # 0 => \E end, slash, dot : Spells(s, i, end, slash, dot)
<1> DEFINE end == M!Stop(s, i, M!PathCharacters)
           slash == M!LastOf(s, i, end, "/")
           dot == M!LastOf(s, slash + 1, end, ".")
           claimed == /\ slash # 0
                      /\ dot > slash + 1
                      /\ dot + 1 < end /\ M!Stop(s, dot + 1, M!Alphanumeric) >= end
<1>1. M!Path(s, i) = IF claimed THEN end + M!NumberedLine(s, end) - i ELSE 0
  BY DEF M!Path
<1>2. \A e, l, d : Spells(s, i, e, l, d) <=> e = end /\ l = slash /\ d = dot /\ claimed
  BY DEF Spells
<1> HIDE DEF end, slash, dot, claimed
<1> QED
  BY <1>1, <1>2

LEMMA SpellsIs ==
  ASSUME NEW C, NEW s \in Seq(C), NEW i \in 1..Len(s), NEW end, NEW slash, NEW dot,
         Spells(s, i, end, slash, dot)
  PROVE  /\ Stands(s, i, M!PathCharacters, end) /\ end \in (i + 1)..(Len(s) + 1)
         /\ slash \in i..(end - 1) /\ s[slash] = "/"
         /\ \A j \in i..(end - 1) : s[j] = "/" => j <= slash
         /\ dot \in (slash + 1)..(end - 1)
<1> DEFINE n == Len(s)
<1>1. n \in Nat /\ i \in 1..(n + 1) /\ i \in 1..n
  OBVIOUS
<1>2. Stands(s, i, M!PathCharacters, end)
  BY <1>1, StopIs DEF Spells
<1>3. end \in i..(n + 1)
  BY <1>2 DEF Stands
<1>4. end \in 1..(n + 1)
  BY <1>1, <1>3
<1>5. slash # 0 /\ dot > slash + 1 /\ slash = M!LastOf(s, i, end, "/") /\ dot = M!LastOf(s, slash + 1, end, ".")
  BY DEF Spells
<1>6. /\ slash \in i..(end - 1) /\ s[slash] = "/"
      /\ \A j \in i..(end - 1) : s[j] = "/" => j <= slash
  BY <1>1, <1>4, <1>5, LastIs
<1>7. end \in (i + 1)..(n + 1) /\ slash + 1 \in 1..(n + 1) /\ slash \in Nat
  BY <1>1, <1>3, <1>6
<1>8. dot = 0 \/ dot \in (slash + 1)..(end - 1)
  BY <1>1, <1>4, <1>5, <1>7, LastIs
<1>9. dot # 0
  BY <1>5, <1>7
<1> QED
  BY <1>2, <1>6, <1>7, <1>8, <1>9

LEMMA PathIs ==
  ASSUME NEW C, NEW s \in Seq(C), NEW i \in 1..Len(s)
  PROVE  /\ M!Path(s, i) \in Nat
         /\ M!Path(s, i) > 0 =>
              LET e == i + M!Path(s, i)
              IN  /\ e \in (i + 1)..(Len(s) + 1) /\ s[i] \in M!PathCharacters
                  /\ \A k \in i..(e - 1) : s[k] \in M!PathCharacters \cup {":"}
<1> DEFINE n == Len(s)
<1>1. n \in Nat /\ i \in 1..n
  OBVIOUS
<1>2. ASSUME M!Path(s, i) # 0
      PROVE  /\ M!Path(s, i) \in Nat
             /\ i + M!Path(s, i) \in (i + 1)..(n + 1) /\ s[i] \in M!PathCharacters
             /\ \A k \in i..(i + M!Path(s, i) - 1) : s[k] \in M!PathCharacters \cup {":"}
  <2>1. PICK end, slash, dot : Spells(s, i, end, slash, dot)
    BY <1>2, PathSpells
  <2>2. M!Path(s, i) = end + M!NumberedLine(s, end) - i
    BY <2>1, PathSpells
  <2>3. Stands(s, i, M!PathCharacters, end) /\ end \in (i + 1)..(n + 1)
    BY <2>1, SpellsIs
  <2>4. end \in 1..(n + 1)
    BY <1>1, <2>3
  <2> DEFINE e == end + M!NumberedLine(s, end)
  <2>5. M!NumberedLine(s, end) \in Nat /\ e \in end..(n + 1) /\ \A k \in end..(e - 1) : s[k] \in M!Digits \cup {":"}
    BY <2>4, NumberedIs
  <2>10. M!Path(s, i) = e - i
    <3>1. i \in Nat /\ end \in Nat /\ M!NumberedLine(s, end) \in Nat
      BY <1>1, <2>4, <2>5
    <3> QED
      BY <2>2, <3>1
  <2> HIDE DEF e
  <2>6. M!Digits \subseteq M!PathCharacters
    BY DEF M!PathCharacters, M!Alphanumeric
  <2>7. \A k \in i..(end - 1) : s[k] \in M!PathCharacters
    BY <2>3 DEF Stands
  <2>8. ASSUME NEW k \in i..(e - 1) PROVE s[k] \in M!PathCharacters \cup {":"}
    <3>1. k \in i..(end - 1) \/ k \in end..(e - 1)
      BY <1>1, <2>3, <2>5
    <3> QED
      BY <2>5, <2>6, <2>7, <3>1
  <2>9. e - i \in Nat /\ i + (e - i) = e /\ e \in (i + 1)..(n + 1) /\ i \in i..(end - 1)
    BY <1>1, <2>3, <2>5
  <2> QED
    BY <2>7, <2>8, <2>9, <2>10
<1>3. CASE M!Path(s, i) = 0
  BY <1>3
<1> QED
  BY <1>2, <1>3

\* A path that could start earlier in its run does.
LEMMA PathsStartEarly ==
  ASSUME NEW C, NEW s \in Seq(C), NEW i \in 1..Len(s), NEW k \in 1..Len(s), k < i,
         \A j \in k..(i - 1) : s[j] \in M!PathCharacters, M!Path(s, i) > 0
  PROVE  M!Path(s, k) > 0
<1> DEFINE n == Len(s)
<1>1. n \in Nat /\ i \in 1..n /\ k \in 1..n /\ k \in 1..(n + 1)
  OBVIOUS
<1>2. PICK end, slash, dot : Spells(s, i, end, slash, dot)
  BY PathSpells
<1>3. /\ Stands(s, i, M!PathCharacters, end) /\ end \in (i + 1)..(n + 1)
      /\ slash \in i..(end - 1) /\ s[slash] = "/"
      /\ \A j \in i..(end - 1) : s[j] = "/" => j <= slash
      /\ dot \in (slash + 1)..(end - 1)
  BY <1>2, SpellsIs
<1>4. Stands(s, k, M!PathCharacters, end)
  <2>1. end \in k..(n + 1)
    BY <1>1, <1>3
  <2>2. ASSUME NEW j \in k..(end - 1) PROVE s[j] \in M!PathCharacters
    <3>1. j \in k..(i - 1) \/ j \in i..(end - 1)
      BY <1>1, <1>3
    <3> QED
      BY <1>3, <3>1 DEF Stands
  <2> QED
    BY <1>3, <2>1, <2>2 DEF Stands
<1>5. M!Stop(s, k, M!PathCharacters) = end
  BY <1>1, <1>4, StopIs
<1>6. M!LastOf(s, k, end, "/") = slash
  <2> DEFINE l == M!LastOf(s, k, end, "/")
  <2>1. end \in 1..(n + 1)
    BY <1>1, <1>3
  <2>2. \/ l = 0 /\ \A j \in k..(end - 1) : s[j] # "/"
        \/ /\ l \in k..(end - 1) /\ s[l] = "/"
           /\ \A j \in k..(end - 1) : s[j] = "/" => j <= l
    BY <1>1, <2>1, LastIs
  <2> HIDE DEF l
  <2>3. slash \in k..(end - 1)
    BY <1>1, <1>3
  <2>4. l \in k..(end - 1) /\ s[l] = "/" /\ slash <= l
    BY <1>3, <2>2, <2>3
  <2>5. l \in i..(end - 1)
    BY <1>1, <1>3, <2>4
  <2>6. l <= slash
    BY <1>3, <2>4, <2>5
  <2>7. l = slash
    BY <1>1, <1>3, <2>4, <2>6
  <2> QED
    BY <2>7 DEF l
<1>7. Spells(s, k, end, slash, dot)
  BY <1>2, <1>5, <1>6 DEF Spells
<1>8. M!Path(s, k) = end + M!NumberedLine(s, end) - k
  BY <1>7, PathSpells
<1>9. M!NumberedLine(s, end) \in Nat
  <2>1. end \in 1..(n + 1)
    BY <1>1, <1>3
  <2> QED
    BY <2>1, NumberedIs
<1> QED
  BY <1>1, <1>3, <1>8, <1>9

LEMMA CountIs ==
  ASSUME NEW C, NEW s \in Seq(C), NEW i \in 1..Len(s)
  PROVE  /\ M!Count(s, i) \in Nat
         /\ M!Count(s, i) > 0 =>
              LET e == i + M!Count(s, i)
              IN  /\ e \in (i + 1)..(Len(s) + 1) /\ M!Before(s, i) \notin M!Alphanumeric
                  /\ \A k \in i..(e - 1) : s[k] \in M!Digits \cup {".", ","}
<1> DEFINE n == Len(s)
           end == M!Stop(s, i, M!Digits \cup {".", ","})
           K == {k \in i..(end - 1) : s[k] \in M!Digits}
           last == CHOOSE k \in i..(end - 1) : s[k] \in M!Digits /\ \A j \in (k + 1)..(end - 1) : s[j] \notin M!Digits
           none == M!Before(s, i) \in M!Alphanumeric \/ s[i] \notin M!Digits
<1>1. n \in Nat /\ i \in 1..n /\ i \in 1..(n + 1)
  OBVIOUS
<1>2. M!Count(s, i) = IF none THEN 0 ELSE 1 + last - i
  BY DEF M!Count
<1>3. Stands(s, i, M!Digits \cup {".", ","}, end)
  BY <1>1, StopIs
<1>4. CASE none
  <2>1. M!Count(s, i) = 0
    BY <1>2, <1>4
  <2> QED
    BY <2>1
<1>5. CASE ~ none
  <2> HIDE DEF end
  <2>1. end \in i..(n + 1) /\ \A k \in i..(end - 1) : s[k] \in M!Digits \cup {".", ","}
    BY <1>3 DEF Stands
  <2>2. end # i
    <3> SUFFICES ASSUME end = i PROVE FALSE
      OBVIOUS
    <3>1. end # n + 1
      BY <1>1
    <3>2. s[end] \notin M!Digits \cup {".", ","}
      BY <1>3, <3>1 DEF Stands
    <3> QED
      BY <1>5, <3>2
  <2> HIDE DEF n
  <2>30. i \in i..(end - 1) /\ end \in Nat /\ i \in Nat /\ end - 1 <= n /\ 1 <= i
    <3>1. i \in Nat /\ 1 <= i
      BY <1>1
    <3>2. end \in i..(n + 1)
      BY <2>1
    <3> QED
      BY <1>1, <2>2, <3>1, <3>2
  <2>3. i \in K
    BY <1>5, <2>30
  <2>4. \E k \in K : \A j \in K : j <= k
    <3> DEFINE D == {d \in Nat : n - d \in K}
    <3>0. \A j \in K : n - j \in Nat /\ n - (n - j) = j /\ j \in Nat
      BY <1>1, <2>30
    <3> HIDE DEF K
    <3>1. n - i \in D
      BY <2>3, <3>0
    <3>2. PICK d \in D : \A e \in D : d <= e
      BY <3>1, MarksAre!LeastOf
    <3>3. ASSUME NEW j \in K PROVE j <= n - d
      <4>1. n - j \in D
        BY <3>0
      <4>2. d <= n - j /\ d \in Nat /\ j \in Nat
        BY <3>0, <3>2, <4>1
      <4> QED
        BY <1>1, <4>2
    <3> QED
      BY <3>2, <3>3
  <2>5. last \in i..(end - 1)
    <3>1. PICK k \in K : \A j \in K : j <= k
      BY <2>4
    <3>2. \A j \in (k + 1)..(end - 1) : s[j] \notin M!Digits
      <4> SUFFICES ASSUME NEW j \in (k + 1)..(end - 1), s[j] \in M!Digits PROVE FALSE
        OBVIOUS
      <4>0. k \in i..(end - 1)
        BY <3>1
      <4>1. j \in i..(end - 1) /\ ~ (j <= k)
        BY <2>30, <4>0
      <4> QED
        BY <3>1, <4>1
    <3> QED
      BY <3>1, <3>2
  <2> HIDE DEF last
  <2>6. M!Count(s, i) = 1 + last - i
    BY <1>2, <1>5
  <2>7. /\ 1 + last - i \in Nat /\ i + (1 + last - i) = last + 1 /\ last + 1 \in (i + 1)..(n + 1)
        /\ \A k \in i..((last + 1) - 1) : k \in i..(end - 1)
    BY <1>1, <2>30, <2>5
  <2>8. M!Before(s, i) \notin M!Alphanumeric
    BY <1>5
  <2>9. i + M!Count(s, i) = last + 1 /\ M!Count(s, i) \in Nat
    BY <2>6, <2>7
  <2> QED
    BY <2>1, <2>7, <2>8, <2>9 DEF n
<1> QED
  BY <1>4, <1>5

LEMMA ChangeIs ==
  ASSUME NEW C, NEW s \in Seq(C), NEW i \in 1..Len(s)
  PROVE  /\ M!Change(s, i) \in Nat
         /\ M!Change(s, i) > 0 =>
              LET e == i + M!Change(s, i)
              IN  /\ e \in (i + 1)..(Len(s) + 1)
                  /\ \E sign \in M!Signs : \A k \in i..(e - 1) : s[k] = sign
<1> DEFINE n == Len(s)
           run == M!Run(s, i, {s[i]})
<1>1. n \in Nat /\ i \in 1..n /\ i \in 1..(n + 1)
  OBVIOUS
<1>2. run \in Nat /\ Stands(s, i, {s[i]}, i + run)
  BY <1>1, RunIs
<1>3. M!Change(s, i) = 0 \/ (M!Change(s, i) = run /\ s[i] \in M!Signs)
  BY DEF M!Change
<1> HIDE DEF run
<1>4. i + run \in i..(n + 1) /\ \A k \in i..(i + run - 1) : s[k] = s[i]
  BY <1>2 DEF Stands
<1>5. ASSUME run > 0 PROVE i + run \in (i + 1)..(n + 1)
  BY <1>1, <1>2, <1>4, <1>5
<1>6. CASE M!Change(s, i) = 0
  BY <1>6
<1>7. CASE M!Change(s, i) = run /\ s[i] \in M!Signs
  BY <1>2, <1>4, <1>5, <1>7
<1> QED
  BY <1>3, <1>6, <1>7

\* What a piece is by its class, and what stands in it.
Claims(s, i, p, e) ==
  \/ /\ p.class = "plain" /\ e \in (i + 3)..(Len(s) + 1) /\ s[i] = "&" /\ s[e - 1] = ";"
     /\ \A k \in (i + 1)..(e - 2) : s[k] \in Escape
  \/ /\ p.class = "url" /\ M!Entity(s, i) = 0
     /\ e = Len(s) + 1 \/ s[e] \in M!Space
  \/ /\ p.class = "path" /\ M!Entity(s, i) = 0 /\ M!Path(s, i) > 0
     /\ \A k \in i..(e - 1) : s[k] \in M!PathCharacters \cup {":"}
  \/ /\ p.class = "num" /\ M!Entity(s, i) = 0 /\ M!Path(s, i) = 0
     /\ M!Before(s, i) \notin M!Alphanumeric
     /\ \A k \in i..(e - 1) : s[k] \in M!Digits \cup {".", ","}
  \/ /\ p.class = "change" /\ M!Entity(s, i) = 0 /\ M!Path(s, i) = 0
     /\ \E sign \in M!Signs : \A k \in i..(e - 1) : s[k] = sign
  \/ /\ p.class \in {"mark", "plain"} /\ M!Entity(s, i) = 0 /\ M!Path(s, i) = 0
     /\ e = i + 1

LEMMA PieceIs ==
  ASSUME NEW C, NEW s \in Seq(C), NEW i \in 1..Len(s)
  PROVE  LET p == M!Piece(s, i)
             e == i + p.length
         IN  p.length \in Nat /\ e \in (i + 1)..(Len(s) + 1) /\ Claims(s, i, p, e)
<1> DEFINE n == Len(s)
           p == M!Piece(s, i)
           entity == M!Entity(s, i)
           link == M!Link(s, i)
           path == M!Path(s, i)
           count == M!Count(s, i)
           change == M!Change(s, i)
           mark == M!Mark(s, i)
<1>1. n \in Nat /\ i \in 1..n /\ i + 1 \in (i + 1)..(n + 1)
  OBVIOUS
<1>2. /\ entity \in Nat /\ link \in Nat /\ path \in Nat /\ count \in Nat /\ change \in Nat
      /\ mark \in {0, 1}
  BY EntityIs, LinkIs, PathIs, CountIs, ChangeIs DEF M!Mark
<1>3. \/ entity > 0 /\ p = M!Token(entity, "plain")
      \/ entity = 0 /\ link > 0 /\ p = M!Token(link, "url")
      \/ entity = 0 /\ path > 0 /\ p = M!Token(path, "path")
      \/ entity = 0 /\ path = 0 /\ count > 0 /\ p = M!Token(count, "num")
      \/ entity = 0 /\ path = 0 /\ change > 0 /\ p = M!Token(change, "change")
      \/ entity = 0 /\ path = 0 /\ p = M!Token(1, "mark")
      \/ entity = 0 /\ path = 0 /\ p = M!Token(1, "plain")
  <2>1. p = CASE entity > 0 -> M!Token(entity, "plain")
              [] entity = 0 /\ link > 0 -> M!Token(link, "url")
              [] entity + link = 0 /\ path > 0 -> M!Token(path, "path")
              [] OTHER -> CASE count > 0 -> M!Token(count, "num")
                            [] count = 0 /\ change > 0 -> M!Token(change, "change")
                            [] count + change = 0 /\ mark > 0 -> M!Token(1, "mark")
                            [] OTHER -> M!Token(1, "plain")
    BY DEF M!Piece, M!Plain
  <2> HIDE DEF p, entity, link, path, count, change, mark
  <2>2. CASE entity > 0
    BY <1>2, <2>1, <2>2
  <2>3. CASE entity = 0 /\ link > 0
    BY <1>2, <2>1, <2>3
  <2>4. CASE entity = 0 /\ link = 0 /\ path > 0
    BY <1>2, <2>1, <2>4
  <2>5. CASE entity = 0 /\ link = 0 /\ path = 0
    <3> DEFINE rest == CASE count > 0 -> M!Token(count, "num")
                         [] count = 0 /\ change > 0 -> M!Token(change, "change")
                         [] count + change = 0 /\ mark > 0 -> M!Token(1, "mark")
                         [] OTHER -> M!Token(1, "plain")
    <3>1. p = rest
      <4> HIDE DEF rest
      <4>1. p = CASE entity > 0 -> M!Token(entity, "plain")
                  [] entity = 0 /\ link > 0 -> M!Token(link, "url")
                  [] entity + link = 0 /\ path > 0 -> M!Token(path, "path")
                  [] OTHER -> rest
        BY <2>1 DEF rest
      <4> QED
        BY <2>5, <4>1
    <3>2. CASE count > 0
      BY <2>5, <3>1, <3>2, <1>2
    <3>3. CASE count = 0 /\ change > 0
      BY <2>5, <3>1, <3>3, <1>2
    <3>4. CASE count = 0 /\ change = 0 /\ mark > 0
      BY <2>5, <3>1, <3>4, <1>2
    <3>5. CASE count = 0 /\ change = 0 /\ mark = 0
      BY <2>5, <3>1, <3>5, <1>2
    <3> QED
      BY <1>2, <3>2, <3>3, <3>4, <3>5
  <2> QED
    BY <1>2, <2>2, <2>3, <2>4, <2>5
<1>4. \A l, c : M!Token(l, c).length = l /\ M!Token(l, c).class = c
  BY DEF M!Token
<1> HIDE DEF p
<1>5. CASE entity > 0 /\ p = M!Token(entity, "plain")
  <2>1. p.length = entity /\ p.class = "plain"
    BY <1>4, <1>5
  <2>2. /\ i + entity \in (i + 3)..(n + 1) /\ s[i] = "&" /\ s[(i + entity) - 1] = ";"
        /\ \A k \in (i + 1)..((i + entity) - 2) : s[k] \in Escape
    BY <1>5, EntityIs
  <2> HIDE DEF entity
  <2>3. i + entity \in (i + 1)..(n + 1)
    <3>1. i \in Nat
      BY <1>1
    <3>2. i + entity \in (i + 3)..(n + 1)
      BY <2>2
    <3> HIDE DEF n
    <3> QED
      BY <1>1, <3>1, <3>2
  <2>4. Claims(s, i, p, i + p.length)
    BY <2>1, <2>2 DEF Claims
  <2> QED
    BY <1>2, <2>1, <2>3, <2>4 DEF p
<1>6. CASE entity = 0 /\ link > 0 /\ p = M!Token(link, "url")
  <2>1. p.length = link /\ p.class = "url"
    BY <1>4, <1>6
  <2>2. i + link \in (i + 1)..(n + 1) /\ (i + link = n + 1 \/ s[i + link] \in M!Space)
    BY <1>6, LinkIs
  <2> HIDE DEF link
  <2>4. Claims(s, i, p, i + p.length)
    BY <1>6, <2>1, <2>2 DEF Claims
  <2> QED
    BY <1>2, <2>1, <2>2, <2>4 DEF p
<1>7. CASE entity = 0 /\ path > 0 /\ p = M!Token(path, "path")
  <2>1. p.length = path /\ p.class = "path"
    BY <1>4, <1>7
  <2>2. i + path \in (i + 1)..(n + 1) /\ \A k \in i..((i + path) - 1) : s[k] \in M!PathCharacters \cup {":"}
    BY <1>7, PathIs
  <2>3. M!Path(s, i) > 0 /\ M!Entity(s, i) = 0
    BY <1>7
  <2> HIDE DEF path
  <2>4. Claims(s, i, p, i + p.length)
    BY <2>1, <2>2, <2>3 DEF Claims
  <2> QED
    BY <1>2, <2>1, <2>2, <2>4 DEF p
<1>8. CASE entity = 0 /\ path = 0 /\ count > 0 /\ p = M!Token(count, "num")
  <2>1. p.length = count /\ p.class = "num"
    BY <1>4, <1>8
  <2>2. /\ i + count \in (i + 1)..(n + 1) /\ M!Before(s, i) \notin M!Alphanumeric
        /\ \A k \in i..((i + count) - 1) : s[k] \in M!Digits \cup {".", ","}
    BY <1>8, CountIs
  <2>3. M!Path(s, i) = 0 /\ M!Entity(s, i) = 0
    BY <1>8
  <2> HIDE DEF count
  <2>4. Claims(s, i, p, i + p.length)
    BY <2>1, <2>2, <2>3 DEF Claims
  <2> QED
    BY <1>2, <2>1, <2>2, <2>4 DEF p
<1>9. CASE entity = 0 /\ path = 0 /\ change > 0 /\ p = M!Token(change, "change")
  <2>1. p.length = change /\ p.class = "change"
    BY <1>4, <1>9
  <2>2. /\ i + change \in (i + 1)..(n + 1)
        /\ \E sign \in M!Signs : \A k \in i..((i + change) - 1) : s[k] = sign
    BY <1>9, ChangeIs
  <2>3. M!Path(s, i) = 0 /\ M!Entity(s, i) = 0
    BY <1>9
  <2> HIDE DEF change
  <2>4. Claims(s, i, p, i + p.length)
    BY <2>1, <2>2, <2>3 DEF Claims
  <2> QED
    BY <1>2, <2>1, <2>2, <2>4 DEF p
<1>10. CASE entity = 0 /\ path = 0 /\ \E c \in {"mark", "plain"} : p = M!Token(1, c)
  <2>1. p.length = 1 /\ p.class \in {"mark", "plain"}
    BY <1>4, <1>10
  <2>2. M!Path(s, i) = 0 /\ M!Entity(s, i) = 0
    BY <1>10
  <2>3. Claims(s, i, p, i + p.length)
    BY <2>1, <2>2 DEF Claims
  <2> QED
    BY <1>1, <2>1, <2>3 DEF p
<1> QED
  BY <1>3, <1>5, <1>6, <1>7, <1>8, <1>9, <1>10

-----------------------------------------------------------------------------
(* The walk over a text, a piece at a time.                                *)

\* What claims each position of a text of this length, and no more than that.
Claimed(t, n) ==
  \A i \in 1..n : t[i].length \in Nat /\ i + t[i].length \in (i + 1)..(n + 1)

Body(t, n, f, i) ==
  IF i = n + 1 THEN <<>> ELSE <<[at |-> i, token |-> t[i]]>> \o f[i + t[i].length]

Walks(t, n, f) == f = [i \in 1..(n + 1) |-> Body(t, n, f, i)]

PiecesOf(t, n) == {[at |-> j, token |-> t[j]] : j \in 1..n}

\* A walk from a position has its pieces one after the other to the end.
Tiles(ps, i, t, n) ==
  /\ ps \in Seq(PiecesOf(t, n))
  /\ i = n + 1 <=> ps = <<>>
  /\ i # n + 1 => ps[1].at = i /\ ps[Len(ps)].at + ps[Len(ps)].token.length = n + 1
  /\ \A m \in 1..(Len(ps) - 1) : ps[m].at + ps[m].token.length = ps[m + 1].at

LEMMA Prepended ==
  ASSUME NEW S, NEW r \in S, NEW qs \in Seq(S)
  PROVE  LET ps == <<r>> \o qs
         IN  /\ ps \in Seq(S) /\ Len(ps) = Len(qs) + 1 /\ ps[1] = r
             /\ \A m \in 1..Len(qs) : ps[m + 1] = qs[m]
<1> DEFINE one == <<r>>
           ps == one \o qs
<1>1. one \in Seq(S) /\ Len(one) = 1 /\ one[1] = r
  OBVIOUS
<1>2. Len(qs) \in Nat
  OBVIOUS
<1> HIDE DEF one
<1>3. /\ ps \in Seq(S) /\ Len(ps) = 1 + Len(qs)
      /\ \A k \in 1..(1 + Len(qs)) : ps[k] = IF k <= 1 THEN one[k] ELSE qs[k - 1]
  <2>1. /\ ps \in Seq(S) /\ Len(ps) = Len(one) + Len(qs)
        /\ \A k \in 1..(Len(one) + Len(qs)) : ps[k] = IF k <= Len(one) THEN one[k] ELSE qs[k - Len(one)]
    BY <1>1, ConcatProperties
  <2> HIDE DEF ps
  <2> QED
    BY <1>1, <2>1
<1> HIDE DEF ps
<1>4. ps[1] = r
  BY <1>1, <1>2, <1>3
<1>5. ASSUME NEW m \in 1..Len(qs) PROVE ps[m + 1] = qs[m]
  <2>1. m + 1 \in 1..(1 + Len(qs)) /\ ~ (m + 1 <= 1) /\ (m + 1) - 1 = m
    BY <1>2
  <2> QED
    BY <1>3, <2>1
<1> QED
  BY <1>2, <1>3, <1>4, <1>5 DEF ps, one

LEMMA WalkThere == ASSUME NEW n \in Nat, NEW t, Claimed(t, n) PROVE \E f : Walks(t, n, f)
<1> DEFINE From(d) == (n + 1 - d)..(n + 1)
           U == {d \in Nat : d <= n => \E f : f = [i \in From(d) |-> Body(t, n, f, i)]}
<1>1. 0 \in U
  <2> DEFINE f == [i \in From(0) |-> <<>>]
  <2>1. \A i \in From(0) : i = n + 1
    OBVIOUS
  <2>2. f = [i \in From(0) |-> Body(t, n, f, i)]
    BY <2>1 DEF Body
  <2> QED
    BY <2>2
<1>2. ASSUME NEW d \in Nat, d \in U PROVE d + 1 \in U
  <2> SUFFICES ASSUME d + 1 <= n PROVE \E f : f = [i \in From(d + 1) |-> Body(t, n, f, i)]
    OBVIOUS
  <2>1. PICK g : g = [i \in From(d) |-> Body(t, n, g, i)]
    BY <1>2
  <2> DEFINE first == n + 1 - (d + 1)
             f == [i \in From(d + 1) |-> IF i = first THEN Body(t, n, g, i) ELSE g[i]]
  <2>2. /\ first \in 1..n /\ first \in From(d + 1)
        /\ \A i \in From(d + 1) : i # first => i \in From(d)
        /\ \A i \in From(d) : i \in From(d + 1) /\ i # first
        /\ \A i \in From(d + 1) : i \in 1..(n + 1)
    OBVIOUS
  <2>3. \A i \in From(d + 1) : i # n + 1 => i + t[i].length \in From(d)
    <3> SUFFICES ASSUME NEW i \in From(d + 1), i # n + 1 PROVE i + t[i].length \in From(d)
      OBVIOUS
    <3>1. i \in 1..n /\ i >= first
      BY <2>2
    <3>2. i + t[i].length \in (i + 1)..(n + 1)
      BY <3>1 DEF Claimed
    <3> QED
      BY <3>1, <3>2
  <2> HIDE DEF From
  <2>4. \A i \in From(d) : f[i] = g[i]
    BY <2>2
  <2>5. \A i \in From(d + 1) : f[i] = IF i = first THEN Body(t, n, g, i) ELSE g[i]
    OBVIOUS
  <2> HIDE DEF f, first
  <2>6. \A i \in From(d + 1) : Body(t, n, f, i) = Body(t, n, g, i)
    BY <2>3, <2>4 DEF Body
  <2>7. \A i \in From(d) : g[i] = Body(t, n, g, i)
    BY <2>1
  <2>8. \A i \in From(d + 1) : f[i] = Body(t, n, f, i)
    BY <2>2, <2>5, <2>6, <2>7
  <2>9. f = [i \in From(d + 1) |-> Body(t, n, f, i)]
    <3>1. f = [i \in From(d + 1) |-> f[i]]
      BY DEF f
    <3> QED
      BY <2>8, <3>1
  <2> QED
    BY <2>9
<1> HIDE DEF U
<1>3. n \in U
  BY <1>1, <1>2, MarksAre!NatInduct
<1>4. PICK f : f = [i \in From(n) |-> Body(t, n, f, i)]
  BY <1>3 DEF U
<1>5. From(n) = 1..(n + 1)
  OBVIOUS
<1> HIDE DEF From
<1>6. Walks(t, n, f)
  BY <1>4, <1>5 DEF Walks
<1> QED
  BY <1>6

LEMMA WalkTiles ==
  ASSUME NEW n \in Nat, NEW t, NEW f, Claimed(t, n), Walks(t, n, f)
  PROVE  \A i \in 1..(n + 1) : Tiles(f[i], i, t, n)
<1> DEFINE U == {d \in Nat : \A i \in 1..(n + 1) : i >= n + 1 - d => Tiles(f[i], i, t, n)}
           S == PiecesOf(t, n)
<1>0. \A i \in 1..(n + 1) : f[i] = Body(t, n, f, i)
  BY DEF Walks
<1>1. 0 \in U
  <2> SUFFICES ASSUME NEW i \in 1..(n + 1), i >= n + 1 - 0 PROVE Tiles(f[i], i, t, n)
    OBVIOUS
  <2>1. i = n + 1
    OBVIOUS
  <2>2. f[i] = <<>>
    BY <1>0, <2>1 DEF Body
  <2>3. Len(<<>>) = 0 /\ <<>> \in Seq(S)
    BY EmptySeq
  <2>4. \A m \in 1..(Len(<<>>) - 1) : FALSE
    BY <2>3
  <2>5. Tiles(<<>>, i, t, n)
    BY <2>1, <2>3, <2>4 DEF Tiles
  <2> QED
    BY <2>2, <2>5
<1>2. ASSUME NEW d \in Nat, d \in U PROVE d + 1 \in U
  <2> SUFFICES ASSUME NEW i \in 1..(n + 1), i >= n + 1 - (d + 1) PROVE Tiles(f[i], i, t, n)
    OBVIOUS
  <2>1. CASE i >= n + 1 - d
    BY <1>2, <2>1
  <2>2. CASE ~ (i >= n + 1 - d)
    <3> DEFINE j == i + t[i].length
               r == [at |-> i, token |-> t[i]]
               qs == f[j]
               ps == <<r>> \o qs
    <3>1. i \in 1..n /\ i # n + 1 /\ i = n + 1 - (d + 1)
      BY <2>2
    <3>2. j \in (i + 1)..(n + 1)
      BY <3>1 DEF Claimed
    <3>3. j \in 1..(n + 1) /\ j >= n + 1 - d
      BY <3>1, <3>2
    <3>4. Tiles(qs, j, t, n)
      BY <1>2, <3>3
    <3>5. f[i] = ps
      BY <1>0, <3>1 DEF Body
    <3>6. r \in S /\ r.at = i /\ r.at + r.token.length = j
      BY <3>1 DEF PiecesOf
    <3> HIDE DEF S, r, qs, j
    <3>7. qs \in Seq(S)
      BY <3>4 DEF Tiles, S
    <3>8. /\ ps \in Seq(S) /\ Len(ps) = Len(qs) + 1 /\ ps[1] = r
          /\ \A m \in 1..Len(qs) : ps[m + 1] = qs[m]
      BY <3>6, <3>7, Prepended
    <3> HIDE DEF ps
    <3>9. Len(qs) \in Nat /\ (qs = <<>> <=> Len(qs) = 0)
      BY <3>7
    <3>10. ps # <<>>
      BY <3>8, <3>9
    <3>11. ps[Len(ps)].at + ps[Len(ps)].token.length = n + 1
      <4>1. CASE qs = <<>>
        <5>1. Len(ps) = 1 /\ j = n + 1
          BY <3>4, <3>8, <3>9, <4>1 DEF Tiles
        <5> QED
          BY <3>6, <3>8, <5>1
      <4>2. CASE qs # <<>>
        <5>1. Len(qs) \in 1..Len(qs)
          BY <3>9, <4>2
        <5>2. ps[Len(ps)] = qs[Len(qs)]
          BY <3>8, <5>1
        <5> QED
          BY <3>4, <4>2, <5>2 DEF Tiles
      <4> QED
        BY <4>1, <4>2
    <3>12. ASSUME NEW m \in 1..(Len(ps) - 1) PROVE ps[m].at + ps[m].token.length = ps[m + 1].at
      <4>1. m \in 1..Len(qs) /\ Len(qs) # 0
        BY <3>8, <3>9
      <4>2. ps[m + 1] = qs[m]
        BY <3>8, <4>1
      <4>3. CASE m = 1
        <5>1. qs[1].at = j
          BY <3>4, <3>9, <4>1 DEF Tiles
        <5> QED
          BY <3>6, <3>8, <4>2, <4>3, <5>1
      <4>4. CASE m # 1
        <5>1. m - 1 \in 1..(Len(qs) - 1) /\ m - 1 \in 1..Len(qs) /\ (m - 1) + 1 = m
          BY <3>9, <4>1, <4>4
        <5>2. ps[m] = qs[m - 1]
          BY <3>8, <5>1
        <5>3. qs[m - 1].at + qs[m - 1].token.length = qs[(m - 1) + 1].at
          BY <3>4, <5>1 DEF Tiles
        <5> QED
          BY <4>2, <5>1, <5>2, <5>3
      <4> QED
        BY <4>3, <4>4
    <3>13. ps[1].at = i
      BY <3>6, <3>8
    <3>14. Tiles(ps, i, t, n)
      BY <3>1, <3>8, <3>10, <3>11, <3>12, <3>13 DEF Tiles, S
    <3> QED
      BY <3>5, <3>14
  <2> QED
    BY <2>1, <2>2
<1> HIDE DEF U
<1>3. n \in U
  BY <1>1, <1>2, MarksAre!NatInduct
<1>4. \A i \in 1..(n + 1) : i >= n + 1 - n
  OBVIOUS
<1> QED
  BY <1>3, <1>4 DEF U

-----------------------------------------------------------------------------
(* A text of atoms, and the escaped quotes in it.                          *)

Chars(S) == S \cup {"&", "#", "3", "9", ";", "/", "a", ".", ":", "1", "h", "t", "p", "s"}
AllEscaped(atoms) == [i \in DOMAIN atoms |-> M!Escaped(atoms[i])]

LEMMA TextFlat == ASSUME NEW atoms PROVE M!Text(atoms) = MarksAre!FlattenSeq(AllEscaped(atoms))
<1>1. \A ss : M!FlattenSeq(ss) = MarksAre!FlattenSeq(ss)
  BY DEF M!FlattenSeq, MarksAre!FlattenSeq
<1> QED
  BY <1>1 DEF M!Text, AllEscaped

LEMMA Spelled ==
  ASSUME NEW T, NEW a \in T, NEW b \in T, NEW c \in T, NEW d \in T, NEW e \in T,
         NEW f \in T, NEW g \in T, NEW h \in T
  PROVE  /\ <<a>> \in Seq(T) /\ <<a, b>> \in Seq(T) /\ <<a, b, c, d>> \in Seq(T)
         /\ <<a, b, c, d, e>> \in Seq(T) /\ <<a, b, c, d, e, f, g, h>> \in Seq(T)
<1>1. <<a>> \in Seq(T)
  OBVIOUS
<1>2. <<a, b>> \in Seq(T)
  OBVIOUS
<1>3. <<a, b, c, d>> \in Seq(T)
  OBVIOUS
<1>4. <<a, b, c, d, e>> \in Seq(T)
  OBVIOUS
<1>5. <<a, b, c, d, e, f, g, h>> \in Seq(T)
  OBVIOUS
<1> QED
  BY <1>1, <1>2, <1>3, <1>4, <1>5

LEMMA EscapedType == ASSUME NEW S, NEW x \in S PROVE M!Escaped(x) \in Seq(Chars(S))
<1> DEFINE T == Chars(S)
           y == M!Escaped(x)
<1>1. /\ x \in T /\ "&" \in T /\ "#" \in T /\ "3" \in T /\ "9" \in T /\ ";" \in T
      /\ "/" \in T /\ "a" \in T /\ "." \in T /\ ":" \in T /\ "1" \in T
      /\ "h" \in T /\ "t" \in T /\ "p" \in T /\ "s" \in T
  BY DEF Chars
<1>2. \/ y = <<"&", "#", "3", "9", ";">>
      \/ y = <<"h", "t", "t", "p", "s", ":", "/", "/">>
      \/ y = <<"/", "a", ".", "a">>
      \/ y = <<":", "1">>
      \/ y = <<x>>
  BY DEF M!Escaped, M!Https
<1> HIDE DEF T, y
<1>3. y \in Seq(T)
  <2>1. <<"&", "#", "3", "9", ";">> \in Seq(T)
    BY <1>1, Spelled
  <2>2. <<"h", "t", "t", "p", "s", ":", "/", "/">> \in Seq(T)
    BY <1>1, Spelled
  <2>3. <<"/", "a", ".", "a">> \in Seq(T)
    BY <1>1, Spelled
  <2>4. <<":", "1">> \in Seq(T)
    BY <1>1, Spelled
  <2>5. <<x>> \in Seq(T)
    BY <1>1, Spelled
  <2> QED
    BY <1>2, <2>1, <2>2, <2>3, <2>4, <2>5, Zenon
<1> QED
  BY <1>3 DEF T, y

LEMMA EscapedStep ==
  ASSUME NEW S
  PROVE  /\ M!Text(<<>>) = <<>>
         /\ \A a \in Seq(S) : M!Text(a) \in Seq(Chars(S))
         /\ \A a \in Seq(S), x \in S : M!Text(Append(a, x)) = M!Text(a) \o M!Escaped(x)
<1> DEFINE Q == Seq(Chars(S))
<1>1. \A x \in S : M!Escaped(x) \in Q
  BY EscapedType
<1>2. M!Text(<<>>) = <<>>
  <2>1. AllEscaped(<<>>) = <<>>
    BY DEF AllEscaped
  <2> QED
    BY <2>1, TextFlat, MarksAre!FlattenStep
<1>3. ASSUME NEW a \in Seq(S) PROVE AllEscaped(a) \in Seq(Q)
  <2> HIDE DEF Q
  <2>1. DOMAIN a = 1..Len(a) /\ Len(a) \in Nat /\ \A i \in 1..Len(a) : a[i] \in S
    OBVIOUS
  <2> QED
    BY <1>1, <2>1 DEF AllEscaped
<1>4. ASSUME NEW a \in Seq(S), NEW x \in S PROVE M!Text(Append(a, x)) = M!Text(a) \o M!Escaped(x)
  <2>1. AllEscaped(Append(a, x)) = Append(AllEscaped(a), M!Escaped(x))
    <3> DEFINE all == Append(a, x)
               n == Len(a)
    <3>1. /\ n \in Nat /\ DOMAIN a = 1..n /\ DOMAIN all = 1..(n + 1)
          /\ all[n + 1] = x /\ \A i \in 1..n : all[i] = a[i]
      BY AppendProperties
    <3>2. AllEscaped(a) \in Seq(Q) /\ M!Escaped(x) \in Q
      BY <1>1, <1>3
    <3> HIDE DEF all, Q
    <3>3. Len(AllEscaped(a)) = n /\ \A i \in 1..n : AllEscaped(a)[i] = M!Escaped(a[i])
      BY <3>1 DEF AllEscaped
    <3>4. AllEscaped(all) = [i \in 1..(n + 1) |-> M!Escaped(all[i])]
      BY <3>1 DEF AllEscaped
    <3>5. Append(AllEscaped(a), M!Escaped(x)) = [i \in 1..(n + 1) |-> M!Escaped(all[i])]
      <4> DEFINE esc == AllEscaped(a)
                 y == M!Escaped(x)
                 more == Append(esc, y)
      <4>1. more \in Seq(Q) /\ Len(more) = n + 1 /\ more[n + 1] = y /\ \A i \in 1..n : more[i] = esc[i]
        BY <3>2, <3>3, AppendProperties
      <4> HIDE DEF more
      <4>2. more = [i \in 1..(n + 1) |-> more[i]]
        BY <4>1
      <4>3. \A i \in 1..(n + 1) : more[i] = M!Escaped(all[i])
        BY <3>1, <3>3, <4>1
      <4>4. more = [i \in 1..(n + 1) |-> M!Escaped(all[i])]
        BY <4>2, <4>3
      <4> QED
        BY <4>4 DEF more
    <3> QED
      BY <3>4, <3>5 DEF all
  <2>2. MarksAre!FlattenSeq(Append(AllEscaped(a), M!Escaped(x))) = MarksAre!FlattenSeq(AllEscaped(a)) \o M!Escaped(x)
    BY <1>1, <1>3, MarksAre!FlattenStep
  <2> QED
    BY <2>1, <2>2, TextFlat
<1>5. ASSUME NEW a \in Seq(S) PROVE M!Text(a) \in Seq(Chars(S))
  BY <1>3, TextFlat, MarksAre!FlattenType
<1> QED
  BY <1>2, <1>4, <1>5

LEMMA TextConcat ==
  ASSUME NEW S, NEW a \in Seq(S), NEW b \in Seq(S)
  PROVE  M!Text(a \o b) = M!Text(a) \o M!Text(b)
<1> DEFINE T == Chars(S)
           G == {d \in Seq(S) : M!Text(a \o d) = M!Text(a) \o M!Text(d)}
<1>0. M!Text(a) \in Seq(T) /\ \A d \in Seq(S) : M!Text(d) \in Seq(T)
  BY EscapedStep
<1>1. <<>> \in G
  <2>1. a \o <<>> = a /\ M!Text(a) \o <<>> = M!Text(a)
    BY <1>0
  <2> QED
    BY <2>1, EscapedStep, EmptySeq
<1>2. ASSUME NEW d \in Seq(S), NEW x \in S, d \in G PROVE Append(d, x) \in G
  <2>1. a \o Append(d, x) = Append(a \o d, x) /\ a \o d \in Seq(S)
    OBVIOUS
  <2>2. M!Text(Append(a \o d, x)) = M!Text(a \o d) \o M!Escaped(x)
    BY <2>1, EscapedStep
  <2>3. M!Text(Append(d, x)) = M!Text(d) \o M!Escaped(x)
    BY EscapedStep
  <2>4. M!Escaped(x) \in Seq(T) /\ M!Text(d) \in Seq(T)
    BY <1>0, EscapedType
  <2>5. M!Text(a \o d) = M!Text(a) \o M!Text(d)
    BY <1>2
  <2>6. (M!Text(a) \o M!Text(d)) \o M!Escaped(x) = M!Text(a) \o (M!Text(d) \o M!Escaped(x))
    BY <1>0, <2>4, ConcatAssociative
  <2>7. M!Text(a \o Append(d, x)) = M!Text(a) \o M!Text(Append(d, x))
    BY <2>1, <2>2, <2>3, <2>5, <2>6, Zenon
  <2> QED
    BY <2>7, AppendProperties
<1> HIDE DEF G
<1>3. b \in G
  BY <1>1, <1>2, MarksAre!SeqInduct
<1> QED
  BY <1>3 DEF G

\* An escaped quote, where it starts and ends in a text.
Quoted(s, q) ==
  /\ q[1] \in 1..Len(s) /\ q[2] = q[1] + 4 /\ q[2] <= Len(s)
  /\ s[q[1]] = "&" /\ s[q[1] + 1] = "#" /\ s[q[1] + 2] = "3" /\ s[q[1] + 3] = "9" /\ s[q[1] + 4] = ";"

LEMMA QuotesAre ==
  ASSUME NEW S, NEW atoms \in Seq(S), NEW q \in M!Quotes(atoms)
  PROVE  Quoted(M!Text(atoms), q)
<1>1. PICK n \in DOMAIN atoms :
        /\ atoms[n] = "quote"
        /\ q = <<Len(M!Text(SubSeq(atoms, 1, n - 1))) + 1, Len(M!Text(SubSeq(atoms, 1, n)))>>
  BY DEF M!Quotes
<1> DEFINE len == Len(atoms)
           pre == SubSeq(atoms, 1, n - 1)
           upto == SubSeq(atoms, 1, n)
           post == SubSeq(atoms, n + 1, len)
           T == Chars(S)
           w == M!Text(pre)
           u == M!Text(upto)
           v == M!Text(post)
           quote == <<"&", "#", "3", "9", ";">>
<1>2. n \in 1..len /\ len \in Nat
  BY <1>1
<1>3. pre \in Seq(S) /\ upto \in Seq(S) /\ post \in Seq(S)
  BY <1>2, SubSeqProperties
<1>4. upto = Append(pre, "quote")
  <2>0. 1 \in 1..len /\ n \in 1..len
    BY <1>2
  <2>1. SubSeq(atoms, 1, n) = SubSeq(atoms, 1, n - 1) \o <<atoms[n]>>
    BY <2>0, SubSeqRecursiveSecond
  <2>2. \A p \in Seq(S), x \in S : Append(p, x) = p \o <<x>>
    OBVIOUS
  <2>3. "quote" \in S /\ pre \in Seq(S)
    BY <1>1, <1>3
  <2>4. Append(pre, "quote") = pre \o <<"quote">>
    BY <2>2, <2>3
  <2>5. upto = pre \o <<"quote">>
    BY <1>1, <2>1
  <2> HIDE DEF upto, pre
  <2> QED
    BY <2>4, <2>5
<1>5. atoms = upto \o post
  <2>1. 1 \in 1..(len + 1) /\ n \in (1 - 1)..len /\ len \in n..len
    BY <1>2
  <2>2. SubSeq(atoms, 1, n) \o SubSeq(atoms, n + 1, len) = SubSeq(atoms, 1, len)
    BY <2>1, ConcatAdjacentSubSeq
  <2>3. SubSeq(atoms, 1, len) = atoms
    BY SubSeqFull
  <2> QED
    BY <2>2, <2>3
<1>6. "quote" \in S
  BY <1>1
<1> HIDE DEF pre, upto, post
<1>7. u = w \o quote
  BY <1>3, <1>4, <1>6, EscapedStep DEF M!Escaped
<1>8. M!Text(atoms) = u \o v
  BY <1>3, <1>5, TextConcat
<1>9. w \in Seq(T) /\ v \in Seq(T)
  BY <1>3, EscapedStep
<1>10. /\ quote \in Seq(T) /\ Len(quote) = 5
       /\ quote[1] = "&" /\ quote[2] = "#" /\ quote[3] = "3" /\ quote[4] = "9" /\ quote[5] = ";"
  <2>1. "&" \in T /\ "#" \in T /\ "3" \in T /\ "9" \in T /\ ";" \in T
    BY DEF Chars
  <2> HIDE DEF T
  <2>2. quote \in Seq(T)
    BY <2>1, Spelled
  <2> QED
    BY <2>2
<1>11. q = <<Len(w) + 1, Len(u)>>
  BY <1>1 DEF pre, upto
<1> HIDE DEF w, u, v, quote, T
<1>12. Len(w) \in Nat /\ Len(v) \in Nat
  BY <1>9
<1>13. u \in Seq(T) /\ Len(u) = Len(w) + 5 /\ \A k \in 1..5 : u[Len(w) + k] = quote[k]
  <2>1. /\ u \in Seq(T) /\ Len(u) = Len(w) + Len(quote)
        /\ \A i \in 1..(Len(w) + Len(quote)) : u[i] = IF i <= Len(w) THEN w[i] ELSE quote[i - Len(w)]
    BY <1>7, <1>9, <1>10, ConcatProperties
  <2>2. ASSUME NEW k \in 1..5 PROVE u[Len(w) + k] = quote[k]
    <3>1. Len(w) + k \in 1..(Len(w) + Len(quote)) /\ ~ (Len(w) + k <= Len(w)) /\ (Len(w) + k) - Len(w) = k
      <4> DEFINE lw == Len(w)
      <4>1. lw \in Nat /\ Len(quote) = 5
        BY <1>10, <1>12
      <4> HIDE DEF lw
      <4>2. lw + k \in 1..(lw + 5) /\ ~ (lw + k <= lw) /\ (lw + k) - lw = k
        BY <4>1
      <4> QED
        BY <4>1, <4>2 DEF lw
    <3> QED
      BY <2>1, <3>1
  <2> QED
    BY <1>10, <2>1, <2>2
<1> DEFINE s == u \o v
<1>14. s \in Seq(T) /\ Len(s) = Len(u) + Len(v) /\ \A i \in 1..Len(u) : s[i] = u[i]
  <2>1. \A i \in 1..Len(u) : i \in 1..(Len(u) + Len(v)) /\ i <= Len(u)
    BY <1>12, <1>13
  <2> QED
    BY <1>9, <1>13, <2>1, ConcatProperties
<1> HIDE DEF s
<1>15. \A k \in 1..5 : s[Len(w) + k] = quote[k]
  <2>0. Len(u) = Len(w) + 5
    BY <1>13
  <2> DEFINE lw == Len(w)
             lu == Len(u)
  <2>3. lw \in Nat /\ lu = lw + 5
    BY <1>12, <2>0
  <2> HIDE DEF lw, lu
  <2>4. \A k \in 1..5 : lw + k \in 1..lu
    BY <2>3
  <2>1. \A k \in 1..5 : Len(w) + k \in 1..Len(u)
    BY <2>4 DEF lw, lu
  <2> QED
    BY <1>13, <1>14, <2>1
<1>16. q[1] = Len(w) + 1 /\ q[2] = Len(u)
  BY <1>11
<1>17. /\ q[1] \in 1..Len(s) /\ q[2] = q[1] + 4 /\ q[2] <= Len(s)
       /\ q[1] + 1 = Len(w) + 2 /\ q[1] + 2 = Len(w) + 3 /\ q[1] + 3 = Len(w) + 4 /\ q[1] + 4 = Len(w) + 5
  BY <1>12, <1>13, <1>14, <1>16
<1>18. 1 \in 1..5 /\ 2 \in 1..5 /\ 3 \in 1..5 /\ 4 \in 1..5 /\ 5 \in 1..5
  OBVIOUS
<1>19. Quoted(s, q)
  BY <1>10, <1>15, <1>16, <1>17, <1>18 DEF Quoted
<1> QED
  BY <1>8, <1>19 DEF s

-----------------------------------------------------------------------------
(* What becomes of a piece's ends.                                         *)

\* A piece that does not start inside an escaped quote does not end in it.
LEMMA QuoteStep ==
  ASSUME NEW C, NEW s \in Seq(C), NEW i \in 1..Len(s), NEW q, Quoted(s, q),
         ~ (q[1] < i /\ i <= q[2])
  PROVE  LET e == i + M!Piece(s, i).length
         IN  ~ (q[1] < e /\ e <= q[2])
<1> DEFINE n == Len(s)
           p == M!Piece(s, i)
           e == i + p.length
           q1 == q[1]
           q2 == q[2]
<1>1. n \in Nat /\ i \in Nat /\ i \in 1..n
  OBVIOUS
<1>2. e \in (i + 1)..(n + 1) /\ Claims(s, i, p, e)
  BY PieceIs
<1>3. /\ q1 \in 1..n /\ q2 = q1 + 4 /\ q2 <= n
      /\ s[q1] = "&" /\ s[q1 + 1] = "#" /\ s[q1 + 2] = "3" /\ s[q1 + 3] = "9" /\ s[q1 + 4] = ";"
  BY DEF Quoted
<1>4. ~ (q1 < i /\ i <= q2)
  OBVIOUS
<1>5. SUFFICES ASSUME q1 < e, e <= q2 PROVE FALSE
  OBVIOUS
<1> HIDE DEF n, p, e, q1, q2
<1>6. e \in Nat /\ q1 \in Nat /\ q2 \in Nat
  <2>1. e \in (i + 1)..(n + 1)
    BY <1>2 DEF n
  <2>2. q1 \in 1..n /\ q2 = q1 + 4
    BY <1>3
  <2>3. e \in Nat
    BY <1>1, <2>1
  <2>4. q1 \in Nat
    BY <1>1, <2>2
  <2> QED
    BY <2>2, <2>3, <2>4
<1>7. /\ q1 \in i..(e - 1) /\ e # n + 1 /\ e \in {q1 + 1, q1 + 2, q1 + 3, q1 + 4}
      /\ e - 1 \in {q1, q1 + 1, q1 + 2, q1 + 3}
  <2>0. e \in (i + 1)..(n + 1)
    BY <1>2 DEF n
  <2>3. i < e
    BY <1>1, <1>6, <2>0
  <2>1. i < e /\ q2 = q1 + 4 /\ q2 <= n
    BY <1>3, <2>3
  <2> QED
    BY <1>1, <1>4, <1>5, <1>6, <2>1
<1>8. s[e] \in {"#", "3", "9", ";"} /\ s[e - 1] \in {"&", "#", "3", "9"}
  BY <1>3, <1>7
<1>9. CASE s[e - 1] = ";"
  BY <1>8, <1>9
<1>10. CASE e = n + 1 \/ s[e] \in M!Space
  BY <1>7, <1>8, <1>10 DEF M!Space
<1>11. CASE \E set : "&" \notin set /\ \A k \in i..(e - 1) : s[k] \in set
  BY <1>3, <1>7, <1>11
<1>12. CASE e = i + 1 /\ M!Entity(s, i) = 0
  <2>1. q1 = i
    BY <1>1, <1>6, <1>7, <1>12
  <2>2. i + 4 <= Len(s)
    BY <1>3, <2>1 DEF n
  <2>3. M!Entity(s, i) > 0
    BY <1>3, <2>1, <2>2, EntityIs
  <2> QED
    BY <1>12, <2>3
<1>13. /\ "&" \notin M!PathCharacters \cup {":"} /\ "&" \notin M!Digits \cup {".", ","}
       /\ \A sign \in M!Signs : "&" \notin {sign}
  BY DEF M!PathCharacters, M!Alphanumeric, M!Letters, M!Digits, M!Signs
<1>14. CASE p.class = "path" /\ \A k \in i..(e - 1) : s[k] \in M!PathCharacters \cup {":"}
  BY <1>11, <1>13, <1>14
<1>15. CASE \A k \in i..(e - 1) : s[k] \in M!Digits \cup {".", ","}
  BY <1>11, <1>13, <1>15
<1>16. CASE \E sign \in M!Signs : \A k \in i..(e - 1) : s[k] = sign
  <2>1. PICK sign \in M!Signs : \A k \in i..(e - 1) : s[k] = sign
    BY <1>16
  <2>2. \A k \in i..(e - 1) : s[k] \in {sign}
    BY <2>1
  <2> QED
    BY <1>11, <1>13, <2>2
<1> QED
  BY <1>2, <1>9, <1>10, <1>12, <1>14, <1>15, <1>16 DEF Claims, n

\* A path goes on from what is not of its characters, from another path, or
\* from a count with a comma in it.
LEMMA PathStep ==
  ASSUME NEW C, NEW s \in Seq(C), NEW i \in 1..Len(s), NEW e \in 1..Len(s),
         e = i + M!Piece(s, i).length, M!Piece(s, e).class = "path"
  PROVE  \/ M!Before(s, e) \notin M!PathCharacters
         \/ M!Piece(s, i).class = "path"
         \/ M!Piece(s, i).class = "num" /\ \E k \in i..(e - 1) : s[k] = ","
<1> DEFINE n == Len(s)
           p == M!Piece(s, i)
           r == M!Piece(s, e)
<1>1. n \in Nat /\ i \in Nat /\ e \in Nat /\ e <= n
  OBVIOUS
<1>2. e \in (i + 1)..(n + 1) /\ Claims(s, i, p, e)
  BY PieceIs
<1>3. M!Path(s, e) > 0 /\ s[e] \in M!PathCharacters
  <2>1. Claims(s, e, r, e + r.length)
    BY PieceIs
  <2>2. r.class = "path"
    OBVIOUS
  <2> HIDE DEF r
  <2>3. M!Path(s, e) > 0
    BY <2>1, <2>2 DEF Claims
  <2> QED
    BY <2>3, PathIs
<1> HIDE DEF p
<1>4. e \notin {1, n + 1} /\ i < e /\ e - 1 \in i..(e - 1) /\ i \in i..(e - 1)
  <2>1. i >= 1
    OBVIOUS
  <2>2. e \in (i + 1)..(n + 1)
    BY <1>2
  <2> HIDE DEF n
  <2> QED
    BY <1>1, <2>1, <2>2
<1>5. M!Before(s, e) = s[e - 1]
  BY <1>4 DEF M!Before
<1>6. CASE \A k \in i..(e - 1) : s[k] \in M!PathCharacters
  <2>1. M!Path(s, i) > 0
    BY <1>3, <1>4, <1>6, PathsStartEarly
  <2>2. CASE p.class = "plain" /\ s[i] = "&"
    BY <1>4, <1>6, <2>2 DEF M!PathCharacters, M!Alphanumeric, M!Letters, M!Digits
  <2>3. CASE e = n + 1 \/ s[e] \in M!Space
    BY <1>3, <1>4, <2>3 DEF M!Space, M!PathCharacters, M!Alphanumeric, M!Letters, M!Digits
  <2>4. CASE M!Path(s, i) = 0
    <3>1. ~ (0 > 0)
      OBVIOUS
    <3> QED
      BY <2>1, <2>4, <3>1, Zenon
  <2>5. CASE p.class = "path"
    BY <2>5 DEF p
  <2> QED
    BY <1>2, <2>2, <2>3, <2>4, <2>5 DEF Claims, n
<1>7. CASE ~ (\A k \in i..(e - 1) : s[k] \in M!PathCharacters)
  <2>1. CASE s[e - 1] = ";"
    BY <1>5, <2>1 DEF M!PathCharacters, M!Alphanumeric, M!Letters, M!Digits
  <2>2. CASE e = n + 1 \/ s[e] \in M!Space
    BY <1>3, <1>4, <2>2 DEF M!Space, M!PathCharacters, M!Alphanumeric, M!Letters, M!Digits
  <2>3. CASE p.class = "num" /\ \A k \in i..(e - 1) : s[k] \in M!Digits \cup {".", ","}
    <3>1. PICK k \in i..(e - 1) : s[k] \notin M!PathCharacters
      BY <1>7
    <3>2. s[k] = ","
      <4>1. s[k] \in M!Digits \cup {".", ","}
        BY <2>3, <3>1
      <4>2. M!Digits \cup {"."} \subseteq M!PathCharacters
        BY DEF M!PathCharacters, M!Alphanumeric
      <4> QED
        BY <3>1, <4>1, <4>2
    <3> QED
      BY <2>3, <3>1, <3>2 DEF p
  <2>4. CASE \E sign \in M!Signs : \A k \in i..(e - 1) : s[k] = sign
    <3>1. PICK sign \in M!Signs : \A k \in i..(e - 1) : s[k] = sign
      BY <2>4
    <3>2. sign \notin M!PathCharacters
      BY <1>7, <3>1
    <3> QED
      BY <1>4, <1>5, <3>1, <3>2
  <2>5. CASE e = i + 1
    <3>1. \A k \in i..(e - 1) : k = i
      BY <1>1, <2>5
    <3>2. e - 1 = i
      BY <1>1, <2>5
    <3> QED
      BY <1>5, <1>7, <3>1, <3>2
  <2>6. CASE p.class = "path"
    BY <2>6 DEF p
  <2> QED
    BY <1>2, <2>1, <2>2, <2>3, <2>4, <2>5, <2>6 DEF Claims, n
<1> QED
  BY <1>6, <1>7

-----------------------------------------------------------------------------
(* A tool's output.                                                        *)

Pieced(s) == [i \in 1..Len(s) |-> M!Piece(s, i)]

LEMMA ColorizeIs ==
  ASSUME NEW C, NEW s \in Seq(C)
  PROVE  Tiles(M!Colorize(s), 1, Pieced(s), Len(s))
<1> DEFINE n == Len(s)
           t == Pieced(s)
           P(f) == f = [i \in 1..(n + 1) |->
                          IF i = n + 1 THEN <<>>
                          ELSE <<[at |-> i, token |-> M!Piece(s, i)]>> \o f[i + M!Piece(s, i).length]]
<1>1. n \in Nat
  OBVIOUS
<1>2. M!Colorize(s) = (CHOOSE f : P(f))[1]
  BY DEF M!Colorize
<1>3. \A i \in 1..n : t[i] = M!Piece(s, i)
  BY DEF Pieced
<1>4. Claimed(t, n)
  BY <1>3, PieceIs DEF Claimed
<1> HIDE DEF t
<1>5. ASSUME NEW f PROVE Walks(t, n, f) <=> P(f)
  <2>1. ASSUME NEW i \in 1..(n + 1)
        PROVE  Body(t, n, f, i) = IF i = n + 1 THEN <<>>
                                  ELSE <<[at |-> i, token |-> M!Piece(s, i)]>> \o f[i + M!Piece(s, i).length]
    <3>1. i # n + 1 => i \in 1..n
      BY <1>1
    <3> QED
      BY <1>3, <3>1 DEF Body
  <2> QED
    BY <2>1 DEF Walks
<1> HIDE DEF P
<1>6. \E f : P(f)
  BY <1>1, <1>4, <1>5, WalkThere
<1>7. P(CHOOSE f : P(f))
  BY <1>6
<1>8. Walks(t, n, CHOOSE f : P(f))
  BY <1>5, <1>7
<1>9. 1 \in 1..(n + 1)
  BY <1>1
<1>10. Tiles((CHOOSE f : P(f))[1], 1, t, n)
  BY <1>1, <1>4, <1>8, <1>9, WalkTiles
<1> QED
  BY <1>2, <1>10 DEF t

\* What a walk's pieces are, and that they cover the text.
LEMMA TilesAre ==
  ASSUME NEW n \in Nat, NEW s, Len(s) = n, NEW t, NEW ps, Tiles(ps, 1, t, n)
  PROVE  /\ Len(ps) \in Nat /\ DOMAIN ps = 1..Len(ps)
         /\ \A m \in 1..Len(ps) : ps[m].at \in 1..n /\ ps[m].token = t[ps[m].at]
         /\ Len(ps) > 0 => ps[1].at = 1
         /\ \A m \in 1..(Len(ps) - 1) : ps[m].at + ps[m].token.length = ps[m + 1].at
         /\ M!Cover(ps, s)
<1> DEFINE S == PiecesOf(t, n)
<1>1. ps \in Seq(S)
  BY DEF Tiles
<1>2. Len(ps) \in Nat /\ DOMAIN ps = 1..Len(ps) /\ (ps = <<>> <=> Len(ps) = 0) /\ \A m \in 1..Len(ps) : ps[m] \in S
  <2> HIDE DEF S
  <2> QED
    BY <1>1
<1>3. \A r \in S : r.at \in 1..n /\ r.token = t[r.at]
  BY DEF PiecesOf
<1> HIDE DEF S
<1>4. \A m \in 1..Len(ps) : ps[m].at \in 1..n /\ ps[m].token = t[ps[m].at]
  BY <1>2, <1>3
<1>5. ps # <<>> => 1 # n + 1 /\ ps[1].at = 1 /\ ps[Len(ps)].at + ps[Len(ps)].token.length = n + 1
  BY DEF Tiles
<1>6. \A m \in 1..(Len(ps) - 1) : ps[m].at + ps[m].token.length = ps[m + 1].at
  BY DEF Tiles
<1>7. M!Last(ps) = ps[Len(ps)]
  BY DEF M!Last
<1>8. M!Cover(ps, s)
  BY <1>5, <1>6, <1>7 DEF M!Cover
<1> QED
  BY <1>2, <1>4, <1>5, <1>6, <1>8

LEMMA ToolTextKept ==
  ASSUME NEW S, NEW atoms \in Seq(S)
  PROVE  M!MarkingKeepsTheText(atoms)
<1> DEFINE C == Chars(S)
           s == M!Text(atoms)
           n == Len(s)
           ps == M!Colorize(s)
           t == Pieced(s)
<1>1. s \in Seq(C)
  BY EscapedStep
<1>2. \A q \in M!Quotes(atoms) : Quoted(s, q)
  BY QuotesAre
<1> HIDE DEF s, C
<1>3. n \in Nat
  BY <1>1
<1>4. Tiles(ps, 1, t, n)
  BY <1>1, ColorizeIs
<1>5. \A i \in 1..n : t[i] = M!Piece(s, i)
  BY DEF Pieced
<1> HIDE DEF ps, t
<1>6. /\ Len(ps) \in Nat /\ DOMAIN ps = 1..Len(ps)
      /\ \A m \in 1..Len(ps) : ps[m].at \in 1..n /\ ps[m].token = t[ps[m].at]
      /\ Len(ps) > 0 => ps[1].at = 1
      /\ \A m \in 1..(Len(ps) - 1) : ps[m].at + ps[m].token.length = ps[m + 1].at
      /\ M!Cover(ps, s)
  BY <1>3, <1>4, TilesAre
<1> DEFINE Here(m) == ps[m].at
           There(m) == ps[m].at + ps[m].token.length
<1>7. \A m \in 1..Len(ps) : Here(m) \in 1..n /\ ps[m].token = M!Piece(s, Here(m))
  BY <1>5, <1>6
<1>8. ASSUME NEW q \in M!Quotes(atoms), NEW m \in 1..Len(ps), ~ (q[1] < Here(m) /\ Here(m) <= q[2])
      PROVE  ~ (q[1] < There(m) /\ There(m) <= q[2])
  <2>1. ~ (q[1] < Here(m) + M!Piece(s, Here(m)).length /\ Here(m) + M!Piece(s, Here(m)).length <= q[2])
    BY <1>1, <1>2, <1>7, <1>8, QuoteStep
  <2> QED
    BY <1>7, <2>1
<1>9. ASSUME NEW q \in M!Quotes(atoms)
      PROVE  \A m \in 1..Len(ps) : ~ (q[1] < Here(m) /\ Here(m) <= q[2])
  <2> DEFINE U == {d \in Nat : d + 1 \in 1..Len(ps) => ~ (q[1] < Here(d + 1) /\ Here(d + 1) <= q[2])}
  <2>1. 0 \in U
    <3>1. q[1] \in 1..n
      BY <1>2 DEF Quoted
    <3>2. Len(ps) > 0 => ~ (q[1] < Here(1))
      BY <1>3, <1>6, <3>1
    <3>3. 0 + 1 = 1 /\ (1 \in 1..Len(ps) => Len(ps) > 0)
      BY <1>6
    <3> QED
      BY <3>2, <3>3
  <2>2. ASSUME NEW d \in Nat, d \in U PROVE d + 1 \in U
    <3> SUFFICES ASSUME (d + 1) + 1 \in 1..Len(ps)
                 PROVE  ~ (q[1] < Here((d + 1) + 1) /\ Here((d + 1) + 1) <= q[2])
      OBVIOUS
    <3>1. d + 1 \in 1..Len(ps) /\ d + 1 \in 1..(Len(ps) - 1)
      BY <1>6
    <3>2. There(d + 1) = Here((d + 1) + 1)
      BY <1>6, <3>1
    <3>3. ~ (q[1] < Here(d + 1) /\ Here(d + 1) <= q[2])
      BY <2>2, <3>1
    <3>4. ~ (q[1] < There(d + 1) /\ There(d + 1) <= q[2])
      BY <1>8, <3>1, <3>3
    <3> QED
      BY <3>2, <3>4
  <2> HIDE DEF U
  <2>3. \A d \in Nat : d \in U
    BY <2>1, <2>2, MarksAre!NatInduct
  <2> HIDE DEF Here
  <2>4. \A m \in 1..Len(ps) : m - 1 \in Nat /\ (m - 1) + 1 = m
    BY <1>6
  <2> SUFFICES ASSUME NEW m \in 1..Len(ps) PROVE ~ (q[1] < Here(m) /\ Here(m) <= q[2])
    OBVIOUS
  <2>5. m - 1 \in U /\ (m - 1) + 1 = m
    BY <2>3, <2>4
  <2> QED
    BY <2>5 DEF U
<1>10. ASSUME NEW m \in 1..Len(ps), ps[m].token.class = "path"
       PROVE  \/ M!Before(s, Here(m)) \notin M!PathCharacters
              \/ m > 1 /\ ps[m - 1].token.class = "path"
              \/ /\ m > 1 /\ ps[m - 1].token.class = "num"
                 /\ \E k \in Here(m - 1)..(Here(m) - 1) : s[k] = ","
  <2>1. CASE m = 1
    <3>1. Here(1) = 1
      BY <1>6, <2>1
    <3>2. M!Before(s, Here(m)) = "start"
      BY <2>1, <3>1 DEF M!Before
    <3> QED
      BY <3>2 DEF M!PathCharacters, M!Alphanumeric, M!Letters, M!Digits
  <2>2. CASE m # 1
    <3>1. m - 1 \in 1..Len(ps) /\ m - 1 \in 1..(Len(ps) - 1) /\ (m - 1) + 1 = m /\ m > 1
      BY <1>6, <2>2
    <3>2. Here(m) = Here(m - 1) + ps[m - 1].token.length
      BY <1>6, <3>1
    <3>3. /\ Here(m - 1) \in 1..n /\ ps[m - 1].token = M!Piece(s, Here(m - 1))
          /\ Here(m) \in 1..n /\ ps[m].token = M!Piece(s, Here(m))
      BY <1>7, <3>1
    <3> HIDE DEF Here
    <3>4. Here(m) = Here(m - 1) + M!Piece(s, Here(m - 1)).length /\ M!Piece(s, Here(m)).class = "path"
      BY <1>10, <3>2, <3>3
    <3>5. \/ M!Before(s, Here(m)) \notin M!PathCharacters
          \/ M!Piece(s, Here(m - 1)).class = "path"
          \/ M!Piece(s, Here(m - 1)).class = "num" /\ \E k \in Here(m - 1)..(Here(m) - 1) : s[k] = ","
      BY <1>1, <3>3, <3>4, PathStep
    <3> QED
      BY <3>1, <3>3, <3>5
  <2> QED
    BY <2>1, <2>2
<1>11. ASSUME NEW m \in 1..Len(ps), ps[m].token.class = "num"
       PROVE  M!Before(s, Here(m)) \notin M!Letters
  <2> DEFINE p == M!Piece(s, Here(m))
  <2>1. Here(m) \in 1..n /\ p.class = "num"
    BY <1>7, <1>11
  <2> HIDE DEF Here
  <2>2. Claims(s, Here(m), p, Here(m) + p.length)
    BY <1>1, <2>1, PieceIs
  <2> HIDE DEF p
  <2>3. M!Before(s, Here(m)) \notin M!Alphanumeric
    BY <2>1, <2>2 DEF Claims
  <2> QED
    BY <2>3 DEF M!Alphanumeric
<1> QED
  BY <1>6, <1>8, <1>9, <1>10, <1>11 DEF M!MarkingKeepsTheText, s, ps

-----------------------------------------------------------------------------
(* A line of prose.                                                        *)

LEMMA InlineCodeIs ==
  ASSUME NEW C, NEW s \in Seq(C), NEW i \in 1..Len(s)
  PROVE  /\ M!InlineCode(s, i) \in Nat
         /\ M!InlineCode(s, i) > 0 =>
              LET e == i + M!InlineCode(s, i)
              IN  /\ e \in (i + 3)..(Len(s) + 1) /\ s[i] = M!Tick /\ s[e - 1] = M!Tick
                  /\ \A k \in (i + 1)..(e - 2) : s[k] # M!Tick
<1> DEFINE n == Len(s)
           others == M!Everything(s) \ {M!Tick}
           end == M!Stop(s, i + 1, others)
<1>1. n \in Nat /\ i \in 1..n /\ i + 1 \in 1..(n + 1) /\ DOMAIN s = 1..n
  OBVIOUS
<1>2. Stands(s, i + 1, others, end)
  BY <1>1, StopIs
<1>3. M!InlineCode(s, i) = IF s[i] = M!Tick /\ end > i + 1 /\ end <= n THEN end + 1 - i ELSE 0
  BY DEF M!InlineCode
<1> HIDE DEF end
<1>4. /\ end \in (i + 1)..(n + 1) /\ \A k \in (i + 1)..(end - 1) : s[k] # M!Tick
      /\ end = n + 1 \/ s[end] \notin others
  BY <1>2 DEF Stands
<1>5. CASE s[i] = M!Tick /\ end > i + 1 /\ end <= n
  <2>1. M!InlineCode(s, i) = end + 1 - i
    BY <1>3, <1>5
  <2>2. /\ end + 1 - i \in Nat /\ end + 1 - i > 0 /\ i + (end + 1 - i) = end + 1
        /\ end + 1 \in (i + 3)..(n + 1) /\ (end + 1) - 1 = end /\ (end + 1) - 2 = end - 1
        /\ end \in 1..n /\ end # n + 1
    <3>1. i \in Nat /\ end \in Nat /\ 1 <= i
      BY <1>1, <1>4
    <3>2. end > i + 1 /\ end <= n
      BY <1>5
    <3> HIDE DEF n
    <3> QED
      BY <1>1, <3>1, <3>2
  <2>3. s[end] = M!Tick
    <3>1. s[end] \in M!Everything(s)
      BY <1>1, <2>2 DEF M!Everything
    <3> QED
      BY <1>4, <2>2, <3>1
  <2> HIDE DEF n
  <2> QED
    BY <1>4, <1>5, <2>1, <2>2, <2>3 DEF n
<1>6. CASE ~ (s[i] = M!Tick /\ end > i + 1 /\ end <= n)
  <2>1. M!InlineCode(s, i) = 0
    BY <1>3, <1>6
  <2>2. 0 \in Nat /\ ~ (0 > 0)
    OBVIOUS
  <2> HIDE DEF n
  <2> QED
    BY <2>1, <2>2
<1> QED
  BY <1>5, <1>6

\* A backtick that opens no code has no partner, or one right after it.
LEMMA LoneTick ==
  ASSUME NEW C, NEW s \in Seq(C), NEW i \in 1..Len(s), s[i] = M!Tick,
         ~(M!InlineCode(s, i) > 0)
  PROVE  \/ \A k \in (i + 1)..Len(s) : s[k] # M!Tick
         \/ s[i + 1] = M!Tick
<1> DEFINE n == Len(s)
           others == M!Everything(s) \ {M!Tick}
           end == M!Stop(s, i + 1, others)
<1>1. n \in Nat /\ i \in 1..n /\ i + 1 \in 1..(n + 1) /\ DOMAIN s = 1..n
  OBVIOUS
<1>2. Stands(s, i + 1, others, end)
  BY <1>1, StopIs
<1>3. M!InlineCode(s, i) = IF s[i] = M!Tick /\ end > i + 1 /\ end <= n THEN end + 1 - i ELSE 0
  BY DEF M!InlineCode
<1> HIDE DEF end
<1>4. /\ end \in (i + 1)..(n + 1) /\ \A k \in (i + 1)..(end - 1) : s[k] # M!Tick
      /\ end = n + 1 \/ s[end] \notin others
  BY <1>2 DEF Stands
<1>5. end = i + 1 \/ end = n + 1
  <2>1. SUFFICES ASSUME end # i + 1, end # n + 1 PROVE FALSE
    OBVIOUS
  <2>2. end > i + 1 /\ end <= n /\ end + 1 - i > 0
    <3>1. i \in Nat /\ end \in Nat /\ end >= i + 1 /\ end <= n + 1
      BY <1>1, <1>4
    <3> HIDE DEF n
    <3> QED
      BY <1>1, <2>1, <3>1
  <2> HIDE DEF n
  <2> QED
    BY <1>3, <2>2
<1>6. CASE end = n + 1
  <2>1. (n + 1) - 1 = n
    BY <1>1
  <2> QED
    BY <1>4, <1>6, <2>1
<1>7. CASE end = i + 1 /\ end # n + 1
  <2>1. end \in 1..n
    <3> HIDE DEF n
    <3> QED
      BY <1>1, <1>7
  <2>2. s[end] \in M!Everything(s)
    BY <1>1, <2>1 DEF M!Everything
  <2> QED
    BY <1>4, <1>7, <2>2
<1> QED
  BY <1>5, <1>6, <1>7

Prosed(s, i) == CASE M!InlineCode(s, i) > 0 -> M!Token(M!InlineCode(s, i), "code")
                  [] M!InlineCode(s, i) = 0 /\ M!Link(s, i) > 0 -> M!Token(M!Link(s, i), "url")
                  [] OTHER -> M!Plain

LEMMA ProsedIs ==
  ASSUME NEW C, NEW s \in Seq(C), NEW i \in 1..Len(s)
  PROVE  LET p == Prosed(s, i)
             e == i + p.length
         IN  /\ p.length \in Nat /\ e \in (i + 1)..(Len(s) + 1)
             /\ p.class = "code" => p.length = M!InlineCode(s, i) /\ M!InlineCode(s, i) > 0
             /\ p.class = "plain" => ~(M!InlineCode(s, i) > 0)
<1> DEFINE n == Len(s)
           p == Prosed(s, i)
           code == M!InlineCode(s, i)
           link == M!Link(s, i)
<1>1. n \in Nat /\ i \in 1..n /\ i + 1 \in (i + 1)..(n + 1)
  OBVIOUS
<1>2. /\ code \in Nat /\ link \in Nat
      /\ code > 0 => i + code \in (i + 3)..(n + 1)
      /\ link > 0 => i + link \in (i + 1)..(n + 1)
  BY InlineCodeIs, LinkIs
<1>3. p = CASE code > 0 -> M!Token(code, "code")
            [] code = 0 /\ link > 0 -> M!Token(link, "url")
            [] OTHER -> M!Token(1, "plain")
  BY DEF Prosed, M!Plain
<1>4. \A l, c : M!Token(l, c).length = l /\ M!Token(l, c).class = c
  BY DEF M!Token
<1> HIDE DEF p, code, link, n
<1>5. \/ code > 0 /\ p = M!Token(code, "code")
      \/ link > 0 /\ p = M!Token(link, "url")
      \/ ~(code > 0) /\ p = M!Token(1, "plain")
  BY <1>2, <1>3
<1>6. CASE code > 0 /\ p = M!Token(code, "code")
  <2>1. p.length = code /\ p.class = "code"
    BY <1>4, <1>6
  <2>2. i + code \in (i + 3)..(n + 1)
    BY <1>2, <1>6
  <2>3. i + code \in (i + 1)..(n + 1)
    BY <1>1, <1>2, <2>2
  <2> QED
    BY <1>2, <1>6, <2>1, <2>3 DEF p, code, n
<1>7. CASE link > 0 /\ p = M!Token(link, "url")
  <2>1. p.length = link /\ p.class = "url"
    BY <1>4, <1>7
  <2> QED
    BY <1>2, <1>7, <2>1 DEF p, n
<1>8. CASE ~(code > 0) /\ p = M!Token(1, "plain")
  <2>1. p.length = 1 /\ p.class = "plain"
    BY <1>4, <1>8
  <2> QED
    BY <1>1, <1>8, <2>1 DEF p, n, code
<1> QED
  BY <1>5, <1>6, <1>7, <1>8

ProsedAll(s) == [i \in 1..Len(s) |-> Prosed(s, i)]

LEMMA ProseLineIs ==
  ASSUME NEW C, NEW s \in Seq(C)
  PROVE  Tiles(M!ProseLine(s), 1, ProsedAll(s), Len(s))
<1> DEFINE n == Len(s)
           t == ProsedAll(s)
           P(f) == f = [i \in 1..(n + 1) |->
                          IF i = n + 1 THEN <<>>
                          ELSE <<[at |-> i, token |-> Prosed(s, i)]>> \o f[i + Prosed(s, i).length]]
<1>1. n \in Nat
  OBVIOUS
<1>2. M!ProseLine(s) = (CHOOSE f : P(f))[1]
  BY DEF M!ProseLine, Prosed
<1>3. \A i \in 1..n : t[i] = Prosed(s, i)
  BY DEF ProsedAll
<1>4. Claimed(t, n)
  BY <1>3, ProsedIs DEF Claimed
<1> HIDE DEF t
<1>5. ASSUME NEW f PROVE Walks(t, n, f) <=> P(f)
  <2>1. ASSUME NEW i \in 1..(n + 1)
        PROVE  Body(t, n, f, i) = IF i = n + 1 THEN <<>>
                                  ELSE <<[at |-> i, token |-> Prosed(s, i)]>> \o f[i + Prosed(s, i).length]
    <3>1. i # n + 1 => i \in 1..n
      BY <1>1
    <3> QED
      BY <1>3, <3>1 DEF Body
  <2> QED
    BY <2>1 DEF Walks
<1> HIDE DEF P
<1>6. \E f : P(f)
  BY <1>1, <1>4, <1>5, WalkThere
<1>7. P(CHOOSE f : P(f))
  BY <1>6
<1>8. Walks(t, n, CHOOSE f : P(f))
  BY <1>5, <1>7
<1>9. 1 \in 1..(n + 1)
  BY <1>1
<1>10. Tiles((CHOOSE f : P(f))[1], 1, t, n)
  BY <1>1, <1>4, <1>8, <1>9, WalkTiles
<1> QED
  BY <1>2, <1>10 DEF t

LEMMA ProseKept ==
  ASSUME NEW S, NEW atoms \in Seq(S)
  PROVE  M!ProseKeepsItsWords(atoms)
<1> DEFINE C == Chars(S)
           s == M!Text(atoms)
           n == Len(s)
           ps == M!ProseLine(s)
           t == ProsedAll(s)
<1>1. s \in Seq(C)
  BY EscapedStep
<1> HIDE DEF s, C
<1>2. n \in Nat
  BY <1>1
<1>3. Tiles(ps, 1, t, n)
  BY <1>1, ProseLineIs
<1>4. \A i \in 1..n : t[i] = Prosed(s, i)
  BY DEF ProsedAll
<1> HIDE DEF ps, t
<1>5. /\ Len(ps) \in Nat /\ DOMAIN ps = 1..Len(ps)
      /\ \A m \in 1..Len(ps) : ps[m].at \in 1..n /\ ps[m].token = t[ps[m].at]
      /\ Len(ps) > 0 => ps[1].at = 1
      /\ \A m \in 1..(Len(ps) - 1) : ps[m].at + ps[m].token.length = ps[m + 1].at
      /\ M!Cover(ps, s)
  BY <1>2, <1>3, TilesAre
<1>6. ASSUME NEW m \in 1..Len(ps), ps[m].token.class = "code"
      PROVE  LET from == ps[m].at
                 end == from + ps[m].token.length - 1
             IN  /\ s[from] = M!Tick /\ s[end] = M!Tick /\ end > from + 1
                 /\ \A k \in (from + 1)..(end - 1) : s[k] # M!Tick
  <2> DEFINE i == ps[m].at
             p == Prosed(s, i)
             l == p.length
  <2>1. i \in 1..n /\ ps[m].token = p
    BY <1>4, <1>5
  <2>2. p.class = "code"
    BY <1>6, <2>1
  <2> HIDE DEF i
  <2>3. l = M!InlineCode(s, i) /\ M!InlineCode(s, i) > 0
    BY <1>1, <2>1, <2>2, ProsedIs
  <2>4. /\ i + l \in (i + 3)..(n + 1) /\ s[i] = M!Tick /\ s[i + l - 1] = M!Tick
        /\ \A k \in (i + 1)..(i + l - 2) : s[k] # M!Tick
    BY <1>1, <2>1, <2>3, InlineCodeIs
  <2>5. ps[m].token.length = l
    BY <2>1
  <2> HIDE DEF p, l
  <2>6. i \in Nat /\ l \in Nat
    <3>1. i \in Nat
      BY <1>2, <2>1
    <3>2. l \in Nat
      BY <1>1, <2>1, <2>3, InlineCodeIs
    <3> QED
      BY <3>1, <3>2
  <2>7. i + l - 1 > i + 1 /\ (i + l - 1) - 1 = i + l - 2
    <3>1. i + l >= i + 3
      BY <1>2, <2>4, <2>6
    <3> QED
      BY <2>6, <3>1
  <2> QED
    BY <2>4, <2>5, <2>7 DEF i
<1>7. ASSUME NEW m \in 1..Len(ps), ps[m].token.class = "plain",
             s[ps[m].at] = M!Tick
      PROVE  \/ \A k \in (ps[m].at + 1)..n : s[k] # M!Tick
             \/ s[ps[m].at + 1] = M!Tick
  <2>1. ps[m].at \in 1..n /\ ps[m].token = Prosed(s, ps[m].at)
    BY <1>4, <1>5
  <2>2. ~(M!InlineCode(s, ps[m].at) > 0)
    BY <1>1, <1>7, <2>1, ProsedIs
  <2> QED
    BY <1>1, <1>7, <2>1, <2>2, LoneTick
<1> QED
  BY <1>5, <1>6, <1>7 DEF M!ProseKeepsItsWords, s, ps

-----------------------------------------------------------------------------
\* A text is on the page whole and in order, with every escaped character in
\* one piece, however it is marked and however long it is (colorize,
\* prose_line_html).
THEOREM MarkingKeepsEveryText == MarkedSpec => []MarkingKeepsTheText
<1> DEFINE Typed == origin \in {"tool", "prose"} /\ wording \in Seq(Atoms[origin])
<1>1. MarkedInit => Typed
  BY EmptySeq DEF MarkedInit
<1>2. Typed /\ [Say]_marking => Typed'
  <2> SUFFICES ASSUME Typed, [Say]_marking PROVE Typed'
    OBVIOUS
  <2>1. CASE Say
    <3>1. origin' = origin
      BY <2>1 DEF Say
    <3> DEFINE A == Atoms[origin]
    <3>2. wording \in Seq(A)
      OBVIOUS
    <3>3. \/ \E x \in A : wording' = Append(wording, x)
          \/ wording' = <<>>
      BY <2>1 DEF Say
    <3> HIDE DEF A
    <3>4. wording' \in Seq(A)
      <4>1. \A x \in A : Append(wording, x) \in Seq(A)
        BY <3>2
      <4>2. <<>> \in Seq(A)
        BY EmptySeq
      <4> QED
        BY <3>3, <4>1, <4>2, Zenon
    <3> QED
      BY <3>1, <3>4 DEF A
  <2>2. CASE UNCHANGED marking
    BY <2>2 DEF marking
  <2> QED
    BY <2>1, <2>2
<1>3. Typed => MarkingKeepsTheText
  BY ToolTextKept, ProseKept DEF MarkingKeepsTheText
<1> QED
  BY <1>1, <1>2, <1>3, PTL DEF MarkedSpec

=============================================================================
