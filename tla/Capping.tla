------------------------------- MODULE Capping -------------------------------
(***************************************************************************)
(* cap_the_pool (src/chats.rs): what ends every prompt and every chat that *)
(* was created.  The pool is weighed from four readings taken one after    *)
(* the other, and then each victim is parked, without weighing it again.   *)
(***************************************************************************)
EXTENDS ChatsState, Pool

\* Faulty variant: the pool is weighed while another capping still parks.
CapScanBeside(p) ==
  /\ pc[p] = "cap"
  /\ parking' = p
  /\ scan' = manifest
  /\ Goto(p, "cap_live")
  /\ UNCHANGED <<disk, plane, pipes, claims, locals, busy>>

\* self.parking.lock().await, then store.scan().  A scan that fails ends the
\* capping with a line in the server log.
CapScan(p) ==
  /\ pc[p] = "cap"
  /\ parking = None
  /\ \/ /\ parking' = p
        /\ scan' = manifest
        /\ Goto(p, "cap_live")
        /\ UNCHANGED chat
     \/ /\ May("store")
        /\ Done(p)
        /\ UNCHANGED <<parking, scan>>
  /\ UNCHANGED <<disk, plane, pipes, claims, conn, seen, spawned, victims, busy>>

\* plane.live_chat_ids().await
CapLive(p) ==
  /\ pc[p] = "cap_live"
  /\ \/ /\ victims' = [victims EXCEPT ![p] = Live]
        /\ Goto(p, "cap_busy")
        /\ UNCHANGED <<parking, scan, chat>>
     \/ /\ May("plane")
        /\ parking' = None
        /\ scan' = [c \in Chats |-> NoManifest]
        /\ Done(p)
        /\ UNCHANGED victims
  /\ UNCHANGED <<disk, plane, pipes, claims, conn, seen, spawned, busy>>

\* Faulty variant: a chat that is only holding its connection counts as busy.
CapBusyByConnection(p) ==
  /\ pc[p] = "cap_busy"
  /\ busy' = {c \in Chats : held[c] # None}
  /\ Goto(p, "cap_weigh")
  /\ UNCHANGED <<disk, plane, pipes, gates, locals, scan>>

\* occupied(), first half: connections.busy_chat_ids()
CapBusy(p) ==
  /\ pc[p] = "cap_busy"
  /\ busy' = Busy
  /\ Goto(p, "cap_weigh")
  /\ UNCHANGED <<disk, plane, pipes, gates, locals, scan>>

\* occupied(), second half: claimed(); then pool::beyond_the_pool
CapWeigh(p) ==
  /\ pc[p] = "cap_weigh"
  /\ victims' = [victims EXCEPT ![p] =
                   BeyondThePool(scan, victims[p], busy \cup Claimed, WarmPool)]
  /\ scan' = [c \in Chats |-> NoManifest]
  /\ busy' = {}
  /\ Goto(p, "cap_park")
  /\ UNCHANGED <<disk, plane, pipes, gates, chat, conn, seen, spawned>>

\* park(v): the teardown of the next victim.  The order among victims is left
\* open.  A teardown that fails costs the victim nothing but a warning.
CapPark(p) ==
  /\ pc[p] = "cap_park"
  /\ \E v \in victims[p] :
       /\ victims' = [victims EXCEPT ![p] = @ \ {v}]
       /\ \/ /\ TearDown(v)
             /\ chat' = [chat EXCEPT ![p] = v]
             /\ Goto(p, "cap_forget")
          \/ /\ TearDownFails(v)
             /\ UNCHANGED <<chat, pc>>
  /\ UNCHANGED <<disk, held, lock, gates, conn, seen, spawned, weighed>>

\* release(): the connection is let go of after the teardown has answered.
CapForget(p) ==
  /\ pc[p] = "cap_forget"
  /\ Forget(chat[p])
  /\ Goto(p, "cap_park")
  /\ UNCHANGED <<disk, plane, lock, gates, locals, weighed>>

\* Faulty variant: the parking lock is never given back.
CapEndLocked(p) ==
  /\ pc[p] = "cap_park"
  /\ victims[p] = {}
  /\ Done(p)
  /\ UNCHANGED <<disk, plane, pipes, gates, conn, seen, spawned, victims, weighed>>

CapEnd(p) ==
  /\ pc[p] = "cap_park"
  /\ victims[p] = {}
  /\ parking' = None
  /\ Done(p)
  /\ UNCHANGED <<disk, plane, pipes, claims, conn, seen, spawned, victims, weighed>>

CapStep(p) ==
  \/ CapScan(p) \/ CapLive(p) \/ CapBusy(p) \/ CapWeigh(p)
  \/ CapPark(p) \/ CapForget(p) \/ CapEnd(p)

=============================================================================
