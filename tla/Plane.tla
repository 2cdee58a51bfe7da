------------------------------- MODULE Plane -------------------------------
(***************************************************************************)
(* The container plane (src/plane/docker.rs): what a spawn and a teardown  *)
(* ask of the Docker daemon, one request at a time, while others do the    *)
(* same and somebody may be at the daemon by hand.                         *)
(*                                                                         *)
(* The daemon is modelled from how the code uses it: it keeps one network  *)
(* and one container per name, refuses to remove a network with a running  *)
(* container on it or a container that is running, and starts a container  *)
(* on whatever network then has the name.                                  *)
(***************************************************************************)
EXTENDS Naturals, FiniteSets

CONSTANTS Calls,        \* spawns and teardowns that may be under way at once
          Housed,       \* the chats they are about
          Shapes,       \* the shapes the network may have before the first call
          DaemonFaults  \* what may happen: "daemon" refuses a request, "exit"
                        \* of a container, a "hand" at the network, a "hangup"

\* There is no network of the plane's name, or one of the two shapes.
ShapesOK == Shapes \subseteq {"none", "routes", "internal"}

VARIABLES network,  \* "none", "routes" or "internal"
          guests,   \* somebody else's containers are on it
          image,    \* the workspace image is on this host
          box,      \* per chat, its container: "none", "created", "up", "exited"
          maker,    \* per chat, the call that created its container
          call,     \* per call: its chat, the request it makes next
          answer,   \* per call: what its last spawn or teardown came to
          spoilt,   \* auxiliary: chats a failure left a container of
          swapped,  \* auxiliary: calls whose network a hand was at once judged
          crossed   \* auxiliary: calls the network changed behind at all

daemon == <<network, guests, image, box, maker>>
ghosts == <<spoilt, swapped, crossed>>
planeVars == <<daemon, call, answer, ghosts>>

Up == {c \in Housed : box[c] = "up"}
InUse == guests \/ Up # {}
Idle == [chat |-> "none", at |-> "idle"]

PlaneInit ==
  /\ network \in Shapes /\ guests = FALSE /\ image \in BOOLEAN
  /\ box = [c \in Housed |-> "none"]
  /\ maker = [c \in Housed |-> "none"]
  /\ call = [k \in Calls |-> Idle]
  /\ answer = [k \in Calls |-> "none"]
  /\ spoilt = {} /\ swapped = {} /\ crossed = {}

-----------------------------------------------------------------------------
At(k, request) == call[k].at = request
Chat(k) == call[k].chat

Goto(k, request) == /\ call' = [call EXCEPT ![k].at = request]
                    /\ UNCHANGED answer

Done(k, outcome) == /\ call' = [call EXCEPT ![k] = Idle]
                    /\ answer' = [answer EXCEPT ![k] = outcome]

\* A container that is there and does not run keeps its name all the same.
Dead == {"created", "exited"}

Spoil(chats) == spoilt' = spoilt \cup {c \in chats : box[c] \in Dead}
Settles(k, outcome) == Done(k, outcome) /\ spoilt' = spoilt \ {Chat(k)}

Spawning ==
  {"look", "remove", "create", "check", "image", "pull", "make", "start"}

\* A chat has one spawn at a time: a wake's, under its claim, or its creation's,
\* before there is a session to wake (chats.rs, woken).  A capping holds no
\* claim, so teardowns come beside it and beside each other (park, close).
Begin(k, c) ==
  /\ At(k, "idle")
  /\ \E request \in {"look", "stop"} :
        /\ request = "look" =>
             \A j \in Calls : Chat(j) = c => call[j].at \notin Spawning
        /\ call' = [call EXCEPT ![k] = [chat |-> c, at |-> request]]
  /\ answer' = [answer EXCEPT ![k] = "none"]
  /\ swapped' = swapped \ {k} /\ crossed' = crossed \ {k}
  /\ UNCHANGED <<daemon, spoilt>>

-----------------------------------------------------------------------------
(* ensure_network.                                                         *)

\* Slip: whether anybody is on it is asked first.
NetworkFoundInUse == CASE network = "none" -> "Nothing"
                       [] InUse -> "WrongShapeAndInUse"
                       [] network = "routes" -> "RoutesOut"
                       [] OTHER -> "WrongShapeAndEmpty"

NetworkFound == CASE network = "none" -> "Nothing"
                  [] network = "routes" -> "RoutesOut"
                  [] network = "internal" /\ ~InUse -> "WrongShapeAndEmpty"
                  [] OTHER -> "WrongShapeAndInUse"

Look(k) ==
  /\ At(k, "look")
  /\ CASE NetworkFound = "RoutesOut" -> Goto(k, "image")
       [] NetworkFound = "Nothing" -> Goto(k, "create")
       [] NetworkFound = "WrongShapeAndEmpty" -> Goto(k, "remove")
       [] OTHER -> Done(k, "NetworkInUse")
  /\ UNCHANGED <<daemon, ghosts>>

\* Calls that may still act on what they last saw of the network.
Judged == {"image", "pull", "make", "start"}
Onlookers(k) == {j \in Calls \ {k} :
                   call[j].at \in {"remove", "create", "check"} \cup Judged}

\* remove_agent_network: one that is gone already is as good as removed.
Remove(k) ==
  /\ At(k, "remove")
  /\ IF network # "none" /\ InUse
       THEN Done(k, "NetworkInUse") /\ UNCHANGED <<network, crossed>>
       ELSE /\ Goto(k, "create") /\ network' = "none"
            /\ crossed' = crossed \cup
                 (IF network = "routes" THEN Onlookers(k) ELSE {})
  /\ UNCHANGED <<guests, image, box, maker, spoilt, swapped>>

\* create_agent_network: a name that is taken is as good as created.
Create(k) ==
  /\ At(k, "create") /\ Goto(k, "check")
  /\ network' = IF network = "none" THEN "routes" ELSE network
  /\ crossed' = crossed \cup (IF network = "none" THEN Onlookers(k) ELSE {})
  /\ UNCHANGED <<guests, image, box, maker, spoilt, swapped>>

\* Slip: a network that was just created is taken to be the plane's own.
CheckNothing(k) ==
  /\ At(k, "check") /\ Goto(k, "image") /\ UNCHANGED <<daemon, ghosts>>

Check(k) ==
  /\ At(k, "check")
  /\ IF network = "routes" THEN Goto(k, "image")
                           ELSE Done(k, "UnusableNetwork")
  /\ UNCHANGED <<daemon, ghosts>>

-----------------------------------------------------------------------------
(* ensure_image, and the container itself.                                 *)

EnsureImage(k) ==
  /\ At(k, "image") /\ Goto(k, IF image THEN "make" ELSE "pull")
  /\ UNCHANGED <<daemon, ghosts>>

PullImage(k) ==
  /\ At(k, "pull") /\ Goto(k, "make") /\ image' = TRUE
  /\ UNCHANGED <<network, guests, box, maker, ghosts>>

Make(k) ==
  /\ At(k, "make")
  /\ IF box[Chat(k)] # "none"
       THEN Done(k, "AlreadyLive") /\ UNCHANGED <<box, maker>>
       ELSE /\ Goto(k, "start")
            /\ box' = [box EXCEPT ![Chat(k)] = "created"]
            /\ maker' = [maker EXCEPT ![Chat(k)] = k]
  /\ UNCHANGED <<network, guests, image, ghosts>>

\* It is started by the id it was created with, so one that was torn down
\* since does not start.  Nor does one whose network is gone, and nothing takes
\* that away.
Start(k) ==
  /\ At(k, "start")
  /\ IF maker[Chat(k)] # k \/ network = "none"
       THEN Done(k, "Runtime") /\ Spoil({Chat(k)}) /\ UNCHANGED box
       ELSE Settles(k, "ok") /\ box' = [box EXCEPT ![Chat(k)] = "up"]
  /\ UNCHANGED <<network, guests, image, maker, swapped, crossed>>

-----------------------------------------------------------------------------
(* teardown: both requests go by the name, whichever container has it by   *)
(* then.                                                                   *)

\* Slip: only a container that is running is there to stop.
StopTheLive(k) ==
  /\ At(k, "stop")
  /\ IF box[Chat(k)] # "up"
       THEN Settles(k, "NotLive") /\ UNCHANGED box
       ELSE /\ Goto(k, "drop") /\ UNCHANGED spoilt
            /\ box' = [box EXCEPT ![Chat(k)] = "exited"]
  /\ UNCHANGED <<network, guests, image, maker, swapped, crossed>>

Stop(k) ==
  /\ At(k, "stop")
  /\ IF box[Chat(k)] = "none"
       THEN Settles(k, "NotLive") /\ UNCHANGED box
       ELSE /\ Goto(k, "drop") /\ UNCHANGED spoilt
            /\ box' = [box EXCEPT ![Chat(k)] = IF @ = "up" THEN "exited" ELSE @]
  /\ UNCHANGED <<network, guests, image, maker, swapped, crossed>>

\* The daemon does not remove a container that was started meanwhile.
Drop(k) ==
  /\ At(k, "drop")
  /\ CASE box[Chat(k)] = "none" -> Settles(k, "NotLive") /\ UNCHANGED <<box, maker>>
       [] box[Chat(k)] = "up" -> /\ Done(k, "Runtime")
                                 /\ UNCHANGED <<box, maker, spoilt>>
       [] OTHER -> /\ Settles(k, "ok")
                   /\ box' = [box EXCEPT ![Chat(k)] = "none"]
                   /\ maker' = [maker EXCEPT ![Chat(k)] = "none"]
  /\ UNCHANGED <<network, guests, image, swapped, crossed>>

-----------------------------------------------------------------------------
(* What goes wrong.                                                        *)

\* Any request may be refused for a reason of the daemon's own.
Refused(k) ==
  /\ "daemon" \in DaemonFaults /\ ~At(k, "idle") /\ Done(k, "Runtime")
  /\ IF call[k].at \in {"start", "drop"} THEN Spoil({Chat(k)})
                                         ELSE UNCHANGED spoilt
  /\ UNCHANGED <<daemon, swapped, crossed>>

\* Whoever awaited the call is gone, between two requests.
HangUp(k) ==
  /\ "hangup" \in DaemonFaults /\ ~At(k, "idle")
  /\ call' = [call EXCEPT ![k] = Idle]
  /\ IF call[k].at \in {"start", "drop"} THEN Spoil({Chat(k)})
                                         ELSE UNCHANGED spoilt
  /\ UNCHANGED <<daemon, answer, swapped, crossed>>

Exit(c) ==
  /\ "exit" \in DaemonFaults /\ box[c] = "up"
  /\ box' = [box EXCEPT ![c] = "exited"] /\ spoilt' = spoilt \cup {c}
  /\ UNCHANGED <<network, guests, image, maker, call, answer, swapped, crossed>>

\* Somebody replaces a network nobody is on, or brings containers of theirs.
Hand ==
  /\ "hand" \in DaemonFaults
  /\ \/ /\ ~InUse /\ network' \in {"none", "routes", "internal"} \ {network}
        /\ UNCHANGED guests
     \/ /\ network # "none" /\ guests' = ~guests /\ UNCHANGED network
  /\ crossed' = crossed \cup {k \in Calls : ~At(k, "idle")}
  /\ swapped' = swapped \cup {k \in Calls : call[k].at \in Judged}
  /\ UNCHANGED <<image, box, maker, call, answer, spoilt>>

PlaneNext ==
  \/ \E k \in Calls :
       \/ \E c \in Housed : Begin(k, c)
       \/ Look(k) \/ Remove(k) \/ Create(k) \/ Check(k)
       \/ EnsureImage(k) \/ PullImage(k) \/ Make(k) \/ Start(k)
       \/ Stop(k) \/ Drop(k) \/ Refused(k) \/ HangUp(k)
  \/ \E c \in Housed : Exit(c)
  \/ Hand

PlaneSpec == PlaneInit /\ [][PlaneNext]_planeVars

-----------------------------------------------------------------------------
Answered(k, outcomes) == /\ answer'[k] # answer[k] /\ answer'[k] \in outcomes

\* An agent starts on a network that routes out to the API, whatever stood
\* under the name before and whoever else was replacing it, and a spawn is
\* refused over the network only for one that does not route out.  Only a hand
\* at the network after the spawn last looked can have the first otherwise,
\* and only a change behind the spawn's back the second (ensure_network).
SpawnsOnTheBridge ==
  [][/\ \A c \in Housed : (box[c] # "up" /\ box'[c] = "up") =>
          network = "routes" \/ maker[c] \in swapped
     /\ \A k \in Calls : Answered(k, {"NetworkInUse", "UnusableNetwork"}) =>
          network = "internal" \/ k \in crossed]_planeVars

\* A chat's name is free or its container is up, but while a call is about to
\* start that container or to remove it, and but for one that a failure left
\* and no teardown has come through for since (teardown).  So a spawn that
\* meets a name clash meets a live container, as spawn_failure has it, or one
\* that such a failure left, or, as a capping holds no claim, one that a
\* teardown is about to remove.
NamesComeBack ==
  /\ \A c \in Housed : box[c] \in Dead =>
       c \in spoilt \/ \E k \in Calls : Chat(k) = c /\ call[k].at \in {"start", "drop"}
  /\ \A k \in Calls : At(k, "make") /\ box[Chat(k)] \in Dead =>
       Chat(k) \in spoilt \/ \E j \in Calls : Chat(j) = Chat(k) /\ At(j, "drop")

=============================================================================
