------------------------------ MODULE Creating ------------------------------
(***************************************************************************)
(* create (src/chats.rs): both trees, the clone, the container and the     *)
(* session, in that order.  Nothing is claimed: from the moment the        *)
(* manifest is published the chat is on the console, and any other handler *)
(* may work on it.                                                         *)
(***************************************************************************)
EXTENDS ChatsState

CreatePcs == {"n_tree", "n_publish", "n_clone", "n_spawn", "n_session",
              "n_write", "n_hold", "n_teardown"}

\* create_chat(): the workspace directory comes first ...
NewTree(p) ==
  /\ pc[p] = "n_tree"
  /\ \/ /\ workspace' = [workspace EXCEPT ![chat[p]] = "half"]
        /\ Goto(p, "n_publish")
        /\ UNCHANGED chat
     \/ May("store") /\ Done(p) /\ UNCHANGED workspace
  /\ UNCHANGED <<manifest, clock, unpushed, plane, pipes, gates,
                 conn, seen, spawned, victims, weighed>>

\* ... and the rename publishes the rest.
Publish(p) ==
  LET opened == [state |-> "open", session |-> FALSE, pushed |-> FALSE,
                 active |-> clock + 1] IN
  /\ pc[p] = "n_publish"
  /\ \/ /\ manifest' = [manifest EXCEPT ![chat[p]] = opened]
        /\ clock' = clock + 1
        /\ seen' = [seen EXCEPT ![p] = opened]
        /\ Goto(p, "n_clone")
        /\ UNCHANGED chat
     \/ May("store") /\ Done(p) /\ UNCHANGED <<manifest, clock, seen>>
  /\ UNCHANGED <<workspace, unpushed, plane, pipes, gates,
                 conn, spawned, victims, weighed>>

\* A step that fails leaves what came before it where it is.
GiveUp(p) == Done(p) /\ seen' = [seen EXCEPT ![p] = NoManifest]

\* check_out().  A directory somebody removed meanwhile may have gone before git
\* made it again, or from under git's feet.
CheckOut(p) ==
  /\ pc[p] = "n_clone"
  /\ \/ /\ workspace' = [workspace EXCEPT ![chat[p]] = "tree"]
        /\ unpushed' = [unpushed EXCEPT ![chat[p]] = FALSE]
        /\ Goto(p, "n_spawn")
        /\ UNCHANGED <<chat, seen>>
     \/ /\ workspace[chat[p]] = "none" \/ May("git")
        /\ GiveUp(p)
        /\ UNCHANGED <<workspace, unpushed>>
  /\ UNCHANGED <<manifest, clock, plane, pipes, gates, conn, spawned, victims, weighed>>

NewSpawn(p) ==
  /\ pc[p] = "n_spawn"
  /\ \/ Spawn(chat[p]) /\ Goto(p, "n_session") /\ UNCHANGED <<chat, seen>>
     \/ SpawnFails(chat[p]) /\ GiveUp(p)
  /\ UNCHANGED <<disk, stray, pipes, gates, conn, spawned, victims, weighed>>

\* record_session(): open_session()
OpenSession(p) ==
  /\ pc[p] = "n_session"
  /\ \/ /\ container[chat[p]] = "live"
        /\ \E k \in Unused :
             /\ conn' = [conn EXCEPT ![p] = k]
             /\ wired' = [wired EXCEPT ![k] = chat[p]]
        /\ Goto(p, "n_write")
     \/ /\ container[chat[p]] # "live" \/ May("adapter")
        /\ Goto(p, "n_teardown")
        /\ UNCHANGED <<conn, wired>>
  /\ UNCHANGED <<disk, plane, held, lock, gates, chat, seen, spawned, victims, weighed>>

\* record_session(): the manifest create_chat() returned, with its session
RecordSession(p) ==
  /\ pc[p] = "n_write"
  /\ \/ /\ manifest' = [manifest EXCEPT ![chat[p]] = [seen[p] EXCEPT !.session = TRUE]]
        /\ Goto(p, "n_hold")
        /\ UNCHANGED <<conn, wired>>
     \/ /\ May("store")
        /\ conn' = [conn EXCEPT ![p] = None]
        /\ DropUnused(held, conn')
        /\ Goto(p, "n_teardown")
        /\ UNCHANGED manifest
  /\ UNCHANGED <<clock, workspace, unpushed, plane, held, lock, gates,
                 chat, seen, spawned, victims, weighed>>

\* record_session(): connections.hold(), or AlreadyHeld
NewHold(p) ==
  /\ pc[p] = "n_hold"
  /\ conn' = [conn EXCEPT ![p] = None]
  /\ \/ /\ held[chat[p]] = None
        /\ held' = [held EXCEPT ![chat[p]] = conn[p]]
        /\ Goto(p, "cap")
     \/ /\ held[chat[p]] # None
        /\ Goto(p, "n_teardown")
        /\ UNCHANGED held
  /\ DropUnused(held', conn')
  /\ seen' = [seen EXCEPT ![p] = NoManifest]
  /\ UNCHANGED <<disk, plane, lock, gates, chat, spawned, victims, weighed>>

\* create(): a session that never opened takes its container down, and only
\* its container
NewTeardown(p) ==
  /\ pc[p] = "n_teardown"
  /\ TearDown(chat[p]) \/ TearDownFails(chat[p])
  /\ GiveUp(p)
  /\ UNCHANGED <<disk, held, lock, gates, conn, spawned, victims, weighed>>

CreateStep(p) ==
  \/ NewTree(p) \/ Publish(p) \/ CheckOut(p) \/ NewSpawn(p) \/ OpenSession(p)
  \/ RecordSession(p) \/ NewHold(p) \/ NewTeardown(p)

=============================================================================
