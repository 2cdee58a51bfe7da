----------------------------- MODULE Prompting -----------------------------
(***************************************************************************)
(* prompt (src/chats.rs): one turn over the chat's connection, waking the  *)
(* chat first if it holds none.  The wake runs under a claim; the claim is *)
(* let go of only once the turn lock is held.  Then the chat is touched,   *)
(* and the pool is capped whatever the turn came to.                       *)
(***************************************************************************)
EXTENDS ChatsState

WakePcs == {"w_read", "w_tree", "w_revive", "w_clone", "w_cloning", "w_wipe",
            "w_open", "w_house", "w_spawn", "w_climb", "w_release", "w_forget",
            "w_record", "w_hold", "handover", "unclaim", "w_drop"}

TurnPcs == {"turn", "answer"}

PromptPcs == WakePcs \cup TurnPcs \cup
             {"of", "claim", "lock", "end_forget", "touch_read", "touch_write"}

\* turn(): connections.of(chat_id)
Of(p) ==
  /\ pc[p] = "of"
  /\ conn' = [conn EXCEPT ![p] = held[chat[p]]]
  /\ Goto(p, IF held[chat[p]] = None THEN "claim" ELSE "lock")
  /\ UNCHANGED <<disk, plane, pipes, gates, chat, seen, spawned, victims, weighed>>

\* wake(): the claim, or PromptError::Waking / Archiving
WakeClaim(p) ==
  /\ pc[p] = "claim"
  /\ \/ /\ TakeClaim(chat[p], "waking")
        /\ Goto(p, "w_read")
     \/ /\ claims[chat[p]] # "free"
        /\ Goto(p, "cap")
        /\ UNCHANGED claims
  /\ UNCHANGED <<disk, plane, pipes, parking, locals, weighed>>

\* woken(): everything the wake needs is read before it touches anything.
WakeRead(p) ==
  LET found == manifest[chat[p]] IN
  /\ pc[p] = "w_read"
  /\ \/ /\ found.session
        /\ seen' = [seen EXCEPT ![p] = found]
        /\ Goto(p, IF found.state = "archived" THEN "w_revive" ELSE "w_tree")
     \/ /\ found.state = "absent" \/ ~found.session \/ May("store")
        /\ Goto(p, "w_drop")
        /\ UNCHANGED seen
  /\ UNCHANGED <<disk, plane, pipes, gates, chat, conn, spawned, victims, weighed>>

\* still_has_its_workspace(), hand_the_workspace_back()
WakeTree(p) ==
  /\ pc[p] = "w_tree"
  /\ \/ workspace[chat[p]] # "none" /\ Goto(p, "w_house")
     \/ (workspace[chat[p]] = "none" \/ May("store")) /\ Goto(p, "w_drop")
  /\ UNCHANGED <<disk, plane, pipes, gates, locals, weighed>>

\* revive(): a pushed commit to come back to and nothing in the way
ReviveCheck(p) ==
  /\ pc[p] = "w_revive"
  /\ Goto(p, IF seen[p].pushed /\ workspace[chat[p]] = "none" THEN "w_clone" ELSE "w_drop")
  /\ UNCHANGED <<disk, plane, pipes, gates, locals, weighed>>

\* Faulty variant: the chat is opened before its tree is there.
CloneStartOpen(p) ==
  /\ pc[p] = "w_clone"
  /\ workspace' = [workspace EXCEPT ![chat[p]] = "half"]
  /\ manifest' = [manifest EXCEPT ![chat[p]].state = "open"]
  /\ Goto(p, "w_cloning")
  /\ UNCHANGED <<clock, unpushed, plane, pipes, gates, locals, weighed>>

\* clone_back(): from the first byte git writes ...
CloneStart(p) ==
  /\ pc[p] = "w_clone"
  /\ workspace' = [workspace EXCEPT ![chat[p]] = "half"]
  /\ Goto(p, "w_cloning")
  /\ UNCHANGED <<manifest, clock, unpushed, plane, pipes, gates, locals, weighed>>

\* ... to the tree handed to the agent.
CloneEnd(p) ==
  /\ pc[p] = "w_cloning"
  /\ \/ /\ workspace[chat[p]] = "half"
        /\ workspace' = [workspace EXCEPT ![chat[p]] = "tree"]
        /\ unpushed' = [unpushed EXCEPT ![chat[p]] = FALSE]
        /\ Goto(p, "w_open")
     \/ /\ workspace[chat[p]] # "half" \/ May("git")
        /\ Goto(p, "w_wipe")
        /\ UNCHANGED <<workspace, unpushed>>
  /\ UNCHANGED <<manifest, clock, plane, pipes, gates, locals, weighed>>

\* Faulty variant: a clone that failed is left for later.
WipeNothing(p) ==
  /\ pc[p] = "w_wipe"
  /\ Goto(p, "w_drop")
  /\ UNCHANGED <<disk, plane, pipes, gates, locals, weighed>>

\* wipe_the_half_clone()
Wipe(p) ==
  /\ pc[p] = "w_wipe"
  /\ RemoveTree(chat[p]) \/ RemoveTreeFails(chat[p])
  /\ Goto(p, "w_drop")
  /\ UNCHANGED <<manifest, clock, plane, pipes, gates, locals, weighed>>

\* revive(): the manifest read before the clone, open again.  A write that
\* fails leaves the clone where it is.
ReviveOpen(p) ==
  LET revived == [seen[p] EXCEPT !.state = "open"] IN
  /\ pc[p] = "w_open"
  /\ \/ /\ seen' = [seen EXCEPT ![p] = revived]
        /\ manifest' = [manifest EXCEPT ![chat[p]] = revived]
        /\ Goto(p, "w_house")
     \/ /\ May("store")
        /\ Goto(p, "w_drop")
        /\ UNCHANGED <<manifest, seen>>
  /\ UNCHANGED <<clock, workspace, unpushed, plane, pipes, gates,
                 chat, conn, spawned, victims, weighed>>

\* container_for(): one that is still up is used again
House(p) ==
  /\ pc[p] = "w_house"
  /\ \/ Goto(p, IF container[chat[p]] = "live" THEN "w_climb" ELSE "w_spawn")
     \/ May("plane") /\ Goto(p, "w_drop")
  /\ UNCHANGED <<disk, plane, pipes, gates, locals, weighed>>

\* spawn(), its startup script included: how the script ends costs nothing
WakeSpawn(p) ==
  /\ pc[p] = "w_spawn"
  /\ \/ /\ Spawn(chat[p])
        /\ spawned' = [spawned EXCEPT ![p] = TRUE]
        /\ Goto(p, "w_climb")
     \/ /\ SpawnFails(chat[p])
        /\ Goto(p, "w_drop")
        /\ UNCHANGED spawned
  /\ UNCHANGED <<disk, stray, pipes, gates, chat, conn, seen, victims, weighed>>

\* climb(): an adapter of its own in the container, up the ladder to a rung
\* that answers.  Only the last rung forgets the session.
Climb(p) ==
  /\ pc[p] = "w_climb"
  /\ \/ /\ container[chat[p]] = "live"
        /\ \E k \in Unused :
             /\ conn' = [conn EXCEPT ![p] = k]
             /\ wired' = [wired EXCEPT ![k] = chat[p]]
        /\ Goto(p, "w_hold") \/ Goto(p, "w_record")
     \/ /\ container[chat[p]] # "live" \/ May("adapter")
        /\ Goto(p, IF spawned[p] THEN "w_release" ELSE "w_drop")
        /\ UNCHANGED <<conn, wired>>
  /\ UNCHANGED <<disk, plane, held, lock, gates, chat, seen, spawned, victims, weighed>>

\* climbed_in_a_container(): a climb that failed gives its container back
WakeRelease(p) ==
  /\ pc[p] = "w_release"
  /\ \/ TearDown(chat[p]) /\ Goto(p, "w_forget")
     \/ TearDownFails(chat[p]) /\ Goto(p, "w_drop")
  /\ UNCHANGED <<disk, held, lock, gates, locals, weighed>>

WakeForget(p) ==
  /\ pc[p] = "w_forget"
  /\ Forget(chat[p])
  /\ Goto(p, "w_drop")
  /\ UNCHANGED <<disk, plane, lock, gates, locals, weighed>>

\* woken(): a session that remembers nothing goes into the manifest as it was
\* read when the wake began.
WakeRecord(p) ==
  /\ pc[p] = "w_record"
  /\ \/ /\ manifest' = [manifest EXCEPT ![chat[p]] = [seen[p] EXCEPT !.session = TRUE]]
        /\ Goto(p, "w_hold")
        /\ UNCHANGED <<conn, wired>>
     \/ /\ May("store")
        /\ conn' = [conn EXCEPT ![p] = None]
        /\ DropUnused(held, conn')
        /\ Goto(p, "w_drop")
        /\ UNCHANGED manifest
  /\ UNCHANGED <<clock, workspace, unpushed, plane, held, lock, gates,
                 chat, seen, spawned, victims, weighed>>

\* Faulty variant: the claim ends with the wake (as before issue #101).
WakeHoldUnclaimed(p) ==
  /\ pc[p] = "w_hold"
  /\ held[chat[p]] = None
  /\ held' = [held EXCEPT ![chat[p]] = conn[p]]
  /\ DropClaim(chat[p])
  /\ Goto(p, "handover")
  /\ UNCHANGED <<disk, plane, wired, lock, parking, locals, weighed>>

\* connections.hold(), or AlreadyHeld
WakeHold(p) ==
  /\ pc[p] = "w_hold"
  /\ \/ /\ held[chat[p]] = None
        /\ held' = [held EXCEPT ![chat[p]] = conn[p]]
        /\ Goto(p, "handover")
        /\ UNCHANGED <<conn, wired>>
     \/ /\ held[chat[p]] # None
        /\ conn' = [conn EXCEPT ![p] = None]
        /\ DropUnused(held, conn')
        /\ Goto(p, "w_drop")
        /\ UNCHANGED held
  /\ UNCHANGED <<disk, plane, lock, gates, chat, seen, spawned, victims, weighed>>

\* Faulty variant: a wake that failed keeps its claim.
WakeDropClaimed(p) ==
  /\ pc[p] = "w_drop"
  /\ Goto(p, "cap")
  /\ UNCHANGED <<disk, plane, pipes, gates, locals, weighed>>

\* wake() failing: the claim goes with it
WakeDrop(p) ==
  /\ pc[p] = "w_drop"
  /\ DropClaim(chat[p])
  /\ seen' = [seen EXCEPT ![p] = NoManifest]
  /\ spawned' = [spawned EXCEPT ![p] = FALSE]
  /\ Goto(p, "cap")
  /\ UNCHANGED <<disk, plane, pipes, parking, chat, conn, victims, weighed>>

\* turn(): connection.try_lock(), after a wake or over a connection already
\* held.  Busy is a refusal; a wake's claim goes down with it.
TurnLock(p) ==
  LET k == conn[p] IN
  /\ pc[p] \in {"handover", "lock"}
  /\ \/ /\ TryLock(p, k)
        /\ Goto(p, IF pc[p] = "handover" THEN "unclaim" ELSE "turn")
        /\ UNCHANGED <<conn, wired>>
     \/ /\ lock[k] # None \/ Probed(chat[p], k)
        /\ conn' = [conn EXCEPT ![p] = None]
        /\ DropUnused(held, conn')
        /\ Goto(p, IF pc[p] = "handover" THEN "w_drop" ELSE "cap")
        /\ UNCHANGED lock
  /\ UNCHANGED <<disk, plane, held, gates, chat, seen, spawned, victims, weighed>>

\* drop(woken.claim), now that the lock is held
Unclaim(p) ==
  /\ pc[p] = "unclaim"
  /\ DropClaim(chat[p])
  /\ seen' = [seen EXCEPT ![p] = NoManifest]
  /\ spawned' = [spawned EXCEPT ![p] = FALSE]
  /\ Goto(p, "turn")
  /\ UNCHANGED <<disk, plane, pipes, parking, chat, conn, victims, weighed>>

\* The guard and the Arc go with the end of the turn.
LetGo(p, label) ==
  /\ Unlock(conn[p])
  /\ conn' = [conn EXCEPT ![p] = None]
  /\ DropUnused(held, conn')
  /\ Goto(p, label)

\* take_turn(): the prompt is written down, then sent.  A prompt that cannot
\* be written is not sent; a channel that is down is spent.
TurnSend(p) ==
  /\ pc[p] = "turn"
  /\ \/ /\ wired[conn[p]] = chat[p]
        /\ Goto(p, "answer")
        /\ UNCHANGED <<lock, conn, wired>>
     \/ wired[conn[p]] # chat[p] /\ LetGo(p, "end_forget")
     \/ May("store") /\ LetGo(p, "cap")
  /\ UNCHANGED <<disk, plane, held, gates, chat, seen, spawned, victims, weighed>>

\* take_turn(): the answer, or the end of waiting for one.  An agent that went
\* silent, or whose update could not be written down, may be at work still.
TurnEnd(p) ==
  /\ pc[p] = "answer"
  /\ \/ /\ wired[conn[p]] = chat[p]
        /\ LetGo(p, "touch_read")
        /\ UNCHANGED stray
     \/ /\ wired[conn[p]] = chat[p] /\ May("store")
        /\ LetGo(p, "cap")
        /\ stray' = [stray EXCEPT ![chat[p]] = TRUE]
     \/ /\ wired[conn[p]] = chat[p] /\ May("adapter")
        /\ LetGo(p, "end_forget")
        /\ stray' = [stray EXCEPT ![chat[p]] = TRUE]
     \/ /\ wired[conn[p]] # chat[p] \/ May("adapter")
        /\ LetGo(p, "end_forget")
        /\ UNCHANGED stray
  /\ UNCHANGED <<disk, container, held, gates, chat, seen, spawned, victims, weighed>>

\* ended(): a spent connection is forgotten, by the chat's id and with the
\* turn lock already let go of
EndForget(p) ==
  /\ pc[p] = "end_forget"
  /\ Forget(chat[p])
  /\ Goto(p, "cap")
  /\ UNCHANGED <<disk, plane, lock, gates, locals, weighed>>

\* touch(): read the manifest, write it back with a new stamp
TouchRead(p) ==
  /\ pc[p] = "touch_read"
  /\ \/ /\ seen' = [seen EXCEPT ![p] = manifest[chat[p]]]
        /\ Goto(p, "touch_write")
     \/ /\ May("store")
        /\ Goto(p, "cap")
        /\ UNCHANGED seen
  /\ UNCHANGED <<disk, plane, pipes, gates, chat, conn, spawned, victims, weighed>>

TouchWrite(p) ==
  /\ pc[p] = "touch_write"
  /\ \/ /\ clock' = clock + 1
        /\ manifest' = [manifest EXCEPT ![chat[p]] = [seen[p] EXCEPT !.active = clock + 1]]
     \/ May("store") /\ UNCHANGED <<manifest, clock>>
  /\ seen' = [seen EXCEPT ![p] = NoManifest]
  /\ Goto(p, "cap")
  /\ UNCHANGED <<workspace, unpushed, plane, pipes, gates,
                 chat, conn, spawned, victims, weighed>>

WakeStep(p) ==
  \/ WakeClaim(p) \/ WakeRead(p) \/ WakeTree(p) \/ ReviveCheck(p) \/ CloneStart(p)
  \/ CloneEnd(p) \/ Wipe(p) \/ ReviveOpen(p) \/ House(p) \/ WakeSpawn(p) \/ Climb(p)
  \/ WakeRelease(p) \/ WakeForget(p) \/ WakeRecord(p) \/ WakeHold(p) \/ WakeDrop(p)

TurnStep(p) ==
  \/ Of(p) \/ TurnLock(p) \/ Unclaim(p) \/ TurnSend(p) \/ EndForget(p)
  \/ TouchRead(p) \/ TouchWrite(p)

=============================================================================
