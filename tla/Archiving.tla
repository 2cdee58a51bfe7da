----------------------------- MODULE Archiving -----------------------------
(***************************************************************************)
(* archive (src/chats.rs, close): under the chat's claim and, where it     *)
(* holds a connection, its turn lock, push everything, write the manifest, *)
(* give the container up, delete the tree, sweep.  The guards are dropped  *)
(* at the end of close(), the turn lock before the claim.                  *)
(***************************************************************************)
EXTENDS ChatsState

GatePcs == {"a_push", "a_write", "a_release", "a_forget", "a_remove", "a_unlock"}

ArchivePcs == GatePcs \cup {"a_claim", "a_read", "a_of", "a_lock", "a_drop"}

\* Faulty variant: an archive that claims nothing (as before issue #93).
ArchiveUnclaimed(p) ==
  /\ pc[p] = "a_claim"
  /\ Goto(p, "a_read")
  /\ UNCHANGED <<disk, plane, pipes, gates, locals, weighed>>

ArchiveClaim(p) ==
  /\ pc[p] = "a_claim"
  /\ \/ /\ TakeClaim(chat[p], "archiving")
        /\ Goto(p, "a_read")
        /\ UNCHANGED chat
     \/ /\ claims[chat[p]] # "free"
        /\ Done(p)
        /\ UNCHANGED claims
  /\ UNCHANGED <<disk, plane, pipes, parking, conn, seen, spawned, victims, weighed>>

\* NoSuchChat, AlreadyArchived, or a chat to archive
ArchiveRead(p) ==
  LET found == manifest[chat[p]] IN
  /\ pc[p] = "a_read"
  /\ \/ /\ found.state = "open"
        /\ seen' = [seen EXCEPT ![p] = found]
        /\ Goto(p, "a_of")
     \/ /\ found.state # "open" \/ May("store")
        /\ Goto(p, "a_drop")
        /\ UNCHANGED seen
  /\ UNCHANGED <<disk, plane, pipes, gates, chat, conn, spawned, victims, weighed>>

\* idle(): a chat holding no connection has nothing to take
ArchiveOf(p) ==
  /\ pc[p] = "a_of"
  /\ conn' = [conn EXCEPT ![p] = held[chat[p]]]
  /\ Goto(p, IF held[chat[p]] = None THEN "a_push" ELSE "a_lock")
  /\ UNCHANGED <<disk, plane, pipes, gates, chat, seen, spawned, victims, weighed>>

\* Faulty variant: a lock that is taken does not stop the archive.
ArchiveUnlocked(p) ==
  /\ pc[p] = "a_lock"
  /\ conn' = [conn EXCEPT ![p] = None]
  /\ DropUnused(held, conn')
  /\ Goto(p, "a_push")
  /\ UNCHANGED <<disk, plane, held, lock, gates, chat, seen, spawned, victims, weighed>>

\* idle(): try_lock_owned(), or ArchiveError::Busy
ArchiveLock(p) ==
  LET k == conn[p] IN
  /\ pc[p] = "a_lock"
  /\ \/ /\ TryLock(p, k)
        /\ Goto(p, "a_push")
        /\ UNCHANGED <<conn, wired>>
     \/ /\ lock[k] # None \/ Probed(chat[p], k)
        /\ conn' = [conn EXCEPT ![p] = None]
        /\ DropUnused(held, conn')
        /\ Goto(p, "a_drop")
        /\ UNCHANGED lock
  /\ UNCHANGED <<disk, plane, held, gates, chat, seen, spawned, victims, weighed>>

\* push_everything(): what the tree holds at this step is on the remote.  Git
\* has nothing to push from a tree that is not whole.
Push(p) ==
  /\ pc[p] = "a_push"
  /\ \/ /\ workspace[chat[p]] = "tree"
        /\ unpushed' = [unpushed EXCEPT ![chat[p]] = FALSE]
        /\ Goto(p, "a_write")
     \/ /\ workspace[chat[p]] # "tree" \/ May("git")
        /\ Goto(p, "a_unlock")
        /\ UNCHANGED unpushed
  /\ UNCHANGED <<manifest, clock, workspace, plane, pipes, gates, locals, weighed>>

\* the manifest read before the push, archived
ArchiveWrite(p) ==
  /\ pc[p] = "a_write"
  /\ \/ /\ manifest' = [manifest EXCEPT ![chat[p]] =
                          [seen[p] EXCEPT !.state = "archived", !.pushed = TRUE]]
        /\ Goto(p, "a_release")
     \/ /\ May("store")
        /\ Goto(p, "a_unlock")
        /\ UNCHANGED manifest
  /\ UNCHANGED <<clock, workspace, unpushed, plane, pipes, gates, locals, weighed>>

\* release(): a teardown that fails is a warning, and the archive goes on
ArchiveRelease(p) ==
  /\ pc[p] = "a_release"
  /\ \/ TearDown(chat[p]) /\ Goto(p, "a_forget")
     \/ TearDownFails(chat[p]) /\ Goto(p, "a_remove")
  /\ UNCHANGED <<disk, held, lock, gates, locals, weighed>>

ArchiveForget(p) ==
  /\ pc[p] = "a_forget"
  /\ Forget(chat[p])
  /\ Goto(p, "a_remove")
  /\ UNCHANGED <<disk, plane, lock, gates, locals, weighed>>

ArchiveRemove(p) ==
  /\ pc[p] = "a_remove"
  /\ \/ RemoveTree(chat[p]) /\ Goto(p, "s_scan")
     \/ RemoveTreeFails(chat[p]) /\ Goto(p, "a_unlock")
  /\ UNCHANGED <<manifest, clock, plane, pipes, gates, locals, weighed>>

\* _turn goes out of scope, then _claim
ArchiveUnlock(p) ==
  /\ pc[p] = "a_unlock"
  /\ Unlock(conn[p])
  /\ conn' = [conn EXCEPT ![p] = None]
  /\ DropUnused(held, conn')
  /\ Goto(p, "a_drop")
  /\ UNCHANGED <<disk, plane, held, gates, chat, seen, spawned, victims, weighed>>

ArchiveDrop(p) ==
  /\ pc[p] = "a_drop"
  /\ DropClaim(chat[p])
  /\ seen' = [seen EXCEPT ![p] = NoManifest]
  /\ Done(p)
  /\ UNCHANGED <<disk, plane, pipes, parking, conn, spawned, victims, weighed>>

ArchiveStep(p) ==
  \/ ArchiveClaim(p) \/ ArchiveRead(p) \/ ArchiveOf(p) \/ ArchiveLock(p)
  \/ Push(p) \/ ArchiveWrite(p) \/ ArchiveRelease(p) \/ ArchiveForget(p)
  \/ ArchiveRemove(p) \/ ArchiveUnlock(p) \/ ArchiveDrop(p)

=============================================================================
