-------------------------------- MODULE Keys --------------------------------
(***************************************************************************)
(* The signing key (src/auth/keystore.rs): kept in a file, staged in one   *)
(* pending file that every rotation uses, and read by every request from   *)
(* memory.  What a writer opened it goes on writing to, wherever that has  *)
(* been moved meanwhile.  Keys are numbered in the order they are drawn.   *)
(***************************************************************************)
EXTENDS Naturals

CONSTANTS Tasks,      \* requests under way
          Boot,       \* the task that opens the store at start
          MaxKeys,    \* bound: keys drawn
          KeyFaults   \* what may happen: "store" refuses a write, "crash"

\* The store is opened by no request.
KeysOK == MaxKeys \in Nat /\ Boot \notin Tasks

None == 0            \* no file, and no key in force
Half == MaxKeys + 1  \* less than a key
Keys == 1..MaxKeys

VARIABLES keyFile,     \* what signing_key holds
          pendingFile, \* what signing_key.tmp holds
          current,     \* the key in force, None while the core is not serving
          drawn,       \* how many keys were drawn
          writer,      \* per task that persists a key: the key, and the file
                       \* that what it opened now is
          done,        \* auxiliary: the latest key whose rotation succeeded
          overlapped   \* auxiliary: two rotations ran at once

keyVars == <<keyFile, pendingFile, current, drawn, writer, done, overlapped>>

Writers == Tasks \cup {Boot}
NoWriter == [key |-> None, at |-> "idle", file |-> "none"]

InitKeys ==
  /\ keyFile = None /\ pendingFile = None
  /\ current = None /\ drawn = 0 /\ done = 0
  /\ writer = [t \in Writers |-> NoWriter]
  /\ overlapped = FALSE

Serving == current # None
Persisting(t) == writer[t].at # "idle"

-----------------------------------------------------------------------------
(* persist: write_owner_only on the pending file, then the rename.         *)

\* The key is drawn; the pending file is made, or emptied if it is there.
OpenPendingKey(t, key) ==
  /\ ~Persisting(t) /\ key \in Keys
  /\ writer' = [writer EXCEPT ![t] = [key |-> key, at |-> "write",
                                      file |-> "signing_key.tmp"]]
  /\ pendingFile' = Half
  /\ drawn' = key
  /\ overlapped' = (overlapped \/ \E u \in Writers : Persisting(u))
  /\ UNCHANGED <<keyFile, current, done>>

WritePendingKey(t) ==
  /\ writer[t].at = "write"
  /\ pendingFile' = IF writer[t].file = "signing_key.tmp" THEN writer[t].key
                                                          ELSE pendingFile
  /\ keyFile' = IF writer[t].file = "signing_key" THEN writer[t].key ELSE keyFile
  /\ writer' = [writer EXCEPT ![t] = [key |-> @.key, at |-> "move", file |-> "none"]]
  /\ UNCHANGED <<current, drawn, done, overlapped>>

\* Whoever still has the pending file open has the key file open now, and
\* whoever had the one that was the key file has a file without a name.
MovePending(t) ==
  /\ writer[t].at = "move" /\ pendingFile # None
  /\ keyFile' = pendingFile /\ pendingFile' = None
  /\ LET moved == [u \in Writers |->
            [writer[u] EXCEPT !.file =
               IF @ = "signing_key.tmp" THEN "signing_key" ELSE "none"]]
     IN  writer' = [moved EXCEPT ![t].at = "set"]
  /\ UNCHANGED <<current, drawn, done, overlapped>>

\* The pending file was moved by somebody else, or the dataset refuses.
PersistFails(t) ==
  /\ \/ writer[t].at = "move" /\ pendingFile = None
     \/ "store" \in KeyFaults /\ writer[t].at \in {"write", "move"}
  /\ writer' = [writer EXCEPT ![t] = NoWriter]
  /\ UNCHANGED <<keyFile, pendingFile, current, drawn, done, overlapped>>

Later(a, b) == IF a > b THEN a ELSE b

\* Slip: the new key is in force before it is on disk.
SetCurrentEarly(t) ==
  /\ writer[t].at \in {"write", "move", "set"} /\ current # writer[t].key
  /\ current' = writer[t].key
  /\ done' = Later(done, writer[t].key)
  /\ writer' = IF writer[t].at = "set"
                 THEN [writer EXCEPT ![t] = NoWriter] ELSE writer
  /\ UNCHANGED <<keyFile, pendingFile, drawn, overlapped>>

\* Slip: the new key is for the next start.
SetCurrentNever(t) ==
  /\ writer[t].at = "set"
  /\ current' = IF t = Boot THEN writer[t].key ELSE current
  /\ done' = Later(done, writer[t].key)
  /\ writer' = [writer EXCEPT ![t] = NoWriter]
  /\ UNCHANGED <<keyFile, pendingFile, drawn, overlapped>>

SetCurrent(t) ==
  /\ writer[t].at = "set"
  /\ current' = writer[t].key
  /\ done' = Later(done, writer[t].key)
  /\ writer' = [writer EXCEPT ![t] = NoWriter]
  /\ UNCHANGED <<keyFile, pendingFile, drawn, overlapped>>

-----------------------------------------------------------------------------
(* open.                                                                   *)

\* Bytes that are no key are refused, and the core does not start.
Adopt ==
  /\ ~Serving /\ ~Persisting(Boot) /\ keyFile # None
  /\ current' = IF keyFile = Half THEN None ELSE keyFile
  /\ UNCHANGED <<keyFile, pendingFile, drawn, writer, done, overlapped>>

\* A first key that never was in force is as good as never drawn.
FirstKey == ~Serving /\ keyFile = None /\ OpenPendingKey(Boot, 1)

OpenStore == \/ Adopt \/ FirstKey
             \/ WritePendingKey(Boot) \/ MovePending(Boot) \/ PersistFails(Boot)
             \/ SetCurrent(Boot)

\* Whatever was being written stays as it is.
CrashKeys == /\ current' = None
             /\ writer' = [t \in Writers |-> NoWriter]
             /\ UNCHANGED <<keyFile, pendingFile, drawn, done, overlapped>>

-----------------------------------------------------------------------------
\* The key on disk is a whole one ("a crash leaves either the old key or the
\* new one, never a half-written file"), and between rotations it is the one
\* in force, so that a restart logs nobody out; unless two rotations ran at
\* once, on the one pending file.
KeyStands ==
  \/ overlapped
  \/ /\ keyFile # Half
     /\ (Serving /\ \A t \in Writers : ~Persisting(t)) => keyFile = current

=============================================================================
