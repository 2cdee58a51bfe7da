------------------------------- MODULE Access -------------------------------
(***************************************************************************)
(* Who gets in (src/auth/gate.rs, src/auth/session.rs, the session layer   *)
(* of src/server.rs): signing in, cookies that are good for as long as     *)
(* their key is in force and their life lasts, the refreshed cookie that   *)
(* slides that life forward, and logging out everywhere.                   *)
(*                                                                         *)
(* A cookie is its key; which sign-in it goes back to and whether it was   *)
(* refreshed across a rotation are auxiliary.                              *)
(***************************************************************************)
EXTENDS Keys, Logins

CONSTANTS Devices,
          MaxNow,     \* bound: the times at which attempts come
          Visits      \* what visitors do: "login", "page", "logout"

VARIABLES jar,     \* per device, the cookie it keeps
          request  \* per task, the request it serves

sessionVars == <<jar, request>>
accessVars == <<keyVars, loginVars, sessionVars>>

NoCookie == [key |-> None, since |-> 0, stray |-> FALSE]
Idle == [at |-> "idle", visit |-> "none", device |-> "none",
         cookie |-> NoCookie, fresh |-> NoCookie, now |-> 0]

AccessInit ==
  /\ InitKeys /\ InitLogins
  /\ jar = [d \in Devices |-> NoCookie]
  /\ request = [t \in Tasks |-> Idle]

-----------------------------------------------------------------------------
AtStep(t, step) == Serving /\ request[t].at = step
GoOn(t, step) == request' = [request EXCEPT ![t].at = step]

\* A request whose cookie is seen to, with what the response is to set.
Answering(step, device, fresh) ==
  [at |-> step, visit |-> "none", device |-> device,
   cookie |-> NoCookie, fresh |-> fresh, now |-> 0]

\* A request is sent with the cookie the device then has, an attempt to sign
\* in at any time: the clock is the host's, and may be set back.
Arrive(t, d) ==
  /\ AtStep(t, "idle")
  /\ \E visit \in Visits, now \in 0..MaxNow :
        request' = [request EXCEPT ![t] =
          [at |-> IF visit = "login" THEN "locked" ELSE "session",
           visit |-> IF visit = "logout" THEN visit ELSE "none", device |-> d,
           cookie |-> IF visit = "login" THEN NoCookie ELSE jar[d],
           fresh |-> NoCookie, now |-> IF visit = "login" THEN now ELSE 0]]
  /\ UNCHANGED <<keyVars, loginVars, jar>>

\* On to the handler, with what the response is to set; a page changes nothing
\* here and is answered at once.
Proceed(t, fresh) ==
  request' = [request EXCEPT ![t] = Answering(
    IF @.visit = "logout" THEN "log_out" ELSE "respond", @.device, fresh)]

\* require_session: a cookie of another key, or none, is sent to the login
\* page; one that ages goes by issue_cookie before the handler runs.
Recognise(t) ==
  /\ AtStep(t, "session")
  /\ IF request[t].cookie.key = current
       THEN GoOn(t, "issue") \/ Proceed(t, NoCookie)
       ELSE request' = [request EXCEPT ![t] = Idle]
  /\ UNCHANGED <<keyVars, loginVars, jar>>

Refreshed(cookie) == [key |-> current, since |-> cookie.since,
                      stray |-> cookie.stray \/ cookie.key # current]

IssueRefreshed(t) ==
  /\ AtStep(t, "issue") /\ Proceed(t, Refreshed(request[t].cookie))
  /\ UNCHANGED <<keyVars, loginVars, jar>>

LogOut(t) ==
  /\ AtStep(t, "log_out") /\ OpenPendingKey(t, drawn + 1) /\ GoOn(t, "rotate")
  /\ UNCHANGED <<loginVars, jar>>

\* rotate runs on without an await: only a crash can stop it half way.
Rotate(t) ==
  /\ AtStep(t, "rotate")
  /\ \/ (WritePendingKey(t) \/ MovePending(t)) /\ UNCHANGED request
     \/ (PersistFails(t) \/ SetCurrent(t)) /\ GoOn(t, "respond")
  /\ UNCHANGED <<loginVars, jar>>

\* The browser keeps the last cookie it was answered with.
Respond(t) ==
  /\ AtStep(t, "respond")
  /\ jar' = IF request[t].fresh = NoCookie THEN jar
            ELSE [jar EXCEPT ![request[t].device] = request[t].fresh]
  /\ request' = [request EXCEPT ![t] = Idle]
  /\ UNCHANGED <<keyVars, loginVars>>

\* The visitor does not wait for the answer: a rotation runs to its end.
HangUp(t) ==
  /\ Serving /\ request[t].at \notin {"idle", "rotate"}
  /\ request' = [request EXCEPT ![t] = Idle]
  /\ UNCHANGED <<keyVars, loginVars, jar>>

-----------------------------------------------------------------------------
(* sign_in: the lock is asked, the password weighed, the count kept.       *)

AskLock(t) ==
  /\ AtStep(t, "locked")
  /\ IF IsLocked(request[t].now) THEN request' = [request EXCEPT ![t] = Idle]
                                 ELSE GoOn(t, "weigh")
  /\ UNCHANGED <<keyVars, loginVars, jar>>

RefuseLogin(t) ==
  /\ AtStep(t, "weigh") /\ RecordFailure(request[t].now)
  /\ request' = [request EXCEPT ![t] = Idle]
  /\ UNCHANGED <<keyVars, jar>>

\* submit_login goes on to issue_cookie without waiting for anything.
Grant(t) ==
  /\ AtStep(t, "weigh") /\ RecordSuccess
  /\ request' = [request EXCEPT ![t] = Answering("respond", @.device,
       [key |-> current, since |-> drawn, stray |-> FALSE])]
  /\ UNCHANGED <<keyVars, jar>>

-----------------------------------------------------------------------------
\* A cookie that was not refreshed in time is over.
Expire(d) == /\ jar[d] # NoCookie /\ jar' = [jar EXCEPT ![d] = NoCookie]
             /\ UNCHANGED <<keyVars, loginVars, request>>

CoreCrash ==
  /\ "crash" \in KeyFaults /\ (Serving \/ Persisting(Boot))
  /\ CrashKeys /\ RestartLogins
  /\ request' = [t \in Tasks |-> Idle]
  /\ UNCHANGED jar

Start == OpenStore /\ UNCHANGED <<loginVars, sessionVars>>

AccessNext ==
  \/ \E t \in Tasks :
       \/ \E d \in Devices : Arrive(t, d)
       \/ Recognise(t) \/ IssueRefreshed(t) \/ LogOut(t) \/ Rotate(t)
       \/ Respond(t) \/ HangUp(t)
       \/ AskLock(t) \/ RefuseLogin(t) \/ Grant(t)
  \/ \E d \in Devices : Expire(d)
  \/ CoreCrash \/ Start

AccessSpec == AccessInit /\ [][AccessNext]_accessVars

-----------------------------------------------------------------------------
Cookies == {jar[d] : d \in Devices} \cup {request[t].fresh : t \in Tasks}

\* A rotation that succeeded ends every session signed in before it began,
\* on every device and across restarts ("invalidating every cookie"); but for
\* one whose refreshed cookie was minted while a rotation took effect, between
\* require_session's two looks at the key.
LoggedOutEverywhere ==
  \A cookie \in Cookies :
     (cookie.key # None /\ cookie.key = current) =>
        cookie.stray \/ done <= cookie.since

\* Each further failure extends the lockout ("extending the lockout", "each
\* further failure doubles it"), unless the attempt is older than the failure
\* before it: it is counted from the time it came, not the time it was weighed.
LockoutsGrow ==
  [][(failures' > failures /\ failures >= FreeAttempts) =>
        lockedUntil' >= lockedUntil \/ latest' < latest]_accessVars

=============================================================================
