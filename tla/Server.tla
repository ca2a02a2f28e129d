------------------------------- MODULE Server -------------------------------
(***************************************************************************)
(* jit-server as its clients see it: requests arrive with the bearer token *)
(* or a browser session, pass require_auth, and their handlers run side by *)
(* side until they answer, their client goes away, or the server restarts. *)
(* Sessions, registrations and invocations are the modules it extends.     *)
(*                                                                         *)
(* revoke_tool_version is one transaction here, as in Registry, and the    *)
(* publication of a version by the workers is one step of the environment. *)
(* Rejected input (names, sizes, formats, media types, an unknown tool) is *)
(* answered before any state is touched and is left out.                   *)
(***************************************************************************)
EXTENDS WebSessions, Invocations

CONSTANT
  Asks  \* per request: what it may ask, see Ask

\* revision 0 of an invocation stands for none, the stable one is meant.
Ask == [kind : {"read"}]
  \cup [kind : {"register"}, key : Keys, tool : Tools, body : Bodies]
  \cup [kind : {"invoke"}, tool : Tools, revision : {0} \cup Revisions]
  \cup [kind : {"revoke"}, tool : Tools, revision : Revisions]

ASSUME ServerAssumption == Asks \in [Requests -> SUBSET Ask]

VARIABLES
  request,       \* new, a kind while its handler runs, closed
  revokedBefore  \* history: the versions revoked before an invocation arrived

vars == <<sessionVars, tx, registryVars, run, request, revokedBefore>>
handlerVars == <<tx, registryVars, run, request, revokedBefore>>

Init ==
  /\ InitSessions
  /\ InitRegistration
  /\ InitInvocations
  /\ request = [c \in Requests |-> "new"]
  /\ revokedBefore = [c \in Requests |-> {}]

Revoked == {v \in Versions : version[v] = "revoked"}

-----------------------------------------------------------------------------
(* require_auth                                                            *)

Safe(kind) == kind = "read"

Close(c) ==
  /\ request' = [request EXCEPT ![c] = "closed"]
  /\ revokedBefore' = [revokedBefore EXCEPT ![c] = {}]

\* revoke_tool_version, Registry!Revoke: the pointer falls back to the newest
\* version that is still ready.
NextStable(t, r) ==
  IF stable[t] # r THEN stable[t]
  ELSE Max({0} \cup {x \in Revisions \ {r} : version[<<t, x>>] = "ready"})

RevokeVersion(v) ==
  /\ IF Ready(v)
     THEN /\ version' = [version EXCEPT ![v] = "revoked"]
          /\ stable' = [stable EXCEPT ![v[1]] = NextStable(v[1], v[2])]
     ELSE UNCHANGED <<version, stable>>
  /\ UNCHANGED <<jobs, latest>>

\* A request that may run.  Reading and revoking are one statement, or one
\* transaction, each.
Enter(c, ask) ==
  /\ CASE ask.kind = "register" ->
            /\ BeginRegistration(c, ask.key, ask.tool, ask.body)
            /\ request' = [request EXCEPT ![c] = "register"]
            /\ UNCHANGED <<run, revokedBefore>>
       [] ask.kind = "invoke" ->
            /\ BeginInvocation(c, ask.tool, ask.revision)
            /\ request' = [request EXCEPT ![c] = "invoke"]
            /\ revokedBefore' = [revokedBefore EXCEPT ![c] = Revoked]
            /\ UNCHANGED tx
       [] ask.kind = "revoke" ->
            /\ RevokeVersion(<<ask.tool, ask.revision>>)
            /\ Close(c)
            /\ UNCHANGED <<tx, run>>
       [] ask.kind = "read" ->
            /\ Close(c)
            /\ UNCHANGED <<tx, registryVars, run>>

ArriveWithToken(c) ==
  /\ request[c] = "new"
  /\ \E ask \in Asks[c] : Enter(c, ask)
  /\ UNCHANGED sessionVars

\* A session lets safe methods in, and the others with its CSRF token.
ArriveWithSession(c, s) ==
  /\ request[c] = "new"
  /\ Get(s)
  /\ \E ask \in Asks[c], csrf \in BOOLEAN :
       IF csrf \/ Safe(ask.kind) THEN Enter(c, ask)
       ELSE Close(c) /\ UNCHANGED <<tx, registryVars, run>>

\* 401: the session is not in the map (any more).
Unauthorized(c, s) ==
  /\ request[c] = "new"
  /\ GetMisses(s)
  /\ Close(c)
  /\ UNCHANGED <<tx, registryVars, run>>

-----------------------------------------------------------------------------
(* The handlers                                                            *)

Register(c) ==
  /\ request[c] = "register"
  /\ RegistrationStep(c)
  /\ UNCHANGED <<sessionVars, run, request, revokedBefore>>

Invoke(c) ==
  /\ request[c] = "invoke"
  /\ InvocationStep(c)
  /\ UNCHANGED <<sessionVars, tx, request, revokedBefore>>

\* The handler returns: the response is sent.
Answer(c) ==
  /\ \/ request[c] = "register" /\ tx[c].at = "done" /\ EndTransaction(c) /\ UNCHANGED run
     \/ request[c] = "invoke" /\ run[c].at = "done" /\ EndCall(c) /\ UNCHANGED tx
  /\ Close(c)
  /\ UNCHANGED <<sessionVars, registryVars>>

-----------------------------------------------------------------------------
(* The environment                                                         *)

\* publish_job, for the version of some job.
Publish(v) ==
  /\ version[v] = "draft"
  /\ version' = [version EXCEPT ![v] = "ready"]
  /\ stable' = [stable EXCEPT ![v[1]] = v[2]]
  /\ UNCHANGED <<sessionVars, tx, jobs, latest, run, request, revokedBefore>>

\* The program in the container ends or prints too much, or the docker CLI that
\* the runner waits for fails.
Program(c) ==
  /\ ContainerExits(c) \/ WaitBreaks(c)
  /\ UNCHANGED <<sessionVars, tx, request, revokedBefore>>

\* The client disconnects, or gives up: its handler is dropped where it awaits.
ClientLeaves(c) ==
  /\ \/ request[c] = "register" /\ EndTransaction(c) /\ UNCHANGED run
     \/ request[c] = "invoke" /\ EndCall(c) /\ UNCHANGED tx
  /\ Close(c)
  /\ UNCHANGED <<sessionVars, registryVars>>

WorkerRestarts ==
  /\ WorkerStops
  /\ UNCHANGED <<sessionVars, tx, request, revokedBefore>>

\* The process ends and starts again: every handler is gone, and the sessions.
ServerRestarts ==
  /\ ForgetSessions
  /\ request' = [c \in Requests |-> IF request[c] = "new" THEN "new" ELSE "closed"]
  /\ tx' = [c \in Requests |-> IF request[c] = "register" THEN NoTx ELSE tx[c]]
  /\ run' = [c \in Requests |-> IF request[c] = "invoke" THEN Left(c) ELSE run[c]]
  /\ revokedBefore' = [c \in Requests |-> {}]
  /\ UNCHANGED registryVars

Visit == SessionStep /\ UNCHANGED handlerVars

Handle(c) == Register(c) \/ Invoke(c) \/ Answer(c)

Next ==
  \/ Visit
  \/ WorkerRestarts
  \/ ServerRestarts
  \/ \E v \in Versions : Publish(v)
  \/ \E c \in Requests :
       \/ ArriveWithToken(c)
       \/ \E s \in Sessions : ArriveWithSession(c, s) \/ Unauthorized(c, s)
       \/ Handle(c)
       \/ Program(c)
       \/ ClientLeaves(c)

Spec == Init /\ [][Next]_vars

\* The server's tasks are polled and PostgreSQL answers; a wait for a container
\* ends by the time limit if by nothing else.  Nothing is assumed of programs,
\* clients or restarts.
FairSpec == Spec /\ \A c \in Requests : WF_vars(Handle(c))

-----------------------------------------------------------------------------

TxTypes ==
  [at : {"idle", "key", "lookup", "name", "read", "write", "done"},
   key : Keys \cup {None}, tool : Tools \cup {None}, body : Bodies \cup {None},
   revision : 0..Cardinality(Keys) + 1,
   answer : Versions \cup {None, "conflict", "internal"}]

RunTypes ==
  [at : {"idle", "resolve", "start", "prepare", "wait", "finish", "done"},
   version : (Tools \X ({0} \cup Revisions)) \cup {None},
   row : {"absent", "running", "succeeded", "failed", "timed_out"},
   box : {"none", "running", "zero", "other", "removed"},
   kept : {"no", "rm", "cli", "gone"}, lost : BOOLEAN,
   code : {None, "zero", "other", "DeadlineExceeded", "ResourceExhausted", "Unavailable",
           "NotFound", "Internal"},
   answer : {None, "tool_not_ready", "not_started", "zero", "other", "execution_timeout",
             "output_limit_exceeded", "worker_unavailable", "artifact_unavailable",
             "execution_failed"}]

\* The types of all variables; the map of sessions keeps its bound and agrees
\* with what its logins promised (SessionStore).
TypeOK ==
  /\ SessionsTypeOK /\ SessionsSound
  /\ tx \in [Requests -> TxTypes]
  /\ jobs \in [Keys -> [fingerprint : Tools \X Bodies, version : Versions] \cup {None}]
  /\ latest \in [Tools -> 0..Cardinality(Keys)]
  /\ stable \in [Tools -> 0..Cardinality(Keys)]
  /\ version \in [Versions -> {"absent", "draft", "ready", "revoked"}]
  /\ run \in [Requests -> RunTypes]
  /\ request \in [Requests -> {"new", "register", "invoke", "closed"}]
  /\ revokedBefore \in [Requests -> SUBSET Versions]

\* However registrations interleave (register): one key makes one revision and
\* every request that repeats it, and no other, is answered with that revision;
\* the revisions of a tool have no gap, and no race ends in a database error.
KeysNameOneRevision ==
  /\ \A c \in Requests : tx[c].answer \in Versions =>
       /\ jobs[tx[c].key] # None
       /\ jobs[tx[c].key].version = tx[c].answer
       /\ jobs[tx[c].key].fingerprint = Fingerprint(c)
  /\ \A c \in Requests : tx[c].answer # "internal"
  /\ \A t \in Tools, r \in Revisions :
       /\ version[<<t, r>>] # "absent" <=> r <= latest[t]
       /\ version[<<t, r>>] # "absent" <=>
            \E k \in Keys : jobs[k] # None /\ jobs[k].version = <<t, r>>
  /\ \A k, l \in Keys : jobs[k] # None /\ jobs[l] # None /\ k # l =>
       jobs[k].version # jobs[l].version

\* The row of an invocation says what its client was told, unless the write was
\* lost (finish_invocation, logged only); "succeeded" is said of programs that
\* exited with zero and of no others; and a row is left at "running" only by a
\* lost write or a request that was dropped.
RowsTellTheAnswer ==
  \A c \in Requests :
    /\ run[c].row = "succeeded" /\ run[c].at = "done" => run[c].box = "zero"
    /\ run[c].at = "done" /\ run[c].row # "absent" =>
         IF run[c].lost THEN run[c].row = "running"
         ELSE run[c].row = CASE run[c].answer = "zero" -> "succeeded"
                             [] run[c].answer = "execution_timeout" -> "timed_out"
                             [] OTHER -> "failed"
    /\ run[c].at = "idle" /\ run[c].row = "running" => request[c] = "closed"

\* What can have left the container of a call that returned with this code, or
\* with none because its request is gone.
MayRunOn(r) ==
  \/ r.kept = "gone" /\ r.code \in {None, "Unavailable"}
  \/ r.kept = "cli" /\ r.code \in {"Unavailable", "Internal"}
  \/ r.kept = "rm" /\ r.code \in {"DeadlineExceeded", "ResourceExhausted", "Internal"}

\* A container runs on after its call returned (execute_inner, terminate) only if
\* docker rm failed after a limit or an error of reading, the docker CLI failed
\* under the runner, or the worker or the request that waited for it is gone: an
\* invocation answered with an output never leaves one, and one answered with a
\* limit leaves one only if docker rm failed.
NothingOutlivesItsAnswer ==
  \A c \in Requests : run[c].box = "running" => run[c].at = "wait" \/ MayRunOn(run[c])

\* A version revoked before a request arrived is not run for it, whether the
\* request names the revision or takes the stable one (resolve_tool); one revoked
\* after it was resolved still is.
RevokedIsNotRun ==
  \A c \in Requests : run[c].row # "absent" => run[c].version \notin revokedBefore[c]

\* A session that has not run out ends only by its logout, by a restart, or by a
\* login that found MAX_SESSIONS unexpired ones of which none ends earlier
\* (create_for); and a session lets no request in after its term or its logout,
\* although its entry may still be in the map (get).
SessionsHoldTheirTerm ==
  [][/\ SessionsLast
     /\ \A c \in Requests, s \in Sessions :
          ArriveWithSession(c, s) => now < terms[s] /\ s \notin loggedOut]_vars

\* Every request that gets in is answered or dropped: no registration waits for a
\* lock forever and no invocation for its container.
RequestsEnd == \A c \in Requests : request[c] \in {"register", "invoke"} ~> request[c] = "closed"
=============================================================================
