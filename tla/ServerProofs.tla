---------------------------- MODULE ServerProofs ----------------------------
(***************************************************************************)
(* What TLAPS proves of Server, for all requests, tools, keys and sessions,*)
(* all limits, and whatever clients, workers and restarts do.              *)
(*                                                                         *)
(* The sessions, the registrations and the invocations each have an        *)
(* invariant of their own (SessionsInv, RegistryInv, RunInv), and a lemma  *)
(* that says what a step of the server looks like from there (SessionView, *)
(* RegistryView, RunView).  RevokedInv needs the last two.                 *)
(***************************************************************************)
EXTENDS Server, FiniteSetTheorems, WellFoundedInduction, TLAPS

-----------------------------------------------------------------------------
(* Browser sessions.                                                       *)

\* A session that was logged out had been issued.
LoggedOutIssued == \A s \in loggedOut : terms[s] > 0

SessionsInv == SessionsTypeOK /\ SessionsSound /\ LoggedOutIssued

LEMMA InitSessionsInv == Init => SessionsInv
<1> SUFFICES ASSUME Init PROVE SessionsInv
  OBVIOUS
<1> USE SessionsAssumption DEF Init, InitSessions, SessionsInv
<1>1. SessionsTypeOK
  BY DEF SessionsTypeOK
<1>2. Entries(expires) = {}
  BY DEF Entries
<1>3. Cardinality(Entries(expires)) = 0
  BY <1>2, FS_EmptySet
<1> QED
  BY <1>1, <1>2, <1>3 DEF SessionsSound, LoggedOutIssued

\* What a step does to the sessions, whichever module's step it is.
SessionView ==
  \/ Tick
  \/ \E s \in Sessions : Login(s) \/ Logout(s) \/ Get(s) \/ GetMisses(s)
  \/ ForgetSessions
  \/ UNCHANGED sessionVars

LEMMA SessionSteps == [Next]_vars => SessionView
<1> SUFFICES ASSUME [Next]_vars PROVE SessionView
  OBVIOUS
<1> USE DEF SessionView
<1>1. ASSUME Visit PROVE SessionView
  BY <1>1 DEF Visit, SessionStep
<1>2. ASSUME WorkerRestarts PROVE SessionView
  BY <1>2 DEF WorkerRestarts
<1>3. ASSUME ServerRestarts PROVE SessionView
  BY <1>3 DEF ServerRestarts
<1>4. ASSUME NEW v \in Versions, Publish(v) PROVE SessionView
  BY <1>4 DEF Publish
<1>5. ASSUME NEW c \in Requests, ArriveWithToken(c) PROVE SessionView
  BY <1>5 DEF ArriveWithToken
<1>6. ASSUME NEW c \in Requests, NEW s \in Sessions, ArriveWithSession(c, s) PROVE SessionView
  BY <1>6 DEF ArriveWithSession
<1>7. ASSUME NEW c \in Requests, NEW s \in Sessions, Unauthorized(c, s) PROVE SessionView
  BY <1>7 DEF Unauthorized
<1>8. ASSUME NEW c \in Requests, Handle(c) PROVE SessionView
  BY <1>8 DEF Handle, Register, Invoke, Answer
<1>9. ASSUME NEW c \in Requests, Program(c) PROVE SessionView
  BY <1>9 DEF Program
<1>10. ASSUME NEW c \in Requests, ClientLeaves(c) PROVE SessionView
  BY <1>10 DEF ClientLeaves
<1>11. CASE UNCHANGED vars
  BY <1>11 DEF vars
<1> QED
  BY <1>1, <1>2, <1>3, <1>4, <1>5, <1>6, <1>7, <1>8, <1>9, <1>10, <1>11 DEF Next

LEMMA SessionsFinite ==
  ASSUME NEW S \in SUBSET Sessions
  PROVE  IsFiniteSet(S) /\ Cardinality(S) \in Nat
<1>1. IsFiniteSet(Sessions)
  BY SessionsAssumption, FS_Interval DEF Sessions
<1> QED
  BY <1>1, FS_Subset, FS_CardinalityType

\* Removing the expired entries leaves the unexpired ones as they are.
LEMMA RetainKeeps ==
  ASSUME SessionsTypeOK
  PROVE  /\ Retain \in [Sessions -> 0..MaxTime + Term]
         /\ Entries(Retain) = Unexpired
         /\ Unexpired \subseteq Entries(expires)
         /\ \A s \in Unexpired : Retain[s] = expires[s]
  BY SessionsAssumption DEF SessionsTypeOK, Retain, Entries, Unexpired

LEMMA FewerEntries ==
  ASSUME SessionsTypeOK, SessionsSound, NEW m, Entries(m) \subseteq Entries(expires)
  PROVE  Cardinality(Entries(m)) <= MaxSessions
<1>1. IsFiniteSet(Entries(expires)) /\ Cardinality(Entries(expires)) \in Nat
  BY SessionsFinite DEF Entries
<1>2. IsFiniteSet(Entries(m)) /\ Cardinality(Entries(m)) \in Nat
  BY SessionsFinite DEF Entries
<1>3. Cardinality(Entries(m)) <= Cardinality(Entries(expires))
  BY <1>1, FS_Subset
<1> QED
  BY <1>1, <1>2, <1>3, SessionsAssumption DEF SessionsSound

\* A login makes room before it adds its entry.
LEMMA LoginKeepsBound ==
  ASSUME SessionsTypeOK, SessionsSound, NEW s \in Sessions, Login(s)
  PROVE  Cardinality(Entries(expires')) <= MaxSessions
<1> DEFINE R == Entries(Retain)
<1>1. PICK out \in Evicted :
        expires' = [t \in Sessions |-> IF t = s THEN now + Term
                                       ELSE IF t \in out THEN 0 ELSE Retain[t]]
  BY DEF Login
<1>2. Entries(expires') = (R \ out) \cup {s}
  BY <1>1, RetainKeeps, SessionsAssumption DEF Entries, SessionsTypeOK
<1>3. IsFiniteSet(R) /\ Cardinality(R) \in Nat /\ Cardinality(R) <= MaxSessions
  <2>1. R \subseteq Entries(expires)
    BY RetainKeeps
  <2> QED
    BY <2>1, SessionsFinite, FewerEntries DEF Entries
<1>4. IsFiniteSet(R \ out) /\ Cardinality(R \ out) \in Nat /\ Cardinality(R \ out) < MaxSessions
  <2>1. CASE Cardinality(R) >= MaxSessions
    <3>1. PICK x \in R : out = {x}
      BY <1>1, <2>1 DEF Evicted, Earliest
    <3>2. IsFiniteSet(R \ {x}) /\ Cardinality(R \ {x}) = Cardinality(R) - 1
      BY <1>3, FS_RemoveElement
    <3>3. Cardinality(R \ {x}) \in Nat
      BY <3>2, FS_CardinalityType
    <3> QED
      BY <1>3, <3>1, <3>2, <3>3, SessionsAssumption
  <2>2. CASE ~(Cardinality(R) >= MaxSessions)
    <3>1. R \ out = R
      BY <1>1, <2>2 DEF Evicted
    <3> QED
      BY <1>3, <2>2, <3>1, SessionsAssumption
  <2> QED
    BY <2>1, <2>2
<1> HIDE DEF R
<1>5. Cardinality((R \ out) \cup {s}) <= Cardinality(R \ out) + 1
  <2> DEFINE Q == R \ out
  <2> HIDE DEF Q
  <2>1. IsFiniteSet(Q) /\ Cardinality(Q) \in Nat
    BY <1>4 DEF Q
  <2>2. Cardinality(Q \cup {s}) = IF s \in Q THEN Cardinality(Q) ELSE Cardinality(Q) + 1
    BY <2>1, FS_AddElement
  <2>3. Cardinality(Q \cup {s}) <= Cardinality(Q) + 1
    BY <2>1, <2>2
  <2> QED
    BY <2>3 DEF Q
<1>6. Cardinality(Entries(expires')) \in Nat
  BY SessionsFinite DEF Entries
<1> QED
  BY <1>2, <1>4, <1>5, <1>6, SessionsAssumption

LEMMA StepSessionsInv == SessionsInv /\ SessionView => SessionsInv'
<1> SUFFICES ASSUME SessionsInv, SessionView PROVE SessionsInv'
  OBVIOUS
<1>0. SessionsTypeOK /\ SessionsSound /\ LoggedOutIssued
  BY DEF SessionsInv
<1> USE SessionsAssumption DEF SessionsTypeOK
\* All but a login only remove entries.
<1>1. ASSUME expires' \in [Sessions -> 0..MaxTime + Term], terms' = terms, LoggedOutIssued',
             \A t \in Entries(expires') : t \notin loggedOut' /\ expires'[t] = expires[t],
             now' \in 0..MaxTime, loggedOut' \subseteq Sessions
      PROVE  SessionsInv'
  <2>1. Entries(expires') \subseteq Entries(expires)
    BY <1>1 DEF Entries
  <2>2. Cardinality(Entries(expires')) <= MaxSessions
    BY <1>0, <2>1, FewerEntries
  <2>3. \A t \in Entries(expires') : expires'[t] = terms'[t] /\ t \notin loggedOut'
    BY <1>0, <1>1, <2>1 DEF SessionsSound
  <2> QED
    BY <1>0, <1>1, <2>2, <2>3 DEF SessionsInv, SessionsSound, Entries
<1>2. CASE Tick
  BY <1>0, <1>1, <1>2 DEF Tick, SessionsSound, LoggedOutIssued, Entries
<1>3. ASSUME NEW s \in Sessions, Login(s) PROVE SessionsInv'
  <2>1. PICK out \in Evicted :
        expires' = [t \in Sessions |-> IF t = s THEN now + Term
                                       ELSE IF t \in out THEN 0 ELSE Retain[t]]
    BY <1>3 DEF Login
  <2>2. /\ terms[s] = 0 /\ terms' = [terms EXCEPT ![s] = now + Term]
        /\ now' = now /\ loggedOut' = loggedOut
    BY <1>3 DEF Login
  <2>3. Retain \in [Sessions -> 0..MaxTime + Term]
    BY <1>0, RetainKeeps
  <2>4. SessionsTypeOK'
    <3>1. now + Term \in 0..MaxTime + Term /\ 0 \in 0..MaxTime + Term
      BY <1>0
    <3>2. expires' \in [Sessions -> 0..MaxTime + Term]
      BY <2>1, <2>3, <3>1
    <3>3. terms' \in [Sessions -> 0..MaxTime + Term]
      BY <1>0, <2>2, <3>1
    <3> QED
      BY <1>0, <2>2, <3>2, <3>3
  <2>5. Cardinality(Entries(expires')) <= MaxSessions
    BY <1>0, <1>3, LoginKeepsBound
  <2>6. ASSUME NEW t \in Entries(expires') PROVE expires'[t] = terms'[t] /\ t \notin loggedOut'
    <3>1. CASE t = s
      BY <1>0, <2>1, <2>2, <3>1 DEF LoggedOutIssued
    <3>2. CASE t # s
      <4>1. t \in Sessions /\ Retain[t] > 0 /\ expires'[t] = Retain[t]
        BY <2>1, <2>6, <3>2 DEF Entries
      <4>2. t \in Entries(expires) /\ Retain[t] = expires[t]
        BY <1>0, <4>1, RetainKeeps DEF Entries
      <4> QED
        BY <1>0, <2>2, <3>2, <4>1, <4>2 DEF SessionsSound
    <3> QED
      BY <3>1, <3>2
  <2>7. LoggedOutIssued'
    BY <1>0, <2>2 DEF LoggedOutIssued
  <2> QED
    BY <2>4, <2>5, <2>6, <2>7 DEF SessionsInv, SessionsSound
<1>4. ASSUME NEW s \in Sessions, Logout(s) PROVE SessionsInv'
  <2>1. /\ expires' = [Retain EXCEPT ![s] = 0] /\ loggedOut' = loggedOut \cup {s}
        /\ now' = now /\ terms' = terms /\ Retain[s] > 0
    BY <1>4 DEF Logout
  <2>2. Retain \in [Sessions -> 0..MaxTime + Term]
    BY <1>0, RetainKeeps
  <2>3. s \in Entries(expires) /\ terms[s] > 0
    BY <1>0, <2>1, <2>2, RetainKeeps DEF Entries, SessionsSound
  <2>4. \A t \in Entries(expires') : t # s /\ t \in Entries(expires) /\ expires'[t] = expires[t]
    BY <1>0, <2>1, <2>2, RetainKeeps DEF Entries
  <2>5. \A t \in Entries(expires') : t \notin loggedOut'
    BY <1>0, <2>1, <2>4 DEF SessionsSound
  <2>6. LoggedOutIssued'
    BY <1>0, <2>1, <2>3 DEF LoggedOutIssued
  <2>7. expires' \in [Sessions -> 0..MaxTime + Term]
    BY <2>1, <2>2
  <2>8. loggedOut' \subseteq Sessions /\ now' \in 0..MaxTime
    BY <1>0, <2>1
  <2> QED
    BY <1>1, <2>1, <2>4, <2>5, <2>6, <2>7, <2>8
<1>5. ASSUME NEW s \in Sessions, Get(s) \/ GetMisses(s) PROVE SessionsInv'
  <2>1. expires' = Retain /\ UNCHANGED <<now, terms, loggedOut>>
    BY <1>5 DEF Get, GetMisses
  <2>2. \A t \in Entries(expires') : t \in Entries(expires) /\ expires'[t] = expires[t]
    BY <1>0, <2>1, RetainKeeps
  <2> QED
    BY <1>0, <1>1, <2>1, <2>2, RetainKeeps DEF LoggedOutIssued, SessionsSound
<1>6. CASE ForgetSessions
  BY <1>0, <1>1, <1>6 DEF ForgetSessions, LoggedOutIssued, Entries
<1>7. CASE UNCHANGED sessionVars
  BY <1>0, <1>1, <1>7 DEF sessionVars, LoggedOutIssued, SessionsSound, Entries
<1> QED
  BY <1>2, <1>3, <1>4, <1>5, <1>6, <1>7 DEF SessionView

LEMMA SessionsInvariant == Spec => []SessionsInv
<1>1. SessionsInv /\ [Next]_vars => SessionsInv'
  BY SessionSteps, StepSessionsInv
<1> QED
  BY <1>1, InitSessionsInv, PTL DEF Spec

\* Only a session that has not run out and has not been logged out lets in.
LEMMA GetNeedsTerm ==
  ASSUME SessionsInv, NEW s \in Sessions, Get(s)
  PROVE  now < terms[s] /\ s \notin loggedOut
<1>1. s \in Unexpired /\ s \in Entries(expires)
  BY RetainKeeps DEF SessionsInv, Get, Entries
<1> QED
  BY <1>1, SessionsAssumption DEF SessionsInv, SessionsTypeOK, SessionsSound, Unexpired

LEMMA UnexpiredLast == SessionsInv /\ SessionView => SessionsLast
<1> SUFFICES ASSUME SessionsInv, SessionView, NEW s \in Unexpired
             PROVE  expires'[s] = expires[s] \/ EndsFor(s)
  BY DEF SessionsLast
<1>0. SessionsTypeOK /\ SessionsSound /\ s \in Sessions /\ expires[s] > now
  BY DEF SessionsInv, Unexpired
<1>1. Retain[s] = expires[s] /\ s \in Entries(expires) /\ Entries(Retain) = Unexpired
  BY <1>0, RetainKeeps
<1>2. CASE Tick
  BY <1>2 DEF Tick
<1>3. ASSUME NEW u \in Sessions, Login(u) PROVE expires'[s] = expires[s] \/ EndsFor(s)
  <2>1. PICK out \in Evicted :
        expires' = [t \in Sessions |-> IF t = u THEN now + Term
                                       ELSE IF t \in out THEN 0 ELSE Retain[t]]
    BY <1>3 DEF Login
  <2>2. s # u
    BY <1>0, <1>1, <1>3, SessionsAssumption DEF Login, SessionsSound, SessionsTypeOK
  <2>3. CASE s \notin out
    BY <1>0, <1>1, <2>1, <2>2, <2>3
  <2>4. CASE s \in out
    <3>1. Cardinality(Entries(Retain)) >= MaxSessions /\ s \in Earliest(Retain)
      BY <2>1, <2>4 DEF Evicted
    <3>2. \A t \in Unexpired : expires[s] <= expires[t]
      BY <1>0, <1>1, <3>1, RetainKeeps DEF Earliest
    <3> QED
      BY <1>1, <3>1, <3>2 DEF EndsFor
  <2> QED
    BY <2>3, <2>4
<1>4. ASSUME NEW u \in Sessions, Logout(u) PROVE expires'[s] = expires[s] \/ EndsFor(s)
  <2>1. expires' = [Retain EXCEPT ![u] = 0] /\ u \in loggedOut'
    BY <1>4 DEF Logout
  <2>2. Retain \in [Sessions -> 0..MaxTime + Term]
    BY <1>0, RetainKeeps
  <2> QED
    BY <1>0, <1>1, <2>1, <2>2 DEF EndsFor
<1>5. ASSUME NEW u \in Sessions, Get(u) \/ GetMisses(u) PROVE expires'[s] = expires[s]
  BY <1>1, <1>5 DEF Get, GetMisses
<1>6. CASE ForgetSessions
  <2>1. Entries(expires') = {}
    BY <1>6 DEF ForgetSessions, Entries
  <2> QED
    BY <2>1 DEF EndsFor
<1>7. CASE UNCHANGED sessionVars
  BY <1>7 DEF sessionVars
<1> QED
  BY <1>2, <1>3, <1>4, <1>5, <1>6, <1>7 DEF SessionView

\* A session that has not run out ends only by its logout, by a restart or by a
\* login that found the map full of unexpired ones, none of which ends earlier;
\* and none lets a request in after its term or its logout (create_for, get).
THEOREM SessionsHold == Spec => SessionsHoldTheirTerm
<1>1. SessionsInv /\ [Next]_vars =>
        [/\ SessionsLast
         /\ \A c \in Requests, s \in Sessions :
              ArriveWithSession(c, s) => now < terms[s] /\ s \notin loggedOut]_vars
  <2> SUFFICES ASSUME SessionsInv, [Next]_vars
               PROVE /\ SessionsLast
         /\ \A c \in Requests, s \in Sessions :
              ArriveWithSession(c, s) => now < terms[s] /\ s \notin loggedOut
    OBVIOUS
  <2>1. SessionsLast
    BY SessionSteps, UnexpiredLast
  <2>2. ASSUME NEW c \in Requests, NEW s \in Sessions, ArriveWithSession(c, s)
        PROVE  now < terms[s] /\ s \notin loggedOut
    BY <2>2, GetNeedsTerm DEF ArriveWithSession
  <2> QED
    BY <2>1, <2>2
<1> QED
  BY <1>1, SessionsInvariant, PTL DEF Spec, SessionsHoldTheirTerm

-----------------------------------------------------------------------------
(* Invocations.                                                            *)

RequestStates == {"new", "register", "invoke", "closed"}

RunTypesOK ==
  /\ run \in [Requests -> RunTypes]
  /\ request \in [Requests -> RequestStates]

\* What the state q of a request says of its invocation r, and what the places
\* an invocation can be at say of its row and its container.
RunShape(r, q) ==
  /\ q \in {"new", "register"} => r = NoRun
  /\ q = "closed" => r.at = "idle"
  /\ q = "invoke" => r.at # "idle"
  /\ r.at # "idle" => r.version \in Tools \X ({0} \cup Revisions)
  /\ r.at \in {"resolve", "start"} => r.row = "absent"
  /\ r.at \in {"resolve", "start", "prepare"} => r.box = "none"
  /\ r.at \in {"prepare", "wait", "finish"} => r.row = "running"
  /\ r.at \in {"resolve", "start", "prepare", "wait", "finish"} => r.lost = FALSE
  /\ r.at \in {"finish", "done"} /\ r.row # "absent" /\ r.code = "zero" => r.box = "zero"
  /\ r.at = "done" /\ r.row # "absent" =>
       IF r.lost THEN r.row = "running"
       ELSE r.row = RowStatus(r.code) /\ r.answer = Response(r.code)
  /\ r.box = "running" => r.at = "wait" \/ MayRunOn(r)

RunInv == RunTypesOK /\ \A c \in Requests : RunShape(run[c], request[c])

LEMMA NoRunFits == NoRun \in RunTypes
  BY DEF NoRun, RunTypes

LEMMA InitRunInv == Init => RunInv
<1> SUFFICES ASSUME Init PROVE RunInv
  OBVIOUS
<1>1. RunTypesOK
  BY NoRunFits DEF Init, InitInvocations, RunTypesOK, RequestStates
<1>2. ASSUME NEW c \in Requests PROVE RunShape(run[c], request[c])
  <2>1. run[c] = NoRun /\ request[c] = "new"
    BY DEF Init, InitInvocations
  <2> QED
    BY <2>1 DEF RunShape, NoRun
<1> QED
  BY <1>1, <1>2 DEF RunInv

\* The errors become a gRPC code, never the code of an output.
ErrorCodes == {"DeadlineExceeded", "ResourceExhausted", "Unavailable", "NotFound", "Internal"}

LEMMA CodesOfErrors ==
  ASSUME NEW e \in RunnerErrors
  PROVE  GrpcCode(e) \in ErrorCodes
  BY DEF RunnerErrors, GrpcCode, ErrorCodes

LEMMA AnswersFit ==
  ASSUME NEW r \in RunTypes
  PROVE  /\ RowStatus(r.code) \in {"succeeded", "failed", "timed_out"}
         /\ Response(r.code) \in {"zero", "other", "execution_timeout",
              "output_limit_exceeded", "worker_unavailable", "artifact_unavailable",
              "execution_failed"}
         /\ RowStatus(r.code) = "succeeded" => r.code = "zero"
  BY DEF RunTypes, RowStatus, Response

\* A call that returns with a code.
ReturnOf(r, code, box, kept) ==
  [r EXCEPT !.at = "finish", !.code = code, !.box = box, !.kept = kept]

Boxes == {"none", "running", "zero", "other", "removed"}
Reasons == {"no", "rm", "cli", "gone"}
Codes == ErrorCodes \cup {"zero", "other"}

\* Four fields of a record are changed within their sets.
LEMMA FourFields ==
  ASSUME NEW At, NEW Version, NEW Row, NEW Box, NEW Kept, NEW Lost, NEW Code, NEW Said,
         NEW r \in [at : At, version : Version, row : Row, box : Box, kept : Kept,
                   lost : Lost, code : Code, answer : Said],
         NEW a \in At, NEW c \in Code, NEW b \in Box, NEW k \in Kept
  PROVE  [r EXCEPT !.at = a, !.code = c, !.box = b, !.kept = k] \in
           [at : At, version : Version, row : Row, box : Box, kept : Kept,
            lost : Lost, code : Code, answer : Said]
  OBVIOUS

LEMMA ReturnShape ==
  ASSUME NEW r \in RunTypes, RunShape(r, "invoke"), r.at \in {"prepare", "wait"},
         NEW code \in Codes, NEW box \in Boxes, NEW kept \in Reasons,
         box = "running" => MayRunOn([kept |-> kept, code |-> code]),
         code = "zero" => box = "zero"
  PROVE  /\ ReturnOf(r, code, box, kept) \in RunTypes
         /\ RunShape(ReturnOf(r, code, box, kept), "invoke")
<1> DEFINE s == ReturnOf(r, code, box, kept)
<1>1. /\ s.at = "finish" /\ s.code = code /\ s.box = box /\ s.kept = kept
      /\ s.row = r.row /\ s.version = r.version /\ s.lost = r.lost
  BY DEF RunTypes, ReturnOf
<1>2. s \in RunTypes
  <2> DEFINE At == {"idle", "resolve", "start", "prepare", "wait", "finish", "done"}
             Version == (Tools \X ({0} \cup Revisions)) \cup {None}
             Row == {"absent", "running", "succeeded", "failed", "timed_out"}
             Code == {None, "zero", "other", "DeadlineExceeded", "ResourceExhausted",
                      "Unavailable", "NotFound", "Internal"}
             Said == {None, "tool_not_ready", "not_started", "zero", "other",
                      "execution_timeout", "output_limit_exceeded", "worker_unavailable",
                      "artifact_unavailable", "execution_failed"}
  <2>1. RunTypes = [at : At, version : Version, row : Row, box : Boxes, kept : Reasons,
                    lost : BOOLEAN, code : Code, answer : Said]
    BY DEF RunTypes, Boxes, Reasons
  <2>2. code \in Code /\ "finish" \in At
    BY DEF Codes, ErrorCodes
  <2> HIDE DEF At, Version, Row, Code, Said, s
  <2>3. [r EXCEPT !.at = "finish", !.code = code, !.box = box, !.kept = kept] \in RunTypes
    BY <2>1, <2>2, FourFields
  <2> QED
    BY <2>3 DEF s, ReturnOf
<1> HIDE DEF s
<1>3. RunShape(s, "invoke")
  BY <1>1 DEF RunShape, MayRunOn
<1> QED
  BY <1>2, <1>3 DEF s

\* A step of one invocation keeps its shape.
LEMMA InvocationKeepsShape ==
  ASSUME RunInv, NEW c \in Requests, request[c] = "invoke",
         InvocationStep(c) \/ WaitBreaks(c)
  PROVE  \E s \in RunTypes : run' = [run EXCEPT ![c] = s] /\ RunShape(s, "invoke")
<1> DEFINE Goal == \E s \in RunTypes : run' = [run EXCEPT ![c] = s] /\ RunShape(s, "invoke")
<1>0. /\ run \in [Requests -> RunTypes] /\ run[c] \in RunTypes
      /\ RunShape(run[c], "invoke")
  BY DEF RunInv, RunTypesOK
<1>1. ASSUME NEW s \in RunTypes, run' = [run EXCEPT ![c] = s], RunShape(s, "invoke") PROVE Goal
  BY <1>0, <1>1
<1> HIDE DEF Goal
<1>2. CASE Resolve(c) /\ Ready(Selected(c))
  <2> DEFINE s == [run[c] EXCEPT !.at = "start", !.version = Selected(c)]
  <2>1. run' = [run EXCEPT ![c] = s] /\ run[c].at = "resolve"
    BY <1>2 DEF Resolve
  <2>2. Selected(c) \in Tools \X Revisions
    <3>1. run[c].version \in Tools \X ({0} \cup Revisions)
      BY <1>0, <2>1 DEF RunShape
    <3>2. Selected(c)[2] \in Revisions
      BY <1>2 DEF Ready
    <3> QED
      BY <1>0, <3>1, <3>2 DEF Selected
  <2>3. /\ s.at = "start" /\ s.version = Selected(c) /\ s.row = run[c].row /\ s.box = run[c].box
        /\ s.lost = run[c].lost /\ s.kept = run[c].kept
    BY <1>0 DEF RunTypes
  <2>4. s \in RunTypes
    BY <1>0, <2>2 DEF RunTypes
  <2> HIDE DEF s
  <2>5. RunShape(s, "invoke")
    BY <1>0, <2>1, <2>2, <2>3 DEF RunShape
  <2> QED
    BY <1>1, <2>1, <2>4, <2>5
<1>3. CASE \/ Resolve(c) /\ ~Ready(Selected(c))
           \/ NotStarted(c)
  <2> DEFINE s(a) == [run[c] EXCEPT !.at = "done", !.answer = a]
  <2>1. PICK a \in {"tool_not_ready", "not_started"} :
          run' = [run EXCEPT ![c] = s(a)] /\ run[c].at \in {"resolve", "start"}
    BY <1>3 DEF Resolve, NotStarted
  <2>2. /\ s(a).at = "done" /\ s(a).version = run[c].version /\ s(a).row = run[c].row
        /\ s(a).box = run[c].box /\ s(a).lost = run[c].lost /\ s(a).kept = run[c].kept
    BY <1>0 DEF RunTypes
  <2>3. s(a) \in RunTypes
    BY <1>0 DEF RunTypes
  <2> HIDE DEF s
  <2>4. RunShape(s(a), "invoke")
    BY <1>0, <2>1, <2>2 DEF RunShape
  <2> QED
    BY <1>1, <2>1, <2>3, <2>4
<1>4. CASE Start(c)
  <2> DEFINE s == [run[c] EXCEPT !.at = "prepare", !.row = "running"]
  <2>1. run' = [run EXCEPT ![c] = s] /\ run[c].at = "start"
    BY <1>4 DEF Start
  <2>2. /\ s.at = "prepare" /\ s.version = run[c].version /\ s.row = "running"
        /\ s.box = run[c].box /\ s.lost = run[c].lost /\ s.kept = run[c].kept
    BY <1>0 DEF RunTypes
  <2>3. s \in RunTypes
    BY <1>0 DEF RunTypes
  <2> HIDE DEF s
  <2>4. RunShape(s, "invoke")
    BY <1>0, <2>1, <2>2 DEF RunShape
  <2> QED
    BY <1>1, <2>1, <2>3, <2>4
<1>5. CASE StartContainer(c)
  <2> DEFINE s == [run[c] EXCEPT !.at = "wait", !.box = "running"]
  <2>1. run' = [run EXCEPT ![c] = s] /\ run[c].at = "prepare"
    BY <1>5 DEF StartContainer
  <2>2. /\ s.at = "wait" /\ s.version = run[c].version /\ s.row = run[c].row
        /\ s.box = "running" /\ s.lost = run[c].lost /\ s.kept = run[c].kept
    BY <1>0 DEF RunTypes
  <2>3. s \in RunTypes
    BY <1>0 DEF RunTypes
  <2> HIDE DEF s
  <2>4. RunShape(s, "invoke")
    BY <1>0, <2>1, <2>2 DEF RunShape
  <2> QED
    BY <1>1, <2>1, <2>3, <2>4
<1>6. ASSUME NEW code \in Codes, NEW box \in Boxes, NEW kept \in Reasons,
             run' = [run EXCEPT ![c] = ReturnOf(run[c], code, box, kept)],
             run[c].at \in {"prepare", "wait"},
             box = "running" => MayRunOn([kept |-> kept, code |-> code]),
         code = "zero" => box = "zero"
      PROVE  Goal
  <2>1. /\ ReturnOf(run[c], code, box, kept) \in RunTypes
        /\ RunShape(ReturnOf(run[c], code, box, kept), "invoke")
    BY <1>0, <1>6, ReturnShape
  <2> QED
    BY <1>1, <1>6, <2>1
<1>7. /\ run[c].box \in Boxes /\ run[c].kept \in Reasons
      /\ \A code : Returned(c, code) = ReturnOf(run[c], code, run[c].box, run[c].kept)
  BY <1>0 DEF RunTypes, Boxes, Reasons, ReturnOf, Returned
<1>8. /\ \A e \in RunnerErrors : GrpcCode(e) \in Codes /\ GrpcCode(e) # "zero"
      /\ \A e \in {"Io", "Docker"} : e \in RunnerErrors /\ GrpcCode(e) \in {"Unavailable", "Internal"}
      /\ \A e \in {"Timeout", "OutputLimitExceeded", "Io"} : e \in RunnerErrors
            /\ GrpcCode(e) \in {"DeadlineExceeded", "ResourceExhausted", "Internal"}
  BY CodesOfErrors DEF ErrorCodes, Codes, GrpcCode, RunnerErrors
<1>9. CASE Refuse(c) \/ CollectFails(c)
  <2>1. PICK e \in RunnerErrors : run' = [run EXCEPT ![c] = Returned(c, GrpcCode(e))]
    BY <1>9 DEF Refuse, CollectFails, RunnerErrors
  <2>2. run[c].at \in {"prepare", "wait"} /\ run[c].box # "running"
    BY <1>0, <1>9 DEF Refuse, CollectFails, RunShape
  <2>3. run' = [run EXCEPT ![c] = ReturnOf(run[c], GrpcCode(e), run[c].box, run[c].kept)]
    BY <1>7, <2>1
  <2>4. PICK box \in Boxes, kept \in Reasons : box = run[c].box /\ kept = run[c].kept
    BY <1>7
  <2> QED
    BY <1>6, <1>8, <2>2, <2>3, <2>4 DEF Goal
<1>10. CASE Collect(c)
  <2>1. /\ run' = [run EXCEPT ![c] = Returned(c, run[c].box)] /\ run[c].at = "wait"
        /\ run[c].box \in {"zero", "other"}
    BY <1>10 DEF Collect
  <2>2. PICK box \in Boxes, kept \in Reasons : box = run[c].box /\ kept = run[c].kept
    BY <1>7
  <2>3. run' = [run EXCEPT ![c] = ReturnOf(run[c], box, box, kept)]
    BY <1>7, <2>1, <2>2
  <2>4. box \in Codes /\ box # "running"
    BY <2>1, <2>2 DEF Codes
  <2>5. /\ ReturnOf(run[c], box, box, kept) \in RunTypes
        /\ RunShape(ReturnOf(run[c], box, box, kept), "invoke")
    <3>1. run[c] \in RunTypes /\ RunShape(run[c], "invoke") /\ run[c].at \in {"prepare", "wait"}
      BY <1>0, <2>1
    <3> QED
      BY <2>4, <3>1, ReturnShape
  <2> QED
    BY <1>1, <2>3, <2>5
<1>11. ASSUME NEW error \in {"Timeout", "OutputLimitExceeded", "Io"}, Limit(c, error)
       PROVE  Goal
  <2>1. PICK removed \in BOOLEAN :
          run' = [run EXCEPT ![c] = [Terminate(c, removed) EXCEPT
                                       !.at = "finish", !.code = GrpcCode(error)]]
    BY <1>11 DEF Limit
  <2>2. PICK box \in Boxes :
          box = IF removed /\ run[c].box = "running" THEN "removed" ELSE run[c].box
    BY <1>7 DEF Boxes
  <2>3. PICK kept \in Reasons :
          kept = IF ~removed /\ run[c].box = "running" THEN "rm" ELSE run[c].kept
    BY <1>7 DEF Reasons
  <2>4. [Terminate(c, removed) EXCEPT !.at = "finish", !.code = GrpcCode(error)] =
          ReturnOf(run[c], GrpcCode(error), box, kept)
    <3>1. CASE run[c].box # "running"
      BY <1>0, <2>2, <2>3, <3>1 DEF Terminate, RunTypes, ReturnOf
    <3>2. CASE run[c].box = "running" /\ removed
      BY <1>0, <2>2, <2>3, <3>2 DEF Terminate, RunTypes, ReturnOf
    <3>3. CASE run[c].box = "running" /\ ~removed
      BY <1>0, <2>2, <2>3, <3>3 DEF Terminate, RunTypes, ReturnOf
    <3> QED
      BY <3>1, <3>2, <3>3
  <2>5. run' = [run EXCEPT ![c] = ReturnOf(run[c], GrpcCode(error), box, kept)]
    BY <2>1, <2>4
  <2>6. box = "running" => MayRunOn([kept |-> kept, code |-> GrpcCode(error)])
    BY <1>8, <2>2, <2>3 DEF MayRunOn
  <2>7. run[c].at \in {"prepare", "wait"}
    BY <1>11 DEF Limit
  <2>8. GrpcCode(error) \in Codes /\ GrpcCode(error) # "zero"
    BY <1>8
  <2> QED
    BY <1>6, <2>5, <2>6, <2>7, <2>8
<1>12. CASE TimeLimit(c) \/ OutputLimit(c) \/ ReadFails(c)
  <2>1. CASE TimeLimit(c)
    BY <1>11, <2>1 DEF TimeLimit, Goal
  <2>2. CASE OutputLimit(c)
    BY <1>11, <2>2 DEF OutputLimit, Goal
  <2>3. CASE ReadFails(c)
    BY <1>11, <2>3 DEF ReadFails, Goal
  <2> QED
    BY <1>12, <2>1, <2>2, <2>3
<1>14. CASE ClientFails(c)
  <2>1. PICK e \in {"Io", "Docker"} :
          run' = [run EXCEPT ![c] = [Returned(c, GrpcCode(e)) EXCEPT !.kept = "cli"]]
    BY <1>14 DEF ClientFails
  <2>2. PICK box \in Boxes, kept \in Reasons : box = run[c].box /\ kept = "cli"
    BY <1>7 DEF Reasons
  <2>3. PICK code \in Codes : code = GrpcCode(e)
    BY <1>8
  <2>4. [Returned(c, GrpcCode(e)) EXCEPT !.kept = "cli"] = ReturnOf(run[c], code, box, kept)
    BY <1>0, <2>2, <2>3 DEF Returned, ReturnOf, RunTypes
  <2>5. run' = [run EXCEPT ![c] = ReturnOf(run[c], code, box, kept)]
    BY <2>1, <2>4
  <2>6. MayRunOn([kept |-> kept, code |-> code]) /\ code # "zero"
    BY <1>8, <2>2, <2>3 DEF MayRunOn
  <2>7. run[c].at \in {"prepare", "wait"}
    BY <1>14 DEF ClientFails
  <2> QED
    BY <1>6, <2>5, <2>6, <2>7 DEF Goal
<1>13. CASE Finish(c)
  <2>1. PICK recorded \in BOOLEAN :
          run' = [run EXCEPT ![c].at = "done",
                             ![c].row = IF recorded THEN FinishedRow(c) ELSE @,
                             ![c].lost = ~recorded,
                             ![c].answer = Response(run[c].code)]
    BY <1>13 DEF Finish
  <2> DEFINE row == IF recorded THEN RowStatus(run[c].code) ELSE run[c].row
             s == [run[c] EXCEPT !.at = "done", !.row = row, !.lost = ~recorded,
                                 !.answer = Response(run[c].code)]
  <2>2. run' = [run EXCEPT ![c] = s] /\ run[c].at = "finish"
    BY <1>0, <1>13, <2>1 DEF Finish, FinishedRow
  <2>3. /\ s.at = "done" /\ s.version = run[c].version /\ s.row = row /\ s.code = run[c].code
        /\ s.box = run[c].box /\ s.lost = ~recorded /\ s.kept = run[c].kept
        /\ s.answer = Response(run[c].code)
    BY <1>0 DEF RunTypes
  <2>4. row \in {"absent", "running", "succeeded", "failed", "timed_out"}
    BY <1>0, AnswersFit DEF RunTypes
  <2>5. s \in RunTypes
    <3>1. Response(run[c].code) \in {"zero", "other", "execution_timeout",
              "output_limit_exceeded", "worker_unavailable", "artifact_unavailable",
              "execution_failed"}
      BY <1>0, AnswersFit
    <3>2. PICK y \in {"zero", "other", "execution_timeout", "output_limit_exceeded",
                      "worker_unavailable", "artifact_unavailable", "execution_failed"} :
            y = Response(run[c].code)
      BY <3>1
    <3>3. PICK x \in {"absent", "running", "succeeded", "failed", "timed_out"} : x = row
      BY <2>4
    <3>4. PICK a \in BOOLEAN : a = ~recorded
      OBVIOUS
    <3>5. [run[c] EXCEPT !.at = "done", !.row = x, !.lost = a, !.answer = y] \in RunTypes
      <4>1. [run[c] EXCEPT !.at = "done", !.row = x] \in RunTypes
        BY <1>0 DEF RunTypes
      <4>2. \A r \in RunTypes : [r EXCEPT !.lost = a] \in RunTypes
        BY DEF RunTypes
      <4>3. \A r \in RunTypes : [r EXCEPT !.answer = y] \in RunTypes
        BY DEF RunTypes
      <4>4. [run[c] EXCEPT !.at = "done", !.row = x, !.lost = a, !.answer = y] =
              [[[run[c] EXCEPT !.at = "done", !.row = x] EXCEPT !.lost = a] EXCEPT !.answer = y]
        BY <1>0 DEF RunTypes
      <4> QED
        BY <4>1, <4>2, <4>3, <4>4
    <3> HIDE DEF row
    <3> QED
      BY <3>2, <3>3, <3>4, <3>5
  <2>6. recorded => row = RowStatus(run[c].code)
    OBVIOUS
  <2>7. ~recorded => row = "running"
    BY <1>0, <2>2 DEF RunShape
  <2> HIDE DEF s, row
  <2>8. RunShape(s, "invoke")
    BY <1>0, <2>2, <2>3, <2>6, <2>7 DEF RunShape, MayRunOn
  <2> QED
    BY <1>1, <2>2, <2>5, <2>8
<1> QED
  BY <1>2, <1>3, <1>4, <1>5, <1>9, <1>10, <1>12, <1>13, <1>14
     DEF InvocationStep, WaitBreaks, Goal

\* What a step does to the requests and their invocations.
Enters(c, state) ==
  /\ request[c] = "new" /\ run' = run
  /\ request' = [request EXCEPT ![c] = state]

BeginsInvocation(c) ==
  /\ request[c] = "new"
  /\ \E t \in Tools, r \in {0} \cup Revisions : BeginInvocation(c, t, r)
  /\ request' = [request EXCEPT ![c] = "invoke"]

Leaves(c) ==
  /\ \/ request[c] = "register" /\ run' = run
     \/ request[c] = "invoke" /\ EndCall(c)
  /\ request' = [request EXCEPT ![c] = "closed"]

AllLeave ==
  /\ request' = [c \in Requests |-> IF request[c] = "new" THEN "new" ELSE "closed"]
  /\ run' = [c \in Requests |-> IF request[c] = "invoke" THEN Left(c) ELSE run[c]]

RunView ==
  \/ \E c \in Requests :
       \/ Enters(c, "register")
       \/ Enters(c, "closed")
       \/ BeginsInvocation(c)
       \/ Leaves(c)
       \/ request[c] = "invoke" /\ InvocationStep(c) /\ UNCHANGED request
       \/ (ContainerExits(c) \/ WaitBreaks(c)) /\ UNCHANGED request
  \/ WorkerStops /\ UNCHANGED request
  \/ AllLeave
  \/ UNCHANGED <<run, request>>

LEMMA EnterRun ==
  ASSUME NEW c \in Requests, request[c] = "new", NEW ask \in Asks[c], Enter(c, ask)
  PROVE  Enters(c, "register") \/ Enters(c, "closed") \/ BeginsInvocation(c)
<1>0. ask \in Ask
  BY ServerAssumption
<1>1. CASE ask.kind = "register"
  BY <1>1 DEF Enter, Enters
<1>2. CASE ask.kind = "invoke"
  <2>1. ask.tool \in Tools /\ ask.revision \in {0} \cup Revisions
    BY <1>0, <1>2 DEF Ask
  <2>2. /\ BeginInvocation(c, ask.tool, ask.revision)
        /\ request' = [request EXCEPT ![c] = "invoke"]
    BY <1>2 DEF Enter
  <2> QED
    BY <2>1, <2>2 DEF BeginsInvocation
<1>3. CASE ask.kind = "revoke"
  BY <1>3 DEF Enter, Enters, Close
<1>4. CASE ask.kind = "read"
  BY <1>4 DEF Enter, Enters, Close
<1> QED
  BY <1>0, <1>1, <1>2, <1>3, <1>4 DEF Ask

LEMMA RunSteps == [Next]_vars => RunView
<1> SUFFICES ASSUME [Next]_vars PROVE RunView
  OBVIOUS
<1> USE DEF RunView
<1>1. ASSUME Visit PROVE RunView
  BY <1>1 DEF Visit, handlerVars
<1>2. ASSUME WorkerRestarts PROVE RunView
  BY <1>2 DEF WorkerRestarts
<1>3. ASSUME ServerRestarts PROVE RunView
  BY <1>3 DEF ServerRestarts, AllLeave
<1>4. ASSUME NEW v \in Versions, Publish(v) PROVE RunView
  BY <1>4 DEF Publish
<1>5. ASSUME NEW c \in Requests, ArriveWithToken(c) PROVE RunView
  BY <1>5, EnterRun DEF ArriveWithToken
<1>6. ASSUME NEW c \in Requests, NEW s \in Sessions, ArriveWithSession(c, s) PROVE RunView
  <2>1. PICK ask \in Asks[c] :
          Enter(c, ask) \/ (Close(c) /\ UNCHANGED <<tx, registryVars, run>>)
    BY <1>6 DEF ArriveWithSession
  <2>2. request[c] = "new"
    BY <1>6 DEF ArriveWithSession
  <2>3. CASE Enter(c, ask)
    BY <2>2, <2>3, EnterRun
  <2>4. CASE Close(c) /\ UNCHANGED <<tx, registryVars, run>>
    BY <2>2, <2>4 DEF Close, Enters
  <2> QED
    BY <2>1, <2>3, <2>4
<1>7. ASSUME NEW c \in Requests, NEW s \in Sessions, Unauthorized(c, s) PROVE RunView
  BY <1>7 DEF Unauthorized, Close, Enters
<1>8. ASSUME NEW c \in Requests, Register(c) PROVE RunView
  BY <1>8 DEF Register
<1>9. ASSUME NEW c \in Requests, Invoke(c) PROVE RunView
  BY <1>9 DEF Invoke
<1>10. ASSUME NEW c \in Requests, Answer(c) PROVE RunView
  BY <1>10 DEF Answer, Close, Leaves
<1>11. ASSUME NEW c \in Requests, Program(c) PROVE RunView
  BY <1>11 DEF Program
<1>12. ASSUME NEW c \in Requests, ClientLeaves(c) PROVE RunView
  BY <1>12 DEF ClientLeaves, Close, Leaves
<1>13. CASE UNCHANGED vars
  BY <1>13 DEF vars
<1> QED
  BY <1>1, <1>2, <1>3, <1>4, <1>5, <1>6, <1>7, <1>8, <1>9, <1>10, <1>11, <1>12, <1>13
     DEF Next, Handle

\* A dropped or answered invocation: its row and a running container stay.
LEMMA LeftShape ==
  ASSUME NEW c \in Requests, run[c] \in RunTypes, RunShape(run[c], "invoke")
  PROVE  /\ Left(c) \in RunTypes
         /\ RunShape(Left(c), "closed")
         /\ Left(c).row = run[c].row
<1>2. PICK row \in {"absent", "running", "succeeded", "failed", "timed_out"} : row = run[c].row
  BY DEF RunTypes
<1>3. PICK runs \in BOOLEAN : runs = (run[c].box = "running")
  OBVIOUS
<1>4. PICK kept \in Reasons : kept = IF runs THEN "gone" ELSE "no"
  BY DEF Reasons
<1>5. PICK box \in Boxes : box = IF runs THEN "running" ELSE "none"
  BY DEF Boxes
<1> DEFINE s == [NoRun EXCEPT !.row = row, !.box = box, !.kept = kept]
<1>6. Left(c) = s
  BY <1>2, <1>3, <1>4, <1>5 DEF Left
<1>7. s.at = "idle" /\ s.row = row /\ s.box = box /\ s.kept = kept /\ s.code = None
  BY DEF NoRun
<1>8. s \in RunTypes
  <2>1. [NoRun EXCEPT !.row = row] \in RunTypes
    BY NoRunFits DEF RunTypes
  <2>2. \A r \in RunTypes : [r EXCEPT !.box = box] \in RunTypes
    BY DEF RunTypes, Boxes
  <2>3. \A r \in RunTypes : [r EXCEPT !.kept = kept] \in RunTypes
    BY DEF RunTypes, Reasons
  <2>4. s = [[[NoRun EXCEPT !.row = row] EXCEPT !.box = box] EXCEPT !.kept = kept]
    BY DEF NoRun
  <2> HIDE DEF s
  <2> QED
    BY <2>1, <2>2, <2>3, <2>4
<1> HIDE DEF s
<1>9. RunShape(s, "closed")
  BY <1>3, <1>4, <1>5, <1>7 DEF RunShape, MayRunOn
<1> QED
  BY <1>2, <1>6, <1>7, <1>8, <1>9

LEMMA StepRunInv == RunInv /\ RunView => RunInv'
<1> SUFFICES ASSUME RunInv, RunView PROVE RunInv'
  OBVIOUS
<1>0. /\ run \in [Requests -> RunTypes] /\ request \in [Requests -> RequestStates]
      /\ \A c \in Requests : RunShape(run[c], request[c])
  BY DEF RunInv, RunTypesOK
\* One request's step: its new invocation s and state q fit each other.
<1>1. ASSUME NEW c \in Requests, NEW s \in RunTypes, NEW q \in RequestStates,
             run' = [run EXCEPT ![c] = s], request' = [request EXCEPT ![c] = q],
             RunShape(s, q)
      PROVE  RunInv'
  <2>1. run' \in [Requests -> RunTypes] /\ request' \in [Requests -> RequestStates]
    BY <1>0, <1>1
  <2>2. ASSUME NEW d \in Requests PROVE RunShape(run'[d], request'[d])
    <3>1. CASE d = c
      BY <1>0, <1>1, <3>1
    <3>2. CASE d # c
      BY <1>0, <1>1, <3>2
    <3> QED
      BY <3>1, <3>2
  <2> QED
    BY <2>1, <2>2 DEF RunInv, RunTypesOK
<1>2. ASSUME NEW c \in Requests PROVE /\ run = [run EXCEPT ![c] = run[c]]
                                      /\ request = [request EXCEPT ![c] = request[c]]
                                      /\ run[c] \in RunTypes /\ request[c] \in RequestStates
  BY <1>0
<1>3. ASSUME NEW c \in Requests, Enters(c, "register") \/ Enters(c, "closed") PROVE RunInv'
  <2>1. PICK q \in {"register", "closed"} : Enters(c, q)
    BY <1>3
  <2>2. run[c] = NoRun /\ RunShape(run[c], q)
    <3>1. run[c] = NoRun
      BY <1>0, <2>1 DEF Enters, RunShape
    <3>2. RunShape(NoRun, q)
      BY DEF RunShape, NoRun
    <3> QED
      BY <3>1, <3>2
  <2>3. run' = [run EXCEPT ![c] = NoRun] /\ request' = [request EXCEPT ![c] = q]
    BY <1>2, <2>1, <2>2 DEF Enters
  <2>4. q \in RequestStates
    BY DEF RequestStates
  <2> QED
    BY <1>1, <2>2, <2>3, <2>4, NoRunFits
<1>4. ASSUME NEW c \in Requests, BeginsInvocation(c) PROVE RunInv'
  <2>1. PICK t \in Tools, r \in {0} \cup Revisions : BeginInvocation(c, t, r)
    BY <1>4 DEF BeginsInvocation
  <2> DEFINE s == [NoRun EXCEPT !.at = "resolve", !.version = <<t, r>>]
  <2>2. /\ s.at = "resolve" /\ s.version = <<t, r>> /\ s.row = "absent" /\ s.box = "none"
        /\ s.lost = FALSE
    BY DEF NoRun
  <2>3. s \in RunTypes
    BY NoRunFits DEF RunTypes
  <2>4. RunShape(s, "invoke")
    <3> HIDE DEF s
    <3> QED
      BY <2>2 DEF RunShape
  <2>5. run' = [run EXCEPT ![c] = s] /\ request' = [request EXCEPT ![c] = "invoke"]
    BY <1>4, <2>1 DEF BeginInvocation, BeginsInvocation
  <2>6. "invoke" \in RequestStates
    BY DEF RequestStates
  <2> HIDE DEF s
  <2> QED
    BY <1>1, <2>3, <2>4, <2>5, <2>6
<1>5. ASSUME NEW c \in Requests, Leaves(c) PROVE RunInv'
  <2>0. "closed" \in RequestStates
    BY DEF RequestStates
  <2>1. CASE request[c] = "register" /\ run' = run
    <3>1. run[c] = NoRun
      BY <1>0, <2>1 DEF RunShape
    <3>2. RunShape(NoRun, "closed")
      BY DEF RunShape, NoRun
    <3>3. run' = [run EXCEPT ![c] = NoRun] /\ request' = [request EXCEPT ![c] = "closed"]
      BY <1>2, <1>5, <2>1, <3>1 DEF Leaves
    <3> QED
      BY <1>1, <2>0, <3>2, <3>3, NoRunFits
  <2>2. CASE request[c] = "invoke" /\ EndCall(c)
    <3>1. run[c] \in RunTypes /\ RunShape(run[c], "invoke")
      BY <1>0, <2>2
    <3>2. Left(c) \in RunTypes /\ RunShape(Left(c), "closed")
      BY <3>1, LeftShape
    <3>3. run' = [run EXCEPT ![c] = Left(c)] /\ request' = [request EXCEPT ![c] = "closed"]
      BY <1>5, <2>2 DEF Leaves, EndCall
    <3> QED
      BY <1>1, <2>0, <3>2, <3>3
  <2> QED
    BY <1>5, <2>1, <2>2 DEF Leaves
<1>6. ASSUME NEW c \in Requests, request[c] = "invoke", InvocationStep(c) \/ WaitBreaks(c),
             UNCHANGED request
      PROVE  RunInv'
  <2>1. PICK s \in RunTypes : run' = [run EXCEPT ![c] = s] /\ RunShape(s, "invoke")
    BY <1>6, InvocationKeepsShape
  <2>2. request' = [request EXCEPT ![c] = "invoke"] /\ "invoke" \in RequestStates
    BY <1>2, <1>6 DEF RequestStates
  <2> QED
    BY <1>1, <2>1, <2>2
<1>7. ASSUME NEW c \in Requests, WaitBreaks(c), UNCHANGED request PROVE RunInv'
  <2>1. run[c].at = "wait"
    BY <1>7 DEF WaitBreaks, OutputLimit, ReadFails, Limit, ClientFails
  <2>2. request[c] = "invoke"
    <3>1. RunShape(run[c], request[c]) /\ request[c] \in RequestStates
      BY <1>0
    <3>2. run[c] # NoRun
      BY <2>1 DEF NoRun
    <3> QED
      BY <2>1, <3>1, <3>2 DEF RunShape, RequestStates
  <2> QED
    BY <1>6, <1>7, <2>2
<1>8. ASSUME NEW c \in Requests, ContainerExits(c), UNCHANGED request PROVE RunInv'
  <2>1. PICK code \in {"zero", "other"} :
          run' = [run EXCEPT ![c].box = code, ![c].kept = "no"]
    BY <1>8 DEF ContainerExits
  <2> DEFINE s == [run[c] EXCEPT !.box = code, !.kept = "no"]
  <2>2. run' = [run EXCEPT ![c] = s] /\ request' = [request EXCEPT ![c] = request[c]]
    BY <1>2, <1>8, <2>1
  <2>3. /\ s.at = run[c].at /\ s.version = run[c].version /\ s.row = run[c].row
        /\ s.box = code /\ s.kept = "no" /\ s.code = run[c].code
        /\ s.lost = run[c].lost /\ s.answer = run[c].answer
    BY <1>2 DEF RunTypes
  <2>4. s \in RunTypes
    <3>1. [run[c] EXCEPT !.box = code] \in RunTypes
      BY <1>2, <2>1 DEF RunTypes
    <3>2. \A r \in RunTypes : [r EXCEPT !.kept = "no"] \in RunTypes
      BY DEF RunTypes
    <3>3. s = [[run[c] EXCEPT !.box = code] EXCEPT !.kept = "no"]
      BY <1>2 DEF RunTypes
    <3> QED
      BY <3>1, <3>2, <3>3
  <2>5. run[c].box = "running" /\ run[c] # NoRun
    BY <1>8 DEF ContainerExits, NoRun
  <2> HIDE DEF s
  <2>6. RunShape(s, request[c])
    <3>1. RunShape(run[c], request[c])
      BY <1>0
    <3> QED
      BY <2>1, <2>3, <2>5, <3>1 DEF RunShape
  <2>7. PICK q \in RequestStates : q = request[c]
    BY <1>2
  <2> QED
    BY <1>1, <2>2, <2>4, <2>6, <2>7
\* A step of all requests at once.
<1>9. ASSUME NEW f \in [Requests -> RunTypes], NEW g \in [Requests -> RequestStates],
             run' = f, request' = g, \A c \in Requests : RunShape(f[c], g[c])
      PROVE  RunInv'
  BY <1>9 DEF RunInv, RunTypesOK
<1>10. CASE WorkerStops /\ UNCHANGED request
  <2>1. run' = [c \in Requests |-> LoseWorker(c)]
    BY <1>10 DEF WorkerStops
  <2>2. ASSUME NEW c \in Requests
        PROVE  LoseWorker(c) \in RunTypes /\ RunShape(LoseWorker(c), request[c])
    <3>0. run[c] \in RunTypes /\ RunShape(run[c], request[c]) /\ request[c] \in RequestStates
      BY <1>0
    <3>1. CASE run[c].at \in {"prepare", "wait"}
      <4>1. request[c] = "invoke"
        <5>1. run[c] # NoRun
          BY <3>1 DEF NoRun
        <5> QED
          BY <3>0, <3>1, <5>1 DEF RunShape, RequestStates
      <4>2. PICK kept \in Reasons :
              kept = IF run[c].at = "wait" /\ run[c].box = "running" THEN "gone"
                     ELSE run[c].kept
        BY <3>0 DEF RunTypes, Reasons
      <4>3. PICK box \in Boxes : box = run[c].box
        BY <3>0 DEF RunTypes, Boxes
      <4>4. LoseWorker(c) = ReturnOf(run[c], "Unavailable", box, kept)
        BY <3>0, <3>1, <4>2, <4>3 DEF LoseWorker, ReturnOf, RunTypes
      <4>5. box = "running" => MayRunOn([kept |-> kept, code |-> "Unavailable"])
        BY <3>0, <3>1, <4>2, <4>3 DEF RunShape, MayRunOn
      <4>6. "Unavailable" \in Codes
        BY DEF Codes, ErrorCodes
      <4> QED
        BY <3>0, <3>1, <4>1, <4>4, <4>5, <4>6, ReturnShape
    <3>2. CASE run[c].at \notin {"prepare", "wait"}
      <4>1. LoseWorker(c) = run[c]
        BY <3>0, <3>2 DEF LoseWorker, RunTypes
      <4> QED
        BY <3>0, <4>1
    <3> QED
      BY <3>1, <3>2
  <2>3. run' \in [Requests -> RunTypes] /\ \A c \in Requests : RunShape(run'[c], request'[c])
    BY <1>10, <2>1, <2>2
  <2> QED
    BY <1>0, <1>10, <2>3 DEF RunInv, RunTypesOK
<1>11. CASE AllLeave
  <2>1. ASSUME NEW c \in Requests
        PROVE  run'[c] \in RunTypes /\ RunShape(run'[c], request'[c])
    <3>0. run[c] \in RunTypes /\ RunShape(run[c], request[c]) /\ request[c] \in RequestStates
      BY <1>0
    <3>1. CASE request[c] = "invoke"
      <4>1. run'[c] = Left(c) /\ request'[c] = "closed"
        BY <1>11, <3>1 DEF AllLeave
      <4> QED
        BY <3>0, <3>1, <4>1, LeftShape
    <3>2. CASE request[c] # "invoke"
      <4>1. run'[c] = run[c] /\ request'[c] = IF request[c] = "new" THEN "new" ELSE "closed"
        BY <1>11, <3>2 DEF AllLeave
      <4>2. CASE request[c] = "register"
        <5>1. run[c] = NoRun
          BY <3>0, <4>2 DEF RunShape
        <5>2. RunShape(NoRun, "closed")
          BY DEF RunShape, NoRun
        <5> QED
          BY <3>0, <4>1, <4>2, <5>1, <5>2
      <4>3. CASE request[c] # "register"
        BY <3>0, <3>2, <4>1, <4>3 DEF RequestStates
      <4> QED
        BY <4>2, <4>3
    <3> QED
      BY <3>1, <3>2
  <2>2. run' \in [Requests -> RunTypes]
    <3>1. run' = [c \in Requests |-> IF request[c] = "invoke" THEN Left(c) ELSE run[c]]
      BY <1>11 DEF AllLeave
    <3>2. \A c \in Requests : (IF request[c] = "invoke" THEN Left(c) ELSE run[c]) \in RunTypes
      BY <2>1, <3>1
    <3> QED
      BY <3>1, <3>2
  <2>3. request' \in [Requests -> RequestStates]
    BY <1>11 DEF AllLeave, RequestStates
  <2> QED
    BY <2>1, <2>2, <2>3 DEF RunInv, RunTypesOK
<1>12. CASE UNCHANGED <<run, request>>
  BY <1>0, <1>12 DEF RunInv, RunTypesOK
<1> QED
  BY <1>3, <1>4, <1>5, <1>6, <1>7, <1>8, <1>10, <1>11, <1>12 DEF RunView

LEMMA RunInvariant == Spec => []RunInv
<1>1. RunInv /\ [Next]_vars => RunInv'
  BY RunSteps, StepRunInv
<1> QED
  BY <1>1, InitRunInv, PTL DEF Spec

\* A container runs on after its call returned only if docker rm failed after a
\* limit or an error of reading, the docker CLI failed under the runner, or the
\* worker or the request that waited for it is gone (execute_inner, terminate).
THEOREM ContainersEnd == Spec => []NothingOutlivesItsAnswer
<1>1. RunInv => NothingOutlivesItsAnswer
  BY DEF RunInv, RunShape, NothingOutlivesItsAnswer
<1> QED
  BY <1>1, RunInvariant, PTL

\* The row of an answered invocation says what the client was told, unless the
\* write was lost; "succeeded" is said of programs that exited with zero only
\* (invoke_tool, finish_invocation).
THEOREM RowsAreTrue == Spec => []RowsTellTheAnswer
<1>1. RunInv => RowsTellTheAnswer
  <2> SUFFICES ASSUME RunInv, NEW c \in Requests
      PROVE
    /\ run[c].row = "succeeded" /\ run[c].at = "done" => run[c].box = "zero"
    /\ run[c].at = "done" /\ run[c].row # "absent" =>
         IF run[c].lost THEN run[c].row = "running"
         ELSE run[c].row = CASE run[c].answer = "zero" -> "succeeded"
                             [] run[c].answer = "execution_timeout" -> "timed_out"
                             [] OTHER -> "failed"
    /\ run[c].at = "idle" /\ run[c].row = "running" => request[c] = "closed"
    BY DEF RowsTellTheAnswer
  <2>1. run[c] \in RunTypes /\ RunShape(run[c], request[c]) /\ request[c] \in RequestStates
    BY DEF RunInv, RunTypesOK
  <2>2. RowStatus(run[c].code) = CASE Response(run[c].code) = "zero" -> "succeeded"
                             [] Response(run[c].code) = "execution_timeout" -> "timed_out"
                             [] OTHER -> "failed"
    BY <2>1 DEF RowStatus, Response, RunTypes
  <2>3. run[c].row = "succeeded" /\ run[c].at = "done" => run[c].box = "zero"
    BY <2>1, AnswersFit DEF RunShape
  <2>4. run[c].at = "idle" /\ run[c].row = "running" => request[c] = "closed"
    BY <2>1 DEF RunShape, RequestStates, NoRun
  <2>5. run[c].at = "done" /\ run[c].row # "absent" =>
          IF run[c].lost THEN run[c].row = "running"
          ELSE run[c].row = RowStatus(run[c].code) /\ run[c].answer = Response(run[c].code)
    BY <2>1 DEF RunShape
  <2> QED
    BY <2>2, <2>3, <2>4, <2>5
<1> QED
  BY <1>1, RunInvariant, PTL

-----------------------------------------------------------------------------
(* Registrations.                                                          *)

\* The newest of a set of revisions exists (NextStable).
LEMMA MaxOfBounded ==
  ASSUME NEW N \in Nat, NEW S \in SUBSET (0..N), S # {}
  PROVE  Max(S) \in S /\ \A y \in S : Max(S) >= y
<1> DEFINE D == {d \in Nat : \E x \in S : d = N - x}
<1>1. \A x \in S : N - x \in D
  OBVIOUS
<1>2. PICK d \in D : \A e \in D : d <= e
  <2>1. D \in SUBSET Nat /\ D # {}
    BY <1>1
  <2> DEFINE R == OpToRel(<, Nat)
  <2>2. \A x, y \in Nat : x < y => <<x, y>> \in R
    BY DEF OpToRel
  <2>3. IsWellFoundedOn(R, Nat)
    BY NatLessThanWellFounded
  <2> HIDE DEF D, R
  <2>4. PICK d \in D : \A e \in D : ~(<<e, d>> \in R)
    BY <2>1, <2>3, WFMin
  <2>5. ASSUME NEW e \in D PROVE d <= e
    <3>1. d \in Nat /\ e \in Nat
      BY <2>1
    <3>2. ~(e < d)
      BY <2>2, <2>4, <3>1
    <3> QED
      BY <3>1, <3>2
  <2> QED
    BY <2>5
<1>3. PICK m \in S : d = N - m
  BY <1>2
<1>4. \A y \in S : m >= y
  <2> TAKE y \in S
  <2>1. d <= N - y
    BY <1>1, <1>2
  <2> QED
    BY <2>1, <1>3
<1> QED
  BY <1>4 DEF Max

\* What a step does to the registry and the transactions of the registrations.
BeginsRegistration(c) ==
  \E k \in Keys, t \in Tools, b \in Bodies : BeginRegistration(c, k, t, b)

Publishes(v) ==
  /\ version[v] = "draft"
  /\ version' = [version EXCEPT ![v] = "ready"]
  /\ stable' = [stable EXCEPT ![v[1]] = v[2]]
  /\ UNCHANGED <<jobs, latest>>

EndTransactions ==
  tx' = [c \in Requests |-> IF request[c] = "register" THEN NoTx ELSE tx[c]]

RegistryView ==
  \/ \E c \in Requests :
       \/ BeginsRegistration(c)
       \/ RegistrationStep(c)
       \/ EndTransaction(c) /\ UNCHANGED registryVars
  \/ \E v \in Versions : (RevokeVersion(v) \/ Publishes(v)) /\ UNCHANGED tx
  \/ EndTransactions /\ UNCHANGED registryVars
  \/ UNCHANGED <<tx, registryVars>>

LEMMA EnterRegistry ==
  ASSUME NEW c \in Requests, NEW ask \in Asks[c], Enter(c, ask)
  PROVE  RegistryView
<1>0. ask \in Ask
  BY ServerAssumption
<1>1. CASE ask.kind = "register"
  <2>1. ask.key \in Keys /\ ask.tool \in Tools /\ ask.body \in Bodies
    BY <1>0, <1>1 DEF Ask
  <2>2. BeginRegistration(c, ask.key, ask.tool, ask.body)
    BY <1>1 DEF Enter
  <2> QED
    BY <2>1, <2>2 DEF RegistryView, BeginsRegistration
<1>2. CASE ask.kind = "invoke"
  BY <1>2 DEF Enter, BeginInvocation, RegistryView
<1>3. CASE ask.kind = "revoke"
  <2>1. ask.tool \in Tools /\ ask.revision \in Revisions
    BY <1>0, <1>3 DEF Ask
  <2>2. <<ask.tool, ask.revision>> \in Versions
    BY <2>1 DEF Versions
  <2>3. RevokeVersion(<<ask.tool, ask.revision>>) /\ UNCHANGED tx
    BY <1>3 DEF Enter
  <2> QED
    BY <2>2, <2>3 DEF RegistryView
<1>4. CASE ask.kind = "read"
  BY <1>4 DEF Enter, RegistryView
<1> QED
  BY <1>0, <1>1, <1>2, <1>3, <1>4 DEF Ask

LEMMA InvocationLeavesRegistry ==
  ASSUME NEW c \in Requests, InvocationStep(c)
  PROVE  UNCHANGED registryVars
  BY DEF InvocationStep, Resolve, NotStarted, Start, Refuse, StartContainer, Collect,
         CollectFails, TimeLimit, Limit, Finish

LEMMA RegistrySteps == [Next]_vars => RegistryView
<1> SUFFICES ASSUME [Next]_vars PROVE RegistryView
  OBVIOUS
<1>1. ASSUME Visit PROVE RegistryView
  BY <1>1 DEF Visit, handlerVars, registryVars, RegistryView
<1>2. ASSUME WorkerRestarts PROVE RegistryView
  BY <1>2 DEF WorkerRestarts, WorkerStops, RegistryView
<1>3. ASSUME ServerRestarts PROVE RegistryView
  BY <1>3 DEF ServerRestarts, EndTransactions, RegistryView
<1>4. ASSUME NEW v \in Versions, Publish(v) PROVE RegistryView
  BY <1>4 DEF Publish, Publishes, RegistryView
<1>5. ASSUME NEW c \in Requests, ArriveWithToken(c) PROVE RegistryView
  BY <1>5, EnterRegistry DEF ArriveWithToken
<1>6. ASSUME NEW c \in Requests, NEW s \in Sessions, ArriveWithSession(c, s) PROVE RegistryView
  <2>1. PICK ask \in Asks[c] :
          Enter(c, ask) \/ (Close(c) /\ UNCHANGED <<tx, registryVars, run>>)
    BY <1>6 DEF ArriveWithSession
  <2>2. CASE Enter(c, ask)
    BY <2>2, EnterRegistry
  <2>3. CASE Close(c) /\ UNCHANGED <<tx, registryVars, run>>
    BY <2>3 DEF RegistryView
  <2> QED
    BY <2>1, <2>2, <2>3
<1>7. ASSUME NEW c \in Requests, NEW s \in Sessions, Unauthorized(c, s) PROVE RegistryView
  BY <1>7 DEF Unauthorized, RegistryView
<1>8. ASSUME NEW c \in Requests, Register(c) PROVE RegistryView
  BY <1>8 DEF Register, RegistryView
<1>9. ASSUME NEW c \in Requests, Invoke(c) PROVE RegistryView
  BY <1>9, InvocationLeavesRegistry DEF Invoke, RegistryView
<1>10. ASSUME NEW c \in Requests, Answer(c) PROVE RegistryView
  BY <1>10 DEF Answer, RegistryView
<1>11. ASSUME NEW c \in Requests, Program(c) PROVE RegistryView
  BY <1>11 DEF Program, ContainerExits, WaitBreaks, OutputLimit, ReadFails, Limit,
               ClientFails, RegistryView
<1>12. ASSUME NEW c \in Requests, ClientLeaves(c) PROVE RegistryView
  BY <1>12 DEF ClientLeaves, RegistryView
<1>13. CASE UNCHANGED vars
  BY <1>13 DEF vars, registryVars, RegistryView
<1> QED
  BY <1>1, <1>2, <1>3, <1>4, <1>5, <1>6, <1>7, <1>8, <1>9, <1>10, <1>11, <1>12, <1>13
     DEF Next, Handle

RegistryTypesOK ==
  /\ tx \in [Requests -> TxTypes]
  /\ jobs \in [Keys -> [fingerprint : Tools \X Bodies, version : Versions] \cup {None}]
  /\ latest \in [Tools -> 0..Cardinality(Keys)]
  /\ stable \in [Tools -> 0..Cardinality(Keys)]
  /\ version \in [Versions -> {"absent", "draft", "ready", "revoked"}]

HoldsKey(r) == r.at \in {"lookup", "name", "read", "write"}
HoldsName(r) == r.at \in {"read", "write"}

\* The advisory locks: no two transactions hold the same one.
Exclusive ==
  \A c, d \in Requests : c # d =>
    /\ HoldsKey(tx[c]) /\ HoldsKey(tx[d]) => tx[c].key # tx[d].key
    /\ HoldsName(tx[c]) /\ HoldsName(tx[d]) => tx[c].tool # tx[d].tool

\* What a transaction r has read is still so while it holds its locks, given the
\* rows jb of the keys and the latest revisions lt; and an answer is a row.
TxFits(r, jb, lt) ==
  /\ r.at # "idle" => r.key \in Keys /\ r.tool \in Tools /\ r.body \in Bodies
  /\ r.at \in {"name", "read", "write"} => jb[r.key] = None
  /\ r.at = "write" => r.revision = lt[r.tool] + 1
  /\ r.answer \in Versions =>
       /\ r.key \in Keys
       /\ jb[r.key] # None
       /\ jb[r.key].version = r.answer
       /\ jb[r.key].fingerprint = <<r.tool, r.body>>
  /\ r.answer # "internal"

\* The revisions of a tool have no gap, and each is the version of one key.
RowsFit(jb, lt, vs) ==
  /\ \A t \in Tools, r \in Revisions : vs[<<t, r>>] # "absent" <=> r <= lt[t]
  /\ \A t \in Tools, r \in Revisions :
       vs[<<t, r>>] # "absent" <=> \E k \in Keys : jb[k] # None /\ jb[k].version = <<t, r>>
  /\ \A k, l \in Keys : jb[k] # None /\ jb[l] # None /\ k # l => jb[k].version # jb[l].version

RegistryInv ==
  /\ RegistryTypesOK
  /\ Exclusive
  /\ \A c \in Requests : TxFits(tx[c], jobs, latest)
  /\ RowsFit(jobs, latest, version)

LEMMA KeysCount == Cardinality(Keys) \in Nat
  BY RegistrationAssumption, FS_CardinalityType

LEMMA NoTxFits == NoTx \in TxTypes /\ ~HoldsKey(NoTx) /\ ~HoldsName(NoTx)
<1>1. 0 \in 0..Cardinality(Keys) + 1
  BY KeysCount
<1>2. NoTx \in TxTypes
  BY <1>1 DEF NoTx, TxTypes
<1>3. ~HoldsKey(NoTx) /\ ~HoldsName(NoTx)
  BY DEF NoTx, HoldsKey, HoldsName
<1> QED
  BY <1>2, <1>3

LEMMA NoTxShape ==
  ASSUME NEW jb, NEW lt
  PROVE  TxFits(NoTx, jb, lt)
  BY RegistrationAssumption DEF TxFits, NoTx

LEMMA InitRegistryInv == Init => RegistryInv
<1> SUFFICES ASSUME Init PROVE RegistryInv
  OBVIOUS
<1> USE DEF Init, InitRegistration
<1>1. RegistryTypesOK
  BY NoTxFits, KeysCount DEF RegistryTypesOK
<1>2. \A c \in Requests : tx[c] = NoTx
  OBVIOUS
<1>3. Exclusive
  BY <1>2, NoTxFits DEF Exclusive
<1>4. \A c \in Requests : TxFits(tx[c], jobs, latest)
  BY <1>2, NoTxShape
<1>5. RowsFit(jobs, latest, version)
  BY KeysCount DEF RowsFit, Versions, Revisions
<1> QED
  BY <1>1, <1>3, <1>4, <1>5 DEF RegistryInv

\* A key without a row leaves room for one more revision of any tool.
LEMMA RoomForRevision ==
  ASSUME RegistryTypesOK, RowsFit(jobs, latest, version),
         NEW k \in Keys, jobs[k] = None, NEW t \in Tools
  PROVE  latest[t] + 1 \in Revisions
<1> DEFINE K == {l \in Keys : jobs[l] # None /\ jobs[l].version[1] = t}
           N == 1..latest[t]
           f == [l \in K |-> jobs[l].version[2]]
<1>0. latest[t] \in 0..Cardinality(Keys) /\ Cardinality(Keys) \in Nat
  BY KeysCount DEF RegistryTypesOK
<1>1. \A l \in K : jobs[l].version \in Versions
  BY DEF RegistryTypesOK
<1>2. \A l \in K : f[l] \in N
  <2> TAKE l \in K
  <2>1. PICK r \in Revisions : jobs[l].version = <<t, r>>
    BY <1>1 DEF Versions
  <2>2. r <= latest[t]
    BY <2>1 DEF RowsFit
  <2>3. f[l] = r
    BY <2>1
  <2> QED
    BY <1>0, <2>2, <2>3 DEF Revisions
<1>3. \A r \in N : \E l \in K : f[l] = r
  <2> TAKE r \in N
  <2>1. r \in Revisions /\ r <= latest[t]
    BY <1>0 DEF Revisions
  <2>2. PICK l \in Keys : jobs[l] # None /\ jobs[l].version = <<t, r>>
    BY <2>1 DEF RowsFit
  <2> QED
    BY <2>2
<1>4. f \in Surjection(K, N)
  BY <1>2, <1>3 DEF Surjection
<1>5. K \subseteq Keys \ {k}
  OBVIOUS
<1> HIDE DEF f, K, N
<1>6. IsFiniteSet(Keys \ {k}) /\ Cardinality(Keys \ {k}) = Cardinality(Keys) - 1
  BY RegistrationAssumption, FS_RemoveElement
<1>7. IsFiniteSet(K) /\ Cardinality(K) <= Cardinality(Keys \ {k})
  BY <1>5, <1>6, FS_Subset
<1>8. Cardinality(N) <= Cardinality(K)
  BY <1>4, <1>7, FS_Surjection
<1>9. Cardinality(N) = latest[t]
  BY <1>0, FS_Interval DEF N
<1>10. Cardinality(K) \in Nat /\ Cardinality(Keys \ {k}) \in Nat
  BY <1>6, <1>7, FS_CardinalityType
<1> QED
  BY <1>0, <1>6, <1>7, <1>8, <1>9, <1>10 DEF Revisions

\* A step of one transaction that leaves the rows alone: its new state s has to
\* agree with the rows, and whatever it locks has to be free.
LEMMA TransactionKeeps ==
  ASSUME RegistryInv, NEW c \in Requests, NEW s \in TxTypes,
         tx' = [tx EXCEPT ![c] = s], UNCHANGED registryVars,
         TxFits(s, jobs, latest),
         \A d \in Requests \ {c} :
           /\ HoldsKey(s) /\ HoldsKey(tx[d]) => tx[d].key # s.key
           /\ HoldsName(s) /\ HoldsName(tx[d]) => tx[d].tool # s.tool
  PROVE  RegistryInv'
<1>1. tx \in [Requests -> TxTypes]
  BY DEF RegistryInv, RegistryTypesOK
<1>2. tx' \in [Requests -> TxTypes] /\ tx'[c] = s /\ \A d \in Requests \ {c} : tx'[d] = tx[d]
  BY <1>1
<1>3. UNCHANGED <<jobs, latest, stable, version>>
  BY DEF registryVars
<1>4. RegistryTypesOK'
  BY <1>2, <1>3 DEF RegistryInv, RegistryTypesOK
<1>5. Exclusive'
  <2> SUFFICES ASSUME NEW a \in Requests, NEW b \in Requests, a # b
               PROVE  /\ HoldsKey(tx'[a]) /\ HoldsKey(tx'[b]) => tx'[a].key # tx'[b].key
                      /\ HoldsName(tx'[a]) /\ HoldsName(tx'[b]) => tx'[a].tool # tx'[b].tool
    BY DEF Exclusive, HoldsKey, HoldsName
  <2>1. CASE a = c
    BY <1>2, <2>1
  <2>2. CASE b = c
    BY <1>2, <2>2
  <2>3. CASE a # c /\ b # c
    BY <1>2, <2>3 DEF RegistryInv, Exclusive
  <2> QED
    BY <2>1, <2>2, <2>3
<1>6. \A d \in Requests : TxFits(tx'[d], jobs', latest')
  <2> TAKE d \in Requests
  <2>1. CASE d = c
    BY <1>2, <1>3, <2>1
  <2>2. CASE d # c
    BY <1>2, <1>3, <2>2 DEF RegistryInv
  <2> QED
    BY <2>1, <2>2
<1>7. RowsFit(jobs', latest', version')
  BY <1>3 DEF RegistryInv
<1> QED
  BY <1>4, <1>5, <1>6, <1>7 DEF RegistryInv

\* A lock that is free is held by no other transaction.
LEMMA FreeLocks ==
  ASSUME NEW d \in Requests, NEW k, NEW t
  PROVE  /\ Free(<<"key", k>>) /\ HoldsKey(tx[d]) => tx[d].key # k
         /\ Free(<<"name", t>>) /\ HoldsName(tx[d]) => tx[d].tool # t
<1>1. HoldsKey(tx[d]) => <<"key", tx[d].key>> \in Locks(d)
  BY DEF HoldsKey, Locks
<1>2. HoldsName(tx[d]) => <<"name", tx[d].tool>> \in Locks(d)
  BY DEF HoldsName, Locks
<1>3. Free(<<"key", k>>) => <<"key", k>> \notin Locks(d)
  BY DEF Free
<1>4. Free(<<"name", t>>) => <<"name", t>> \notin Locks(d)
  BY DEF Free
<1>5. Free(<<"key", k>>) /\ HoldsKey(tx[d]) => tx[d].key # k
  BY <1>1, <1>3
<1>6. Free(<<"name", t>>) /\ HoldsName(tx[d]) => tx[d].tool # t
  BY <1>2, <1>4
<1> QED
  BY <1>5, <1>6

LEMMA BeginKeeps ==
  ASSUME RegistryInv, NEW c \in Requests, BeginsRegistration(c)
  PROVE  RegistryInv'
<1>1. PICK k \in Keys, t \in Tools, b \in Bodies : BeginRegistration(c, k, t, b)
  BY DEF BeginsRegistration
<1> DEFINE s == [NoTx EXCEPT !.at = "key", !.key = k, !.tool = t, !.body = b]
<1>2. tx' = [tx EXCEPT ![c] = s] /\ UNCHANGED registryVars
  BY <1>1 DEF BeginRegistration
<1>3. s.at = "key" /\ s.key = k /\ s.tool = t /\ s.body = b /\ s.answer = None
  BY DEF NoTx
<1>4. s \in TxTypes
  BY NoTxFits DEF TxTypes
<1> HIDE DEF s
<1>5. TxFits(s, jobs, latest)
  BY <1>3, RegistrationAssumption DEF TxFits
<1>6. ~HoldsKey(s) /\ ~HoldsName(s)
  BY <1>3 DEF HoldsKey, HoldsName
<1> QED
  BY <1>2, <1>4, <1>5, <1>6, TransactionKeeps

\* The steps before the commit.
LEMMA MovesKeep ==
  ASSUME RegistryInv, NEW c \in Requests,
         LockKey(c) \/ LookUpKey(c) \/ LockName(c) \/ ReadLatest(c)
  PROVE  RegistryInv'
<1>0. /\ tx \in [Requests -> TxTypes] /\ tx[c] \in TxTypes /\ TxFits(tx[c], jobs, latest)
      /\ jobs \in [Keys -> [fingerprint : Tools \X Bodies, version : Versions] \cup {None}]
      /\ latest \in [Tools -> 0..Cardinality(Keys)] /\ UNCHANGED registryVars
  BY DEF RegistryInv, RegistryTypesOK, LockKey, LookUpKey, LockName, ReadLatest
<1>1. ASSUME NEW at \in {"lookup", "name", "read"}
      PROVE  LET s == [tx[c] EXCEPT !.at = at] IN
             /\ s \in TxTypes /\ s.at = at /\ s.key = tx[c].key /\ s.tool = tx[c].tool
             /\ s.body = tx[c].body /\ s.answer = tx[c].answer
  BY <1>0 DEF TxTypes
<1>2. CASE LockKey(c)
  <2> DEFINE s == [tx[c] EXCEPT !.at = "lookup"]
  <2>1. tx' = [tx EXCEPT ![c] = s] /\ tx[c].at = "key" /\ Free(<<"key", tx[c].key>>)
    BY <1>2 DEF LockKey, Moves
  <2>2. /\ s \in TxTypes /\ s.at = "lookup" /\ s.key = tx[c].key /\ s.tool = tx[c].tool
        /\ s.body = tx[c].body /\ s.answer = tx[c].answer
    BY <1>1
  <2> HIDE DEF s
  <2>3. TxFits(s, jobs, latest)
    BY <1>0, <2>1, <2>2 DEF TxFits
  <2>4. \A d \in Requests \ {c} : HoldsKey(tx[d]) => tx[d].key # s.key
    BY <2>1, <2>2, FreeLocks
  <2>5. ~HoldsName(s)
    BY <2>2 DEF HoldsName
  <2> QED
    BY <1>0, <2>1, <2>2, <2>3, <2>4, <2>5, TransactionKeeps
<1>3. CASE LookUpKey(c) /\ jobs[tx[c].key] = None
  <2> DEFINE s == [tx[c] EXCEPT !.at = "name"]
  <2>1. tx' = [tx EXCEPT ![c] = s] /\ tx[c].at = "lookup"
    BY <1>3 DEF LookUpKey, Moves
  <2>2. /\ s \in TxTypes /\ s.at = "name" /\ s.key = tx[c].key /\ s.tool = tx[c].tool
        /\ s.body = tx[c].body /\ s.answer = tx[c].answer
    BY <1>1
  <2> HIDE DEF s
  <2>3. TxFits(s, jobs, latest)
    BY <1>0, <1>3, <2>1, <2>2 DEF TxFits
  <2>4. \A d \in Requests \ {c} : HoldsKey(tx[d]) => tx[d].key # s.key
    BY <2>1, <2>2 DEF RegistryInv, Exclusive, HoldsKey
  <2>5. ~HoldsName(s)
    BY <2>2 DEF HoldsName
  <2> QED
    BY <1>0, <2>1, <2>2, <2>3, <2>4, <2>5, TransactionKeeps
<1>4. CASE LookUpKey(c) /\ jobs[tx[c].key] # None
  <2> DEFINE job == jobs[tx[c].key]
             a == IF SameRequest(c, job) THEN job.version ELSE "conflict"
             s == [tx[c] EXCEPT !.at = "done", !.answer = a]
  <2>1. tx' = [tx EXCEPT ![c] = s] /\ tx[c].at = "lookup"
    BY <1>4 DEF LookUpKey, AnswersWith
  <2>2. tx[c].key \in Keys /\ job \in [fingerprint : Tools \X Bodies, version : Versions]
    BY <1>0, <1>4, <2>1 DEF TxFits
  <2>3. a \in Versions \cup {None, "conflict", "internal"}
    BY <2>2
  <2>4. a \in Versions => job.version = a /\ job.fingerprint = <<tx[c].tool, tx[c].body>>
    BY RegistrationAssumption DEF SameRequest, Fingerprint
  <2>5. a # "internal"
    BY <2>2, RegistrationAssumption
  <2> HIDE DEF a, job
  <2>6. /\ s.at = "done" /\ s.key = tx[c].key /\ s.tool = tx[c].tool
        /\ s.body = tx[c].body /\ s.answer = a
    BY <1>0 DEF TxTypes
  <2>7. s \in TxTypes
    BY <1>0, <2>3 DEF TxTypes
  <2> HIDE DEF s
  <2>8. TxFits(s, jobs, latest)
    BY <1>0, <1>4, <2>1, <2>2, <2>4, <2>5, <2>6 DEF TxFits, job
  <2>9. ~HoldsKey(s) /\ ~HoldsName(s)
    BY <2>6 DEF HoldsKey, HoldsName
  <2> QED
    BY <1>0, <2>1, <2>7, <2>8, <2>9, TransactionKeeps
<1>5. CASE LockName(c)
  <2> DEFINE s == [tx[c] EXCEPT !.at = "read"]
  <2>1. tx' = [tx EXCEPT ![c] = s] /\ tx[c].at = "name" /\ Free(<<"name", tx[c].tool>>)
    BY <1>5 DEF LockName, Moves
  <2>2. /\ s \in TxTypes /\ s.at = "read" /\ s.key = tx[c].key /\ s.tool = tx[c].tool
        /\ s.body = tx[c].body /\ s.answer = tx[c].answer
    BY <1>1
  <2> HIDE DEF s
  <2>3. TxFits(s, jobs, latest)
    BY <1>0, <2>1, <2>2 DEF TxFits
  <2>4. \A d \in Requests \ {c} : HoldsKey(tx[d]) => tx[d].key # s.key
    BY <2>1, <2>2 DEF RegistryInv, Exclusive, HoldsKey
  <2>5. \A d \in Requests \ {c} : HoldsName(tx[d]) => tx[d].tool # s.tool
    BY <2>1, <2>2, FreeLocks
  <2> QED
    BY <1>0, <2>1, <2>2, <2>3, <2>4, <2>5, TransactionKeeps
<1>6. CASE ReadLatest(c)
  <2> DEFINE n == latest[tx[c].tool] + 1
             s == [tx[c] EXCEPT !.at = "write", !.revision = n]
  <2>1. tx' = [tx EXCEPT ![c] = s] /\ tx[c].at = "read"
    BY <1>6 DEF ReadLatest
  <2>2. n \in 0..Cardinality(Keys) + 1
    <3>1. tx[c].tool \in Tools
      BY <1>0, <2>1 DEF TxFits
    <3>2. latest[tx[c].tool] \in 0..Cardinality(Keys)
      BY <1>0, <3>1
    <3> QED
      BY <3>2, KeysCount
  <2> HIDE DEF n
  <2>3. /\ s.at = "write" /\ s.key = tx[c].key /\ s.tool = tx[c].tool
        /\ s.body = tx[c].body /\ s.answer = tx[c].answer /\ s.revision = n
    BY <1>0 DEF TxTypes
  <2>4. s \in TxTypes
    BY <1>0, <2>2 DEF TxTypes
  <2> HIDE DEF s
  <2>5. TxFits(s, jobs, latest)
    BY <1>0, <2>1, <2>3 DEF TxFits, n
  <2>6. \A d \in Requests \ {c} :
          /\ HoldsKey(tx[d]) => tx[d].key # s.key
          /\ HoldsName(tx[d]) => tx[d].tool # s.tool
    BY <2>1, <2>3 DEF RegistryInv, Exclusive, HoldsKey, HoldsName
  <2> QED
    BY <1>0, <2>1, <2>4, <2>5, <2>6, TransactionKeeps
<1> QED
  BY <1>2, <1>3, <1>4, <1>5, <1>6

\* A transaction that is about to write always can, and takes the next revision.
LEMMA WritesNext ==
  ASSUME RegistryInv, NEW c \in Requests, tx[c].at = "write"
  PROVE  /\ tx[c].key \in Keys /\ tx[c].tool \in Tools /\ tx[c].body \in Bodies
         /\ jobs[tx[c].key] = None
         /\ tx[c].revision = latest[tx[c].tool] + 1
         /\ tx[c].revision \in Revisions
         /\ version[<<tx[c].tool, tx[c].revision>>] = "absent"
         /\ Insertable(c)
<1>1. TxFits(tx[c], jobs, latest) /\ RegistryTypesOK /\ RowsFit(jobs, latest, version)
  BY DEF RegistryInv
<1>2. /\ tx[c].key \in Keys /\ tx[c].tool \in Tools /\ tx[c].body \in Bodies
      /\ jobs[tx[c].key] = None /\ tx[c].revision = latest[tx[c].tool] + 1
  BY <1>1 DEF TxFits
<1>3. tx[c].revision \in Revisions
  BY <1>1, <1>2, RoomForRevision
<1>4. latest[tx[c].tool] \in Nat
  BY <1>1, <1>2, KeysCount DEF RegistryTypesOK
<1>5. version[<<tx[c].tool, tx[c].revision>>] = "absent"
  BY <1>1, <1>2, <1>3, <1>4 DEF RowsFit
<1> QED
  BY <1>2, <1>3, <1>5 DEF Insertable

LEMMA CommitKeeps ==
  ASSUME RegistryInv, NEW c \in Requests, CommitRegistration(c)
  PROVE  RegistryInv'
<1> DEFINE k == tx[c].key
           t == tx[c].tool
           n == tx[c].revision
           v == <<t, n>>
           job == [fingerprint |-> Fingerprint(c), version |-> v]
           s == [tx[c] EXCEPT !.at = "done", !.answer = v]
<1>0. /\ tx \in [Requests -> TxTypes] /\ tx[c] \in TxTypes /\ RegistryTypesOK /\ Exclusive
      /\ RowsFit(jobs, latest, version) /\ \A d \in Requests : TxFits(tx[d], jobs, latest)
  BY DEF RegistryInv, RegistryTypesOK
<1>1. tx[c].at = "write"
  BY DEF CommitRegistration
<1>2. /\ k \in Keys /\ t \in Tools /\ tx[c].body \in Bodies /\ jobs[k] = None
      /\ n = latest[t] + 1 /\ n \in Revisions /\ version[v] = "absent" /\ Insertable(c)
  BY <1>1, WritesNext
<1>3. /\ latest' = [latest EXCEPT ![t] = n]
      /\ version' = [version EXCEPT ![v] = "draft"]
      /\ jobs' = [jobs EXCEPT ![k] = job]
      /\ tx' = [tx EXCEPT ![c] = s] /\ stable' = stable
  BY <1>2 DEF CommitRegistration, AnswersWith
<1>4. v \in Versions /\ v # None /\ v # "internal"
  BY <1>2, RegistrationAssumption DEF Versions
<1>5. /\ job \in [fingerprint : Tools \X Bodies, version : Versions]
      /\ job # None /\ job.version = v /\ job.fingerprint = <<t, tx[c].body>>
  BY <1>2, <1>4, RegistrationAssumption DEF Fingerprint
<1>6. /\ s.at = "done" /\ s.key = k /\ s.tool = t /\ s.body = tx[c].body /\ s.answer = v
  BY <1>0 DEF TxTypes
<1>7. s \in TxTypes
  <2> HIDE DEF v
  <2> QED
    BY <1>0, <1>4 DEF TxTypes
<1>8. n \in 0..Cardinality(Keys)
  BY <1>2, KeysCount DEF Revisions
<1>9. /\ jobs \in [Keys -> [fingerprint : Tools \X Bodies, version : Versions] \cup {None}]
      /\ latest \in [Tools -> 0..Cardinality(Keys)]
      /\ version \in [Versions -> {"absent", "draft", "ready", "revoked"}]
  BY <1>0 DEF RegistryTypesOK
<1> HIDE DEF s, job
<1>10. RegistryTypesOK'
  <2>1. tx' \in [Requests -> TxTypes]
    BY <1>0, <1>3, <1>7
  <2>2. jobs' \in [Keys -> [fingerprint : Tools \X Bodies, version : Versions] \cup {None}]
    BY <1>3, <1>5, <1>9
  <2>3. latest' \in [Tools -> 0..Cardinality(Keys)]
    BY <1>3, <1>8, <1>9
  <2>4. version' \in [Versions -> {"absent", "draft", "ready", "revoked"}]
    BY <1>3, <1>9
  <2> QED
    BY <1>0, <1>3, <2>1, <2>2, <2>3, <2>4 DEF RegistryTypesOK
<1>11. ASSUME NEW d \in Requests \ {c} PROVE tx'[d] = tx[d]
  BY <1>0, <1>3
<1>12. tx'[c] = s
  BY <1>0, <1>3
<1>13. Exclusive'
  <2> SUFFICES ASSUME NEW a \in Requests, NEW b \in Requests, a # b
               PROVE  /\ HoldsKey(tx'[a]) /\ HoldsKey(tx'[b]) => tx'[a].key # tx'[b].key
                      /\ HoldsName(tx'[a]) /\ HoldsName(tx'[b]) => tx'[a].tool # tx'[b].tool
    BY DEF Exclusive, HoldsKey, HoldsName
  <2>1. ~HoldsKey(s) /\ ~HoldsName(s)
    BY <1>6 DEF HoldsKey, HoldsName
  <2>2. CASE a = c \/ b = c
    BY <1>12, <2>1, <2>2
  <2>3. CASE a # c /\ b # c
    BY <1>0, <1>11, <2>3 DEF Exclusive
  <2> QED
    BY <2>2, <2>3
<1>14. jobs'[k] = job /\ \A l \in Keys \ {k} : jobs'[l] = jobs[l]
  BY <1>2, <1>3, <1>9
<1>15. latest'[t] = n /\ \A u \in Tools \ {t} : latest'[u] = latest[u]
  BY <1>2, <1>3, <1>9
<1>16. ASSUME NEW d \in Requests PROVE TxFits(tx'[d], jobs', latest')
  <2>1. CASE d = c
    <3>1. TxFits(s, jobs', latest')
      BY <1>2, <1>4, <1>5, <1>6, <1>14 DEF TxFits
    <3> QED
      BY <1>12, <2>1, <3>1
  <2>2. CASE d # c
    <3>1. tx'[d] = tx[d] /\ TxFits(tx[d], jobs, latest)
      BY <1>0, <1>11, <2>2
    <3>2. tx[d].at \in {"name", "read", "write"} => tx[d].key # k
      BY <1>0, <1>1, <2>2 DEF Exclusive, HoldsKey
    <3>3. tx[d].at = "write" => tx[d].tool # t
      BY <1>0, <1>1, <2>2 DEF Exclusive, HoldsName
    <3>4. tx[d].answer \in Versions => tx[d].key # k
      BY <1>2, <3>1 DEF TxFits
    <3>5. TxFits(tx[d], jobs', latest')
      BY <1>14, <1>15, <3>1, <3>2, <3>3, <3>4 DEF TxFits
    <3> QED
      BY <3>1, <3>5
  <2> QED
    BY <2>1, <2>2
<1>17. ASSUME NEW u \in Tools, NEW r \in Revisions
       PROVE  version'[<<u, r>>] = IF u = t /\ r = n THEN "draft" ELSE version[<<u, r>>]
  <2>1. <<u, r>> \in Versions
    BY DEF Versions
  <2>2. <<u, r>> = v <=> u = t /\ r = n
    OBVIOUS
  <2> HIDE DEF v
  <2> QED
    BY <1>3, <1>9, <2>1, <2>2
<1>18. latest[t] \in Nat /\ n = latest[t] + 1
  BY <1>2, <1>9, KeysCount
<1>19. ASSUME NEW u \in Tools, NEW r \in Revisions
       PROVE  version'[<<u, r>>] # "absent" <=> r <= latest'[u]
  <2>1. version[<<u, r>>] # "absent" <=> r <= latest[u]
    BY <1>0 DEF RowsFit
  <2>2. r \in Nat
    BY KeysCount DEF Revisions
  <2>3. CASE u # t
    BY <1>15, <1>17, <2>1, <2>3
  <2>4. CASE u = t
    BY <1>15, <1>17, <1>18, <2>1, <2>2, <2>4
  <2> QED
    BY <2>3, <2>4
<1>20. ASSUME NEW l \in Keys, jobs[l] # None PROVE l # k /\ jobs'[l] = jobs[l] /\ jobs[l].version # v
  <2>1. l # k
    BY <1>2, <1>20
  <2>2. jobs[l].version \in Versions
    BY <1>9, <1>20
  <2>3. jobs[l].version = v => version[v] # "absent"
    BY <1>0, <1>2, <1>20 DEF RowsFit
  <2> QED
    BY <1>2, <1>14, <2>1, <2>3
<1>21. ASSUME NEW u \in Tools, NEW r \in Revisions
       PROVE  version'[<<u, r>>] # "absent" <=>
                \E l \in Keys : jobs'[l] # None /\ jobs'[l].version = <<u, r>>
  <2>1. version[<<u, r>>] # "absent" <=>
          \E l \in Keys : jobs[l] # None /\ jobs[l].version = <<u, r>>
    BY <1>0 DEF RowsFit
  <2>2. CASE u = t /\ r = n
    BY <1>2, <1>5, <1>14, <1>17, <2>2
  <2>3. CASE ~(u = t /\ r = n)
    <3>1. <<u, r>> # v
      BY <2>3
    <3>2. \A l \in Keys : (jobs'[l] # None /\ jobs'[l].version = <<u, r>>) <=>
                          (jobs[l] # None /\ jobs[l].version = <<u, r>>)
      BY <1>2, <1>5, <1>14, <3>1
    <3> QED
      BY <1>17, <2>1, <2>3, <3>2
  <2> QED
    BY <2>2, <2>3
<1>22. ASSUME NEW l \in Keys, NEW m \in Keys, jobs'[l] # None, jobs'[m] # None, l # m
       PROVE  jobs'[l].version # jobs'[m].version
  <2>1. CASE l = k
    <3>1. m # k /\ jobs'[m] = jobs[m] /\ jobs[m].version # v
      BY <1>14, <1>20, <1>22, <2>1
    <3> QED
      BY <1>5, <1>14, <2>1, <3>1
  <2>2. CASE m = k
    <3>1. l # k /\ jobs'[l] = jobs[l] /\ jobs[l].version # v
      BY <1>14, <1>20, <1>22, <2>2
    <3> QED
      BY <1>5, <1>14, <2>2, <3>1
  <2>3. CASE l # k /\ m # k
    BY <1>0, <1>14, <1>22, <2>3 DEF RowsFit
  <2> QED
    BY <2>1, <2>2, <2>3
<1>23. RowsFit(jobs', latest', version')
  BY <1>19, <1>21, <1>22 DEF RowsFit
<1> QED
  BY <1>10, <1>13, <1>16, <1>23 DEF RegistryInv

\* Publishing and revoking touch versions that exist.
LEMMA VersionsKeep ==
  ASSUME RegistryInv, NEW v \in Versions, RevokeVersion(v) \/ Publishes(v), UNCHANGED tx
  PROVE  RegistryInv'
<1>0. /\ RegistryTypesOK /\ RowsFit(jobs, latest, version)
      /\ version \in [Versions -> {"absent", "draft", "ready", "revoked"}]
      /\ stable \in [Tools -> 0..Cardinality(Keys)]
  BY DEF RegistryInv, RegistryTypesOK
<1>1. v[1] \in Tools /\ v[2] \in Revisions /\ v[2] \in 0..Cardinality(Keys)
  BY KeysCount DEF Versions, Revisions
<1>2. NextStable(v[1], v[2]) \in 0..Cardinality(Keys)
  <2> DEFINE S == {0} \cup {x \in Revisions \ {v[2]} : version[<<v[1], x>>] = "ready"}
  <2>1. S \in SUBSET (0..Cardinality(Keys)) /\ S # {}
    BY KeysCount DEF Revisions
  <2>2. NextStable(v[1], v[2]) = IF stable[v[1]] # v[2] THEN stable[v[1]] ELSE Max(S)
    BY DEF NextStable
  <2> HIDE DEF S
  <2>3. Max(S) \in S
    BY <2>1, KeysCount, MaxOfBounded
  <2> QED
    BY <1>0, <1>1, <2>1, <2>2, <2>3
<1>3. /\ jobs' = jobs /\ latest' = latest /\ tx' = tx
      /\ version' \in [Versions -> {"absent", "draft", "ready", "revoked"}]
      /\ stable' \in [Tools -> 0..Cardinality(Keys)]
  <2>1. CASE RevokeVersion(v)
    BY <1>0, <1>1, <1>2, <2>1 DEF RevokeVersion
  <2>2. CASE Publishes(v)
    BY <1>0, <1>1, <2>2 DEF Publishes
  <2> QED
    BY <2>1, <2>2
<1>4. \A u \in Versions : version'[u] = "absent" <=> version[u] = "absent"
  BY <1>0 DEF RevokeVersion, Publishes, Ready
<1>5. RegistryTypesOK'
  BY <1>0, <1>3 DEF RegistryTypesOK
<1>6. RowsFit(jobs', latest', version')
  BY <1>0, <1>3, <1>4 DEF RowsFit, Versions
<1>7. Exclusive'
  BY <1>3 DEF RegistryInv, Exclusive, HoldsKey, HoldsName
<1>8. \A d \in Requests : TxFits(tx'[d], jobs', latest')
  BY <1>3 DEF RegistryInv
<1> QED
  BY <1>5, <1>6, <1>7, <1>8 DEF RegistryInv

\* Transactions that end let go of their locks and change nothing.
LEMMA EndsKeep ==
  ASSUME RegistryInv, tx' \in [Requests -> TxTypes], UNCHANGED registryVars,
         \A c \in Requests : tx'[c] = tx[c] \/ tx'[c] = NoTx
  PROVE  RegistryInv'
<1>1. jobs' = jobs /\ latest' = latest /\ stable' = stable /\ version' = version
  BY DEF registryVars
<1>2. RegistryTypesOK'
  BY <1>1 DEF RegistryInv, RegistryTypesOK
<1>3. Exclusive'
  <2> SUFFICES ASSUME NEW a \in Requests, NEW b \in Requests, a # b
               PROVE  /\ HoldsKey(tx'[a]) /\ HoldsKey(tx'[b]) => tx'[a].key # tx'[b].key
                      /\ HoldsName(tx'[a]) /\ HoldsName(tx'[b]) => tx'[a].tool # tx'[b].tool
    BY DEF Exclusive, HoldsKey, HoldsName
  <2>1. CASE tx'[a] = NoTx \/ tx'[b] = NoTx
    BY <2>1, NoTxFits
  <2>2. CASE tx'[a] = tx[a] /\ tx'[b] = tx[b]
    BY <2>2 DEF RegistryInv, Exclusive
  <2> QED
    BY <2>1, <2>2
<1>4. \A d \in Requests : TxFits(tx'[d], jobs', latest')
  BY <1>1, NoTxShape DEF RegistryInv
<1>5. RowsFit(jobs', latest', version')
  BY <1>1 DEF RegistryInv
<1> QED
  BY <1>2, <1>3, <1>4, <1>5 DEF RegistryInv

LEMMA StepRegistryInv == RegistryInv /\ RegistryView => RegistryInv'
<1> SUFFICES ASSUME RegistryInv, RegistryView PROVE RegistryInv'
  OBVIOUS
<1>0. tx \in [Requests -> TxTypes]
  BY DEF RegistryInv, RegistryTypesOK
<1>1. ASSUME NEW c \in Requests, BeginsRegistration(c) PROVE RegistryInv'
  BY <1>1, BeginKeeps
<1>2. ASSUME NEW c \in Requests, RegistrationStep(c) PROVE RegistryInv'
  BY <1>2, MovesKeep, CommitKeeps DEF RegistrationStep
<1>3. ASSUME NEW c \in Requests, EndTransaction(c), UNCHANGED registryVars PROVE RegistryInv'
  <2>1. tx' \in [Requests -> TxTypes] /\ \A d \in Requests : tx'[d] = tx[d] \/ tx'[d] = NoTx
    BY <1>0, <1>3, NoTxFits DEF EndTransaction
  <2> QED
    BY <1>3, <2>1, EndsKeep
<1>4. ASSUME NEW v \in Versions, RevokeVersion(v) \/ Publishes(v), UNCHANGED tx
      PROVE  RegistryInv'
  BY <1>4, VersionsKeep
<1>5. CASE EndTransactions /\ UNCHANGED registryVars
  <2>1. tx' \in [Requests -> TxTypes] /\ \A d \in Requests : tx'[d] = tx[d] \/ tx'[d] = NoTx
    BY <1>0, <1>5, NoTxFits DEF EndTransactions
  <2> QED
    BY <1>5, <2>1, EndsKeep
<1>6. CASE UNCHANGED <<tx, registryVars>>
  BY <1>0, <1>6, EndsKeep
<1> QED
  BY <1>1, <1>2, <1>3, <1>4, <1>5, <1>6 DEF RegistryView

LEMMA RegistryInvariant == Spec => []RegistryInv
<1>1. RegistryInv /\ [Next]_vars => RegistryInv'
  BY RegistrySteps, StepRegistryInv
<1> QED
  BY <1>1, InitRegistryInv, PTL DEF Spec

\* However registrations interleave, a key makes one revision, its retries are
\* answered with it, the revisions have no gap, and the unique columns are never
\* what stops a registration (register and its two advisory locks).
THEOREM KeysAreUnique == Spec => []KeysNameOneRevision
<1>1. RegistryInv => KeysNameOneRevision
  <2> SUFFICES ASSUME RegistryInv PROVE KeysNameOneRevision
    OBVIOUS
  <2>1. \A c \in Requests : TxFits(tx[c], jobs, latest)
    BY DEF RegistryInv
  <2>2. RowsFit(jobs, latest, version)
    BY DEF RegistryInv
  <2>3. \A c \in Requests : tx[c].answer \in Versions =>
          /\ jobs[tx[c].key] # None
          /\ jobs[tx[c].key].version = tx[c].answer
          /\ jobs[tx[c].key].fingerprint = Fingerprint(c)
    BY <2>1 DEF TxFits, Fingerprint
  <2>4. \A c \in Requests : tx[c].answer # "internal"
    BY <2>1 DEF TxFits
  <2> QED
    BY <2>2, <2>3, <2>4 DEF KeysNameOneRevision, RowsFit
<1> QED
  BY <1>1, RegistryInvariant, PTL

-----------------------------------------------------------------------------
(* Revocations and invocations.                                            *)

\* A revoked version stays revoked.
LEMMA RevokedStays ==
  ASSUME RegistryInv, RegistryView
  PROVE  Revoked \subseteq Revoked'
<1>0. version \in [Versions -> {"absent", "draft", "ready", "revoked"}]
  BY DEF RegistryInv, RegistryTypesOK
<1>1. ASSUME version' = version PROVE Revoked \subseteq Revoked'
  BY <1>1 DEF Revoked
<1>2. ASSUME NEW v \in Versions, NEW st, version[v] # "revoked" \/ st = "revoked",
             version' = [version EXCEPT ![v] = st]
      PROVE  Revoked \subseteq Revoked'
  BY <1>0, <1>2 DEF Revoked
<1>3. ASSUME NEW c \in Requests, BeginsRegistration(c) PROVE version' = version
  BY <1>3 DEF BeginsRegistration, BeginRegistration, registryVars
<1>4. ASSUME NEW c \in Requests, RegistrationStep(c) PROVE Revoked \subseteq Revoked'
  <2>1. CASE CommitRegistration(c)
    <3> DEFINE v == <<tx[c].tool, tx[c].revision>>
    <3>1. tx[c].at = "write"
      BY <2>1 DEF CommitRegistration
    <3>2. v \in Versions /\ version[v] = "absent" /\ Insertable(c)
      BY <3>1, WritesNext DEF Versions
    <3>3. version' = [version EXCEPT ![v] = "draft"]
      BY <2>1, <3>2 DEF CommitRegistration
    <3> QED
      BY <1>2, <3>2, <3>3
  <2>2. CASE LockKey(c) \/ LookUpKey(c) \/ LockName(c) \/ ReadLatest(c)
    BY <1>1, <2>2 DEF LockKey, LookUpKey, LockName, ReadLatest, registryVars
  <2> QED
    BY <1>4, <2>1, <2>2 DEF RegistrationStep
<1>5. ASSUME NEW v \in Versions, RevokeVersion(v) \/ Publishes(v) PROVE Revoked \subseteq Revoked'
  BY <1>1, <1>2, <1>5 DEF RevokeVersion, Publishes
<1> QED
  BY <1>1, <1>3, <1>4, <1>5 DEF RegistryView, registryVars

\* An invocation that has chosen its version.
Chosen(r) == r.at = "start" \/ r.row # "absent"

RevokedInv ==
  /\ revokedBefore \in [Requests -> SUBSET Versions]
  /\ \A c \in Requests :
       /\ revokedBefore[c] \subseteq Revoked
       /\ Chosen(run[c]) => run[c].version \notin revokedBefore[c]

\* What a step does to one invocation and the versions revoked before it.
Forgets(c) == revokedBefore'[c] = {}
Keeps(c) ==
  /\ revokedBefore'[c] = revokedBefore[c]
  /\ run'[c].version = run[c].version
  /\ Chosen(run'[c]) => Chosen(run[c])
Chooses(c) ==
  /\ revokedBefore'[c] = revokedBefore[c]
  /\ run'[c].version = Selected(c) /\ Ready(Selected(c))
Starts(c) ==
  /\ revokedBefore'[c] = Revoked
  /\ ~Chosen(run'[c])

ChoiceView(c) == Forgets(c) \/ Keeps(c) \/ Chooses(c) \/ Starts(c)

LEMMA StepRevokedInv ==
  ASSUME RegistryInv, RevokedInv, Revoked \subseteq Revoked',
         revokedBefore' \in [Requests -> SUBSET Versions],
         \A c \in Requests : ChoiceView(c)
  PROVE  RevokedInv'
<1> SUFFICES ASSUME NEW c \in Requests
             PROVE  /\ revokedBefore'[c] \subseteq Revoked'
                    /\ Chosen(run'[c]) => run'[c].version \notin revokedBefore'[c]
  BY DEF RevokedInv, Chosen
<1>0. /\ revokedBefore[c] \subseteq Revoked
      /\ Chosen(run[c]) => run[c].version \notin revokedBefore[c]
  BY DEF RevokedInv
<1>1. CASE Forgets(c)
  BY <1>1 DEF Forgets
<1>2. CASE Keeps(c)
  BY <1>0, <1>2 DEF Keeps
<1>3. CASE Chooses(c)
  <2>1. Selected(c) \notin Revoked
    BY <1>3 DEF Chooses, Ready, Revoked
  <2> QED
    BY <1>0, <1>3, <2>1 DEF Chooses
<1>4. CASE Starts(c)
  BY <1>4 DEF Starts
<1> QED
  BY <1>1, <1>2, <1>3, <1>4 DEF ChoiceView

LEMMA InvocationChoice ==
  ASSUME RunInv, NEW c \in Requests, request[c] = "invoke", InvocationStep(c),
         revokedBefore' = revokedBefore
  PROVE  ChoiceView(c)
<1>0. run \in [Requests -> RunTypes] /\ run[c] \in RunTypes /\ RunShape(run[c], "invoke")
  BY DEF RunInv, RunTypesOK
<1> USE DEF ChoiceView
<1>1. CASE Resolve(c) /\ Ready(Selected(c))
  <2>1. run'[c] = [run[c] EXCEPT !.at = "start", !.version = Selected(c)]
    BY <1>0, <1>1 DEF Resolve
  <2>2. run'[c].version = Selected(c)
    BY <1>0, <2>1 DEF RunTypes
  <2> QED
    BY <1>1, <2>2 DEF Chooses
<1>2. ASSUME run'[c].version = run[c].version, Chosen(run'[c]) => Chosen(run[c])
      PROVE  ChoiceView(c)
  BY <1>2 DEF Keeps
<1>3. CASE Resolve(c) /\ ~Ready(Selected(c))
  <2>1. run'[c] = [run[c] EXCEPT !.at = "done", !.answer = "tool_not_ready"]
    BY <1>0, <1>3 DEF Resolve
  <2>2. run'[c].version = run[c].version /\ run'[c].at = "done" /\ run'[c].row = run[c].row
    BY <1>0, <2>1 DEF RunTypes
  <2> QED
    BY <1>2, <2>2 DEF Chosen
<1>4. CASE NotStarted(c) \/ Start(c)
  <2>1. run[c].at = "start" /\ run'[c].version = run[c].version
    BY <1>0, <1>4 DEF NotStarted, Start, RunTypes
  <2> QED
    BY <1>2, <2>1 DEF Chosen
\* From here on the row exists.
<1>5. ASSUME run[c].at \in {"prepare", "wait", "finish"}, run'[c].version = run[c].version
      PROVE  ChoiceView(c)
  <2>1. run[c].row = "running"
    BY <1>0, <1>5 DEF RunShape
  <2> QED
    BY <1>2, <1>5, <2>1 DEF Chosen
<1>6. CASE Refuse(c)
  <2>1. PICK code : run' = [run EXCEPT ![c] = Returned(c, code)] /\ run[c].at = "prepare"
    BY <1>6 DEF Refuse
  <2>2. run'[c].version = run[c].version
    BY <1>0, <2>1 DEF Returned, RunTypes
  <2> QED
    BY <1>5, <2>1, <2>2
<1>7. CASE StartContainer(c)
  BY <1>0, <1>5, <1>7 DEF StartContainer, RunTypes
<1>8. CASE Collect(c) \/ CollectFails(c)
  <2>1. PICK code : run' = [run EXCEPT ![c] = Returned(c, code)] /\ run[c].at = "wait"
    BY <1>8 DEF Collect, CollectFails
  <2>2. run'[c].version = run[c].version
    BY <1>0, <2>1 DEF Returned, RunTypes
  <2> QED
    BY <1>5, <2>1, <2>2
<1>9. CASE TimeLimit(c)
  <2>1. PICK removed \in BOOLEAN :
          run' = [run EXCEPT ![c] = [Terminate(c, removed) EXCEPT
                                       !.at = "finish", !.code = GrpcCode("Timeout")]]
    BY <1>9 DEF TimeLimit, Limit
  <2>2. run'[c].version = run[c].version
    BY <1>0, <2>1 DEF Terminate, RunTypes
  <2> QED
    BY <1>5, <1>9, <2>2 DEF TimeLimit, Limit
<1>10. CASE Finish(c)
  <2>1. PICK recorded \in BOOLEAN :
          run' = [run EXCEPT ![c].at = "done",
                             ![c].row = IF recorded THEN FinishedRow(c) ELSE @,
                             ![c].lost = ~recorded,
                             ![c].answer = Response(run[c].code)]
    BY <1>10 DEF Finish
  <2>2. run'[c].version = run[c].version
    BY <1>0, <2>1 DEF RunTypes
  <2> QED
    BY <1>5, <1>10, <2>2 DEF Finish
<1> QED
  BY <1>1, <1>3, <1>4, <1>6, <1>7, <1>8, <1>9, <1>10 DEF InvocationStep

\* One request's step; the others keep their invocations.
LEMMA OthersKeep ==
  ASSUME RunInv, RevokedInv, NEW c \in Requests, ChoiceView(c),
         \A d \in Requests \ {c} : run'[d] = run[d] /\ revokedBefore'[d] = revokedBefore[d]
  PROVE  \A d \in Requests : ChoiceView(d)
<1> TAKE d \in Requests
<1>1. CASE d = c
  BY <1>1
<1>2. CASE d # c
  BY <1>2 DEF ChoiceView, Keeps
<1> QED
  BY <1>1, <1>2

LEMMA RevokedTyped == Revoked \subseteq Versions
  BY DEF Revoked

LEMMA EnterChoice ==
  ASSUME RunInv, RevokedInv, NEW c \in Requests, request[c] = "new", NEW ask \in Asks[c],
         Enter(c, ask)
  PROVE  /\ revokedBefore' \in [Requests -> SUBSET Versions]
         /\ \A d \in Requests : ChoiceView(d)
<1>0. /\ ask \in Ask /\ revokedBefore \in [Requests -> SUBSET Versions]
      /\ run \in [Requests -> RunTypes]
  BY ServerAssumption DEF RevokedInv, RunInv, RunTypesOK
<1>1. CASE ask.kind = "register"
  <2>1. run' = run /\ revokedBefore' = revokedBefore
    BY <1>1 DEF Enter
  <2> QED
    BY <1>0, <2>1 DEF ChoiceView, Keeps
<1>2. CASE ask.kind = "invoke"
  <2>1. BeginInvocation(c, ask.tool, ask.revision)
    BY <1>2 DEF Enter
  <2>2. revokedBefore' = [revokedBefore EXCEPT ![c] = Revoked]
    BY <1>2 DEF Enter
  <2>3. run' = [run EXCEPT ![c] = [NoRun EXCEPT !.at = "resolve",
                                               !.version = <<ask.tool, ask.revision>>]]
    BY <2>1 DEF BeginInvocation
  <2>4. run'[c].at = "resolve" /\ run'[c].row = "absent"
    BY <1>0, <2>3 DEF NoRun
  <2>5. ChoiceView(c)
    BY <1>0, <2>2, <2>4 DEF ChoiceView, Starts, Chosen
  <2>6. \A d \in Requests \ {c} : run'[d] = run[d] /\ revokedBefore'[d] = revokedBefore[d]
    BY <1>0, <2>2, <2>3
  <2> QED
    BY <1>0, <2>2, <2>5, <2>6, OthersKeep, RevokedTyped
<1>3. CASE ask.kind \in {"revoke", "read"}
  <2>1. run' = run /\ revokedBefore' = [revokedBefore EXCEPT ![c] = {}]
    BY <1>3 DEF Enter, Close
  <2> QED
    BY <1>0, <2>1 DEF ChoiceView, Keeps, Forgets
<1> QED
  BY <1>0, <1>1, <1>2, <1>3 DEF Ask

LEMMA CloseChoice ==
  ASSUME RunInv, RevokedInv, NEW c \in Requests, Close(c),
         \A d \in Requests \ {c} : run'[d] = run[d]
  PROVE  /\ revokedBefore' \in [Requests -> SUBSET Versions]
         /\ \A d \in Requests : ChoiceView(d)
<1>0. revokedBefore \in [Requests -> SUBSET Versions]
  BY DEF RevokedInv
<1>1. revokedBefore' = [revokedBefore EXCEPT ![c] = {}]
  BY DEF Close
<1> QED
  BY <1>0, <1>1 DEF ChoiceView, Keeps, Forgets

LEMMA ChoiceSteps ==
  ASSUME RunInv, RevokedInv, [Next]_vars
  PROVE  /\ revokedBefore' \in [Requests -> SUBSET Versions]
         /\ \A d \in Requests : ChoiceView(d)
<1> DEFINE Goal == /\ revokedBefore' \in [Requests -> SUBSET Versions]
                   /\ \A d \in Requests : ChoiceView(d)
<1>0. /\ run \in [Requests -> RunTypes] /\ revokedBefore \in [Requests -> SUBSET Versions]
      /\ \A c \in Requests : RunShape(run[c], request[c])
  BY DEF RevokedInv, RunInv, RunTypesOK
<1>1. ASSUME run' = run, revokedBefore' = revokedBefore PROVE Goal
  BY <1>0, <1>1 DEF ChoiceView, Keeps
<1>2. ASSUME NEW c \in Requests, Close(c), run' = run PROVE Goal
  BY <1>2, CloseChoice
<1>3. CASE Visit
  BY <1>1, <1>3 DEF Visit, handlerVars
<1>4. CASE WorkerRestarts
  <2>1. run' = [c \in Requests |-> LoseWorker(c)] /\ revokedBefore' = revokedBefore
    BY <1>4 DEF WorkerRestarts, WorkerStops
  <2>2. ASSUME NEW c \in Requests PROVE ChoiceView(c)
    <3>1. run[c] \in RunTypes
      BY <1>0
    <3>2. LoseWorker(c).version = run[c].version /\ LoseWorker(c).row = run[c].row
      BY <3>1 DEF LoseWorker, RunTypes
    <3>3. LoseWorker(c).at = "start" => run[c].at = "start"
      BY <3>1 DEF LoseWorker, RunTypes
    <3> QED
      BY <2>1, <3>2, <3>3 DEF ChoiceView, Keeps, Chosen
  <2> QED
    BY <1>0, <2>1, <2>2
<1>5. CASE ServerRestarts
  BY <1>5 DEF ServerRestarts, ChoiceView, Forgets
<1>6. ASSUME NEW v \in Versions, Publish(v) PROVE Goal
  BY <1>1, <1>6 DEF Publish
<1>7. ASSUME NEW c \in Requests, ArriveWithToken(c) PROVE Goal
  BY <1>7, EnterChoice DEF ArriveWithToken
<1>8. ASSUME NEW c \in Requests, NEW s \in Sessions, ArriveWithSession(c, s) PROVE Goal
  <2>1. PICK ask \in Asks[c] :
          Enter(c, ask) \/ (Close(c) /\ UNCHANGED <<tx, registryVars, run>>)
    BY <1>8 DEF ArriveWithSession
  <2>2. request[c] = "new"
    BY <1>8 DEF ArriveWithSession
  <2>3. CASE Enter(c, ask)
    BY <2>2, <2>3, EnterChoice
  <2>4. CASE Close(c) /\ UNCHANGED <<tx, registryVars, run>>
    BY <1>2, <2>4
  <2> QED
    BY <2>1, <2>3, <2>4
<1>9. ASSUME NEW c \in Requests, NEW s \in Sessions, Unauthorized(c, s) PROVE Goal
  BY <1>2, <1>9 DEF Unauthorized
<1>10. ASSUME NEW c \in Requests, Register(c) PROVE Goal
  BY <1>1, <1>10 DEF Register
<1>11. ASSUME NEW c \in Requests, Invoke(c) PROVE Goal
  <2>1. /\ request[c] = "invoke" /\ InvocationStep(c) /\ revokedBefore' = revokedBefore
    BY <1>11 DEF Invoke
  <2>2. ChoiceView(c)
    BY <2>1, InvocationChoice
  <2>3. PICK s \in RunTypes : run' = [run EXCEPT ![c] = s]
    BY <2>1, InvocationKeepsShape
  <2>4. \A d \in Requests \ {c} : run'[d] = run[d] /\ revokedBefore'[d] = revokedBefore[d]
    BY <1>0, <2>1, <2>3
  <2> QED
    BY <1>0, <2>1, <2>2, <2>4, OthersKeep
<1>12. ASSUME NEW c \in Requests, Answer(c) \/ ClientLeaves(c) PROVE Goal
  <2>1. Close(c) /\ (run' = run \/ EndCall(c))
    BY <1>12 DEF Answer, ClientLeaves
  <2>2. \A d \in Requests \ {c} : run'[d] = run[d]
    BY <1>0, <2>1 DEF EndCall
  <2> QED
    BY <2>1, <2>2, CloseChoice
<1>13. ASSUME NEW c \in Requests, Program(c) PROVE Goal
  <2>1. revokedBefore' = revokedBefore /\ (ContainerExits(c) \/ WaitBreaks(c))
    BY <1>13 DEF Program
  <2>2. CASE ContainerExits(c)
    <3>1. PICK code \in {"zero", "other"} :
            run' = [run EXCEPT ![c].box = code, ![c].kept = "no"]
      BY <2>2 DEF ContainerExits
    <3>2. run'[c] = [run[c] EXCEPT !.box = code, !.kept = "no"] /\ run[c] \in RunTypes
      BY <1>0, <3>1
    <3>3. run'[c].version = run[c].version /\ run'[c].at = run[c].at /\ run'[c].row = run[c].row
      BY <3>2 DEF RunTypes
    <3>4. ChoiceView(c)
      BY <2>1, <3>3 DEF ChoiceView, Keeps, Chosen
    <3> QED
      BY <1>0, <2>1, <3>1, <3>4, OthersKeep
  <2>3. CASE WaitBreaks(c)
    <3>1. run[c].at = "wait"
      BY <2>3 DEF WaitBreaks, OutputLimit, ReadFails, Limit, ClientFails
    <3>2. run[c] \in RunTypes /\ RunShape(run[c], request[c])
      BY <1>0
    <3>3. run' = [run EXCEPT ![c] = run'[c]] /\ run'[c].version = run[c].version
      <4>1. CASE OutputLimit(c) \/ ReadFails(c)
        <5>1. PICK error \in {"OutputLimitExceeded", "Io"}, removed \in BOOLEAN :
                run' = [run EXCEPT ![c] = [Terminate(c, removed) EXCEPT
                                             !.at = "finish", !.code = GrpcCode(error)]]
          BY <4>1 DEF OutputLimit, ReadFails, Limit
        <5>2. run'[c] = [Terminate(c, removed) EXCEPT !.at = "finish", !.code = GrpcCode(error)]
          BY <1>0, <5>1
        <5>3. run'[c].version = run[c].version
          BY <3>2, <5>2 DEF Terminate, RunTypes
        <5> QED
          BY <1>0, <5>1, <5>2, <5>3
      <4>2. CASE ClientFails(c)
        <5>1. PICK e :
                run' = [run EXCEPT ![c] = [Returned(c, GrpcCode(e)) EXCEPT !.kept = "cli"]]
          BY <4>2 DEF ClientFails
        <5> QED
          BY <1>0, <3>2, <5>1 DEF Returned, RunTypes
      <4> QED
        BY <2>3, <4>1, <4>2 DEF WaitBreaks
    <3>4. run[c].row = "running"
      BY <3>1, <3>2 DEF RunShape
    <3>5. ChoiceView(c)
      BY <2>1, <3>3, <3>4 DEF ChoiceView, Keeps, Chosen
    <3> QED
      BY <1>0, <2>1, <3>3, <3>5, OthersKeep
  <2> QED
    BY <2>1, <2>2, <2>3
<1>14. CASE UNCHANGED vars
  BY <1>1, <1>14 DEF vars
<1> QED
  BY <1>3, <1>4, <1>5, <1>6, <1>7, <1>8, <1>9, <1>10, <1>11, <1>12, <1>13, <1>14
     DEF Next, Handle

LEMMA RevokedInvariant == Spec => []RevokedInv
<1>1. Init => RevokedInv
  <2> SUFFICES ASSUME Init PROVE RevokedInv
    OBVIOUS
  <2>1. \A c \in Requests : run[c].at = "idle" /\ run[c].row = "absent"
    BY DEF Init, InitInvocations, NoRun
  <2> QED
    BY <2>1 DEF Init, RevokedInv, Chosen
<1>2. RegistryInv /\ RunInv /\ RevokedInv /\ [Next]_vars => RevokedInv'
  BY ChoiceSteps, StepRevokedInv, RegistrySteps, RevokedStays
<1> QED
  BY <1>1, <1>2, RegistryInvariant, RunInvariant, PTL DEF Spec

\* A version revoked before a request arrived is not run for it (resolve_tool).
THEOREM RevokedStayOut == Spec => []RevokedIsNotRun
<1>1. RevokedInv => RevokedIsNotRun
  BY DEF RevokedInv, RevokedIsNotRun, Chosen
<1> QED
  BY <1>1, RevokedInvariant, PTL

-----------------------------------------------------------------------------

\* Every reachable state of the server is well typed, the map of sessions within
\* MAX_SESSIONS and in step with what its logins promised.
THEOREM ServerTypeCorrect == Spec => []TypeOK
<1>1. SessionsInv /\ RegistryInv /\ RunInv /\ RevokedInv => TypeOK
  BY DEF SessionsInv, RegistryInv, RegistryTypesOK, RunInv, RunTypesOK, RequestStates,
         RevokedInv, TypeOK
<1> QED
  BY <1>1, SessionsInvariant, RegistryInvariant, RunInvariant, RevokedInvariant, PTL
=============================================================================
