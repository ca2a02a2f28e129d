------------------------------ MODULE JobLocks ------------------------------
(***************************************************************************)
(* The transactions that meet on one synthesis job, statement by statement.*)
(* Registry takes a transaction as one step; here it is several, and what  *)
(* keeps them apart are PostgreSQL's row locks.  A tool has an old version,*)
(* published, and a new one that workers make.  The sessions are:          *)
(*   Workers  worker processes: each claims the job when it is queued or   *)
(*            its lease has run out, and then runs process_job, with its   *)
(*            events and checkpoints, stages, a question, a publication;   *)
(*   Cancels, Answers, Revokes   users' calls of cancel_job, of            *)
(*            answer_job_input, and of revoke_tool_version.                *)
(* A worker that has lost the job goes on, and its calls meet those of the *)
(* worker that has taken it over.  While a worker awaits a lease renewal,  *)
(* handle_job does not poll process_job, which then sends no further       *)
(* statement, not even its COMMIT.  A member of Workers claims once; a     *)
(* process that comes back is another one.                                 *)
(* Row locks, their conflicts, READ COMMITTED and the deadlock detector    *)
(* are PostgreSQL's (external).                                            *)
(***************************************************************************)

CONSTANTS
  Workers, Cancels, Answers, Revokes,
  Failing   \* the workers that may stop, or lose a connection to the database

Sessions == Workers \cup Cancels \cup Answers \cup Revokes
Versions == {"old", "new"}
Columns == {"stable", "old", "new", "job", "owner", "lease", "input"}

ASSUME LocksAssumption ==
  /\ Workers \cap Cancels = {} /\ Workers \cap Answers = {} /\ Workers \cap Revokes = {}
  /\ Cancels \cap Answers = {} /\ Cancels \cap Revokes = {} /\ Answers \cap Revokes = {}
  /\ "none" \notin Workers /\ "kept" \notin Workers
  /\ Failing \subseteq Workers

VARIABLES
  db,       \* the committed columns: stable pointer, version statuses, job, owner, ...
  pending,  \* per session: what its open transaction has written, "kept" where nothing
  locks,    \* per session: the row locks it holds, <<row, mode>>
  pc,       \* per session: the statement it is at
  renewal,  \* per worker: "sent" while it awaits renew_job_lease, "held" once a result
            \* for process_job has come in meanwhile, which nobody looks at
  target,   \* per call of revoke_tool_version: the version it is for
  seen      \* per call of revoke_tool_version: tools.stable_revision as it read it

vars == <<db, pending, locks, pc, renewal, target, seen>>

Nothing == [c \in Columns |-> "kept"]

Init ==
  /\ db = [stable |-> "old", old |-> "ready", new |-> "synthesizing", job |-> "queued",
           owner |-> "none", lease |-> "none", input |-> "none"]
  /\ pending = [s \in Sessions |-> Nothing]
  /\ locks = [s \in Sessions |-> {}]
  /\ pc = [s \in Sessions |-> IF s \in Workers THEN "claim_job" ELSE "idle"]
  /\ renewal = [w \in Workers |-> "none"]
  /\ target \in [Revokes -> Versions]
  /\ seen = [s \in Revokes |-> "none"]

-----------------------------------------------------------------------------
(* Row locks.  "update" is FOR UPDATE, "nokey" an UPDATE of columns that   *)
(* are no key, "share" the FOR KEY SHARE of a foreign key.                 *)

Conflicts(m, n) ==
  m = "update" \/ n = "update" \/ (m = "nokey" /\ n = "nokey")

\* The row each statement of a call locks, and how; statements that touch only
\* rows their transaction has locked are part of the one before them.
AppendNeeds ==      \* append_agent_event; save_agent_checkpoint
  [append_run |-> <<"run", "update">>, append_event |-> <<"job", "share">>]
StageNeeds ==       \* set_job_stage, two autocommitted statements
  [stage_job |-> <<"job", "nokey">>, stage_version |-> <<"new", "nokey">>]
PublishNeedsNoLock ==
  [publish_version |-> <<"new", "nokey">>, publish_tool |-> <<"tool", "nokey">>,
   publish_run |-> <<"run", "update">>]
PublishNeeds ==     \* publish_job
  [publish_job |-> <<"job", "update">>, publish_version |-> <<"new", "nokey">>,
   publish_tool |-> <<"tool", "nokey">>, publish_run |-> <<"run", "update">>]
SuspendNeeds ==     \* suspend_job_for_input; the row of the new input is nobody else's
  [suspend_job |-> <<"job", "update">>, suspend_run |-> <<"run", "update">>]
RejectNeeds ==      \* reject_job
  [reject_job |-> <<"job", "nokey">>, reject_version |-> <<"new", "nokey">>]
CancelNeedsEventFirst ==
  [cancel_job |-> <<"run", "update">>, cancel_version |-> <<"new", "nokey">>,
   cancel_input |-> <<"input", "nokey">>, cancel_run |-> <<"job", "update">>]
CancelNeeds ==      \* cancel_job
  [cancel_job |-> <<"job", "update">>, cancel_version |-> <<"new", "nokey">>,
   cancel_input |-> <<"input", "nokey">>, cancel_run |-> <<"run", "update">>]
AnswerNeeds ==      \* answer_job_input: FOR UPDATE OF i, j locks in this order
  [answer_input |-> <<"input", "update">>, answer_job |-> <<"job", "update">>,
   answer_run |-> <<"run", "update">>]
RevokeNeedsNoLock ==
  [revoke_version |-> <<"target", "update">>, revoke_stable |-> <<"tool", "nokey">>]
RevokeNeeds ==      \* revoke_tool_version
  [revoke_tool |-> <<"tool", "update">>, revoke_version |-> <<"target", "update">>,
   revoke_stable |-> <<"tool", "nokey">>]
ClaimNeeds ==       \* claim_synthesis_job
  [claim_job |-> <<"job", "update">>, claim_version |-> <<"new", "nokey">>]
In(table, label) == IF label \in DOMAIN table THEN {table[label]} ELSE {}

Labels ==
  {"idle", "done", "claim_job", "claim_version", "append_owner", "append_run", "append_event",
   "commit_event", "stage_job", "stage_version", "publish_job", "publish_version",
   "publish_tool", "publish_run", "commit_publication", "suspend_job", "suspend_run",
   "commit_suspension", "reject_job", "reject_version", "cancel_job", "cancel_version",
   "cancel_input", "cancel_run", "answer_input", "answer_job", "answer_run", "revoke_tool",
   "revoke_version", "revoke_stable"}

Needs ==
  [label \in Labels |->
     In(AppendNeeds, label) \cup In(StageNeeds, label) \cup In(PublishNeeds, label)
       \cup In(SuspendNeeds, label) \cup In(RejectNeeds, label) \cup In(CancelNeeds, label)
       \cup In(AnswerNeeds, label) \cup In(RevokeNeeds, label) \cup In(ClaimNeeds, label)]

\* The locks of the statement s is at.
Wants(s) ==
  {<<IF n[1] = "target" THEN target[s] ELSE n[1], n[2]>> : n \in Needs[pc[s]]}

\* process_job of a worker sends its next statement only when it is polled.
Polled(s) == s \in Workers => renewal[s] # "held"

\* The sessions whose locks keep the statement s is at from running.
WaitsFor(s) ==
  {t \in Sessions \ {s} :
     /\ Polled(s)
     /\ \E want \in Wants(s), held \in locks[t] :
          want[1] = held[1] /\ Conflicts(want[2], held[2])}

\* s waits for itself: each set closed under WaitsFor that holds what s waits
\* for also holds s.
InLockCycle(s) ==
  /\ WaitsFor(s) # {}
  /\ LET waits == [t \in Sessions |-> WaitsFor(t)]
     IN  ~\E D \in SUBSET (Sessions \ {s}) :
            waits[s] \subseteq D /\ \A d \in D : waits[d] \subseteq D

-----------------------------------------------------------------------------
(* Statements.                                                             *)

\* The row d after the transaction that has written w.
After(w, d) == [c \in Columns |-> IF w[c] = "kept" THEN d[c] ELSE w[c]]

ReleaseNone(s) == locks
Release(s) == [locks EXCEPT ![s] = {}]

\* The statement s is at can run.
Runs(s, label) == pc[s] = label /\ Polled(s) /\ WaitsFor(s) = {}

\* While a renewal is awaited nobody looks at the result of a worker's statement.
GoOn(s, next) ==
  /\ pc' = [pc EXCEPT ![s] = next]
  /\ renewal' = [w \in Workers |-> IF w = s /\ renewal[w] = "sent" THEN "held" ELSE renewal[w]]

\* The statement is run on the pool and not on the transaction.
WriteOutside(s, written, next) ==
  /\ locks' = [locks EXCEPT ![s] = @ \cup Wants(s)]
  /\ db' = After(written, db)
  /\ GoOn(s, next)
  /\ UNCHANGED pending

\* A statement inside a transaction: it takes its lock, and the transaction has
\* then written these columns.
Write(s, written, next) ==
  /\ locks' = [locks EXCEPT ![s] = @ \cup Wants(s)]
  /\ pending' = [pending EXCEPT ![s] = written]
  /\ GoOn(s, next)
  /\ UNCHANGED db

\* A statement and the COMMIT after it, or an autocommitted statement.
Commit(s, written, next) ==
  /\ db' = After(written, db)
  /\ locks' = Release(s)
  /\ pending' = [pending EXCEPT ![s] = Nothing]
  /\ GoOn(s, next)

\* The transaction is dropped: an early return, an error or a lost connection.
Rollback(s, next) ==
  /\ locks' = Release(s)
  /\ pending' = [pending EXCEPT ![s] = Nothing]
  /\ GoOn(s, next)
  /\ UNCHANGED db

OwnedBy(s) == db.job = "running" /\ db.owner = s

-----------------------------------------------------------------------------
(* A worker: claim_synthesis_job, then handle_job with its two arms.       *)

\* claim_synthesis_job: SKIP LOCKED passes over a locked row.  The status of the
\* version is set to what it is, or left alone.
Claim(w) ==
  \/ /\ Runs(w, "claim_job")
     /\ db.job = "queued" \/ (db.job = "running" /\ db.lease = "expired")
     /\ Write(w, [pending[w] EXCEPT !.job = "running", !.owner = w, !.lease = "live"],
              "claim_version")
  \/ Runs(w, "claim_version") /\ Commit(w, pending[w], "idle")

\* process_job makes its next call, or ends in an error, as it does at once when the
\* attempts are used up.
Calls == {"append_owner", "stage_job", "publish_job", "suspend_job", "reject_job"}

StartCall(w, label) ==
  /\ pc[w] = "idle"
  /\ renewal[w] = "none"
  /\ pc' = [pc EXCEPT ![w] = label]
  /\ UNCHANGED <<db, pending, locks, renewal>>

\* append_agent_event, which inserts nothing once the trace is full, and
\* save_agent_checkpoint, which never does; ensure_job_owner locks nothing.
Append(w) ==
  \/ /\ Runs(w, "append_owner")
     /\ IF db.job \in {"running", "ready"} /\ db.owner = w
        THEN Write(w, Nothing, "append_run")
        ELSE Rollback(w, "reject_job")
  \/ /\ Runs(w, "append_run")
     /\ \E next \in {"append_event", "commit_event"} : Write(w, Nothing, next)
  \/ Runs(w, "append_event") /\ Write(w, Nothing, "commit_event")
  \/ Runs(w, "commit_event") /\ Commit(w, Nothing, "idle")

\* set_job_stage; its second statement has no condition.
SetStage(w) ==
  \/ /\ Runs(w, "stage_job")
     /\ IF OwnedBy(w)
        THEN Commit(w, [Nothing EXCEPT !.lease = "live"], "stage_version")
        ELSE Rollback(w, "reject_job")
  \/ Runs(w, "stage_version") /\ Commit(w, [Nothing EXCEPT !.new = "building"], "idle")

Publish(w) ==
  \/ /\ Runs(w, "publish_job")
     /\ IF OwnedBy(w)
        THEN Write(w, Nothing, "publish_version")
        ELSE Rollback(w, "reject_job")
  \/ /\ Runs(w, "publish_version")
     /\ Write(w, [pending[w] EXCEPT !.new = "ready"], "publish_tool")
  \/ /\ Runs(w, "publish_tool")
     /\ Write(w, [pending[w] EXCEPT !.stable = "new", !.job = "ready", !.lease = "none"],
              "publish_run")
  \/ Runs(w, "publish_run") /\ Write(w, pending[w], "commit_publication")
  \/ Runs(w, "commit_publication") /\ Commit(w, pending[w], "done")

Suspend(w) ==
  \/ /\ Runs(w, "suspend_job")
     /\ IF OwnedBy(w)
        THEN Write(w, [pending[w] EXCEPT !.input = "pending"], "suspend_run")
        ELSE Rollback(w, "reject_job")
  \/ /\ Runs(w, "suspend_run")
     /\ Write(w, [pending[w] EXCEPT !.job = "awaiting_input", !.owner = "none",
                                    !.lease = "none"], "commit_suspension")
  \/ Runs(w, "commit_suspension") /\ Commit(w, pending[w], "done")

Reject(w) ==
  \/ /\ Runs(w, "reject_job")
     /\ IF OwnedBy(w)
        THEN Write(w, [pending[w] EXCEPT !.job = "rejected", !.lease = "none"],
                   "reject_version")
        ELSE Rollback(w, "done")
  \/ Runs(w, "reject_version") /\ Commit(w, [pending[w] EXCEPT !.new = "rejected"], "done")

\* The interval fires while process_job is at an await.
Tick(w) ==
  /\ renewal[w] = "none"
  /\ pc[w] \notin {"claim_job", "claim_version", "reject_job", "reject_version", "done"}
  /\ renewal' = [renewal EXCEPT ![w] = "sent"]
  /\ UNCHANGED <<db, pending, locks, pc>>

\* renew_job_lease, on a connection of its own, so that it also waits for what its
\* worker has locked; when it fails the future of process_job is dropped with its
\* transaction, and reject_job follows.
Renew(w) ==
  /\ renewal[w] # "none"
  /\ \A s \in Sessions : \A held \in locks[s] :
       held[1] = "job" => ~Conflicts("nokey", held[2])
  /\ renewal' = [renewal EXCEPT ![w] = "none"]
  /\ IF OwnedBy(w)
     THEN db' = [db EXCEPT !.lease = "live"] /\ UNCHANGED <<pending, locks, pc>>
     ELSE /\ locks' = Release(w)
          /\ pending' = [pending EXCEPT ![w] = Nothing]
          /\ pc' = [pc EXCEPT ![w] = "reject_job"]
          /\ UNCHANGED db

-----------------------------------------------------------------------------
(* Users' calls.                                                           *)

Cancel(c) ==
  \/ /\ Runs(c, "cancel_job")
     /\ IF db.job \in {"ready", "rejected"}
        THEN Rollback(c, "done")
        ELSE Write(c, [pending[c] EXCEPT !.job = "rejected", !.owner = "none",
                                         !.lease = "none"], "cancel_version")
  \/ /\ Runs(c, "cancel_version")
     /\ Write(c, [pending[c] EXCEPT !.new = "rejected"],
              IF db.input = "pending" THEN "cancel_input" ELSE "cancel_run")
  \/ /\ Runs(c, "cancel_input")
     /\ Write(c, [pending[c] EXCEPT !.input = "answered"], "cancel_run")
  \/ Runs(c, "cancel_run") /\ Commit(c, pending[c], "done")

\* A question is open, and its job waits for it.
Asked == db.job = "awaiting_input" /\ db.input = "pending"

\* A row that was changed while its lock was awaited is looked at again.
Answer(a) ==
  \/ /\ Runs(a, "answer_input")
     /\ IF Asked THEN Write(a, Nothing, "answer_job") ELSE Rollback(a, "done")
  \/ /\ Runs(a, "answer_job")
     /\ IF Asked
        THEN Write(a, [pending[a] EXCEPT !.input = "answered", !.job = "queued",
                                         !.owner = "none", !.lease = "none"], "answer_run")
        ELSE Rollback(a, "done")
  \/ Runs(a, "answer_run") /\ Commit(a, pending[a], "done")

\* The pointer when v is revoked: the other version if it is ready.
Fallback(v) ==
  LET other == CHOOSE u \in Versions : u # v IN
  IF db[other] = "ready" THEN other ELSE "none"

Revoke(r) ==
  \/ /\ Runs(r, "revoke_tool")
     /\ Write(r, Nothing, "revoke_version")
     /\ seen' = [seen EXCEPT ![r] = db.stable]
  \/ /\ Runs(r, "revoke_version")
     /\ IF db[target[r]] # "ready"
        THEN Rollback(r, "done")
        ELSE IF seen[r] = target[r]
             THEN Write(r, [pending[r] EXCEPT ![target[r]] = "revoked"], "revoke_stable")
             ELSE Commit(r, [pending[r] EXCEPT ![target[r]] = "revoked"], "done")
     /\ UNCHANGED seen
  \/ /\ Runs(r, "revoke_stable")
     /\ Commit(r, [pending[r] EXCEPT !.stable = Fallback(target[r])], "done")
     /\ UNCHANGED seen

\* A user makes the call.
Call(s, label) ==
  /\ pc[s] = "idle"
  /\ pc' = [pc EXCEPT ![s] = label]
  /\ UNCHANGED <<db, pending, locks, renewal, target, seen>>

-----------------------------------------------------------------------------
(* The environment.                                                        *)

\* A call that fails: process_job ends in an error, and reject_job follows.
Aborted(s) ==
  IF s \in Workers /\ pc[s] \notin {"claim_job", "claim_version", "reject_job", "reject_version"}
  THEN "reject_job"
  ELSE "done"

\* PostgreSQL aborts a transaction that waits in a cycle of lock waits.
DeadlockDetected(s) ==
  /\ InLockCycle(s)
  /\ Rollback(s, Aborted(s))
  /\ UNCHANGED <<target, seen>>

\* A statement fails for want of its connection.
ConnectionLost(s) ==
  /\ s \in Workers => s \in Failing
  /\ pc[s] \notin {"idle", "done"}
  /\ Polled(s)
  /\ Rollback(s, Aborted(s))
  /\ UNCHANGED <<target, seen>>

\* The worker stops with its connections.
WorkerCrash(w) ==
  /\ w \in Failing
  /\ pc[w] # "done"
  /\ locks' = Release(w)
  /\ pending' = [pending EXCEPT ![w] = Nothing]
  /\ pc' = [pc EXCEPT ![w] = "done"]
  /\ renewal' = [renewal EXCEPT ![w] = "none"]
  /\ UNCHANGED <<db, target, seen>>

\* The owner stalls, or is gone, and its lease runs out.
LeaseExpires ==
  /\ db.job = "running"
  /\ db.lease = "live"
  /\ db' = [db EXCEPT !.lease = "expired"]
  /\ UNCHANGED <<pending, locks, pc, renewal, target, seen>>

Process(w) ==
  \/ \E label \in Calls : StartCall(w, label)
  \/ Append(w) \/ SetStage(w) \/ Publish(w) \/ Suspend(w) \/ Reject(w)

Worker(w) == (Claim(w) \/ Process(w) \/ Tick(w) \/ Renew(w)) /\ UNCHANGED <<target, seen>>
Canceller(c) == Call(c, "cancel_job") \/ (Cancel(c) /\ UNCHANGED <<target, seen>>)
Answerer(a) == Call(a, "answer_input") \/ (Answer(a) /\ UNCHANGED <<target, seen>>)
Revoker(r) == Call(r, "revoke_tool") \/ (Revoke(r) /\ UNCHANGED target)

Next ==
  \/ \E w \in Workers : Worker(w) \/ WorkerCrash(w)
  \/ \E c \in Cancels : Canceller(c)
  \/ \E a \in Answers : Answerer(a)
  \/ \E r \in Revokes : Revoker(r)
  \/ \E s \in Sessions : DeadlockDetected(s) \/ ConnectionLost(s)
  \/ LeaseExpires

Spec == Init /\ [][Next]_vars

\* Sessions and PostgreSQL go on, process_job does between two ticks of 30 s,
\* and a run of the agent ends with a publication.
Fairness ==
  /\ \A w \in Workers :
       /\ WF_vars(Claim(w) /\ UNCHANGED <<target, seen>>)
       /\ SF_vars(Process(w) /\ UNCHANGED <<target, seen>>)
       /\ SF_vars(StartCall(w, "publish_job") /\ UNCHANGED <<target, seen>>)
       /\ WF_vars(Renew(w) /\ UNCHANGED <<target, seen>>)
  /\ \A c \in Cancels : WF_vars(Cancel(c) /\ UNCHANGED <<target, seen>>)
  /\ \A a \in Answers : WF_vars(Answer(a) /\ UNCHANGED <<target, seen>>)
  /\ \A r \in Revokes : WF_vars(Revoke(r) /\ UNCHANGED target)
  /\ WF_vars(\E s \in Sessions : DeadlockDetected(s))

FairSpec == Spec /\ Fairness

-----------------------------------------------------------------------------
(* Properties.                                                             *)

\* The committed rows keep to their columns, and only open transactions hold locks
\* or have written.
TypeOK ==
  /\ db \in [stable : Versions \cup {"none"}, old : {"ready", "revoked"},
             new : {"synthesizing", "building", "ready", "rejected", "revoked"},
             job : {"running", "awaiting_input", "queued", "ready", "rejected"},
             owner : {"none"} \cup Workers, lease : {"live", "expired", "none"},
             input : {"none", "pending", "answered"}]
  /\ pc \in [Sessions -> Labels] /\ renewal \in [Workers -> {"none", "sent", "held"}]
  /\ target \in [Revokes -> Versions] /\ seen \in [Revokes -> Versions \cup {"none"}]
  /\ \A s \in Sessions : pc[s] \in {"idle", "done"} => locks[s] = {} /\ pending[s] = Nothing

\* Publication, cancellation and rejection exclude each other although each
\* writes the job several statements after it has read it (publish_job,
\* cancel_job: FOR UPDATE), and although several workers may be at it.
OneOutcome ==
  [][db.job \in {"ready", "rejected"} => db'.job = db.job]_vars

\* A version that the second statement of set_job_stage has put back, after the job
\* got its outcome (registry_stage is the run that finds this to be a fault).
PutBack == db.job \in {"ready", "rejected"} /\ db.new = "building"

\* Whoever reads between two statements of a call finds the job, its version and
\* its question in agreement, unless the version was put back: each call writes all
\* of them or none.
OutcomeMatchesVersion ==
  /\ db.job \in {"running", "awaiting_input", "queued"} => db.new \in {"synthesizing", "building"}
  /\ db.job = "ready" => PutBack \/ db.new \in {"ready", "revoked"}
  /\ db.job = "rejected" => PutBack \/ db.new = "rejected"
  /\ db.job = "awaiting_input" <=> db.input = "pending"

\* A revocation and a publication of the same tool that run at once leave the
\* stable pointer on a ready version, or NULL with none ready (both lock tools); the
\* version it names can only have been put back.
StableIffReady ==
  IF db.stable = "none"
  THEN \A v \in Versions : db[v] # "ready"
  ELSE db[db.stable] = "ready" \/ (db.stable = "new" /\ db.job = "ready" /\ PutBack)

\* Both hold of the rows that are committed, at every statement of every call, also
\* when a worker that has lost the job goes on beside the one that has it.
RowsAgree == OutcomeMatchesVersion /\ StableIffReady

\* However the statements of the calls interleave, and whichever are aborted, the
\* committed rows change as if each call had run alone, at its commit (set_job_stage:
\* each of its two statements): what it read under its locks is then still so, and it
\* leaves all of its writes or none.
Rows == INSTANCE JobRows
CallsAreAtomic == Rows!Spec

\* Postgres aborts a worker's or a user's transaction for a lock cycle in three
\* cases only: a trace event, which locks the agent run before the job, against a
\* cancellation, or against a publication, a question or an answer that came after the
\* worker of the event had lost the job; a publication against a revocation of the
\* version being published; and an answer against a cancellation of the job that
\* waits for it.
KnownLockCycles ==
  \A s \in Sessions : InLockCycle(s) =>
    \/ /\ \E w \in Workers : pc[w] = "append_event"
       /\ \E t \in Sessions : pc[t] \in {"cancel_run", "publish_run", "suspend_run", "answer_run"}
    \/ /\ \E w \in Workers : pc[w] = "publish_tool"
       /\ \E r \in Revokes : pc[r] = "revoke_version" /\ target[r] = "new"
    \/ /\ \E a \in Answers : pc[a] = "answer_job"
       /\ \E c \in Cancels : pc[c] = "cancel_input"

\* The job comes to rest: "register waits by default until the job reaches
\* ready, rejected" (README), by its worker or, when the lease runs out, by
\* another one.
JobComesToRest == db.job = "running" ~> db.job # "running"
=============================================================================
