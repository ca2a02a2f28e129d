------------------------------ MODULE Registry ------------------------------
(***************************************************************************)
(* The PostgreSQL registry of JITForge (crates/jit-storage) together with  *)
(* the worker sessions that drive it (apps/jit-worker, run and handle_job).*)
(*                                                                         *)
(* One action is one database transaction.  Two calls of the code are not  *)
(* one transaction, or read without a lock, and are split where another    *)
(* transaction can come between: set_job_stage (two autocommitted          *)
(* statements) and save_agent_checkpoint (a check without a row lock,      *)
(* then the upsert).  A call refused by its guard changes nothing and      *)
(* needs no action, except that a worker whose lease is lost drops its job.*)
(*                                                                         *)
(* A version and its synthesis job are inserted by the same transaction    *)
(* and joined one to one, so both are named by <<tool, revision>>.  The    *)
(* clock appears only as the state of a lease: live, or expired.  The      *)
(* order of claims (created_at) is left open because SKIP LOCKED lets any  *)
(* claimable row be the first one that is not locked.                      *)
(***************************************************************************)
EXTENDS Integers, FiniteSetsExt

CONSTANTS
  Tools,          \* tool names
  Workers,        \* worker ids; a restarted worker may come back with its id
  CallIds,        \* ids of the agent's tool calls that may ask the user
  UsedStages,     \* the working stages a bounded instance passes through
  MaxRevision,    \* bound: registrations of one tool
  MaxClaims,      \* bound: times a job can be taken up from a lost worker, plus one
  MaxAttempts,    \* MAX_JOB_ATTEMPTS
  MayStall,       \* whether a live worker can let its lease run out
  NoWorker, NoJob \* NULL

Revisions == 1..MaxRevision
Versions == Tools \X Revisions

WorkingStages == {"contract", "synthesizing", "building", "validating", "repairing"}

ASSUME RegistryAssumption ==
  /\ MaxRevision \in Nat /\ MaxAttempts \in Nat /\ MaxClaims \in Nat \ {0}
  /\ MayStall \in BOOLEAN
  /\ UsedStages \subseteq WorkingStages
  /\ NoWorker \notin Workers
  /\ NoJob \notin Versions

JobStatuses == {"absent", "queued", "running", "awaiting_input", "ready", "rejected"}
JobStages == WorkingStages \cup {"queued", "awaiting_input", "complete"}
VersionStatuses ==
  {"absent", "draft", "contract_ready", "synthesizing", "building", "validating",
   "ready", "rejected", "deprecated", "revoked"}
InputStatuses == {"absent", "pending", "answered", "cancelled"}
LateStatements == {"none", "checkpoint", "synthesizing", "building", "validating"}

VARIABLES
  latest,    \* tools.latest_revision
  stable,    \* tools.stable_revision, 0 for NULL
  version,   \* tool_versions.status
  status,    \* synthesis_jobs.status
  stage,     \* synthesis_jobs.stage
  owner,     \* synthesis_jobs.worker_id
  lease,     \* synthesis_jobs.lease_until: none, live or expired
  attempts,  \* synthesis_jobs.attempts
  run,       \* synthesis_agent_runs: who wrote the checkpoint, NoWorker for no row
  input,     \* synthesis_job_inputs: the row of each call id
  resume,    \* synthesis_job_inputs.resume_stage of the newest row of a job
  holds,     \* per worker process: the job it works on
  late       \* per worker process: the statement of a split call it has yet to send

toolVars == <<latest, stable, version>>
jobVars == <<status, stage, owner, lease, attempts>>
inputVars == <<input, resume>>
workerVars == <<holds, late>>
vars == <<toolVars, jobVars, run, inputVars, workerVars>>

Init ==
  /\ latest = [t \in Tools |-> 0]
  /\ stable = [t \in Tools |-> 0]
  /\ version = [v \in Versions |-> "absent"]
  /\ status = [v \in Versions |-> "absent"]
  /\ stage = [v \in Versions |-> "queued"]
  /\ owner = [v \in Versions |-> NoWorker]
  /\ lease = [v \in Versions |-> "none"]
  /\ attempts = [v \in Versions |-> 0]
  /\ run = [v \in Versions |-> NoWorker]
  /\ input = [v \in Versions |-> [c \in CallIds |-> "absent"]]
  /\ resume = [v \in Versions |-> "contract"]
  /\ holds = [w \in Workers |-> NoJob]
  /\ late = [w \in Workers |-> "none"]

-----------------------------------------------------------------------------
(* The conditions and values the statements share.                         *)

RejectedOnly == {"rejected"}
Terminal == {"ready", "rejected"}
UnderWay == {"queued", "running", "awaiting_input"}

\* WHERE id = $1 AND worker_id = $2 AND status = 'running'
OwnsAnyStatus(w, j) == owner[j] = w
Owns(w, j) == owner[j] = w /\ status[j] = "running"

\* ensure_job_owner: the owner of a published job still writes its trace.
OwnsRun(w, j) == owner[j] = w /\ status[j] \in {"running", "ready"}

\* The candidates of claim_synthesis_job.
ClaimableLive(j) == status[j] \in {"queued", "running"}
ClaimableQueued(j) == status[j] = "queued"
Claimable(j) ==
  \/ status[j] = "queued"
  \/ status[j] = "running" /\ lease[j] = "expired"

\* CASE of claim_synthesis_job: the first claim, or one after an answer, whose
\* stage is set already and whose attempt was counted before the question.
FirstClaim(j) == status[j] = "queued" /\ stage[j] = "queued"
ClaimAfterAnswer(j) == status[j] = "queued" /\ stage[j] # "queued"

ClaimedVersionStatus(s) ==
  IF s \in {"draft", "contract_ready", "synthesizing"} THEN "synthesizing" ELSE s

\* The status set_job_stage gives the version.
StageAsStatus(s) == s
VersionStatusOf(s) == IF s \in {"building", "validating"} THEN s ELSE "synthesizing"

\* Whether append_agent_event_in_transaction finds the agent run of the job.
NoRunNeeded(j) == TRUE
HasRun(j) == run[j] # NoWorker

\* The rows the auto-answer of cancel_job touches.
CancelNone(i) == i
CancelAny(i) == IF i = "absent" THEN i ELSE "cancelled"
CancelInput(i) == IF i = "pending" THEN "cancelled" ELSE i

\* The pointer after a revocation: the newest version that is still ready.
StableUnchanged(t, r) == stable[t]
NextStable(t, r) ==
  IF stable[t] = r
  THEN Max({0} \cup {x \in Revisions \ {r} : version[<<t, x>>] = "ready"})
  ELSE stable[t]

\* The worker is inside process_job, between two statements; handle_job enters
\* it only when attempts <= MAX_JOB_ATTEMPTS.
ProcessesAlways(w) == holds[w] # NoJob /\ late[w] = "none"
Processes(w) ==
  /\ holds[w] # NoJob
  /\ late[w] = "none"
  /\ attempts[holds[w]] <= MaxAttempts

\* The worker process forgets its job and what it had not sent.
LetGo(w) ==
  /\ holds' = [holds EXCEPT ![w] = NoJob]
  /\ late' = [late EXCEPT ![w] = "none"]

-----------------------------------------------------------------------------
(* The users' calls, made by the server.                                   *)

\* register, a key that is new: a replayed key answers from the stored row.
Register(t) ==
  LET v == <<t, latest[t] + 1>> IN
  /\ latest[t] < MaxRevision
  /\ latest' = [latest EXCEPT ![t] = latest[t] + 1]
  /\ version' = [version EXCEPT ![v] = "draft"]
  /\ status' = [status EXCEPT ![v] = "queued"]
  /\ UNCHANGED <<stable, stage, owner, lease, attempts, run, inputVars, workerVars>>

\* answer_job_input
AnswerInput(j, c) ==
  /\ input[j][c] = "pending"
  /\ status[j] = "awaiting_input"
  /\ HasRun(j)
  /\ input' = [input EXCEPT ![j][c] = "answered"]
  /\ status' = [status EXCEPT ![j] = "queued"]
  /\ stage' = [stage EXCEPT ![j] = resume[j]]
  /\ owner' = [owner EXCEPT ![j] = NoWorker]
  /\ lease' = [lease EXCEPT ![j] = "none"]
  /\ UNCHANGED <<toolVars, attempts, run, resume, workerVars>>

\* cancel_job: the last statement appends an event, which needs the agent run.
CancelJob(j) ==
  /\ status[j] \notin Terminal \cup {"absent"}
  /\ HasRun(j)
  /\ status' = [status EXCEPT ![j] = "rejected"]
  /\ stage' = [stage EXCEPT ![j] = "complete"]
  /\ owner' = [owner EXCEPT ![j] = NoWorker]
  /\ lease' = [lease EXCEPT ![j] = "none"]
  /\ version' = [version EXCEPT ![j] = "rejected"]
  /\ input' = [input EXCEPT ![j] = [c \in CallIds |-> CancelInput(input[j][c])]]
  /\ UNCHANGED <<latest, stable, attempts, run, resume, workerVars>>

\* revoke_tool_version
RevokeVersion(t, r) ==
  /\ version[<<t, r>>] \in {"ready", "deprecated"}
  /\ version' = [version EXCEPT ![<<t, r>>] = "revoked"]
  /\ stable' = [stable EXCEPT ![t] = NextStable(t, r)]
  /\ UNCHANGED <<latest, jobVars, run, inputVars, workerVars>>

-----------------------------------------------------------------------------
(* A worker process: one job at a time.                                    *)

\* claim_synthesis_job
Claim(w, j) ==
  /\ holds[w] = NoJob
  /\ Claimable(j)
  /\ status' = [status EXCEPT ![j] = "running"]
  /\ stage' = [stage EXCEPT ![j] = IF FirstClaim(j) THEN "contract" ELSE stage[j]]
  /\ attempts' = [attempts EXCEPT ![j] = attempts[j] + IF ClaimAfterAnswer(j) THEN 0 ELSE 1]
  /\ owner' = [owner EXCEPT ![j] = w]
  /\ lease' = [lease EXCEPT ![j] = "live"]
  /\ version' = [version EXCEPT ![j] = ClaimedVersionStatus(version[j])]
  /\ holds' = [holds EXCEPT ![w] = j]
  /\ UNCHANGED <<latest, stable, run, inputVars, late>>

\* renew_job_lease, also when the lease has run out and nobody took the job
RenewLease(w) ==
  /\ holds[w] # NoJob
  /\ Owns(w, holds[w])
  /\ lease' = [lease EXCEPT ![holds[w]] = "live"]
  /\ UNCHANGED <<toolVars, status, stage, owner, attempts, run, inputVars, workerVars>>

\* set_job_stage, first statement; process_job saves a checkpoint before it.
SetStage(w, s) ==
  LET j == holds[w] IN
  /\ Processes(w)
  /\ HasRun(j)
  /\ Owns(w, j)
  /\ stage' = [stage EXCEPT ![j] = s]
  /\ lease' = [lease EXCEPT ![j] = "live"]
  /\ late' = [late EXCEPT ![w] = VersionStatusOf(s)]
  /\ UNCHANGED <<toolVars, status, owner, attempts, run, inputVars, holds>>

\* set_job_stage, second statement: no condition on the job or its owner
SetVersionStatus(w) ==
  /\ late[w] \in {"synthesizing", "building", "validating"}
  /\ version' = [version EXCEPT ![holds[w]] = late[w]]
  /\ late' = [late EXCEPT ![w] = "none"]
  /\ UNCHANGED <<latest, stable, jobVars, run, inputVars, holds>>

\* save_agent_checkpoint: ensure_job_owner takes no lock ...
CheckOwner(w) ==
  /\ Processes(w)
  /\ OwnsRun(w, holds[w])
  /\ late' = [late EXCEPT ![w] = "checkpoint"]
  /\ UNCHANGED <<toolVars, jobVars, run, inputVars, holds>>

\* ... and the upsert follows.
WriteCheckpoint(w) ==
  /\ late[w] = "checkpoint"
  /\ run' = [run EXCEPT ![holds[w]] = w]
  /\ late' = [late EXCEPT ![w] = "none"]
  /\ UNCHANGED <<toolVars, jobVars, inputVars, holds>>

\* suspend_job_for_input, called once answered_job_input has found no answer.
\* Its branch for a call id that is pending already would need a running job
\* with a pending input, which InputMatchesStatus excludes.
SuspendForInput(w, c) ==
  LET j == holds[w] IN
  /\ Processes(w)
  /\ Owns(w, j)
  /\ stage[j] \notin {"queued", "awaiting_input", "complete"}
  /\ input[j][c] = "absent"
  /\ HasRun(j)
  /\ input' = [input EXCEPT ![j][c] = "pending"]
  /\ resume' = [resume EXCEPT ![j] = stage[j]]
  /\ status' = [status EXCEPT ![j] = "awaiting_input"]
  /\ stage' = [stage EXCEPT ![j] = "awaiting_input"]
  /\ owner' = [owner EXCEPT ![j] = NoWorker]
  /\ lease' = [lease EXCEPT ![j] = "none"]
  /\ LetGo(w)
  /\ UNCHANGED <<toolVars, attempts, run>>

\* publish_job; the worker goes on to its trace and its clean-up.
PublishJob(w) ==
  LET j == holds[w] IN
  /\ Processes(w)
  /\ Owns(w, j)
  /\ HasRun(j)
  /\ version' = [version EXCEPT ![j] = "ready"]
  /\ stable' = [stable EXCEPT ![j[1]] = j[2]]
  /\ status' = [status EXCEPT ![j] = "ready"]
  /\ stage' = [stage EXCEPT ![j] = "complete"]
  /\ lease' = [lease EXCEPT ![j] = "none"]
  /\ UNCHANGED <<latest, owner, attempts, run, inputVars, workerVars>>

\* reject_job, from handle_job after any error of process_job or of a renewal;
\* a renewal's error drops the future of process_job, with its next statement.
RejectJob(w) ==
  LET j == holds[w] IN
  /\ j # NoJob
  /\ Owns(w, j)
  /\ status' = [status EXCEPT ![j] = "rejected"]
  /\ stage' = [stage EXCEPT ![j] = "complete"]
  /\ lease' = [lease EXCEPT ![j] = "none"]
  /\ version' = [version EXCEPT ![j] = "rejected"]
  /\ LetGo(w)
  /\ UNCHANGED <<latest, stable, owner, attempts, run, inputVars>>

\* A call answered JobLeaseLost, or process_job done after publishing.
DropJob(w) ==
  /\ holds[w] # NoJob
  /\ ~Owns(w, holds[w])
  /\ LetGo(w)
  /\ UNCHANGED <<toolVars, jobVars, run, inputVars>>

-----------------------------------------------------------------------------
(* The environment: processes stop, and time passes.                       *)

Crash(w) ==
  /\ holds[w] # NoJob
  /\ attempts[holds[w]] < MaxClaims
  /\ LetGo(w)
  /\ UNCHANGED <<toolVars, jobVars, run, inputVars>>

\* Renewal every 30 s keeps the 300 s lease of a process that runs; with
\* MayStall the process or its connection can stop for longer than a lease.
LeaseExpires(j) ==
  /\ status[j] = "running"
  /\ lease[j] = "live"
  /\ attempts[j] < MaxClaims
  /\ MayStall \/ \A w \in Workers : holds[w] = j => owner[j] # w
  /\ lease' = [lease EXCEPT ![j] = "expired"]
  /\ UNCHANGED <<toolVars, status, stage, owner, attempts, run, inputVars, workerVars>>

UserStep ==
  \/ \E t \in Tools : Register(t)
  \/ \E j \in Versions, c \in CallIds : AnswerInput(j, c)
  \/ \E j \in Versions : CancelJob(j)
  \/ \E t \in Tools, r \in Revisions : RevokeVersion(t, r)

WorkerStep(w) ==
  \/ \E j \in Versions : Claim(w, j)
  \/ RenewLease(w)
  \/ \E s \in UsedStages : SetStage(w, s)
  \/ SetVersionStatus(w)
  \/ CheckOwner(w)
  \/ WriteCheckpoint(w)
  \/ \E c \in CallIds : SuspendForInput(w, c)
  \/ PublishJob(w)
  \/ RejectJob(w)
  \/ DropJob(w)

EnvironmentStep ==
  \/ \E w \in Workers : Crash(w)
  \/ \E j \in Versions : LeaseExpires(j)

Next == UserStep \/ (\E w \in Workers : WorkerStep(w)) \/ EnvironmentStep

Spec == Init /\ [][Next]_vars

\* What the scheduling of the code gives: a worker polls for jobs, time passes,
\* and a run of the agent ends because its budgets (24 turns) do.
Settle(w) == PublishJob(w) \/ RejectJob(w) \/ \E c \in CallIds : SuspendForInput(w, c)

Fairness ==
  /\ \A j \in Versions : WF_vars(\E w \in Workers : Claim(w, j))
  /\ \A j \in Versions : WF_vars(LeaseExpires(j))
  /\ \A w \in Workers : WF_vars(Settle(w)) /\ WF_vars(DropJob(w))

FairSpec == Spec /\ Fairness

-----------------------------------------------------------------------------
(* Properties.                                                             *)

\* Every column keeps to the values the migrations' CHECK constraints allow.
TypeOK ==
  /\ latest \in [Tools -> 0..MaxRevision]
  /\ stable \in [Tools -> 0..MaxRevision]
  /\ version \in [Versions -> VersionStatuses]
  /\ status \in [Versions -> JobStatuses]
  /\ stage \in [Versions -> JobStages]
  /\ owner \in [Versions -> Workers \cup {NoWorker}]
  /\ lease \in [Versions -> {"none", "live", "expired"}]
  /\ attempts \in [Versions -> Nat]
  /\ run \in [Versions -> Workers \cup {NoWorker}]
  /\ input \in [Versions -> [CallIds -> InputStatuses]]
  /\ resume \in [Versions -> WorkingStages]
  /\ holds \in [Workers -> Versions \cup {NoJob}]
  /\ late \in [Workers -> LateStatements]

Pending(j) == {c \in CallIds : input[j][c] = "pending"}

\* A job waits for the user exactly when one question of it is open: suspend,
\* answer and cancel keep two tables in step, so no job waits for nothing and no
\* answer finds a job that moved on.  It makes suspend's branch for a question
\* that is open already dead.
InputMatchesStatus ==
  \A j \in Versions :
    /\ Pending(j) # {} <=> status[j] = "awaiting_input"
    /\ \A c, d \in Pending(j) : c = d

\* A job that waits for the user, or is queued again by the answer, has an
\* agent run to resume from: the claim after an answer finds a checkpoint.
ResumableHasCheckpoint ==
  \A j \in Versions :
    \/ status[j] = "awaiting_input"
    \/ status[j] = "queued" /\ stage[j] # "queued"
    => run[j] # NoWorker

\* The stable pointer of a tool is a ready version, and it is NULL only when
\* no version is ready: a bare name resolves as long as anything is published
\* (publish_job, revoke_tool_version, resolve_tool).
StableIffReady ==
  \A t \in Tools :
    IF stable[t] = 0
    THEN \A r \in Revisions : version[<<t, r>>] # "ready"
    ELSE version[<<t, stable[t]>>] = "ready"

\* The job and the version it makes, two rows written by different statements,
\* tell the same story: a ready job has a version that was published, a job
\* under way has one that is not final, and a rejected job publishes nothing.
JobsAgreeWithVersions ==
  \A j \in Versions :
    /\ status[j] = "ready" => version[j] \in {"ready", "revoked"}
    /\ status[j] \in UnderWay =>
         version[j] \in {"draft", "synthesizing", "building", "validating"}
    /\ status[j] = "rejected" => version[j] \notin {"ready", "revoked"}

\* Two worker processes never work on one job (claim, lease and renewal).
OneWorkerPerJob ==
  \A w1, w2 \in Workers :
    holds[w1] = holds[w2] /\ holds[w1] # NoJob => w1 = w2

\* A job taken up more than MAX_JOB_ATTEMPTS times is never published.
ExhaustedNeverPublished ==
  \A j \in Versions : status[j] = "ready" => attempts[j] <= MaxAttempts

\* A job that is ready or rejected stays so, whatever a worker that has lost
\* it, a late renewal, a cancellation or an answer still sends.
TerminalJobsStay ==
  [][\A j \in Versions :
       status[j] \in Terminal => status'[j] = status[j]]_vars

\* No claim takes a job from a worker whose lease still runs.
LiveLeaseIsNotTaken ==
  [][\A j \in Versions :
       status[j] = "running" /\ lease[j] = "live" =>
         owner'[j] \in {owner[j], NoWorker}]_vars

\* A published version only ever becomes revoked, and revoked is final.
PublishedVersionsStay ==
  [][\A v \in Versions :
       /\ version[v] = "ready" => version'[v] \in {"ready", "revoked"}
       /\ version[v] = "revoked" => version'[v] = "revoked"]_vars

\* The answer to a question is never rewritten or asked for again, neither by a
\* cancellation nor by an agent that runs the call again after a crash.
AnswersStay ==
  [][\A j \in Versions, c \in CallIds :
       input[j][c] \in {"answered", "cancelled"} => input'[j][c] = input[j][c]]_vars

\* Every registered job comes to rest: published, rejected, or waiting for the
\* user, even when workers stop at any moment (README: "register waits by
\* default until the job reaches ready, rejected, or ... user input").
JobsSettle ==
  \A j \in Versions :
    status[j] \in {"queued", "running"} ~>
      status[j] \in {"awaiting_input", "ready", "rejected"}

\* can_transition_to declares no transition out of rejected or revoked.
FinalVersionsStay ==
  [][\A v \in Versions :
       version[v] \in {"rejected", "revoked"} => version'[v] = version[v]]_vars
=============================================================================
