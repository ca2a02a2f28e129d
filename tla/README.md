# A verification project for JITForge

JITForge turns a described intent into a published command-line tool: a server takes
registrations, a worker lets an agent synthesise and test a program, and a registry in
PostgreSQL keeps jobs, versions, approvals and invocations. This directory models that
program in TLA+, checks the models with TLC and proves what matters most about them with
TLAPS. The models are written from the code; `PROJECT.json` maps each definition to the
lines it stands for.

## The system

| Part | State | Operations | Met by |
|---|---|---|---|
| Registry (`crates/jit-storage`) | `tools`, `tool_versions`, `synthesis_jobs`, `synthesis_agent_runs`, `synthesis_job_inputs` | register, claim, renew, set stage, checkpoint, suspend, answer, publish, reject, cancel, revoke | server and worker, over SQL |
| Worker session (`apps/jit-worker/src/jobs.rs`) | the claimed job, the future of `process_job`, the renewal interval | `run`, `handle_job`, `process_job` | registry, runner, model |
| Agent run (`jobs.rs`) | `AgentRun`, `AgentWorkspace`, budgets, the checkpoint | one tool call per turn, at most 24 turns | registry, artifact store, runner |
| Agent trace (`jit-storage`) | `synthesis_agent_events`, `trace_bytes`, archives | append, compact | worker and server |
| Artifact store (`crates/jit-artifact`) | directories named by digest, source images | put, load, remove, clean-up at start and after a job | worker |
| HTTP approvals (`jit-storage`, `jobs.rs`, `runner.rs`) | `http_capability_approvals` | approve by answer, revoke, check before a run | server, worker |
| Invocations (`jit-server`, `service.rs`, `runner.rs`) | `invocations`, containers | resolve, start, execute, finish | server to worker over gRPC |
| Web sessions (`jit-server/src/web.rs`) | a capped map with expiry | login, get, logout | browser |
| Model client (`synthesizer.rs`) | the call in flight | complete, review a contract, verify a generated test | agent run, model providers |
| Web access, CLI, console, configuration, runtimes, deployment | none that outlives a call | | |

The parts share the database and little else. The server and the workers are separate
processes; each has a pool of connections, and every method of `Registry` is one
transaction, or one or two autocommitted statements. A worker handles one job at a time,
in two arms of a `select!`: the future of `process_job`, and an interval of 30 s that
renews a lease of 300 s. While a renewal is awaited, `process_job` is not polled.

What is hard here, and is what the properties are about:

- workers crash, restart, or stall past their lease and then go on (`claim_synthesis_job`
  takes the job over, the old worker's calls still arrive);
- users answer, cancel and revoke while a worker is between two statements;
- some calls are not atomic (`set_job_stage`) or check without a lock (`ensure_job_owner`);
- transactions lock rows in different orders;
- budgets and attempts have to hold over crashes and replays: a job that resumes runs the
  tool call again that stopped it, and looks up what the user answered;
- requests to the server are dropped where they await, and what they have started outlives
  them.

The full list, with lines, is under "hazards" in `PROJECT.json`.

## Modules

**Registry** (`Registry.tla`, `MCRegistry.tla`) is the core: the registry's tables and the
worker sessions. One action is one transaction. Each column that decides anything is a
function of its own: `latest` and `stable` (of `tools`), `version` (`tool_versions.status`),
`status`, `stage`, `owner`, `lease`, `attempts` (`synthesis_jobs`), `run` (who wrote the
checkpoint), `input` and `resume` (`synthesis_job_inputs`). `holds` and `late` are the
worker processes: the job one works on, and the statement of a split call it has yet to
send. Actions carry the names of the methods. Two calls are split: `set_job_stage`
(`SetStage`, `SetVersionStatus`) and `save_agent_checkpoint` (`CheckOwner`,
`WriteCheckpoint`). A call refused by its guard changes nothing; a worker that is refused
drops its job (`DropJob`). A cancelled question is told apart from an answered one, which
the code stores as an answer of type `reject`. Time exists only as the state of a lease.
A job and its version share a key, `<<tool, revision>>`, as the same transaction inserts
both. Not in this module: contracts, artifacts, traces, and the ordering of claims.

**JobLocks** (`JobLocks.tla`, `MCJobLocks.tla`) opens the transactions up: `publish_job`,
`suspend_job_for_input`, `answer_job_input`, `cancel_job`, `reject_job`, `set_job_stage`,
`append_agent_event`, `renew_job_lease`, `revoke_tool_version` and `claim_synthesis_job` run
statement by statement for one job, with PostgreSQL's row locks (`FOR UPDATE`, plain updates,
and the key-share locks of foreign keys), uncommitted writes, the deadlock detector, and the
two arms of `handle_job`. It shows what Registry takes for granted, that each transaction acts
as one step, and where that fails. The tables named `...Needs` list the row each statement
locks, `locks` and `pending` what a transaction holds and has written. `Workers`, `Cancels`,
`Answers` and `Revokes` are any number of workers and users' calls. Each worker claims the job
when it is queued or its lease has run out and then runs `process_job`, in any order of its
calls, beside whoever has lost the job and goes on: `renewal` says per worker whether a renewal
is under way and whether a result waits for it. Those in `Failing` may stop or lose a
connection at any statement. A member of `Workers` claims once; the same process that claims
again is another member. One tool, one published version and one job under way are enough: rows
of other jobs are locked by nobody here, and only a revocation and a publication share the row
of the tool. A question is asked of a call id that has none yet.

**JobRows** (`JobRows.tla`) is the abstract specification of JobLocks: the committed columns of
that job, each call one step on them, taken when its conditions hold. The second statement of
`set_job_stage` has no condition there either. It has no sessions and no locks; JobLocks
implements it (`CallsAreAtomic`).

**TraceBudget** (`TraceBudget.tla`) is the byte budget of a job's trace: how an event is
recorded (in full, as a marker, not at all) and the reserve for the event that ends the
job. It contains its own proofs, which are short.

**Artifacts** (`Artifacts.tla`, `MCArtifacts.tla`) is the artifact directory and the source
images, and everything that writes or removes them: `put` in its two parts (look, rename),
`build_artifact`, the tests that load the artifact again, publication, the clean-up after
a job (`cleanup_candidates`) and the one at a worker's start (`cleanup_stale_state`). A
step is one statement, one pass over the directory or one removal. `pc` is where a worker
is; `job`, `candidates`, `current` and `kept` are the session's variables, `refs` and
`doomed` what a clean-up has read and has yet to remove. Leases and attempts are Registry's
matter: here a running job can be claimed again when no live worker is at it.

**HttpApprovals** (`HttpApprovals.tla`, `MCHttpApprovals.tla`) follows a capability from
the agent's request over the user's answer to the grant in a published artifact and the
check before it runs. The request is taken apart at each call to the database, since a
crash between two of them makes the worker execute it again from the checkpoint.
`approval` is the table of approvals, `answer` the questions of a job by call id, `saved`
the checkpoint, `call` and `caps` the worker's memory, `grants` the published manifest.
`approved` and `consent` record what users said and exist for the properties only. The
constant `FreshIds` says whether the model provider numbers its calls afresh: the code
relies on it without enforcing it.

**JobLife** (`JobLife.tla`) is the abstract specification: what whoever registered a job
sees of it (its status, whether a question is open, whether its version is out), with none
of the workers, leases, attempts, stages or checkpoints. Two detailed specifications are
shown to implement it, with `INSTANCE ... WITH`: Registry in **RegistryLife**, for all jobs
at once, and Agent for its one job, there with fairness. A crash, a takeover, a late
statement, a replayed tool call and a retried request are stutters; a question that opened
in another step than the one that stops the job, or a version that came out in another step
than the one that ends it, would not be steps of it.

**ModelClient** (`ModelClient.tla`) is one call of the language models, with its three
nested loops (provider retries inside protocol feedback inside a second attempt), the
fallback from the primary model and the checks of an answer. Agent extends it.

**Agent** (`Agent.tla`, `MCAgent.tla`) is the agent run of one job: `process_job`,
`drive_agent`, the tools, the workspace, the checkpoint, the questions and the gates before
publication. `job`, `attempts`, `saved`, `inputs` and `published` are the registry's rows
and survive the worker; `pc`, `ws`, `run` and `call` are its memory and die with it. An
action ends where `drive_agent` awaits and another step matters, so `Crash` falls between
any two of them, and `Claim` resumes from `saved`. A test is the result it expects, a source
the result it has on each check, so that a wrong example, a wrong oracle and a wrong
implementation are told apart. `sanctioned` (what a review or a verdict accepted) and
`spent` (sandbox work really done) are history for the properties.

**WebSessions**, **Registration**, **Invocations** and **Server** (`MCServer.tla`) are
jit-server. `WebSessions` is the capped map of browser sessions with its clock.
`Registration` runs `register` by statement with its two advisory locks; the unique columns
of the tables are guards whose failure would be an answer of its own. `Invocations` is
`invoke_tool`, the worker's `Execute` and `execute_inner` with a container that lives on when
nobody waits for it, when `docker rm` fails, or when the docker CLI fails under the runner,
which then returns without `terminate`; `kept` says which. `Server` composes the three behind `require_auth`: requests
arrive by token or session, run side by side, and are answered, dropped by their client, or
lost with the process. `revokedBefore`, `terms` and `loggedOut` are history.

**RegistryProofs**, **RegistryLifeProofs**, **ArtifactsProofs**, **HttpProofs**,
**AgentProofs**, **ServerProofs** and **JobLocksProofs** hold the theorems about the modules
they are named for.

## Runs

| Run | What it asks | Result |
|---|---|---|
| `registry` | two workers that may crash, two revisions of one tool, two questions per job | all invariants and action properties hold, and every job lives as JobLife says; 1,801,258 states |
| `registry_stalls` | three workers that may also outlive their lease, one revision; fairness | questions and terminal jobs stay sound, every job comes to rest, 40,787 states |
| `registry_stage` | no transition leads out of rejected or revoked | violated |
| `job_locks` | the transactions on one job interleaved by statement: two workers that take it over from each other, stop and lose connections, a cancellation, an answer, a revocation | the committed rows agree at every statement but for a version that was put back, one outcome, each call is one step of JobRows, only the known lock cycles; 877,110 states up to symmetry |
| `job_locks_renewal` | a registered job comes to rest | violated |
| `trace_budget` | events of sizes below and above both limits | hold |
| `agent` | one job through every tool, question and gate, with crashes anywhere; fairness | what is published earned it, answers arrive and are asked for once, lost work and requests are bounded, the job comes to rest and implements JobLife; 612,987 states |
| `server` | a registration against its retry, another body, another key or a revocation, and an invocation, with sessions, restarts and lost workers; fairness | keys, rows, containers, revocations and sessions keep their promises and every request ends; 368,305 states |
| `artifacts` | one worker that crashes, restarts and cleans up; two registrations that can produce the same artifact, two artifacts of one source | published artifacts and checkpointed candidates stay, a start whose removals succeed collects the rest, 421,790 states |
| `artifacts_two` | the same with two workers: does a published artifact stay? | violated |
| `http_approvals` | two jobs that request, release and replay three capabilities, at most two at a time | grants were approved and the runner's count is exact, 2,644,408 states up to symmetry |
| `http_replay` | "Revoking an approval prevents artifacts that reference it from making further networked calls" | violated |

Bounds. Two workers suffice for a takeover and a stale owner; they are symmetric in the
safety run, and not in the run that checks liveness. Two revisions let one be published
or revoked while the other is under way, and let the stable pointer fall back. Two call
ids let a job ask again after an answer. `UsedStages` keeps one stage that leaves the
version `synthesizing` and one that does not; the others differ only in their names.
`MaxClaims` bounds takeovers (a crash or an expiry beyond it is cut off). With two
attempts and three claims a job that was taken over can still be published, and a job with
its attempts used up occurs as well. With stalls one revision is enough for what is asked
there, and three workers let two former owners go on beside the present one.
In `job_locks` a worker that has lost the job meets the one that has taken it, with every pair
of their calls, and one user's call of each kind meets both; the revocation is for either
version. Its two workers are interchangeable, so TLC takes them as symmetric. More sessions
add no state to the rows, and JobLocksProofs leaves their number open. `TraceBudget` scales the
limits down and keeps their order: a marker is smaller than the reserve, payloads lie on
both sides of every limit. Deadlock is not checked where registrations are bounded or the
scenario ends, because there the system may stop.

`agent` has one input sample, one strict example, one generated test, two results and three
sources: one source right for the example as registered, one right for its correction, one
that fails on the sample. That is enough for an example the user corrects, a generated test
whose oracle is wrong, and a failure that moves from one check to another. Five turns reach
a publication with a question or a correction before it; `MaxTurns` is 24 in the code, which
only lengthens runs. Two attempts are one crash with its replay and one that uses the
attempts up. One retry of each kind in `ModelClient` shows the counts that reset each other;
`RequestsBounded` is proved for any number.

`server` has three requests, which is a registration against a rival and an invocation
beside both; two keys for one tool give two revisions and a stable pointer that can fall
back. One session at most and two logins make every login evict; a term and a clock of one
let a session run out. Larger session bounds (three logins, two sessions, a term of two;
4.2 million states) found nothing more for the invariants.

One worker is what the shipped deployment runs, and what `artifacts` shows; a crash gives
it every half-done clean-up, and two jobs let a clean-up after one meet the candidates of
the other, also when both are the same artifact. Three capabilities and a limit of two let
a request meet a full list and a release free a place; two call ids let a job ask for
another capability, or again for the same one, after an answer.

Fairness. `agent` assumes only that a session goes on (`SessionStep`): a worker polls for
jobs, a request to a provider is answered or times out after 90 s, and every wait for the
sandbox has a limit. No answer of a model is fair, and no user has to answer. `server`
assumes that a handler goes on (`Handle`): its task is polled, PostgreSQL answers, and a
wait for a container ends by the time limit if by nothing else; nothing is assumed of
programs, clients and restarts. In `registry_stalls`: workers poll for jobs, leases run out, a worker that has
lost its job notices, and a worker ends its run, because an agent run has at most 24
turns and every error leads to `reject_job`. Users owe nothing: a job may wait for an
answer for ever, and "comes to rest" counts that. `job_locks_renewal` assumes that sessions and
PostgreSQL's deadlock detector go on, that `process_job` makes progress between two ticks of
30 s, which is strong fairness of `Process`, and that it comes to a publication in the end. No
worker stops and no connection is lost there (`Failing` is empty). Without ticks the property
holds under the same assumptions, so the violation is due to the renewal.

### What the violated runs show

- `registry_stage`: the second statement of `set_job_stage` has no condition. A worker
  that has sent the first one, and whose job is cancelled before the second, leaves the
  rejected version `building` (or `synthesizing`, `validating`).
- `job_locks_renewal`: a tick of the renewal interval between two statements of
  `publish_job` blocks the renewal on the job's row, which the transaction holds that only
  `process_job` could finish. PostgreSQL sees an idle transaction and no cycle; another
  worker passes over the locked row. The job stays `running` until the worker stops.

- `artifacts_two`: a starting worker reads the references, lists the directory and removes
  what is not referenced. What another worker has stored and not yet checkpointed is in
  the list; it is tested and published meanwhile, and then removed. The clean-up after a
  job has the same gap when two jobs produce the same artifact. It takes two worker
  processes on one directory, as when a new one starts before the old one has stopped.
- `http_replay`: the answer to a request is applied by `approve_http_capability`, which
  makes the row active whatever it was. If the worker crashes after that and before its
  next checkpoint, the request is replayed, and if the user has revoked the approval in
  the meantime it becomes active again, for every artifact that refers to it. The same
  happens without a crash when another job's answer is applied after the revocation.

One more disagreement is recorded here without a run of its own: "Cancel a queued, running,
or suspended synthesis job" (`src/apps/jit-cli/src/main.rs:113`) does not hold of a job
that no worker has checkpointed. `cancel_job` appends an event at its end
(`src/crates/jit-storage/src/lib.rs:847`), which fails while the job has no agent run
(`lib.rs:1464`), and the transaction is rolled back. `CancelJob` in Registry has the guard.

One thing the passing run `artifacts` leaves out on purpose: `CheckpointsKeepCandidates`
speaks of running and waiting jobs, as `referenced_artifacts_inner` does. A job that an
answer has queued again is not among them, so a clean-up between the answer and the next
claim removes its candidates; the agent then finds its current artifact gone.

## Proofs

All theorems hold for every set of tools, workers, sessions and call ids and for all bounds.
The assumptions on the constants only say what they are: `RegistryAssumption`, and
`LocksAssumption`, by which the sessions of JobLocks are different ones.

- `TypeCorrect` first. The one hard part is the pointer after a revocation:
  `NextStable` takes the `Max` of a set, and `MaxOfBounded` shows that it exists.
- `RowsInv` (with `Unregistered`: a revision above `latest` has an untouched row) is
  inductive even when workers stall. From it follow `InputsMatch`, `ResumableJobs`, and,
  with one lemma about steps (`NextKeeps`), the action properties `TerminalStays`,
  `LeasesHold` and `AnswersStand`. `ExhaustedStaysUnpublished` needs no more.
- `RegistryInv` holds if live workers do not stall (`~MayStall`). `HeldJobIsOwned` and
  `HeldLeaseIsLive` say that a worker works on its own job until the job is rejected, and
  that its lease runs; hence no claim meets a held job (`OneWorker`), and a late second
  statement of `set_job_stage` never meets a published version (`LateBeforePublished`).
  That is what makes `VersionFits` and `StableIffReady` inductive and gives `JobsAgree`,
  `StableResolves` and `PublishedStays`. With stalls these do fail: the late statement
  then arrives after another worker has published, so the assumption cannot be dropped.
- `RegistryImplementsJobLife` gives the refinement for every set of jobs, workers and
  bounds. Each action of Registry is a step of JobLife or a stutter; what is needed beyond
  types is `InputMatchesStatus` (a question is open exactly while the job waits), that a
  second question is not asked while one is open, and `LateBeforePublished`, without which
  a late statement would take a published version back. Hence it, too, assumes `~MayStall`.
- `ArtifactsTypeCorrect` holds for any number of workers. `PublishedStayStored` assumes one
  (`OneWorker`). Its invariant says that nothing published is about to be removed: a
  worker's `refs` hold every published digest from the first query of a clean-up on
  (nothing is published while its only worker cleans up), `doomed` avoids them, and a
  candidate about to be published is in the store. A removal always succeeds here, so
  `StartsCollectOrphans` speaks of a start whose removals all do: the code only warns of one
  that fails, or ignores it, and tries it again at the next start. `StartsCollectOrphans` and `CandidatesKept`
  have the same assumption and an invariant of their own, `SweepInv`: what a start has read of
  the references stays named and covers the checkpoints of running and waiting jobs
  (`RefsNamed`), what is left in the store is referenced or about to go (`StartCollects`), and
  no sweep is about to remove what the checkpoint of another such job names
  (`DoomedUnnamed`). Only `Remove` takes a directory away (`OnlyRemovalsShrink`), so the
  second follows from that. Both fail with a second worker, which may store a candidate after
  the listing, or save a checkpoint between the query and the removal.
- JobLocksProofs has the argument for two-phase locking. For each session its place in its
  call fixes the locks it holds and what it has written (`Shape`), and what it has read under
  them is still so in the committed rows (`Knows`). A COMMIT changes only columns of rows its
  session has locked (`ChangesLocked`), and two sessions never hold conflicting locks
  (`Exclusive`, `LockedApart`), so nobody's knowledge is disturbed by another. Then each COMMIT
  is a step of JobRows and every other statement leaves the rows alone (`StepKeeps`), which is
  `JobLocksImplementsJobRows`. `RowsAlwaysAgree` and `OutcomeOnce` are proved of JobRows
  (`RowsKept`), where a call is one step, and carried over. The second statement of
  `set_job_stage` is the only write that relies on nothing it has read. A worker that has lost
  the job may send it after the new owner has published, or after a cancellation, and takes the
  version back (`PutBack`): `RowsAgree` names that as the one disagreement there is, with the
  outcome of the job unchanged. `OnlyKnownCycles` ranks the statements by the row they wait for;
  outside the three cases (a trace event against a cancellation, publication, question or
  answer; a publication against a revocation; an answer against a cancellation) a session waits
  only for sessions of a lower rank, so no chain of waits, however long, comes back to where it
  started.
- `HttpTypeCorrect` and `RunnerCheckIsExact` need nothing about call ids. A list of
  capabilities never has a duplicate (`UniqueAt`, with the lemmas `AppendKeeps` and
  `RemoveKeeps`), because a call that is looked up is not in the list; a list without
  duplicates has as many members as its length (`CountIsExact`). `OnlyApprovedIsGranted`
  assumes `FreshIds`: the answer found under the id of a call was given for that call
  (`AnswerAt`), which a repeated id would break.
- AgentProofs is layered. `Shape` is what the session's place implies of its memory (a
  pending call while a tool runs, a source before an evaluation, the counts of `call` within
  its loops), and gives `AgentTypeCorrect` and `CallsBounded`. `SavedInv` ties the checkpoint
  to it: the memory differs from the checkpoint by at most the piece of work under way.
  `QuestionInv` ties both to the questions: the newest open question is the call the
  checkpoint waits for, and each answered one is in the checkpoint or is the call that will
  be replayed. From these follow `AnswersArrive` and `AskedOnce`. `EarnedInv` (a test in a
  draft is the original, an approved correction or a sanctioned result, in memory and in the
  checkpoint) gives `PublishedEarned`; `WorkInv` counts the work since the last checkpoint
  and gives `UncountedWork`. `OnlyFailingTestsChange` is an action property from `Shape`, and
  `AgentImplementsJobLife` the refinement without its fairness.
- ServerProofs has an invariant for each part. `SessionsInv` adds to the properties only that
  a session logged out had been issued; the bound of the map needs that an eviction removes
  a member. `RegistryInv` has the mutual exclusion of both advisory locks (`Exclusive`) and
  that what a transaction has read is still so (`TxFits`); that a revision fits its range
  takes a counting argument (`RoomForRevision`: the versions of a tool are the image of its
  keys, and the key under way has none yet). `RunInv` says, place by place, what the row and
  the container of an invocation are, and which failure can have left a container with which
  answer (`MayRunOn`), from which `ContainersEnd` follows. `RevokedInv` needs the last two: a version revoked
  before the request is still revoked when the invocation chooses its version.
- `TraceWithinBudget` and `LastEventKept` rest on one assumption on sizes: the marker for
  an omitted event fits into the reserve.

Three theorems are about properties no run lists, since the runs check stronger or other ones:
`LeasesHold` (a claim leaves a live lease alone; the runs check `OneWorkerPerJob`),
`AnswersStand` (a given answer is not changed) and `PublishedStays`.

Only model-checked is liveness (`JobsSettle`, `JobComesToRest`, `RequestsEnd`, and the fairness
part of `AgentLivesAsPromised`), which the prover cannot do. Every invariant and every action
property of a passing run is stated by a theorem.

## Not modelled

Parts of modelled components:

- `register` is not in JobLocks: it is taken apart in Registration.
- A question asked a second time under its call id, for which `suspend_job_for_input` returns
  the first, is one statement and a COMMIT that writes nothing; in JobLocks it is left out.
- Requests refused before any state is touched (names, sizes, formats, media types), and a
  malformed worker token, which fails an invocation after its row is written
  (`src/apps/jit-server/src/main.rs:639-647`) and leaves it "running" like a lost write.
- Fixtures of generated HTTP tests: a test is its expectation, so that releasing a capability
  after its tests were accepted is not told apart (see the hazard at `jobs.rs:843`).
- A revocation of an approval between the runner's check and the start of the container
  (`runner.rs:251`): the check of one run is exact at its query, and nothing promises more.
- `compact_agent_traces`, which moves the events of finished jobs to the table
  `synthesis_agent_trace_archives` in one transaction, and the text columns. `save_contract`
  updates the one row of its version in an autocommitted statement, so it is in no lock cycle.
- A removal that fails in a clean-up (`src/apps/jit-worker/src/main.rs:147-180`,
  `runner.rs:205`): it is warned of or ignored, and what stays is removed at the next start.
- `Invocations` takes it that the docker CLI closes its pipes only when it ends itself (the
  runner then waits for it without the time limit, `runner.rs:348-351`), and that an exit code
  below 125 is the program's.

Left out for good, because they hold no state that outlives a call or are data and text:
prompts and schemas, address filtering of web access and of the Python runtime, argument
parsing and printing of the CLI, the console, configuration and deployment. Comparing JSON
numbers as text (`normalized_json_number`) would need numerals digit by digit and says
nothing about the behaviour of the system.

What could still be added: a composition of Agent with HttpApprovals for jobs that use both.
