------------------------------- MODULE Agent --------------------------------
(***************************************************************************)
(* The agent run of one synthesis job (jit-worker, jobs.rs): process_job,  *)
(* drive_agent, the tools and the workspace they change, the checkpoint    *)
(* that survives the worker, and the questions put to the user.            *)
(*                                                                         *)
(* The session's memory (pc, ws, run, call) dies with the worker; the      *)
(* registry's rows (job, attempts, saved, inputs, published) do not.  Each *)
(* await of drive_agent at which other steps matter ends an action, so a   *)
(* crash falls between any two of them.  Leases, stages and cancellation   *)
(* are in Registry, the HTTP capability tools in HttpApprovals, the trace  *)
(* in TraceBudget, candidates' files in Artifacts.                         *)
(*                                                                         *)
(* A test is its expectation and a source the result it has on every       *)
(* check; a result stands for stdout and exit code together.  The current  *)
(* artifact needs no variable: a change of source or tests stores it anew  *)
(* in the same call.  Turns of the model are external up to the tool call. *)
(***************************************************************************)
EXTENDS ModelClient, Sequences, FiniteSets

CONSTANTS
  Samples, Examples, GenTests, \* checks: input samples, user and generated tests
  Results,            \* what a run of a source can give
  Broken,             \* a result no input sample may give
  Original,           \* the result each registered example asks for
  Sources,            \* the sources the model may write
  Keys,               \* decision keys
  Lookups,            \* search_web, fetch_document, probe_http
  MaxTurns,           \* MAX_AGENT_TURNS
  MaxSourceRevisions, \* MAX_SOURCE_REVISIONS
  MaxTestCorrections, \* MAX_GENERATED_TEST_CORRECTIONS
  MaxProbes,          \* MAX_PROBES
  MaxLookups,         \* MAX_WEB_SEARCHES, MAX_DOCUMENT_FETCHES, MAX_HTTP_PROBES
  MaxAttempts,        \* MAX_JOB_ATTEMPTS
  None                \* NULL, Option::None

Tests == Examples \cup GenTests
Checks == Samples \cup Tests

ASSUME AgentAssumption ==
  /\ Samples \cap Tests = {} /\ Examples \cap GenTests = {}
  /\ IsFiniteSet(Examples)
  /\ Lookups \cap {"abort", "malformed", "probe", "submit_contract", "write_source",
                   "edit_source", "review_generated_test", "request_clarification",
                   "request_example_correction"} = {}
  /\ Broken \in Results
  /\ Original \in [Examples -> Results]
  /\ Sources \subseteq [Checks -> Results]
  /\ \A n \in {MaxTurns, MaxSourceRevisions, MaxTestCorrections, MaxProbes, MaxLookups} :
       n \in Nat
  /\ MaxAttempts \in Nat \ {0}
  /\ None \notin Results /\ None \notin Checks /\ None \notin Sources
  /\ None \notin [Tests -> Results]

VARIABLES
  job,        \* synthesis_jobs.status
  attempts,   \* synthesis_jobs.attempts
  saved,      \* synthesis_agent_runs.checkpoint: a run and a workspace
  inputs,     \* synthesis_job_inputs, in the order they were asked
  published,  \* the artifact the version was published with
  pc,         \* where the session is
  ws,         \* AgentWorkspace
  run,        \* AgentRun: its turns and the tool call it waits for
  sanctioned, \* history: expectations an accepted review or a verdict gave
  spent       \* history: sandbox work really started, by all sessions

registryVars == <<job, attempts, saved, inputs, published>>
sessionVars == <<pc, ws, run, call>>
history == <<sanctioned, spent>>
vars == <<registryVars, sessionVars, history>>

FreshWs ==
  [draft |-> None, source |-> None, failure |-> None,
   revisions |-> 0, corrections |-> 0, probes |-> 0,
   lookups |-> [l \in Lookups |-> 0],
   decisions |-> {}, fixes |-> [e \in Examples |-> None], probed |-> {}]

FreshRun == [turn |-> 0, pending |-> None, id |-> 0, retried |-> FALSE]

Init ==
  /\ job = "queued"
  /\ attempts = 0
  /\ saved = None
  /\ inputs = <<>>
  /\ published = None
  /\ pc = "idle"
  /\ ws = FreshWs
  /\ run = FreshRun
  /\ call = Idle
  /\ sanctioned = {}
  /\ spent = [evaluations |-> 0, probes |-> 0]

-----------------------------------------------------------------------------
(* The calls a model can make.                                             *)

PlainTools == {"abort", "malformed", "probe"} \cup Lookups

Calls ==
  [tool : PlainTools]
    \cup [tool : {"submit_contract"}, plan : [GenTests -> Results]]
    \cup [tool : {"write_source", "edit_source"}, source : Sources]
    \cup [tool : {"review_generated_test"}, test : GenTests]
    \cup [tool : {"request_clarification"}, key : Keys]
    \cup [tool : {"request_example_correction"}, example : Examples, result : Results]

\* The tool that takes the job on: contract, source, then repair.
PhaseToolsUngated(w) ==
  {"submit_contract"} \cup IF w.draft = None THEN {} ELSE {"write_source", "edit_source", "probe"}
PhaseTools(w) ==
  IF w.draft = None THEN {"submit_contract"}
  ELSE IF w.source = None THEN {"write_source"} ELSE {"edit_source", "probe"}

\* available_tools.  A call with arguments that do not parse or validate, and a
\* batch of calls, can always be made: "malformed" stands for them.
Available(w) ==
  {"abort", "malformed", "request_clarification", "request_example_correction"}
    \cup PhaseTools(w)
    \cup {l \in Lookups : w.lookups[l] < MaxLookups}
    \cup {t \in {"review_generated_test"} : w.source # None /\ w.failure \in GenTests}

-----------------------------------------------------------------------------
(* The tests of a draft and their validation.                              *)

\* validate_contract: user tests come from the registered examples, or from
\* what the user approved in their place.
OriginalTests(plan, w) ==
  [t \in Tests |-> IF t \in GenTests THEN plan[t] ELSE Original[t]]
DraftTests(plan, w) ==
  [t \in Tests |->
     IF t \in GenTests THEN plan[t]
     ELSE IF w.fixes[t] # None THEN w.fixes[t] ELSE Original[t]]

\* validate_input_samples, validate_tests
Passes(source, draft, c) ==
  IF c \in Samples THEN source[c] # Broken ELSE source[c] = draft[c]

\* The order of the checks: samples, then user tests, then generated ones.
Before(c) ==
  IF c \in Samples THEN {} ELSE IF c \in Examples THEN Samples ELSE Samples \cup Examples

\* A check fails when its result is wrong, or when the sandbox fails to run it;
\* the first failure ends the validation.
MayFailFirst(w, c) == \A b \in Before(c) : Passes(w.source, w.draft, b)
AllPass(w) == \A c \in Checks : Passes(w.source, w.draft, c)

\* apply_example_correction
ApplyFix(w, e, r) ==
  [w EXCEPT !.fixes[e] = r, !.failure = None,
     !.draft = IF w.draft = None THEN None ELSE [w.draft EXCEPT ![e] = r]]

-----------------------------------------------------------------------------
(* How a session goes on and ends.                                         *)

Go(where) == pc' = where

\* The tool call is answered and the loop comes round again.
ClearPending == [run EXCEPT !.pending = None]
Continue(w) ==
  /\ Go("head")
  /\ ws' = w
  /\ run' = ClearPending

\* The session's memory is gone.
Forget ==
  /\ Go("idle")
  /\ ws' = FreshWs
  /\ run' = FreshRun
  /\ call' = Idle

\* reject_job, for every error that ends process_job
Rejected ==
  /\ job' = "rejected"
  /\ Forget
  /\ UNCHANGED <<attempts, saved, inputs, published, history>>

\* The next action evaluates w; the work is counted as it starts.
ToEvaluation(w) ==
  /\ Go("evaluate")
  /\ ws' = w
  /\ spent' = [spent EXCEPT !.evaluations = spent.evaluations + 1]
  /\ UNCHANGED <<registryVars, run, call, sanctioned>>

ToolFails ==
  /\ Continue(ws)
  /\ UNCHANGED <<registryVars, call, history>>

-----------------------------------------------------------------------------
(* handle_job, process_job and the head of drive_agent's loop.             *)

\* The registry's claim: an attempt is counted unless an answer queued the job.
CountsBeforeQuestions == inputs = <<>>
CountsAttempt == job = "running" \/ inputs = <<>>

\* Queued, or running with a lease that ran out.
ClaimableQueued == {"queued"}
Claimable == {"queued", "running"}

\* load_or_create_run
ResumeWithoutCall ==
  /\ ws' = IF saved = None THEN FreshWs ELSE saved.ws
  /\ run' = IF saved = None THEN FreshRun ELSE [saved.run EXCEPT !.pending = None]
Resume ==
  /\ ws' = IF saved = None THEN FreshWs ELSE saved.ws
  /\ run' = IF saved = None THEN FreshRun ELSE saved.run

\* claim_synthesis_job, also when the lease of a lost session has run out
Claim ==
  /\ pc = "idle"
  /\ job \in Claimable
  /\ attempts' = attempts + IF CountsAttempt THEN 1 ELSE 0
  /\ IF attempts' > MaxAttempts
     THEN /\ job' = "rejected"
          /\ UNCHANGED <<pc, ws, run>>
     ELSE /\ job' = "running"
          /\ Go("head")
          /\ Resume
  /\ UNCHANGED <<saved, inputs, published, call, history>>

\* save_checkpoint, at the head of the loop and again before the tools run
Checkpoint == saved' = [run |-> run, ws |-> ws]

\* AgentRunStep::CallModel
AskModel ==
  /\ pc = "head"
  /\ run.pending = None
  /\ run.turn < MaxTurns
  /\ Checkpoint
  /\ Go("model")
  /\ run' = [run EXCEPT !.turn = run.turn + 1]
  /\ Begin("coder")
  /\ UNCHANGED <<job, attempts, inputs, published, ws, history>>

\* AgentRunStep::CallTools
CallTools ==
  /\ pc = "head"
  /\ run.pending # None
  /\ Checkpoint
  /\ Go("tool")
  /\ UNCHANGED <<job, attempts, inputs, published, ws, run, call, history>>

\* The run refuses another turn.
OutOfTurns ==
  /\ pc = "head"
  /\ run.pending = None
  /\ run.turn = MaxTurns
  /\ Rejected

-----------------------------------------------------------------------------
(* The model's turn, once ModelClient's call is over.                      *)

\* A tool that is advertised; a call id is new to the job's questions.
ToolChosen ==
  /\ pc = "model"
  /\ call.state = "done"
  /\ call.reply.calls > 0
  /\ \E c \in {x \in Calls : x.tool \in Available(ws)} :
       /\ call.reply.calls > 1 => c.tool = "malformed"
       /\ run' = [run EXCEPT !.pending = c, !.id = Len(inputs) + 1, !.retried = FALSE]
  /\ Go("head")
  /\ call' = Idle
  /\ UNCHANGED <<registryVars, ws, history>>

\* ModelTurnOutcome::NeedsResolution: the turn is retried, once in a row.
ToolNotAvailable ==
  /\ pc = "model"
  /\ call.state = "done"
  /\ call.reply.calls > 0
  /\ ~run.retried
  /\ run' = [run EXCEPT !.retried = TRUE]
  /\ Go("head")
  /\ call' = Idle
  /\ UNCHANGED <<registryVars, ws, history>>

\* AgentProtocol (plain text), AgentRuntime (a second unknown tool), or the error
\* of complete, which nothing catches here.
TurnFails ==
  /\ pc = "model"
  /\ \/ call.state = "failed"
     \/ call.state = "done" /\ call.reply.calls = 0
     \/ call.state = "done" /\ run.retried
  /\ Rejected

-----------------------------------------------------------------------------
(* The tools (execute_tool_inner).                                         *)

Pending(tool) == pc = "tool" /\ run.pending.tool = tool

Malformed == Pending("malformed") /\ ToolFails

Abort == Pending("abort") /\ Rejected

SubmitContract ==
  /\ Pending("submit_contract")
  /\ Go("review")
  /\ Begin("reviewer")
  /\ UNCHANGED <<registryVars, ws, run, history>>

\* Accept: save_contract, and the draft replaces what was there.
ContractAccepted ==
  /\ pc = "review"
  /\ call.state = "done"
  /\ call.reply.decision = "accept"
  /\ Continue([ws EXCEPT !.draft = DraftTests(run.pending.plan, ws), !.failure = None])
  /\ call' = Idle
  /\ sanctioned' = sanctioned \cup {<<g, run.pending.plan[g]>> : g \in GenTests}
  /\ UNCHANGED <<registryVars, spent>>

\* Revise, or a reviewer that cannot be reached: execute_tool turns its error
\* into a tool result.
ContractNotAccepted ==
  /\ pc = "review"
  /\ \/ call.state = "failed"
     \/ call.state = "done" /\ call.reply.decision = "revise"
  /\ Continue(ws)
  /\ call' = Idle
  /\ UNCHANGED <<registryVars, history>>

ContractRejected ==
  /\ pc = "review"
  /\ call.state = "done"
  /\ call.reply.decision = "reject"
  /\ Rejected

\* write_source and edit_source: the budget ends the job, a misfit only the call.
SourceFits(c) ==
  /\ c.tool = "write_source" => ws.draft # None /\ ws.source = None
  /\ c.tool = "edit_source" => ws.source # None /\ ws.source # c.source

NoSourceBudget == FALSE
SourceBudgetSpent == ws.revisions >= MaxSourceRevisions

ChangeSource ==
  /\ pc = "tool"
  /\ run.pending.tool \in {"write_source", "edit_source"}
  /\ IF SourceBudgetSpent THEN Rejected
     ELSE IF SourceFits(run.pending)
     THEN ToEvaluation([ws EXCEPT !.source = run.pending.source,
                                  !.revisions = ws.revisions + 1])
     ELSE ToolFails

\* probe: a candidate that was probed with this input answers from the cache, an
\* earlier sandbox failure included.
Candidate == [source |-> ws.source, tests |-> ws.draft]

Probe ==
  /\ Pending("probe")
  /\ CASE Candidate \in ws.probed -> ToolFails
       [] Candidate \notin ws.probed /\ ws.probes >= MaxProbes -> Rejected
       [] OTHER ->
            /\ Go("probe")
            /\ ws' = [ws EXCEPT !.probes = ws.probes + 1]
            /\ spent' = [spent EXCEPT !.probes = spent.probes + 1]
            /\ UNCHANGED <<registryVars, run, call, sanctioned>>

ProbeDone ==
  /\ pc = "probe"
  /\ Continue([ws EXCEPT !.probed = ws.probed \cup {Candidate}])
  /\ UNCHANGED <<registryVars, call, history>>

\* review_generated_test
IsLatestFailure(c) == ws.failure = c.test

ReviewGeneratedTest ==
  /\ Pending("review_generated_test")
  /\ IF ws.corrections >= MaxTestCorrections THEN Rejected
     ELSE IF IsLatestFailure(run.pending)
     THEN /\ Go("verify")
          /\ Begin("verifier")
          /\ UNCHANGED <<registryVars, ws, run, history>>
     ELSE ToolFails

\* Only oracle_wrong changes the test, and only to another expectation.
OracleReplaced ==
  /\ pc = "verify"
  /\ call.state = "done"
  /\ call.reply.decision = "oracle_wrong"
  /\ \E r \in Results \ {ws.draft[run.pending.test]} :
       /\ ws' = [ws EXCEPT !.draft[run.pending.test] = r,
                           !.corrections = ws.corrections + 1]
       /\ sanctioned' = sanctioned \cup {<<run.pending.test, r>>}
  /\ Go("evaluate")
  /\ call' = Idle
  /\ spent' = [spent EXCEPT !.evaluations = spent.evaluations + 1]
  /\ UNCHANGED <<registryVars, run>>

\* Any other verdict, an oracle that is the old one, or no verdict at all.
OracleKept ==
  /\ pc = "verify"
  /\ call.state \in {"done", "failed"}
  /\ Continue(ws)
  /\ call' = Idle
  /\ UNCHANGED <<registryVars, history>>

\* search_web, fetch_document, probe_http: counted before the request is made,
\* whether or not it succeeds; nothing about the job depends on the answer.
Lookup ==
  /\ pc = "tool"
  /\ run.pending.tool \in Lookups
  /\ LET l == run.pending.tool IN
       IF ws.lookups[l] >= MaxLookups THEN Rejected
       ELSE /\ Continue([ws EXCEPT !.lookups[l] = ws.lookups[l] + 1])
            /\ UNCHANGED <<registryVars, call, history>>

-----------------------------------------------------------------------------
(* Questions to the user.                                                  *)

\* answered_job_input: the answer to this call, by its id
AnswerTo(id) ==
  IF id \in DOMAIN inputs /\ inputs[id].answer # None THEN inputs[id].answer ELSE None

\* suspend_job_for_input
SuspendLater ==
  /\ inputs' = Append(inputs, [call |-> run.pending, answer |-> None])
  /\ Forget
  /\ UNCHANGED <<job, attempts, saved, published, history>>
Suspend ==
  /\ inputs' = Append(inputs, [call |-> run.pending, answer |-> None])
  /\ job' = "awaiting_input"
  /\ Forget
  /\ UNCHANGED <<attempts, saved, published, history>>

\* request_clarification
NothingResolved(k) == FALSE
Resolved(k) == k \in ws.decisions

RequestClarification ==
  /\ Pending("request_clarification")
  /\ LET k == run.pending.key IN
       IF Resolved(k) THEN ToolFails
       ELSE IF AnswerTo(run.id) # None
       THEN /\ Continue([ws EXCEPT !.decisions = ws.decisions \cup {k}])
            /\ UNCHANGED <<registryVars, call, history>>
       ELSE Suspend

\* request_example_correction: a correction must differ from the example, and
\* an approved one is final.
RequestExampleCorrection ==
  /\ Pending("request_example_correction")
  /\ LET e == run.pending.example
         r == run.pending.result
         answer == AnswerTo(run.id)
         fixed == ApplyFix(ws, e, r) IN
       IF r = Original[e] \/ ws.fixes[e] # None THEN ToolFails
       ELSE IF answer = None THEN Suspend
       ELSE IF answer = "approve" /\ ws.source # None /\ ws.draft # None
       THEN ToEvaluation(fixed)
       ELSE /\ Continue(IF answer = "approve" THEN fixed ELSE ws)
            /\ UNCHANGED <<registryVars, call, history>>

\* answer_job_input, with the kinds of answer validate_job_input_answer allows
Answers(c) ==
  IF c.tool = "request_clarification" THEN {"text"} ELSE {"approve", "reject"}

AnswerInput ==
  /\ job = "awaiting_input"
  /\ \E a \in Answers(inputs[Len(inputs)].call) :
       inputs' = [inputs EXCEPT ![Len(inputs)].answer = a]
  /\ job' = "queued"
  /\ UNCHANGED <<attempts, saved, published, sessionVars, history>>

-----------------------------------------------------------------------------
(* evaluate_after_mutation and publish.                                    *)

\* store_candidate or build_artifact fails, which nothing catches.
BuildFails == pc = "evaluate" /\ Rejected

ValidationFails ==
  /\ pc = "evaluate"
  /\ \E c \in Checks :
       /\ MayFailFirst(ws, c)
       /\ Continue([ws EXCEPT !.failure = c])
  /\ UNCHANGED <<registryVars, call, history>>

ValidationPasses ==
  /\ pc = "evaluate"
  /\ AllPass(ws)
  /\ Go("publish")
  /\ ws' = [ws EXCEPT !.failure = None]
  /\ UNCHANGED <<registryVars, run, call, history>>

\* publish_job
Publish ==
  /\ pc = "publish"
  /\ published' = Candidate
  /\ job' = "ready"
  /\ Forget
  /\ UNCHANGED <<attempts, saved, inputs, history>>

-----------------------------------------------------------------------------

\* A step of the call that is in flight.
ModelStep == CallStep /\ UNCHANGED <<registryVars, pc, ws, run, history>>

\* The worker process stops; the job's lease runs out before the next claim.
Crash ==
  /\ pc # "idle"
  /\ Forget
  /\ UNCHANGED <<registryVars, history>>

ToolStep ==
  \/ Malformed \/ Abort \/ SubmitContract \/ ContractAccepted
  \/ ContractNotAccepted \/ ContractRejected \/ ChangeSource \/ Probe
  \/ ProbeDone \/ ReviewGeneratedTest \/ OracleReplaced \/ OracleKept
  \/ Lookup \/ RequestClarification \/ RequestExampleCorrection

SessionStep ==
  \/ Claim \/ AskModel \/ CallTools \/ OutOfTurns
  \/ ToolChosen \/ ToolNotAvailable \/ TurnFails
  \/ ToolStep \/ ModelStep
  \/ BuildFails \/ ValidationFails \/ ValidationPasses \/ Publish

Next == SessionStep \/ AnswerInput \/ Crash

Spec == Init /\ [][Next]_vars

\* A worker polls for jobs and its session goes on; a request to a provider is
\* answered or times out.  No user has to answer.
FairSpec == Spec /\ WF_vars(SessionStep)

-----------------------------------------------------------------------------
(* Properties.                                                             *)

Candidates == [source : Sources, tests : [Tests -> Results]]

Workspaces ==
  [draft : [Tests -> Results] \cup {None},
   source : Sources \cup {None},
   failure : Checks \cup {None},
   revisions : 0..MaxSourceRevisions,
   corrections : 0..MaxTestCorrections,
   probes : 0..MaxProbes,
   lookups : [Lookups -> 0..MaxLookups],
   decisions : SUBSET Keys,
   fixes : [Examples -> Results \cup {None}],
   probed : SUBSET Candidates]

Runs ==
  [turn : 0..MaxTurns, pending : Calls \cup {None}, id : Nat, retried : BOOLEAN]

Inputs == [call : Calls, answer : {"text", "approve", "reject", None}]

ASSUME NoneAssumption ==
  /\ None \notin Calls /\ None \notin Candidates
  /\ None \notin {"text", "approve", "reject"}
  /\ None \notin [run : Runs, ws : Workspaces]

\* The budgets of the README hold in every session and every checkpoint: a
\* resumed session never has more turns, revisions, corrections, probes or
\* lookups behind it than one that was never interrupted could have.
TypeOK ==
  /\ job \in {"queued", "running", "awaiting_input", "ready", "rejected"}
  /\ attempts \in 0..MaxAttempts + 1
  /\ saved \in [run : Runs, ws : Workspaces] \cup {None}
  /\ inputs \in Seq(Inputs)
  /\ published \in Candidates \cup {None}
  /\ pc \in {"idle", "head", "model", "tool", "review", "verify", "probe",
             "evaluate", "publish"}
  /\ ws \in Workspaces
  /\ run \in Runs
  /\ sanctioned \subseteq GenTests \X Results
  /\ spent \in [evaluations : Nat, probes : Nat]

Asks(c) == c.tool \in {"request_clarification", "request_example_correction"}

ApprovedFix(i, e) ==
  /\ inputs[i].call.tool = "request_example_correction"
  /\ inputs[i].call.example = e
  /\ inputs[i].answer = "approve"

\* A revision becomes ready only after every gate (README, Core Semantics): the
\* published source passes all its checks, each strict example is asserted as
\* registered unless the user approved a correction, then as corrected, and a
\* generated test asserts only what a contract review or a verdict accepted --
\* whenever the worker stopped, and whatever was replayed, in between.
PublishedEarnedIt ==
  published # None =>
    /\ \A c \in Checks : Passes(published.source, published.tests, c)
    /\ \A e \in Examples :
         \/ \E i \in DOMAIN inputs :
              ApprovedFix(i, e) /\ published.tests[e] = inputs[i].call.result
         \/ /\ \A i \in DOMAIN inputs : ~ApprovedFix(i, e)
            /\ published.tests[e] = Original[e]
    /\ \A g \in GenTests : <<g, published.tests[g]>> \in sanctioned

\* An answer the user gave is never lost: the checkpoint holds what it decided,
\* or still holds the very call that asked, whose replay finds the answer.
AnswersReachTheWorkspace ==
  \A i \in DOMAIN inputs :
    \/ inputs[i].answer \in {"reject", None}
    \/ /\ saved # None
       /\ \/ saved.run.id = i /\ saved.run.pending = inputs[i].call
          \/ /\ inputs[i].answer = "text"
             /\ inputs[i].call.key \in saved.ws.decisions
          \/ /\ inputs[i].answer = "approve"
             /\ saved.ws.fixes[inputs[i].call.example] = inputs[i].call.result

\* "Never ask again when a tool result says that key is already resolved"
\* (AGENT_SYSTEM_PROMPT): no key is put to the user twice and no example again
\* once its correction is approved, although a replayed call runs the whole tool.
NothingAskedTwice ==
  \A i, k \in DOMAIN inputs :
    i < k =>
      /\ inputs[i].answer # None
      /\ inputs[k].call.tool = "request_clarification" =>
           inputs[i].call # inputs[k].call
      /\ inputs[k].call.tool = "request_example_correction" =>
           ~ApprovedFix(i, inputs[k].call.example)

\* Budgets are counted in the checkpoint, so a crash forgets what was spent since
\* the last one: the sandbox work really done exceeds the counted work by at
\* most one piece per attempt, and attempts are bounded.
CountedEvaluations(w) ==
  w.revisions + w.corrections + Cardinality({e \in Examples : w.fixes[e] # None})

SavedWs == IF saved = None THEN FreshWs ELSE saved.ws

UncountedWorkIsBounded ==
  /\ spent.evaluations <= CountedEvaluations(SavedWs) + attempts
  /\ spent.probes <= SavedWs.probes + attempts

\* In a session only the generated test that failed last can change, and only by
\* a verdict that its oracle is wrong (review_generated_test): an implementation
\* that fails cannot be published by weakening another test.
OnlyTheFailingTestChanges ==
  [][\A g \in GenTests :
       /\ ws.draft # None
       /\ ws'.draft # None
       /\ ws'.draft[g] # ws.draft[g]
       => /\ ws.failure = g
          /\ call.reply.decision = "oracle_wrong"]_vars

\* The job does not work forever: it ends, or waits for an answer that no user
\* has to give, whatever the models do and however often the worker stops.
JobComesToRest == <>[](job \in {"awaiting_input", "ready", "rejected"})

\* The one job of this module lives as JobLife says, with its fairness: crashes,
\* replays, retries and tool calls are stutters of what its user sees.
Life == INSTANCE JobLife WITH
  Jobs <- {"job"},
  status <- [j \in {"job"} |-> job],
  question <- [j \in {"job"} |-> inputs # <<>> /\ inputs[Len(inputs)].answer = None],
  version <- [j \in {"job"} |-> IF published = None THEN "unpublished" ELSE "published"]

AgentLivesAsPromised == Life!FairSpec
=============================================================================
