---------------------------- MODULE TraceBudget ----------------------------
(***************************************************************************)
(* The byte budget of a job's agent trace (jit-storage,                    *)
(* append_agent_event_in_transaction).  Every event costs the bytes of its *)
(* JSON; one too large is recorded as a marker, and one the budget has no  *)
(* room for as a shorter marker or not at all.  Events of the worker and of*)
(* questions leave a reserve that only the last event may use.  An append  *)
(* is one step because it locks the row of the agent run; the owner check  *)
(* before a worker's append takes no lock and is a step of its own.        *)
(***************************************************************************)
EXTENDS Integers, TLAPS

CONSTANTS
  Limit,         \* AGENT_TRACE_LIMIT_BYTES
  Reserve,       \* AGENT_TERMINAL_EVENT_RESERVE_BYTES
  PayloadLimit,  \* AGENT_EVENT_PAYLOAD_LIMIT_BYTES
  BoundedSize,   \* bytes of the marker for a payload over PayloadLimit
  OmittedSize,   \* bytes of the marker for a payload over the budget
  Sizes          \* bytes of the payloads that occur

ASSUME BudgetAssumption ==
  /\ Limit \in Nat /\ Reserve \in Nat /\ PayloadLimit \in Nat /\ BoundedSize \in Nat
  /\ OmittedSize \in Nat \ {0}
  /\ OmittedSize <= Reserve
  /\ Reserve <= Limit
  /\ Sizes \subseteq Nat \ {0}

VARIABLES
  job,        \* synthesis_jobs.status; a cancelled job apart from a rejected one
  traceBytes, \* synthesis_agent_runs.trace_bytes
  checked,    \* whether a worker is past ensure_job_owner
  last        \* what the trace holds of the event that ended the job

vars == <<job, traceBytes, checked, last>>

Init == job = "running" /\ traceBytes = 0 /\ checked = FALSE /\ last = "none"

\* bounded_event_payload
Bounded(n) == IF n <= PayloadLimit THEN n ELSE BoundedSize

\* The form in which an event of n bytes is recorded under a limit ...
FormUnchecked(n, limit) == IF Bounded(n) <= limit - traceBytes THEN "full" ELSE "omitted"
Form(n, limit) ==
  IF Bounded(n) <= limit - traceBytes THEN "full"
  ELSE IF OmittedSize <= limit - traceBytes THEN "omitted" ELSE "dropped"

\* ... and the bytes it costs.
Cost(n, limit) ==
  IF Form(n, limit) = "full" THEN Bounded(n)
  ELSE IF Form(n, limit) = "omitted" THEN OmittedSize ELSE 0

Append(n, limit) == traceBytes' = traceBytes + Cost(n, limit)

\* The limit for events that do not end the job.
WholeLimit == Limit
EventLimit == Limit - Reserve

\* append_agent_event: the owner of a published job may still append, and the
\* job may have ended since the check.
CheckOwner ==
  /\ job \in {"running", "ready"}
  /\ checked' = TRUE
  /\ UNCHANGED <<job, traceBytes, last>>

WorkerEvent(n) ==
  /\ checked
  /\ checked' = FALSE
  /\ Append(n, EventLimit)
  /\ UNCHANGED <<job, last>>

\* suspend_job_for_input and answer_job_input
AskUser(n) ==
  /\ job = "running"
  /\ job' = "awaiting_input"
  /\ Append(n, EventLimit)
  /\ UNCHANGED <<checked, last>>

AnswerInput(n) ==
  /\ job = "awaiting_input"
  /\ job' = "queued"
  /\ Append(n, EventLimit)
  /\ UNCHANGED <<checked, last>>

\* claim_synthesis_job
Claim ==
  /\ job = "queued"
  /\ job' = "running"
  /\ UNCHANGED <<traceBytes, checked, last>>

\* publish_job and cancel_job append with the whole budget.
PublishJob(n) ==
  /\ job = "running"
  /\ job' = "ready"
  /\ Append(n, Limit)
  /\ last' = Form(n, Limit)
  /\ UNCHANGED checked

CancelJob(n) ==
  /\ job \in {"queued", "running", "awaiting_input"}
  /\ job' = "cancelled"
  /\ Append(n, Limit)
  /\ last' = Form(n, Limit)
  /\ UNCHANGED checked

\* reject_job appends no event.
RejectJob ==
  /\ job = "running"
  /\ job' = "rejected"
  /\ UNCHANGED <<traceBytes, checked, last>>

Next ==
  \/ \E n \in Sizes :
       WorkerEvent(n) \/ AskUser(n) \/ AnswerInput(n) \/ PublishJob(n) \/ CancelJob(n)
  \/ CheckOwner
  \/ Claim
  \/ RejectJob

Spec == Init /\ [][Next]_vars

-----------------------------------------------------------------------------

\* The budget is never exceeded, whatever the events and however often a crashed
\* run replays them (the CHECK on trace_bytes bounds it only from below).
WithinBudget ==
  /\ traceBytes \in 0..Limit
  /\ job \in {"queued", "running", "awaiting_input"} => traceBytes <= EventLimit

\* The trace of a published or cancelled job always holds the event that says
\* so, at least as a marker: earlier events cannot have used up its room.
LastEventRecorded ==
  job \in {"ready", "cancelled"} => last \in {"full", "omitted"}

JobStatuses == {"queued", "running", "awaiting_input", "ready", "cancelled", "rejected"}

BudgetInv ==
  /\ job \in JobStatuses
  /\ WithinBudget
  /\ LastEventRecorded

\* What an append under a limit costs: it stays within the limit, or is nothing.
LEMMA CostBounded ==
  ASSUME NEW n \in Sizes, traceBytes \in Nat, NEW limit \in Nat
  PROVE  /\ Cost(n, limit) \in Nat
         /\ Cost(n, limit) = 0 \/ traceBytes + Cost(n, limit) <= limit
<1>1. Bounded(n) \in Nat
  BY BudgetAssumption DEF Bounded
<1>2. CASE Form(n, limit) = "full"
  BY <1>1, <1>2, BudgetAssumption DEF Form, Cost
<1>3. CASE Form(n, limit) = "omitted"
  BY <1>1, <1>3, BudgetAssumption DEF Form, Cost
<1>4. CASE Form(n, limit) = "dropped"
  BY <1>4 DEF Cost
<1> QED
  BY <1>2, <1>3, <1>4 DEF Form

LEMMA BudgetStep == BudgetInv /\ [Next]_vars => BudgetInv'
<1> SUFFICES ASSUME BudgetInv, [Next]_vars PROVE BudgetInv'
  OBVIOUS
<1> USE BudgetAssumption DEF BudgetInv, WithinBudget, LastEventRecorded, JobStatuses,
        EventLimit
<1>0. EventLimit \in Nat /\ EventLimit <= Limit
  OBVIOUS
<1>1. ASSUME NEW n \in Sizes, WorkerEvent(n) PROVE BudgetInv'
  BY <1>0, <1>1, CostBounded DEF WorkerEvent, Append
<1>2. ASSUME NEW n \in Sizes, AskUser(n) PROVE BudgetInv'
  BY <1>0, <1>2, CostBounded DEF AskUser, Append
<1>3. ASSUME NEW n \in Sizes, AnswerInput(n) PROVE BudgetInv'
  BY <1>0, <1>3, CostBounded DEF AnswerInput, Append
<1>4. ASSUME NEW n \in Sizes, PublishJob(n) PROVE BudgetInv'
  BY <1>0, <1>4, CostBounded DEF PublishJob, Append, Form
<1>5. ASSUME NEW n \in Sizes, CancelJob(n) PROVE BudgetInv'
  BY <1>0, <1>5, CostBounded DEF CancelJob, Append, Form
<1>6. CASE CheckOwner \/ Claim \/ RejectJob \/ UNCHANGED vars
  BY <1>6 DEF CheckOwner, Claim, RejectJob, vars
<1> QED
  BY <1>1, <1>2, <1>3, <1>4, <1>5, <1>6 DEF Next

LEMMA BudgetInvariant == Spec => []BudgetInv
<1>1. Init => BudgetInv
  BY BudgetAssumption DEF Init, BudgetInv, WithinBudget, LastEventRecorded, JobStatuses,
     EventLimit
<1> QED
  BY <1>1, BudgetStep, PTL DEF Spec

\* trace_bytes stays within the budget for all limits and payload sizes.
THEOREM TraceWithinBudget == Spec => []WithinBudget
  BY BudgetInvariant, PTL DEF BudgetInv

\* The reserve is enough for the last event, because its marker fits in it.
THEOREM LastEventKept == Spec => []LastEventRecorded
  BY BudgetInvariant, PTL DEF BudgetInv
=============================================================================
