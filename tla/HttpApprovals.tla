--------------------------- MODULE HttpApprovals ---------------------------
(***************************************************************************)
(* HTTP capabilities: request_http_capability and release_http_capability  *)
(* of the agent (apps/jit-worker/src/jobs.rs), the table of approvals      *)
(* (crates/jit-storage), the users who answer and revoke, and the check    *)
(* the runner makes before it executes an artifact (runner.rs).            *)
(*                                                                         *)
(* An approval is kept once for all jobs and versions, by the hash of the  *)
(* capability.  A tool call is executed by several calls to the database,  *)
(* and again from the checkpoint after a crash or an answer; each of those *)
(* calls is a step.  A job has at most one worker (see Registry), so the   *)
(* worker's state is kept per job.  A tool call that asks nobody is one    *)
(* step here: executing it again finds the same workspace.                 *)
(***************************************************************************)
EXTENDS Integers, FiniteSets, SequencesExt

CONSTANTS
  Jobs,     \* synthesis jobs
  Caps,     \* capabilities, by hash
  CallIds,  \* ids of the agent's calls
  MaxCaps,  \* MAX_HTTP_CAPABILITIES
  FreshIds, \* whether the model provider gives every call of a job a new id
  NoCap, NoId

ASSUME HttpAssumption ==
  /\ MaxCaps \in Nat /\ FreshIds \in BOOLEAN
  /\ NoCap \notin Caps /\ NoId \notin CallIds

JobStatuses == {"queued", "running", "awaiting_input", "ready", "rejected"}
Answers == {"absent", "pending", "approve", "reject"}
Points == {"away", "turn", "replay", "lookup", "approve", "save", "publish"}

VARIABLES
  approval,  \* http_capability_approvals.status, or none
  status,    \* synthesis_jobs.status
  answer,    \* synthesis_job_inputs: status and answer for each call id
  saved,     \* checkpoint: [id, cap] of the pending call, and the capabilities
  grants,    \* manifest.http_capabilities of the published artifact
  pc,        \* what the worker of the job does next
  call,      \* its pending call in memory: [id, cap]
  caps,      \* workspace.http_capabilities in memory
  approved,  \* history: capabilities a user has approved
  consent    \* history: the same, but not revoked since

tables == <<approval, status, answer, grants>>
memory == <<pc, call, caps>>
history == <<approved, consent>>
vars == <<tables, saved, memory, history>>

NoCall == [id |-> NoId, cap |-> NoCap]
Calls == [id : CallIds, cap : Caps] \cup {NoCall}

Init ==
  /\ approval = [c \in Caps |-> "none"]
  /\ status = [j \in Jobs |-> "queued"]
  /\ answer = [j \in Jobs |-> [k \in CallIds |-> "absent"]]
  /\ saved = [j \in Jobs |-> [call |-> NoCall, caps |-> << >>]]
  /\ grants = [j \in Jobs |-> << >>]
  /\ pc = [j \in Jobs |-> "away"]
  /\ call = [j \in Jobs |-> NoCall]
  /\ caps = [j \in Jobs |-> << >>]
  /\ approved = {} /\ consent = {}

Goto(j, point) == pc' = [pc EXCEPT ![j] = point]

\* The worker drops the job, and with it the run and the workspace in memory.
Leave(j) ==
  /\ Goto(j, "away")
  /\ call' = [call EXCEPT ![j] = NoCall]
  /\ caps' = [caps EXCEPT ![j] = << >>]

\* approved.hash == capability_hash for some capability of the workspace.
NeverGranted(j, c) == FALSE
Granted(j, c) == \E i \in 1..Len(caps[j]) : caps[j][i] = c

\* all_http_capabilities_approved counts the active rows among the hashes.
Active(s) == {c \in Caps : approval[c] = "active" /\ \E i \in 1..Len(s) : s[i] = c}
AllApproved(s) == Cardinality(Active(s)) = Len(s)

\* execute_inner for an invocation of the published artifact: the container gets
\* a network only after the check.
MayExecute(j) == status[j] = "ready" /\ AllApproved(grants[j])

-----------------------------------------------------------------------------
(* The worker of a job.                                                    *)

\* claim_synthesis_job and load_or_create_run.
Claim(j) ==
  /\ pc[j] = "away" /\ status[j] \in {"queued", "running"}
  /\ status' = [status EXCEPT ![j] = "running"]
  /\ call' = [call EXCEPT ![j] = saved[j].call]
  /\ caps' = [caps EXCEPT ![j] = saved[j].caps]
  /\ Goto(j, IF saved[j].call = NoCall THEN "turn" ELSE "replay")
  /\ UNCHANGED <<approval, answer, grants, saved, history>>

\* The model calls request_http_capability; the checkpoint at the head of the
\* loop records the call before it is executed.
CallRequest(j, k, c) ==
  /\ pc[j] = "turn"
  /\ FreshIds => answer[j][k] = "absent"
  /\ call' = [call EXCEPT ![j] = [id |-> k, cap |-> c]]
  /\ Goto(j, "save")
  /\ UNCHANGED <<tables, saved, caps, history>>

\* release_http_capability removes the first entry with the hash.
Release(j, c) ==
  /\ pc[j] = "turn" /\ Granted(j, c)
  /\ \E i \in 1..Len(caps[j]) :
       /\ caps[j][i] = c /\ \A n \in 1..(i - 1) : caps[j][n] # c
       /\ caps' = [caps EXCEPT ![j] = RemoveAt(caps[j], i)]
  /\ Goto(j, "save")
  /\ UNCHANGED <<tables, saved, call, history>>

\* The loop goes round: save_checkpoint, then the pending call if there is one.
SaveCheckpoint(j) ==
  /\ pc[j] = "save"
  /\ IF status[j] = "running"
     THEN /\ saved' = [saved EXCEPT ![j] = [call |-> call[j], caps |-> caps[j]]]
          /\ Goto(j, IF call[j] = NoCall THEN "turn" ELSE "replay")
          /\ UNCHANGED <<call, caps>>
     ELSE UNCHANGED saved /\ Leave(j)
  /\ UNCHANGED <<tables, history>>

\* request_http_capability of what the workspace has.
RequestGranted(j) ==
  /\ pc[j] = "replay" /\ Granted(j, call[j].cap)
  /\ call' = [call EXCEPT ![j] = NoCall]
  /\ Goto(j, "save")
  /\ UNCHANGED <<tables, saved, caps, history>>

\* reject_job, unless the job is lost.
RejectJob(j) ==
  /\ status' = [status EXCEPT ![j] = IF @ = "running" THEN "rejected" ELSE @]
  /\ Leave(j)
  /\ UNCHANGED <<approval, answer, grants, saved, history>>

\* The budget of capabilities is exhausted.
RequestOverLimit(j) ==
  /\ pc[j] = "replay" /\ ~Granted(j, call[j].cap) /\ Len(caps[j]) >= MaxCaps
  /\ RejectJob(j)

\* The model aborts, or the agent fails.
Abort(j) ==
  /\ pc[j] = "turn"
  /\ RejectJob(j)

\* workspace.http_capabilities.push, and the result of the call.
PushId(j) ==
  /\ caps' = [caps EXCEPT ![j] = Append(caps[j], call[j].id)]
  /\ call' = [call EXCEPT ![j] = NoCall]
  /\ Goto(j, "save")
Push(j) ==
  /\ caps' = [caps EXCEPT ![j] = Append(caps[j], call[j].cap)]
  /\ call' = [call EXCEPT ![j] = NoCall]
  /\ Goto(j, "save")

\* is_http_capability_approved.
CheckApproved(j) ==
  /\ pc[j] = "replay" /\ ~Granted(j, call[j].cap) /\ Len(caps[j]) < MaxCaps
  /\ IF approval[call[j].cap] = "active"
     THEN Push(j)
     ELSE Goto(j, "lookup") /\ UNCHANGED <<call, caps>>
  /\ UNCHANGED <<tables, saved, history>>

AnsweredAny(j, k) == IF answer[j][k] = "reject" THEN "approve" ELSE answer[j][k]
AnsweredBy(j, k) == answer[j][k]

\* answered_job_input for the id of the call.
Lookup(j) ==
  /\ pc[j] = "lookup" /\ AnsweredBy(j, call[j].id) \in {"approve", "reject"}
  /\ IF AnsweredBy(j, call[j].id) = "approve"
     THEN Goto(j, "approve") /\ UNCHANGED call
     ELSE Goto(j, "save") /\ call' = [call EXCEPT ![j] = NoCall]
  /\ UNCHANGED <<tables, saved, caps, history>>

\* approve_http_capability asks neither whether the worker still owns the job nor
\* whether the capability has been revoked since the answer.
Approve(j) ==
  /\ pc[j] = "approve"
  /\ approval' = [approval EXCEPT ![call[j].cap] = "active"]
  /\ Push(j)
  /\ UNCHANGED <<status, answer, grants, saved, history>>

\* suspend_job_for_input, or the job is lost.
Suspend(j) ==
  /\ pc[j] = "lookup" /\ answer[j][call[j].id] = "absent"
  /\ IF status[j] = "running"
     THEN /\ answer' = [answer EXCEPT ![j][call[j].id] = "pending"]
          /\ status' = [status EXCEPT ![j] = "awaiting_input"]
     ELSE UNCHANGED <<answer, status>>
  /\ Leave(j)
  /\ UNCHANGED <<approval, grants, saved, history>>

\* The tests of a candidate that has the workspace's capabilities: each run checks
\* the approvals, and one that is refused is a failed test.
Validate(j) ==
  /\ pc[j] = "turn"
  /\ \/ AllApproved(caps[j]) /\ Goto(j, "publish")
     \/ Goto(j, "save")
  /\ UNCHANGED <<tables, saved, call, caps, history>>

\* publish_job.
Publish(j) ==
  /\ pc[j] = "publish"
  /\ IF status[j] = "running"
     THEN /\ status' = [status EXCEPT ![j] = "ready"]
          /\ grants' = [grants EXCEPT ![j] = caps[j]]
     ELSE UNCHANGED <<status, grants>>
  /\ Leave(j)
  /\ UNCHANGED <<approval, answer, saved, history>>

\* The worker ends; its lease runs out and the job can be claimed again.
Crash(j) ==
  /\ pc[j] # "away"
  /\ Leave(j)
  /\ UNCHANGED <<tables, saved, history>>

-----------------------------------------------------------------------------
(* Users.                                                                  *)

\* The capability a pending question is about is in its context; the checkpoint
\* of the job that waits holds the same call.
Answer(j, a) ==
  /\ status[j] = "awaiting_input"
  /\ answer[j][saved[j].call.id] = "pending"
  /\ answer' = [answer EXCEPT ![j][saved[j].call.id] = a]
  /\ status' = [status EXCEPT ![j] = "queued"]
  /\ IF a = "approve"
     THEN /\ approved' = approved \cup {saved[j].call.cap}
          /\ consent' = consent \cup {saved[j].call.cap}
     ELSE UNCHANGED history
  /\ UNCHANGED <<approval, grants, saved, memory>>

Cancel(j) ==
  /\ status[j] \in {"queued", "running", "awaiting_input"}
  /\ status' = [status EXCEPT ![j] = "rejected"]
  /\ UNCHANGED <<approval, answer, grants, saved, memory, history>>

\* revoke_http_capability.
RevokeHttp(c) ==
  /\ approval[c] = "active"
  /\ approval' = [approval EXCEPT ![c] = "revoked"]
  /\ consent' = consent \ {c}
  /\ UNCHANGED <<status, answer, grants, saved, memory, approved>>

JobStep(j) ==
  \/ Claim(j)
  \/ \E k \in CallIds, c \in Caps : CallRequest(j, k, c)
  \/ \E c \in Caps : Release(j, c)
  \/ SaveCheckpoint(j) \/ RequestGranted(j) \/ RequestOverLimit(j)
  \/ CheckApproved(j) \/ Lookup(j) \/ Approve(j) \/ Suspend(j) \/ Validate(j)
  \/ Publish(j) \/ Abort(j) \/ Crash(j)
  \/ \E a \in {"approve", "reject"} : Answer(j, a)
  \/ Cancel(j)

Next ==
  \/ \E j \in Jobs : JobStep(j)
  \/ \E c \in Caps : RevokeHttp(c)

Spec == Init /\ [][Next]_vars

-----------------------------------------------------------------------------
(* Properties.                                                             *)

TypeOK ==
  /\ approval \in [Caps -> {"none", "active", "revoked"}]
  /\ status \in [Jobs -> JobStatuses]
  /\ answer \in [Jobs -> [CallIds -> Answers]]
  /\ saved \in [Jobs -> [call : Calls, caps : Seq(Caps)]]
  /\ grants \in [Jobs -> Seq(Caps)]
  /\ pc \in [Jobs -> Points]
  /\ call \in [Jobs -> Calls]
  /\ caps \in [Jobs -> Seq(Caps)]
  /\ approved \subseteq Caps /\ consent \subseteq Caps

\* "After user approval, the grant is published with the artifact": through
\* crashes, replays, refusals and other jobs, no artifact carries a capability
\* that no user ever approved, and none is active without.
GrantsWereApproved ==
  /\ \A j \in Jobs : ToSet(grants[j]) \subseteq approved
  /\ \A c \in Caps : approval[c] = "active" => c \in approved

\* The runner compares a count of rows with the length of the list.  That refuses
\* exactly the candidates and artifacts with an inactive approval, because no
\* workspace comes to list a capability twice, however often the call that
\* requested it is replayed.  One that did could never pass its tests.
CheckIsExact ==
  \A j \in Jobs : \A s \in {caps[j], saved[j].caps, grants[j]} :
    AllApproved(s) <=> \A c \in ToSet(s) : approval[c] = "active"

\* "Revoking an approval prevents artifacts that reference it from making further
\* networked calls": an execution passes the check only if users stand by each of
\* its capabilities.  An answer that is applied after the revocation, in another
\* job or by a replay after a crash, makes the approval active again.
RevocationHolds ==
  \A j \in Jobs : MayExecute(j) => ToSet(grants[j]) \subseteq consent
=============================================================================
