------------------------------ MODULE JobLife -------------------------------
(***************************************************************************)
(* What a synthesis job promises to whoever registered it, with none of    *)
(* the machinery: no workers, leases, attempts, stages or checkpoints.     *)
(* It is jit-domain's JobStatus as the users see it through status, answer *)
(* and cancel, together with the version the job makes.  The registry and  *)
(* the agent are both shown to implement it.                               *)
(***************************************************************************)

CONSTANT Jobs

VARIABLES
  status,    \* per job, what `jit status` shows
  question,  \* per job, whether a question of it is open
  version    \* per job, what it has made: unpublished, published or revoked

vars == <<status, question, version>>

Init ==
  /\ status \in [Jobs -> {"absent", "queued"}]
  /\ question = [j \in Jobs |-> FALSE]
  /\ version = [j \in Jobs |-> "unpublished"]

Register(j) ==
  /\ status[j] = "absent"
  /\ status' = [status EXCEPT ![j] = "queued"]
  /\ UNCHANGED <<question, version>>

\* A worker takes the job up; that another takes it over later is not visible.
Start(j) ==
  /\ status[j] = "queued"
  /\ status' = [status EXCEPT ![j] = "running"]
  /\ UNCHANGED <<question, version>>

\* One step both asks the question and stops the job.
Ask(j) ==
  /\ status[j] = "running"
  /\ status' = [status EXCEPT ![j] = "awaiting_input"]
  /\ question' = [question EXCEPT ![j] = TRUE]
  /\ UNCHANGED version

Answer(j) ==
  /\ status[j] = "awaiting_input"
  /\ status' = [status EXCEPT ![j] = "queued"]
  /\ question' = [question EXCEPT ![j] = FALSE]
  /\ UNCHANGED version

\* One step both ends the job and makes its version available.
Publish(j) ==
  /\ status[j] = "running"
  /\ status' = [status EXCEPT ![j] = "ready"]
  /\ version' = [version EXCEPT ![j] = "published"]
  /\ UNCHANGED question

Reject(j) ==
  /\ status[j] = "running"
  /\ status' = [status EXCEPT ![j] = "rejected"]
  /\ UNCHANGED <<question, version>>

Cancel(j) ==
  /\ status[j] \in {"queued", "running", "awaiting_input"}
  /\ status' = [status EXCEPT ![j] = "rejected"]
  /\ question' = [question EXCEPT ![j] = FALSE]
  /\ UNCHANGED version

Revoke(j) ==
  /\ version[j] = "published"
  /\ version' = [version EXCEPT ![j] = "revoked"]
  /\ UNCHANGED <<status, question>>

Step(j) ==
  \/ Register(j) \/ Start(j) \/ Ask(j) \/ Answer(j)
  \/ Publish(j) \/ Reject(j) \/ Cancel(j) \/ Revoke(j)

Next == \E j \in Jobs : Step(j)

Spec == Init /\ [][Next]_vars

\* A job that can start does, and one that runs comes to rest.
Fairness ==
  \A j \in Jobs :
    /\ WF_vars(Start(j))
    /\ WF_vars(Ask(j) \/ Publish(j) \/ Reject(j))

FairSpec == Spec /\ Fairness
=============================================================================
