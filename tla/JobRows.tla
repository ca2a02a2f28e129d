------------------------------- MODULE JobRows -------------------------------
(***************************************************************************)
(* What the registry promises of the rows of one synthesis job whatever    *)
(* runs at once: every call changes all of its columns in one step, at a   *)
(* moment at which its conditions hold of the committed rows.  JobLocks,   *)
(* where calls run statement by statement, is shown to implement it.       *)
(***************************************************************************)

CONSTANT Workers     \* the worker processes

VARIABLE db          \* the committed columns of the job, its tool and its versions

Versions == {"old", "new"}

\* A job is queued; its version is new, and old the stable one.
Init ==
  db = [stable |-> "old", old |-> "ready", new |-> "synthesizing", job |-> "queued",
        owner |-> "none", lease |-> "none", input |-> "none"]

Owns(w) == db.job = "running" /\ db.owner = w

\* renew_job_lease, and the first statement of set_job_stage.
RenewLease(w) ==
  /\ Owns(w)
  /\ db' = [db EXCEPT !.lease = "live"]

\* The second statement of set_job_stage asks for nothing: it comes at any time, and
\* also takes a published, rejected or revoked version back.
SetVersionStatus ==
  db' = [db EXCEPT !.new = "building"]

PublishJob(w) ==
  /\ Owns(w)
  /\ db' = [db EXCEPT !.new = "ready", !.stable = "new", !.job = "ready", !.lease = "none"]

SuspendForInput(w) ==
  /\ Owns(w)
  /\ db' = [db EXCEPT !.input = "pending", !.job = "awaiting_input", !.owner = "none",
                      !.lease = "none"]

RejectJob(w) ==
  /\ Owns(w)
  /\ db' = [db EXCEPT !.job = "rejected", !.lease = "none", !.new = "rejected"]

CancelJob ==
  /\ db.job \notin {"ready", "rejected"}
  /\ db' = [db EXCEPT !.job = "rejected", !.owner = "none", !.lease = "none",
                      !.new = "rejected",
                      !.input = IF @ = "pending" THEN "answered" ELSE @]

AnswerInput ==
  /\ db.job = "awaiting_input"
  /\ db.input = "pending"
  /\ db' = [db EXCEPT !.input = "answered", !.job = "queued"]

\* The stable version falls back to the other one if it is ready.
RevokeVersion(v) ==
  /\ db[v] = "ready"
  /\ LET other == CHOOSE u \in Versions : u # v
         next == IF db[other] = "ready" THEN other ELSE "none"
     IN  db' = IF db.stable = v
               THEN [[db EXCEPT ![v] = "revoked"] EXCEPT !.stable = next]
               ELSE [db EXCEPT ![v] = "revoked"]

ClaimJob(w) ==
  /\ db.job = "queued" \/ (db.job = "running" /\ db.lease = "expired")
  /\ db' = [db EXCEPT !.job = "running", !.owner = w, !.lease = "live"]

LeaseExpires ==
  /\ db.job = "running"
  /\ db.lease = "live"
  /\ db' = [db EXCEPT !.lease = "expired"]

Next ==
  \/ \E w \in Workers :
       ClaimJob(w) \/ RenewLease(w) \/ PublishJob(w) \/ SuspendForInput(w) \/ RejectJob(w)
  \/ SetVersionStatus \/ CancelJob \/ AnswerInput
  \/ \E v \in Versions : RevokeVersion(v)
  \/ LeaseExpires

Spec == Init /\ [][Next]_db
=============================================================================
