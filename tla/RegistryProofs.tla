--------------------------- MODULE RegistryProofs ---------------------------
(***************************************************************************)
(* What TLAPS proves of Registry, for every set of tools, workers and call *)
(* ids, every bound, and whether or not workers stall.                     *)
(***************************************************************************)
EXTENDS Registry, WellFoundedInduction, TLAPS

\* The newest of a set of revisions exists: FiniteSetsExt!Max is a member of a
\* non-empty bounded set of naturals (used for the pointer after a revocation).
LEMMA MaxOfBounded ==
  ASSUME NEW N \in Nat, NEW S \in SUBSET (0..N), S # {}
  PROVE  Max(S) \in S /\ \A y \in S : Max(S) >= y
<1> DEFINE D == {d \in Nat : \E x \in S : d = N - x}
<1>1. \A x \in S : N - x \in D
  OBVIOUS
<1>2. PICK d \in D : \A e \in D : d <= e
  <2>1. D \in SUBSET Nat /\ D # {}
    BY <1>1
  <2> DEFINE R == OpToRel(<, Nat)
  <2>2. \A x, y \in Nat : x < y => <<x, y>> \in R
    BY DEF OpToRel
  <2>3. IsWellFoundedOn(R, Nat)
    BY NatLessThanWellFounded
  <2> HIDE DEF D, R
  <2>4. PICK d \in D : \A e \in D : ~(<<e, d>> \in R)
    BY <2>1, <2>3, WFMin
  <2>5. ASSUME NEW e \in D PROVE d <= e
    <3>1. d \in Nat /\ e \in Nat
      BY <2>1
    <3>2. ~(e < d)
      BY <2>2, <2>4, <3>1
    <3> QED
      BY <3>1, <3>2
  <2> QED
    BY <2>5
<1>3. PICK m \in S : d = N - m
  BY <1>2
<1>4. \A y \in S : m >= y
  <2> TAKE y \in S
  <2>1. d <= N - y
    BY <1>1, <1>2
  <2> QED
    BY <2>1, <1>3
<1> QED
  BY <1>4 DEF Max

-----------------------------------------------------------------------------
(* Type correctness.                                                       *)

LEMMA InitTypeOK == Init => TypeOK
  BY RegistryAssumption DEF Init, TypeOK, JobStatuses, JobStages, VersionStatuses,
     InputStatuses, LateStatements, WorkingStages

LEMMA NextStableType ==
  ASSUME TypeOK, NEW t \in Tools, NEW r \in Revisions
  PROVE  /\ NextStable(t, r) \in 0..MaxRevision
         /\ stable[t] = r =>
              \/ /\ NextStable(t, r) \in Revisions \ {r}
                 /\ version[<<t, NextStable(t, r)>>] = "ready"
              \/ /\ NextStable(t, r) = 0
                 /\ \A x \in Revisions \ {r} : version[<<t, x>>] # "ready"
<1> DEFINE S == {0} \cup {x \in Revisions \ {r} : version[<<t, x>>] = "ready"}
<1>1. S \in SUBSET (0..MaxRevision) /\ S # {}
  BY RegistryAssumption DEF Revisions
<1>2. Max(S) \in S /\ \A y \in S : Max(S) >= y
  BY <1>1, MaxOfBounded, RegistryAssumption
<1>3. NextStable(t, r) = IF stable[t] = r THEN Max(S) ELSE stable[t]
  BY DEF NextStable
<1>4. Max(S) = 0 => \A x \in Revisions \ {r} : version[<<t, x>>] # "ready"
  <2> SUFFICES ASSUME Max(S) = 0, NEW x \in Revisions \ {r}, version[<<t, x>>] = "ready"
               PROVE  FALSE
    OBVIOUS
  <2>1. x \in S /\ x >= 1
    BY RegistryAssumption DEF Revisions
  <2> QED
    BY <2>1, <1>2, RegistryAssumption DEF Revisions
<1> HIDE DEF S
<1>5. Max(S) # 0 => Max(S) \in Revisions \ {r} /\ version[<<t, Max(S)>>] = "ready"
  BY <1>2 DEF S
<1> QED
  BY <1>1, <1>2, <1>3, <1>4, <1>5 DEF TypeOK

LEMMA StepTypeOK == TypeOK /\ [Next]_vars => TypeOK'
<1> SUFFICES ASSUME TypeOK, [Next]_vars PROVE TypeOK'
  OBVIOUS
<1> USE RegistryAssumption DEF TypeOK, JobStatuses, JobStages, VersionStatuses,
        InputStatuses, LateStatements, WorkingStages, toolVars, jobVars, inputVars,
        workerVars
<1>1. ASSUME NEW t \in Tools, Register(t) PROVE TypeOK'
  BY <1>1 DEF Register, Versions, Revisions
<1>2. ASSUME NEW j \in Versions, NEW c \in CallIds, AnswerInput(j, c) PROVE TypeOK'
  BY <1>2 DEF AnswerInput
<1>3. ASSUME NEW j \in Versions, CancelJob(j) PROVE TypeOK'
  BY <1>3 DEF CancelJob, CancelInput
<1>4. ASSUME NEW t \in Tools, NEW r \in Revisions, RevokeVersion(t, r) PROVE TypeOK'
  BY <1>4, NextStableType DEF RevokeVersion, Versions
<1>5. ASSUME NEW w \in Workers, NEW j \in Versions, Claim(w, j) PROVE TypeOK'
  BY <1>5 DEF Claim, Claimable, ClaimedVersionStatus
<1>6. ASSUME NEW w \in Workers, RenewLease(w) PROVE TypeOK'
  BY <1>6 DEF RenewLease
<1>7. ASSUME NEW w \in Workers, NEW s \in UsedStages, SetStage(w, s) PROVE TypeOK'
  BY <1>7 DEF SetStage, VersionStatusOf
<1>8. ASSUME NEW w \in Workers, SetVersionStatus(w) PROVE TypeOK'
  BY <1>8 DEF SetVersionStatus
<1>9. ASSUME NEW w \in Workers, CheckOwner(w) PROVE TypeOK'
  BY <1>9 DEF CheckOwner
<1>10. ASSUME NEW w \in Workers, WriteCheckpoint(w) PROVE TypeOK'
  BY <1>10 DEF WriteCheckpoint
<1>11. ASSUME NEW w \in Workers, NEW c \in CallIds, SuspendForInput(w, c) PROVE TypeOK'
  BY <1>11 DEF SuspendForInput, LetGo, Processes
<1>12. ASSUME NEW w \in Workers, PublishJob(w) PROVE TypeOK'
  BY <1>12 DEF PublishJob, Processes, Versions, Revisions
<1>13. ASSUME NEW w \in Workers, RejectJob(w) PROVE TypeOK'
  BY <1>13 DEF RejectJob, LetGo
<1>14. ASSUME NEW w \in Workers, DropJob(w) PROVE TypeOK'
  BY <1>14 DEF DropJob, LetGo
<1>15. ASSUME NEW w \in Workers, Crash(w) PROVE TypeOK'
  BY <1>15 DEF Crash, LetGo
<1>16. ASSUME NEW j \in Versions, LeaseExpires(j) PROVE TypeOK'
  BY <1>16 DEF LeaseExpires
<1>17. CASE UNCHANGED vars
  BY <1>17 DEF vars
<1> QED
  BY <1>1, <1>2, <1>3, <1>4, <1>5, <1>6, <1>7, <1>8, <1>9, <1>10, <1>11, <1>12, <1>13,
     <1>14, <1>15, <1>16, <1>17 DEF Next, UserStep, WorkerStep, EnvironmentStep

\* Every reachable state of the registry is well typed, for all constants.
THEOREM TypeCorrect == Spec => []TypeOK
  BY InitTypeOK, StepTypeOK, PTL DEF Spec

-----------------------------------------------------------------------------
(* The rows of a job keep in step, even when workers stall.                *)

\* A revision that has not been registered has an untouched job row.
Unregistered ==
  \A t \in Tools, r \in Revisions :
    r > latest[t] => status[<<t, r>>] = "absent" /\ stage[<<t, r>>] = "queued"

RowsInv == Unregistered /\ InputMatchesStatus /\ ResumableHasCheckpoint

LEMMA InitRowsInv == Init => RowsInv
  BY DEF Init, RowsInv, Unregistered, InputMatchesStatus, ResumableHasCheckpoint, Pending,
     Versions

LEMMA StepRowsInv == TypeOK /\ RowsInv /\ [Next]_vars => RowsInv'
<1> SUFFICES ASSUME TypeOK, RowsInv, [Next]_vars PROVE RowsInv'
  OBVIOUS
<1> USE RegistryAssumption DEF TypeOK, RowsInv, Unregistered, InputMatchesStatus,
        ResumableHasCheckpoint, Pending, HasRun, toolVars, jobVars, inputVars, workerVars
<1>1. ASSUME NEW t \in Tools, Register(t) PROVE RowsInv'
  <2> DEFINE v == <<t, latest[t] + 1>>
  <2>1. v \in Versions /\ status[v] = "absent" /\ stage[v] = "queued"
    BY <1>1 DEF Register, Versions, Revisions
  <2>2. status' = [status EXCEPT ![v] = "queued"] /\ UNCHANGED <<stage, run, input>>
    BY <1>1 DEF Register
  <2>3. Unregistered'
    BY <1>1, <2>2 DEF Register, Versions, Revisions
  <2> HIDE DEF v
  <2>4. InputMatchesStatus'
    BY <2>1, <2>2
  <2>5. ResumableHasCheckpoint'
    BY <2>1, <2>2
  <2> QED
    BY <2>3, <2>4, <2>5
<1>2. ASSUME NEW j \in Versions, NEW c \in CallIds, AnswerInput(j, c) PROVE RowsInv'
  BY <1>2 DEF AnswerInput
<1>3. ASSUME NEW j \in Versions, CancelJob(j) PROVE RowsInv'
  BY <1>3 DEF CancelJob, CancelInput
<1>4. ASSUME NEW t \in Tools, NEW r \in Revisions, RevokeVersion(t, r) PROVE RowsInv'
  BY <1>4 DEF RevokeVersion
<1>5. ASSUME NEW w \in Workers, NEW j \in Versions, Claim(w, j) PROVE RowsInv'
  BY <1>5 DEF Claim, Claimable
<1>6. ASSUME NEW w \in Workers, RenewLease(w) PROVE RowsInv'
  BY <1>6 DEF RenewLease
<1>7. ASSUME NEW w \in Workers, NEW s \in UsedStages, SetStage(w, s) PROVE RowsInv'
  <2>1. PICK j \in Versions : j = holds[w]
    BY <1>7 DEF SetStage, Processes
  <2>2. status[j] = "running" /\ s \in WorkingStages /\ stage' = [stage EXCEPT ![j] = s]
    BY <1>7, <2>1 DEF SetStage, Owns
  <2>3. UNCHANGED <<latest, status, run, input>>
    BY <1>7 DEF SetStage
  <2>4. Unregistered'
    BY <2>1, <2>2, <2>3 DEF Versions
  <2>5. InputMatchesStatus' /\ ResumableHasCheckpoint'
    BY <2>1, <2>2, <2>3
  <2> QED
    BY <2>4, <2>5
<1>8. ASSUME NEW w \in Workers, SetVersionStatus(w) PROVE RowsInv'
  BY <1>8 DEF SetVersionStatus
<1>9. ASSUME NEW w \in Workers, CheckOwner(w) PROVE RowsInv'
  BY <1>9 DEF CheckOwner
<1>10. ASSUME NEW w \in Workers, WriteCheckpoint(w) PROVE RowsInv'
  BY <1>10 DEF WriteCheckpoint
<1>11. ASSUME NEW w \in Workers, NEW c \in CallIds, SuspendForInput(w, c) PROVE RowsInv'
  <2>1. PICK j \in Versions : j = holds[w]
    BY <1>11 DEF SuspendForInput, Processes
  <2>2. /\ status[j] = "running" /\ run[j] # NoWorker
        /\ status' = [status EXCEPT ![j] = "awaiting_input"]
        /\ stage' = [stage EXCEPT ![j] = "awaiting_input"]
        /\ input' = [input EXCEPT ![j][c] = "pending"]
        /\ UNCHANGED <<latest, run>>
    BY <1>11, <2>1 DEF SuspendForInput, Owns
  <2>3. Unregistered'
    BY <2>1, <2>2 DEF Versions
  <2>4. InputMatchesStatus'
    BY <2>1, <2>2
  <2>5. ResumableHasCheckpoint'
    BY <2>1, <2>2
  <2> QED
    BY <2>3, <2>4, <2>5
<1>12. ASSUME NEW w \in Workers, PublishJob(w) PROVE RowsInv'
  <2>1. PICK j \in Versions : j = holds[w]
    BY <1>12 DEF PublishJob, Processes
  <2>2. /\ status[j] = "running"
        /\ status' = [status EXCEPT ![j] = "ready"]
        /\ stage' = [stage EXCEPT ![j] = "complete"]
        /\ UNCHANGED <<latest, input, run>>
    BY <1>12, <2>1 DEF PublishJob, Owns
  <2>3. Unregistered'
    BY <2>1, <2>2 DEF Versions
  <2>4. InputMatchesStatus' /\ ResumableHasCheckpoint'
    BY <2>1, <2>2
  <2> QED
    BY <2>3, <2>4
<1>13. ASSUME NEW w \in Workers, RejectJob(w) PROVE RowsInv'
  <2>1. PICK j \in Versions : j = holds[w]
    BY <1>13 DEF RejectJob
  <2>2. /\ status[j] = "running"
        /\ status' = [status EXCEPT ![j] = "rejected"]
        /\ stage' = [stage EXCEPT ![j] = "complete"]
        /\ UNCHANGED <<latest, input, run>>
    BY <1>13, <2>1 DEF RejectJob, Owns
  <2>3. Unregistered'
    BY <2>1, <2>2 DEF Versions
  <2>4. InputMatchesStatus' /\ ResumableHasCheckpoint'
    BY <2>1, <2>2
  <2> QED
    BY <2>3, <2>4
<1>14. ASSUME NEW w \in Workers, DropJob(w) PROVE RowsInv'
  BY <1>14 DEF DropJob
<1>15. ASSUME NEW w \in Workers, Crash(w) PROVE RowsInv'
  BY <1>15 DEF Crash
<1>16. ASSUME NEW j \in Versions, LeaseExpires(j) PROVE RowsInv'
  BY <1>16 DEF LeaseExpires
<1>17. CASE UNCHANGED vars
  BY <1>17 DEF vars
<1> QED
  BY <1>1, <1>2, <1>3, <1>4, <1>5, <1>6, <1>7, <1>8, <1>9, <1>10, <1>11, <1>12, <1>13,
     <1>14, <1>15, <1>16, <1>17 DEF Next, UserStep, WorkerStep, EnvironmentStep

LEMMA RowsInvariant == Spec => [](TypeOK /\ RowsInv)
  BY InitTypeOK, StepTypeOK, InitRowsInv, StepRowsInv, PTL DEF Spec

\* A job waits for the user exactly when one question of it is open, even when
\* workers stall and are replaced (suspend, answer and cancel of a job).
THEOREM InputsMatch == Spec => []InputMatchesStatus
  BY RowsInvariant, PTL DEF RowsInv

\* A job that waits for the user, or was answered, has its agent run.
THEOREM ResumableJobs == Spec => []ResumableHasCheckpoint
  BY RowsInvariant, PTL DEF RowsInv

-----------------------------------------------------------------------------
(* What one step may never do to a job, even when workers stall.           *)

JobStays(j) == status[j] \in Terminal => status'[j] = status[j]

LeaseHolds(j) ==
  status[j] = "running" /\ lease[j] = "live" => owner'[j] \in {owner[j], NoWorker}

AnswerStays(j, c) ==
  input[j][c] \in {"answered", "cancelled"} => input'[j][c] = input[j][c]

StepsKeep ==
  \A j \in Versions :
    /\ JobStays(j)
    /\ LeaseHolds(j)
    /\ \A c \in CallIds : AnswerStays(j, c)

LEMMA NextKeeps == TypeOK /\ RowsInv /\ [Next]_vars => StepsKeep
<1> SUFFICES ASSUME TypeOK, RowsInv, [Next]_vars, NEW i \in Versions
             PROVE  JobStays(i) /\ LeaseHolds(i) /\ \A c \in CallIds : AnswerStays(i, c)
  BY DEF StepsKeep
<1> DEFINE Kept == JobStays(i) /\ LeaseHolds(i) /\ \A c \in CallIds : AnswerStays(i, c)
<1> USE RegistryAssumption DEF TypeOK, Terminal, JobStays, LeaseHolds, AnswerStays,
        toolVars, jobVars, inputVars, workerVars
<1>1. ASSUME NEW t \in Tools, Register(t) PROVE Kept
  <2> DEFINE v == <<t, latest[t] + 1>>
  <2>1. v \in Versions /\ status[v] = "absent"
    BY <1>1 DEF Register, Versions, Revisions, RowsInv, Unregistered
  <2>2. status' = [status EXCEPT ![v] = "queued"] /\ UNCHANGED <<owner, input>>
    BY <1>1 DEF Register
  <2> HIDE DEF v
  <2> QED
    BY <2>1, <2>2
<1>2. ASSUME NEW j \in Versions, NEW c \in CallIds, AnswerInput(j, c) PROVE Kept
  BY <1>2 DEF AnswerInput
<1>3. ASSUME NEW j \in Versions, CancelJob(j) PROVE Kept
  BY <1>3 DEF CancelJob, CancelInput
<1>4. ASSUME NEW t \in Tools, NEW r \in Revisions, RevokeVersion(t, r) PROVE Kept
  BY <1>4 DEF RevokeVersion
<1>5. ASSUME NEW w \in Workers, NEW j \in Versions, Claim(w, j) PROVE Kept
  BY <1>5 DEF Claim, Claimable
<1>6. ASSUME NEW w \in Workers, RenewLease(w) PROVE Kept
  BY <1>6 DEF RenewLease
<1>7. ASSUME NEW w \in Workers, NEW s \in UsedStages, SetStage(w, s) PROVE Kept
  BY <1>7 DEF SetStage
<1>8. ASSUME NEW w \in Workers, SetVersionStatus(w) PROVE Kept
  BY <1>8 DEF SetVersionStatus
<1>9. ASSUME NEW w \in Workers, CheckOwner(w) PROVE Kept
  BY <1>9 DEF CheckOwner
<1>10. ASSUME NEW w \in Workers, WriteCheckpoint(w) PROVE Kept
  BY <1>10 DEF WriteCheckpoint
<1>11. ASSUME NEW w \in Workers, NEW c \in CallIds, SuspendForInput(w, c) PROVE Kept
  <2>1. PICK j \in Versions : j = holds[w]
    BY <1>11 DEF SuspendForInput, Processes
  <2>2. /\ status[j] = "running" /\ input[j][c] = "absent"
        /\ status' = [status EXCEPT ![j] = "awaiting_input"]
        /\ owner' = [owner EXCEPT ![j] = NoWorker]
        /\ input' = [input EXCEPT ![j][c] = "pending"]
    BY <1>11, <2>1 DEF SuspendForInput, Owns
  <2> QED
    BY <2>1, <2>2
<1>12. ASSUME NEW w \in Workers, PublishJob(w) PROVE Kept
  BY <1>12 DEF PublishJob, Owns
<1>13. ASSUME NEW w \in Workers, RejectJob(w) PROVE Kept
  BY <1>13 DEF RejectJob, Owns
<1>14. ASSUME NEW w \in Workers, DropJob(w) PROVE Kept
  BY <1>14 DEF DropJob
<1>15. ASSUME NEW w \in Workers, Crash(w) PROVE Kept
  BY <1>15 DEF Crash
<1>16. ASSUME NEW j \in Versions, LeaseExpires(j) PROVE Kept
  BY <1>16 DEF LeaseExpires
<1>17. CASE UNCHANGED vars
  BY <1>17 DEF vars
<1> QED
  BY <1>1, <1>2, <1>3, <1>4, <1>5, <1>6, <1>7, <1>8, <1>9, <1>10, <1>11, <1>12, <1>13,
     <1>14, <1>15, <1>16, <1>17 DEF Next, UserStep, WorkerStep, EnvironmentStep

LEMMA AlwaysKeeps == Spec => [][StepsKeep]_vars
  BY RowsInvariant, NextKeeps, PTL DEF Spec

\* A job that is ready or rejected keeps its status: the guards on owner and
\* status refuse whatever a worker that lost the job still sends.
THEOREM TerminalStays == Spec => TerminalJobsStay
<1>1. StepsKeep => \A j \in Versions : status[j] \in Terminal => status'[j] = status[j]
  BY DEF StepsKeep, JobStays
<1> QED
  BY <1>1, AlwaysKeeps, PTL DEF TerminalJobsStay

\* claim_synthesis_job takes no running job whose lease is live.
THEOREM LeasesHold == Spec => LiveLeaseIsNotTaken
<1>1. StepsKeep =>
        \A j \in Versions : status[j] = "running" /\ lease[j] = "live" =>
          owner'[j] \in {owner[j], NoWorker}
  BY DEF StepsKeep, LeaseHolds
<1> QED
  BY <1>1, AlwaysKeeps, PTL DEF LiveLeaseIsNotTaken

\* An answered or cancelled question is never written again.
THEOREM AnswersStand == Spec => AnswersStay
<1>1. StepsKeep =>
        \A j \in Versions, c \in CallIds :
          input[j][c] \in {"answered", "cancelled"} => input'[j][c] = input[j][c]
  BY DEF StepsKeep, AnswerStays
<1> QED
  BY <1>1, AlwaysKeeps, PTL DEF AnswersStay

LEMMA StepExhausted ==
  TypeOK /\ RowsInv /\ ExhaustedNeverPublished /\ [Next]_vars => ExhaustedNeverPublished'
<1> SUFFICES ASSUME TypeOK, RowsInv, ExhaustedNeverPublished, [Next]_vars, NEW i \in Versions
             PROVE  status'[i] = "ready" => attempts'[i] <= MaxAttempts
  BY DEF ExhaustedNeverPublished
<1> DEFINE Counted == status'[i] = "ready" => attempts'[i] <= MaxAttempts
<1>0. status[i] = "ready" => attempts[i] <= MaxAttempts
  BY DEF ExhaustedNeverPublished
<1> USE DEF TypeOK
<1>1. ASSUME NEW t \in Tools, Register(t) PROVE Counted
  BY <1>0, <1>1 DEF Register
<1>2. ASSUME NEW j \in Versions, NEW c \in CallIds, AnswerInput(j, c) PROVE Counted
  BY <1>0, <1>2 DEF AnswerInput
<1>3. ASSUME NEW j \in Versions, CancelJob(j) PROVE Counted
  BY <1>0, <1>3 DEF CancelJob
<1>4. ASSUME NEW w \in Workers, NEW j \in Versions, Claim(w, j) PROVE Counted
  BY <1>0, <1>4 DEF Claim
<1>5. ASSUME NEW w \in Workers, NEW c \in CallIds, SuspendForInput(w, c) PROVE Counted
  BY <1>0, <1>5 DEF SuspendForInput
<1>6. ASSUME NEW w \in Workers, PublishJob(w) PROVE Counted
  BY <1>0, <1>6 DEF PublishJob, Processes
<1>7. ASSUME NEW w \in Workers, RejectJob(w) PROVE Counted
  BY <1>0, <1>7 DEF RejectJob
<1>8. ASSUME UNCHANGED <<status, attempts>> PROVE Counted
  BY <1>0, <1>8
<1> QED
  BY <1>1, <1>2, <1>3, <1>4, <1>5, <1>6, <1>7, <1>8 DEF Next, UserStep, WorkerStep,
     EnvironmentStep, vars, jobVars, RevokeVersion, RenewLease, SetStage, SetVersionStatus,
     CheckOwner, WriteCheckpoint, DropJob, Crash, LeaseExpires

\* A job claimed more often than MAX_JOB_ATTEMPTS is never published, even when
\* a worker that stalled takes part.
THEOREM ExhaustedStaysUnpublished == Spec => []ExhaustedNeverPublished
<1>1. Init => ExhaustedNeverPublished
  BY DEF Init, ExhaustedNeverPublished
<1> QED
  BY <1>1, RowsInvariant, StepExhausted, PTL DEF Spec

-----------------------------------------------------------------------------
(* Workers that do not stall: a live worker renews its lease in time.      *)

\* The job a worker process works on is its own, or has been rejected.
HeldJobIsOwned ==
  \A w \in Workers : holds[w] # NoJob =>
    \/ status[holds[w]] \in {"running", "ready"} /\ owner[holds[w]] = w
    \/ status[holds[w]] = "rejected"

\* The lease of a running job that is worked on has not run out.
HeldLeaseIsLive ==
  \A w \in Workers :
    holds[w] # NoJob /\ status[holds[w]] = "running" => lease[holds[w]] = "live"

\* set_job_stage's second statement comes while the job runs, or after it was
\* cancelled: never after it was published.
LateBeforePublished ==
  \A w \in Workers : late[w] # "none" =>
    /\ holds[w] # NoJob
    /\ late[w] # "checkpoint" => status[holds[w]] \in {"running", "rejected"}

HoldingInv == HeldJobIsOwned /\ HeldLeaseIsLive /\ LateBeforePublished /\ OneWorkerPerJob

\* The version of a job, for every status of the job.
VersionFits ==
  \A v \in Versions :
    /\ status[v] = "absent" => version[v] = "absent"
    /\ status[v] \in UnderWay =>
         version[v] \in {"draft", "synthesizing", "building", "validating"}
    /\ status[v] = "ready" => version[v] \in {"ready", "revoked"}
    /\ status[v] = "rejected" =>
         version[v] \in {"rejected", "synthesizing", "building", "validating"}

PublishedInv == VersionFits /\ StableIffReady

LEMMA InitHoldingInv == Init => HoldingInv
  BY DEF Init, HoldingInv, HeldJobIsOwned, HeldLeaseIsLive, LateBeforePublished,
     OneWorkerPerJob

LEMMA StepHoldingInv ==
  ~MayStall /\ TypeOK /\ RowsInv /\ HoldingInv /\ [Next]_vars => HoldingInv'
<1> SUFFICES ASSUME ~MayStall, TypeOK, RowsInv, HoldingInv, [Next]_vars PROVE HoldingInv'
  OBVIOUS
<1> USE RegistryAssumption DEF TypeOK, HoldingInv, HeldJobIsOwned, HeldLeaseIsLive,
        LateBeforePublished, OneWorkerPerJob, LetGo, Processes, Owns,
        toolVars, jobVars, inputVars, workerVars
<1>1. ASSUME NEW t \in Tools, Register(t) PROVE HoldingInv'
  <2> DEFINE v == <<t, latest[t] + 1>>
  <2>1. v \in Versions /\ status[v] = "absent"
    BY <1>1 DEF Register, Versions, Revisions, RowsInv, Unregistered
  <2>2. status' = [status EXCEPT ![v] = "queued"] /\ UNCHANGED <<owner, lease, workerVars>>
    BY <1>1 DEF Register
  <2> HIDE DEF v
  <2> QED
    BY <2>1, <2>2
<1>2. ASSUME NEW j \in Versions, NEW c \in CallIds, AnswerInput(j, c) PROVE HoldingInv'
  BY <1>2 DEF AnswerInput
<1>3. ASSUME NEW j \in Versions, CancelJob(j) PROVE HoldingInv'
  BY <1>3 DEF CancelJob
<1>4. ASSUME NEW t \in Tools, NEW r \in Revisions, RevokeVersion(t, r) PROVE HoldingInv'
  BY <1>4 DEF RevokeVersion
<1>5. ASSUME NEW w \in Workers, NEW j \in Versions, Claim(w, j) PROVE HoldingInv'
  <2>1. \A x \in Workers : holds[x] # j
    BY <1>5 DEF Claim, Claimable
  <2> QED
    BY <1>5, <2>1 DEF Claim, Claimable
<1>6. ASSUME NEW w \in Workers, RenewLease(w) PROVE HoldingInv'
  BY <1>6 DEF RenewLease
<1>7. ASSUME NEW w \in Workers, NEW s \in UsedStages, SetStage(w, s) PROVE HoldingInv'
  BY <1>7 DEF SetStage
<1>8. ASSUME NEW w \in Workers, SetVersionStatus(w) PROVE HoldingInv'
  BY <1>8 DEF SetVersionStatus
<1>9. ASSUME NEW w \in Workers, CheckOwner(w) PROVE HoldingInv'
  BY <1>9 DEF CheckOwner
<1>10. ASSUME NEW w \in Workers, WriteCheckpoint(w) PROVE HoldingInv'
  BY <1>10 DEF WriteCheckpoint
<1>11. ASSUME NEW w \in Workers, NEW c \in CallIds, SuspendForInput(w, c) PROVE HoldingInv'
  BY <1>11 DEF SuspendForInput
<1>12. ASSUME NEW w \in Workers, PublishJob(w) PROVE HoldingInv'
  BY <1>12 DEF PublishJob
<1>13. ASSUME NEW w \in Workers, RejectJob(w) PROVE HoldingInv'
  BY <1>13 DEF RejectJob
<1>14. ASSUME NEW w \in Workers, DropJob(w) PROVE HoldingInv'
  BY <1>14 DEF DropJob
<1>15. ASSUME NEW w \in Workers, Crash(w) PROVE HoldingInv'
  BY <1>15 DEF Crash
<1>16. ASSUME NEW j \in Versions, LeaseExpires(j) PROVE HoldingInv'
  BY <1>16 DEF LeaseExpires
<1>17. CASE UNCHANGED vars
  BY <1>17 DEF vars
<1> QED
  BY <1>1, <1>2, <1>3, <1>4, <1>5, <1>6, <1>7, <1>8, <1>9, <1>10, <1>11, <1>12, <1>13,
     <1>14, <1>15, <1>16, <1>17 DEF Next, UserStep, WorkerStep, EnvironmentStep

LEMMA InitPublishedInv == Init => PublishedInv
  BY DEF Init, PublishedInv, VersionFits, StableIffReady, Versions, UnderWay

\* A version that was not ready and does not become ready leaves the pointer right.
LEMMA PointerKept ==
  ASSUME TypeOK, StableIffReady, NEW j \in Versions, version[j] # "ready", NEW s, s # "ready",
         version' = [version EXCEPT ![j] = s], stable' = stable
  PROVE  StableIffReady'
<1>1. \A v \in Versions : version'[v] = "ready" <=> version[v] = "ready"
  BY DEF TypeOK
<1> SUFFICES ASSUME NEW t \in Tools
             PROVE  IF stable[t] = 0
                    THEN \A r \in Revisions : version'[<<t, r>>] # "ready"
                    ELSE version'[<<t, stable[t]>>] = "ready"
  BY DEF StableIffReady
<1>2. \A r \in Revisions : <<t, r>> \in Versions
  BY DEF Versions
<1>3. CASE stable[t] = 0
  BY <1>1, <1>2, <1>3 DEF StableIffReady
<1>4. CASE stable[t] # 0
  <2>1. stable[t] \in Revisions
    BY <1>4, RegistryAssumption DEF TypeOK, Revisions
  <2> QED
    BY <1>1, <1>2, <1>4, <2>1 DEF StableIffReady
<1> QED
  BY <1>3, <1>4

LEMMA StepPublishedInv ==
  TypeOK /\ RowsInv /\ HoldingInv /\ PublishedInv /\ [Next]_vars => PublishedInv'
<1> SUFFICES ASSUME TypeOK, RowsInv, HoldingInv, PublishedInv, [Next]_vars
             PROVE  PublishedInv'
  OBVIOUS
<1> USE RegistryAssumption DEF TypeOK, PublishedInv, VersionFits, StableIffReady, UnderWay,
        Terminal, Processes, Owns, LetGo, toolVars, jobVars, inputVars, workerVars
<1>0. \A t \in Tools : stable[t] # 0 => stable[t] \in Revisions
  BY DEF Revisions
<1>1. ASSUME NEW t \in Tools, Register(t) PROVE PublishedInv'
  <2> DEFINE v == <<t, latest[t] + 1>>
  <2>1. v \in Versions /\ status[v] = "absent"
    BY <1>1 DEF Register, Versions, Revisions, RowsInv, Unregistered
  <2>2. /\ status' = [status EXCEPT ![v] = "queued"]
        /\ version' = [version EXCEPT ![v] = "draft"]
        /\ stable' = stable
    BY <1>1 DEF Register
  <2> HIDE DEF v
  <2>3. VersionFits'
    BY <2>1, <2>2
  <2>4. StableIffReady'
    BY <2>1, <2>2, <1>0 DEF Versions
  <2> QED
    BY <2>3, <2>4
<1>2. ASSUME NEW j \in Versions, NEW c \in CallIds, AnswerInput(j, c) PROVE PublishedInv'
  BY <1>2 DEF AnswerInput
<1>3. ASSUME NEW j \in Versions, CancelJob(j) PROVE PublishedInv'
  <2>1. VersionFits'
    BY <1>3 DEF CancelJob
  <2>2. /\ version[j] # "ready"
        /\ version' = [version EXCEPT ![j] = "rejected"]
        /\ stable' = stable
    BY <1>3 DEF CancelJob, JobStatuses
  <2>3. StableIffReady'
    BY ONLY TypeOK, StableIffReady, <1>3, <2>2, PointerKept
  <2> QED
    BY <2>1, <2>3
<1>4. ASSUME NEW t \in Tools, NEW r \in Revisions, RevokeVersion(t, r) PROVE PublishedInv'
  <2>1. <<t, r>> \in Versions /\ version[<<t, r>>] = "ready" /\ status[<<t, r>>] = "ready"
    BY <1>4 DEF RevokeVersion, Versions, JobStatuses
  <2>2. VersionFits'
    BY <1>4, <2>1 DEF RevokeVersion
  <2>3. StableIffReady'
    <3> SUFFICES ASSUME NEW u \in Tools
                 PROVE  IF stable'[u] = 0
                        THEN \A x \in Revisions : version'[<<u, x>>] # "ready"
                        ELSE version'[<<u, stable'[u]>>] = "ready"
      OBVIOUS
    <3>1. CASE u # t
      BY <1>4, <3>1, <1>0 DEF RevokeVersion, Versions
    <3>2. CASE u = t /\ stable[t] # r
      BY <1>4, <3>2, <1>0, <2>1 DEF RevokeVersion, NextStable, Versions
    <3>3. CASE u = t /\ stable[t] = r
      <4>1. stable'[t] = NextStable(t, r)
        BY <1>4 DEF RevokeVersion
      <4>2. version' = [version EXCEPT ![<<t, r>>] = "revoked"]
        BY <1>4 DEF RevokeVersion
      <4>3. \/ /\ stable'[t] \in Revisions \ {r}
               /\ version[<<t, stable'[t]>>] = "ready"
            \/ /\ stable'[t] = 0
               /\ \A x \in Revisions \ {r} : version[<<t, x>>] # "ready"
        BY <3>3, <4>1, NextStableType
      <4>4. 0 \notin Revisions
        BY DEF Revisions
      <4> QED
        BY <3>3, <4>2, <4>3, <4>4 DEF Versions
    <3> QED
      BY <3>1, <3>2, <3>3
  <2> QED
    BY <2>2, <2>3
<1>5. ASSUME NEW w \in Workers, NEW j \in Versions, Claim(w, j) PROVE PublishedInv'
  <2>1. version[j] \in {"draft", "synthesizing", "building", "validating"}
    BY <1>5 DEF Claim, Claimable
  <2>2. VersionFits'
    BY <1>5, <2>1 DEF Claim, ClaimedVersionStatus
  <2>3. StableIffReady'
    BY <1>5, <1>0, <2>1 DEF Claim, ClaimedVersionStatus, Versions
  <2> QED
    BY <2>2, <2>3
<1>6. ASSUME NEW w \in Workers, RenewLease(w) PROVE PublishedInv'
  BY <1>6 DEF RenewLease
<1>7. ASSUME NEW w \in Workers, NEW s \in UsedStages, SetStage(w, s) PROVE PublishedInv'
  BY <1>7 DEF SetStage
<1>8. ASSUME NEW w \in Workers, SetVersionStatus(w) PROVE PublishedInv'
  <2>1. PICK j \in Versions : j = holds[w] /\ status[j] \in {"running", "rejected"}
    BY <1>8 DEF SetVersionStatus, HoldingInv, LateBeforePublished
  <2>2. /\ version' = [version EXCEPT ![j] = late[w]]
        /\ late[w] \in {"synthesizing", "building", "validating"}
        /\ UNCHANGED <<status, stable>>
    BY <1>8, <2>1 DEF SetVersionStatus
  <2>3. VersionFits'
    BY <2>1, <2>2
  <2>4. version[j] # "ready"
    BY <2>1
  <2>5. StableIffReady'
    BY ONLY TypeOK, StableIffReady, <2>2, <2>4, PointerKept
  <2> QED
    BY <2>3, <2>5
<1>9. ASSUME NEW w \in Workers, CheckOwner(w) PROVE PublishedInv'
  BY <1>9 DEF CheckOwner
<1>10. ASSUME NEW w \in Workers, WriteCheckpoint(w) PROVE PublishedInv'
  BY <1>10 DEF WriteCheckpoint
<1>11. ASSUME NEW w \in Workers, NEW c \in CallIds, SuspendForInput(w, c) PROVE PublishedInv'
  BY <1>11 DEF SuspendForInput
<1>12. ASSUME NEW w \in Workers, PublishJob(w) PROVE PublishedInv'
  <2>1. PICK t \in Tools, r \in Revisions : holds[w] = <<t, r>>
    BY <1>12 DEF PublishJob, Versions
  <2>2. /\ version' = [version EXCEPT ![<<t, r>>] = "ready"]
        /\ status' = [status EXCEPT ![<<t, r>>] = "ready"]
        /\ stable' = [stable EXCEPT ![t] = r]
    BY <1>12, <2>1 DEF PublishJob
  <2>3. VersionFits'
    BY <2>2
  <2>4. r # 0
    BY DEF Revisions
  <2>5. stable'[t] = r /\ version'[<<t, r>>] = "ready"
    BY <2>2 DEF Versions
  <2>6. \A u \in Tools \ {t} : stable'[u] = stable[u]
    BY <2>2
  <2>7. \A u \in Tools \ {t}, x \in Revisions : version'[<<u, x>>] = version[<<u, x>>]
    BY <2>2 DEF Versions
  <2>8. StableIffReady'
    <3> SUFFICES ASSUME NEW u \in Tools
                 PROVE  IF stable'[u] = 0
                        THEN \A x \in Revisions : version'[<<u, x>>] # "ready"
                        ELSE version'[<<u, stable'[u]>>] = "ready"
      OBVIOUS
    <3>1. CASE u = t
      BY <3>1, <2>4, <2>5
    <3>2. CASE u # t
      <4>1. stable'[u] = stable[u]
        BY <3>2, <2>6
      <4>2. \A x \in Revisions : version'[<<u, x>>] = version[<<u, x>>]
        BY <3>2, <2>7
      <4>3. CASE stable[u] = 0
        BY <4>1, <4>2, <4>3
      <4>4. CASE stable[u] # 0
        <5>1. stable[u] \in Revisions
          BY <4>4, <1>0
        <5> QED
          BY <4>1, <4>2, <4>4, <5>1
      <4> QED
        BY <4>3, <4>4
    <3> QED
      BY <3>1, <3>2
  <2> QED
    BY <2>3, <2>8
<1>13. ASSUME NEW w \in Workers, RejectJob(w) PROVE PublishedInv'
  <2>1. PICK j \in Versions : j = holds[w] /\ status[j] = "running"
    BY <1>13 DEF RejectJob
  <2>2. /\ version' = [version EXCEPT ![j] = "rejected"]
        /\ status' = [status EXCEPT ![j] = "rejected"]
        /\ stable' = stable
    BY <1>13, <2>1 DEF RejectJob
  <2>3. VersionFits'
    BY <2>1, <2>2
  <2>4. version[j] # "ready"
    BY <2>1
  <2>5. StableIffReady'
    BY ONLY TypeOK, StableIffReady, <2>2, <2>4, PointerKept
  <2> QED
    BY <2>3, <2>5
<1>14. ASSUME NEW w \in Workers, DropJob(w) PROVE PublishedInv'
  BY <1>14 DEF DropJob
<1>15. ASSUME NEW w \in Workers, Crash(w) PROVE PublishedInv'
  BY <1>15 DEF Crash
<1>16. ASSUME NEW j \in Versions, LeaseExpires(j) PROVE PublishedInv'
  BY <1>16 DEF LeaseExpires
<1>17. CASE UNCHANGED vars
  BY <1>17 DEF vars
<1> QED
  BY <1>1, <1>2, <1>3, <1>4, <1>5, <1>6, <1>7, <1>8, <1>9, <1>10, <1>11, <1>12, <1>13,
     <1>14, <1>15, <1>16, <1>17 DEF Next, UserStep, WorkerStep, EnvironmentStep

\* For workers that do not stall, the whole invariant.
RegistryInv == TypeOK /\ RowsInv /\ HoldingInv /\ PublishedInv

LEMMA RegistryInvariant == ASSUME ~MayStall PROVE Spec => []RegistryInv
<1>1. Init => RegistryInv
  BY InitTypeOK, InitRowsInv, InitHoldingInv, InitPublishedInv DEF RegistryInv
<1>2. RegistryInv /\ [Next]_vars => RegistryInv'
  BY StepTypeOK, StepRowsInv, StepHoldingInv, StepPublishedInv DEF RegistryInv
<1> QED
  BY <1>1, <1>2, PTL DEF Spec

\* As long as leases are renewed in time, no two workers work on one job.
THEOREM OneWorker == ASSUME ~MayStall PROVE Spec => []OneWorkerPerJob
<1>1. RegistryInv => OneWorkerPerJob
  BY DEF RegistryInv, HoldingInv
<1> QED
  BY <1>1, RegistryInvariant, PTL

\* The job row and the version row agree in every state.
THEOREM JobsAgree == ASSUME ~MayStall PROVE Spec => []JobsAgreeWithVersions
<1>1. RegistryInv => JobsAgreeWithVersions
  BY DEF RegistryInv, PublishedInv, VersionFits, JobsAgreeWithVersions
<1> QED
  BY <1>1, RegistryInvariant, PTL

\* A bare name resolves to a ready revision, and to none only when none is.
THEOREM StableResolves == ASSUME ~MayStall PROVE Spec => []StableIffReady
<1>1. RegistryInv => StableIffReady
  BY DEF RegistryInv, PublishedInv
<1> QED
  BY <1>1, RegistryInvariant, PTL

VersionStays(v) ==
  /\ version[v] = "ready" => version'[v] \in {"ready", "revoked"}
  /\ version[v] = "revoked" => version'[v] = "revoked"

LEMMA NextVersionStays == RegistryInv /\ [Next]_vars => \A v \in Versions : VersionStays(v)
<1> SUFFICES ASSUME RegistryInv, [Next]_vars, NEW i \in Versions PROVE VersionStays(i)
  OBVIOUS
<1>0. version[i] \in {"ready", "revoked"} => status[i] = "ready"
  BY DEF RegistryInv, PublishedInv, VersionFits, UnderWay, TypeOK, JobStatuses
<1> USE DEF VersionStays, RegistryInv, TypeOK
<1>1. ASSUME NEW t \in Tools, Register(t) PROVE VersionStays(i)
  <2>1. <<t, latest[t] + 1>> \in Versions /\ status[<<t, latest[t] + 1>>] = "absent"
    BY <1>1, RegistryAssumption DEF Register, Versions, Revisions, RowsInv, Unregistered
  <2> QED
    BY <1>0, <1>1, <2>1 DEF Register
<1>2. ASSUME NEW j \in Versions, CancelJob(j) PROVE VersionStays(i)
  BY <1>0, <1>2 DEF CancelJob, Terminal
<1>3. ASSUME NEW t \in Tools, NEW r \in Revisions, RevokeVersion(t, r) PROVE VersionStays(i)
  BY <1>3 DEF RevokeVersion
<1>4. ASSUME NEW w \in Workers, NEW j \in Versions, Claim(w, j) PROVE VersionStays(i)
  BY <1>0, <1>4 DEF Claim, Claimable
<1>5. ASSUME NEW w \in Workers, SetVersionStatus(w) PROVE VersionStays(i)
  <2>1. status[holds[w]] \in {"running", "rejected"}
    BY <1>5 DEF SetVersionStatus, HoldingInv, LateBeforePublished
  <2> QED
    BY <1>0, <1>5, <2>1 DEF SetVersionStatus
<1>6. ASSUME NEW w \in Workers, PublishJob(w) PROVE VersionStays(i)
  BY <1>0, <1>6 DEF PublishJob, Owns
<1>7. ASSUME NEW w \in Workers, RejectJob(w) PROVE VersionStays(i)
  BY <1>0, <1>7 DEF RejectJob, Owns
<1>8. ASSUME UNCHANGED version PROVE VersionStays(i)
  BY <1>8
<1> QED
  BY <1>1, <1>2, <1>3, <1>4, <1>5, <1>6, <1>7, <1>8 DEF Next, UserStep, WorkerStep,
     EnvironmentStep, vars, toolVars, AnswerInput, RenewLease, SetStage, CheckOwner,
     WriteCheckpoint, SuspendForInput, DropJob, Crash, LeaseExpires

\* A published version can only be revoked, and a revoked one stays revoked.
THEOREM PublishedStays == ASSUME ~MayStall PROVE Spec => PublishedVersionsStay
<1>1. (\A v \in Versions : VersionStays(v)) =>
        \A v \in Versions :
          /\ version[v] = "ready" => version'[v] \in {"ready", "revoked"}
          /\ version[v] = "revoked" => version'[v] = "revoked"
  BY DEF VersionStays
<1> QED
  BY <1>1, RegistryInvariant, NextVersionStays, PTL DEF Spec, PublishedVersionsStay
=============================================================================
