------------------------- MODULE RegistryLifeProofs -------------------------
(***************************************************************************)
(* The registry implements JobLife, for every set of tools, workers and    *)
(* call ids, as long as no worker stalls past its lease: each step of the  *)
(* registry is a step of one job's life, or shows nothing.                 *)
(***************************************************************************)
EXTENDS RegistryLife, RegistryProofs

Question == [j \in Versions |-> Pending(j) # {}]
Seen == [j \in Versions |-> VersionSeen(j)]

Hidden == UNCHANGED <<status, Question, Seen>>

LEMMA SameQuestions ==
  ASSUME UNCHANGED input PROVE Question' = Question
  BY DEF Question, Pending

LEMMA SameSeen ==
  ASSUME UNCHANGED version PROVE Seen' = Seen
  BY DEF Seen, VersionSeen

\* A version that is not published changes to another such status.
LEMMA UnseenChange ==
  ASSUME TypeOK, NEW j \in Versions, NEW s \in VersionStatuses,
         version' = [version EXCEPT ![j] = s],
         version[j] \notin {"ready", "revoked"}, s \notin {"ready", "revoked"}
  PROVE  Seen' = Seen
<1>1. \A i \in Versions : VersionSeen(i)' = VersionSeen(i)
  BY DEF VersionSeen, TypeOK
<1> QED
  BY <1>1 DEF Seen

LEMMA InitLife == Init => Life!Init
<1> SUFFICES ASSUME Init PROVE Life!Init
  OBVIOUS
<1>1. Question = [j \in Versions |-> FALSE]
  BY DEF Init, Question, Pending
<1>2. Seen = [j \in Versions |-> "unpublished"]
  BY DEF Init, Seen, VersionSeen
<1> QED
  BY <1>1, <1>2 DEF Init, Life!Init, Question, Seen

LEMMA StepLife == RegistryInv /\ [Next]_vars => [Life!Next]_(Life!vars)
<1> SUFFICES ASSUME RegistryInv, [Next]_vars PROVE [Life!Next]_(Life!vars)
  OBVIOUS
<1> USE RegistryAssumption
<1>0. /\ TypeOK /\ VersionFits /\ InputMatchesStatus
      /\ \A v \in Versions : version[v] \in {"ready", "revoked"} => status[v] = "ready"
  BY DEF RegistryInv, RowsInv, PublishedInv, VersionFits, UnderWay, TypeOK, JobStatuses
<1>a. Hidden => [Life!Next]_(Life!vars)
  BY DEF Hidden, Life!vars, Question, Seen
<1>b. ASSUME NEW j \in Versions, Life!Step(j) PROVE [Life!Next]_(Life!vars)
  BY <1>b DEF Life!Next
<1>1. ASSUME NEW t \in Tools, Register(t) PROVE [Life!Next]_(Life!vars)
  <2> DEFINE v == <<t, latest[t] + 1>>
  <2>1. v \in Versions /\ status[v] = "absent"
    BY <1>1 DEF Register, Versions, Revisions, RegistryInv, RowsInv, Unregistered, TypeOK
  <2>2. /\ status' = [status EXCEPT ![v] = "queued"]
        /\ version' = [version EXCEPT ![v] = "draft"]
        /\ UNCHANGED input
    BY <1>1 DEF Register, inputVars
  <2> HIDE DEF v
  <2>3. version[v] = "absent"
    BY <1>0, <2>1 DEF VersionFits
  <2>4. Seen' = Seen /\ Question' = Question
    BY <1>0, <2>1, <2>2, <2>3, UnseenChange, SameQuestions DEF VersionStatuses
  <2>5. Life!Register(v)
    BY <2>1, <2>2, <2>4 DEF Life!Register, Seen, Question
  <2> QED
    BY <1>b, <2>1, <2>5 DEF Life!Step
<1>2. ASSUME NEW j \in Versions, NEW c \in CallIds, AnswerInput(j, c)
      PROVE  [Life!Next]_(Life!vars)
  <2>1. /\ status[j] = "awaiting_input" /\ status' = [status EXCEPT ![j] = "queued"]
        /\ input' = [input EXCEPT ![j][c] = "answered"] /\ UNCHANGED version
        /\ c \in Pending(j)
    BY <1>2 DEF AnswerInput, toolVars, Pending
  <2>2. \A d \in Pending(j) : d = c
    BY <1>0, <2>1 DEF InputMatchesStatus
  <2>3. Pending(j)' = {}
    BY <1>0, <2>1, <2>2 DEF Pending, TypeOK
  <2>4. \A i \in Versions \ {j} : Pending(i)' = Pending(i)
    BY <1>0, <2>1 DEF Pending, TypeOK
  <2>5. Question' = [Question EXCEPT ![j] = FALSE]
    BY <2>3, <2>4 DEF Question
  <2>6. Life!Answer(j)
    BY <2>1, <2>5, SameSeen DEF Life!Answer, Seen, Question
  <2> QED
    BY <1>b, <2>6 DEF Life!Step
<1>3. ASSUME NEW j \in Versions, CancelJob(j) PROVE [Life!Next]_(Life!vars)
  <2>1. /\ status[j] \in {"queued", "running", "awaiting_input"}
        /\ status' = [status EXCEPT ![j] = "rejected"]
        /\ version' = [version EXCEPT ![j] = "rejected"]
        /\ input' = [input EXCEPT ![j] = [c \in CallIds |-> CancelInput(input[j][c])]]
    BY <1>0, <1>3 DEF CancelJob, Terminal, TypeOK, JobStatuses
  <2>2. Pending(j)' = {}
    BY <1>0, <2>1 DEF Pending, TypeOK, CancelInput
  <2>3. \A i \in Versions \ {j} : Pending(i)' = Pending(i)
    BY <1>0, <2>1 DEF Pending, TypeOK
  <2>4. Question' = [Question EXCEPT ![j] = FALSE]
    BY <2>2, <2>3 DEF Question
  <2>5. version[j] \notin {"ready", "revoked"}
    BY <1>0, <2>1
  <2>6. Seen' = Seen
    BY <1>0, <2>1, <2>5, UnseenChange DEF VersionStatuses
  <2>7. Life!Cancel(j)
    BY <2>1, <2>4, <2>6 DEF Life!Cancel, Seen, Question
  <2> QED
    BY <1>b, <2>7 DEF Life!Step
<1>4. ASSUME NEW t \in Tools, NEW r \in Revisions, RevokeVersion(t, r)
      PROVE  [Life!Next]_(Life!vars)
  <2> DEFINE v == <<t, r>>
  <2>1. v \in Versions /\ version[v] = "ready"
    <3>1. v \in Versions /\ version[v] \in {"ready", "deprecated"}
      BY <1>4 DEF RevokeVersion, Versions
    <3>2. version[v] # "deprecated"
      BY <1>0, <3>1 DEF VersionFits, TypeOK, JobStatuses, UnderWay
    <3> QED
      BY <3>1, <3>2
  <2>2. version' = [version EXCEPT ![v] = "revoked"] /\ UNCHANGED <<status, input>>
    BY <1>4 DEF RevokeVersion, jobVars, inputVars
  <2> HIDE DEF v
  <2>3. /\ VersionSeen(v) = "published" /\ VersionSeen(v)' = "revoked"
        /\ \A i \in Versions \ {v} : VersionSeen(i)' = VersionSeen(i)
    BY <1>0, <2>1, <2>2 DEF VersionSeen, TypeOK
  <2>4. Seen' = [Seen EXCEPT ![v] = "revoked"] /\ Seen[v] = "published"
    BY <2>1, <2>3 DEF Seen
  <2>5. Life!Revoke(v)
    BY <2>2, <2>4, SameQuestions DEF Life!Revoke, Seen, Question
  <2> QED
    BY <1>b, <2>1, <2>5 DEF Life!Step
<1>5. ASSUME NEW w \in Workers, NEW j \in Versions, Claim(w, j) PROVE [Life!Next]_(Life!vars)
  <2>1. /\ status[j] \in {"queued", "running"} /\ status' = [status EXCEPT ![j] = "running"]
        /\ version' = [version EXCEPT ![j] = ClaimedVersionStatus(version[j])]
        /\ UNCHANGED input
    BY <1>5 DEF Claim, Claimable, inputVars
  <2>2. version[j] \notin {"ready", "revoked"}
    BY <1>0, <2>1
  <2>3. ClaimedVersionStatus(version[j]) \in VersionStatuses \ {"ready", "revoked"}
    BY <1>0, <2>2 DEF ClaimedVersionStatus, TypeOK, VersionStatuses
  <2>4. Seen' = Seen /\ Question' = Question
    BY <1>0, <2>1, <2>2, <2>3, UnseenChange, SameQuestions
  <2>5. CASE status[j] = "queued"
    <3>1. Life!Start(j)
      BY <2>1, <2>4, <2>5 DEF Life!Start, Seen, Question
    <3> QED
      BY <1>b, <3>1 DEF Life!Step
  <2>6. CASE status[j] = "running"
    <3>1. status' = status
      BY <1>0, <2>1, <2>6 DEF TypeOK
    <3> QED
      BY <1>a, <2>4, <3>1 DEF Hidden
  <2> QED
    BY <2>1, <2>5, <2>6
<1>6. ASSUME NEW w \in Workers, SetVersionStatus(w) PROVE [Life!Next]_(Life!vars)
  <2>1. PICK j \in Versions : j = holds[w] /\ status[j] \in {"running", "rejected"}
    BY <1>0, <1>6 DEF SetVersionStatus, RegistryInv, HoldingInv, LateBeforePublished, TypeOK
  <2>2. /\ version' = [version EXCEPT ![j] = late[w]]
        /\ late[w] \in {"synthesizing", "building", "validating"}
        /\ UNCHANGED <<status, input>>
    BY <1>6, <2>1 DEF SetVersionStatus, jobVars, inputVars
  <2>3. version[j] \notin {"ready", "revoked"}
    BY <1>0, <2>1
  <2>4. Seen' = Seen /\ Question' = Question
    BY <1>0, <2>2, <2>3, UnseenChange, SameQuestions DEF VersionStatuses
  <2> QED
    BY <1>a, <2>2, <2>4 DEF Hidden
<1>7. ASSUME NEW w \in Workers, NEW c \in CallIds, SuspendForInput(w, c)
      PROVE  [Life!Next]_(Life!vars)
  <2>1. PICK j \in Versions : j = holds[w]
    BY <1>0, <1>7 DEF SuspendForInput, Processes, TypeOK
  <2>2. /\ status[j] = "running" /\ status' = [status EXCEPT ![j] = "awaiting_input"]
        /\ input' = [input EXCEPT ![j][c] = "pending"] /\ UNCHANGED version
    BY <1>7, <2>1 DEF SuspendForInput, Owns, toolVars
  <2>3. c \in Pending(j)'
    BY <1>0, <2>2 DEF Pending, TypeOK
  <2>4. \A i \in Versions \ {j} : Pending(i)' = Pending(i)
    BY <1>0, <2>2 DEF Pending, TypeOK
  <2>5. Question' = [Question EXCEPT ![j] = TRUE]
    BY <2>3, <2>4 DEF Question
  <2>6. Life!Ask(j)
    BY <2>2, <2>5, SameSeen DEF Life!Ask, Seen, Question
  <2> QED
    BY <1>b, <2>6 DEF Life!Step
<1>8. ASSUME NEW w \in Workers, PublishJob(w) PROVE [Life!Next]_(Life!vars)
  <2>1. PICK j \in Versions : j = holds[w]
    BY <1>0, <1>8 DEF PublishJob, Processes, TypeOK
  <2>2. /\ status[j] = "running" /\ status' = [status EXCEPT ![j] = "ready"]
        /\ version' = [version EXCEPT ![j] = "ready"] /\ UNCHANGED input
    BY <1>8, <2>1 DEF PublishJob, Owns, inputVars
  <2>3. /\ VersionSeen(j)' = "published"
        /\ \A i \in Versions \ {j} : VersionSeen(i)' = VersionSeen(i)
    BY <1>0, <2>2 DEF VersionSeen, TypeOK
  <2>4. Seen' = [Seen EXCEPT ![j] = "published"]
    BY <2>3 DEF Seen
  <2>5. Life!Publish(j)
    BY <2>2, <2>4, SameQuestions DEF Life!Publish, Seen, Question
  <2> QED
    BY <1>b, <2>5 DEF Life!Step
<1>9. ASSUME NEW w \in Workers, RejectJob(w) PROVE [Life!Next]_(Life!vars)
  <2>1. PICK j \in Versions : j = holds[w]
    BY <1>0, <1>9 DEF RejectJob, TypeOK
  <2>2. /\ status[j] = "running" /\ status' = [status EXCEPT ![j] = "rejected"]
        /\ version' = [version EXCEPT ![j] = "rejected"] /\ UNCHANGED input
    BY <1>9, <2>1 DEF RejectJob, Owns, inputVars
  <2>3. version[j] \notin {"ready", "revoked"}
    BY <1>0, <2>2
  <2>4. Seen' = Seen /\ Question' = Question
    BY <1>0, <2>2, <2>3, UnseenChange, SameQuestions DEF VersionStatuses
  <2>5. Life!Reject(j)
    BY <2>2, <2>4 DEF Life!Reject, Seen, Question
  <2> QED
    BY <1>b, <2>5 DEF Life!Step
<1>10. ASSUME UNCHANGED <<status, version, input>> PROVE [Life!Next]_(Life!vars)
  BY <1>a, <1>10, SameSeen, SameQuestions DEF Hidden
<1> QED
  BY <1>1, <1>2, <1>3, <1>4, <1>5, <1>6, <1>7, <1>8, <1>9, <1>10
     DEF Next, UserStep, WorkerStep, EnvironmentStep, vars, toolVars, jobVars, inputVars,
     RenewLease, SetStage, CheckOwner, WriteCheckpoint, DropJob, Crash, LeaseExpires

\* A user who watches a job sees JobLife and nothing else: it starts from the
\* queue, a question stops it and its answer queues it again, its version appears
\* in the step that makes it ready, and it never leaves ready or rejected
\* (publish_job, suspend_job_for_input, answer_job_input, cancel_job, reject_job).
THEOREM RegistryImplementsJobLife == ASSUME ~MayStall PROVE Spec => LivesAsPromised
  BY InitLife, StepLife, RegistryInvariant, PTL DEF Spec, LivesAsPromised, Life!Spec
=============================================================================
