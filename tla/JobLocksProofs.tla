--------------------------- MODULE JobLocksProofs ---------------------------
(***************************************************************************)
(* Theorems about JobLocks, for any number of workers and of users' calls. *)
(* The argument is that of two-phase locking: a session holds a  *)
(* lock on every row its transaction depends on from the statement that    *)
(* reads it to the COMMIT (Shape, Exclusive), so what it has read is still *)
(* so when it commits (Knows), and each COMMIT is one step of JobRows.     *)
(***************************************************************************)
EXTENDS JobLocks, Integers, TLAPS

RowNames == {"tool", "old", "new", "job", "run", "input"}
Modes == {"update", "nokey", "share"}
Values ==
  {"kept", "none", "old", "new", "building", "ready", "rejected", "revoked", "running",
   "awaiting_input", "queued", "live", "pending", "answered"} \cup Workers
Writes == [Columns -> Values]

\* The columns of the rows, as TypeOK has them.
RowTypes ==
  [stable : Versions \cup {"none"}, old : {"ready", "revoked"},
   new : {"synthesizing", "building", "ready", "rejected", "revoked"},
   job : {"running", "awaiting_input", "queued", "ready", "rejected"},
   owner : {"none"} \cup Workers, lease : {"live", "expired", "none"},
   input : {"none", "pending", "answered"}]

\* A job that waits for its user has no worker.
Parked == db.job = "awaiting_input" => db.owner = "none" /\ db.lease = "none"

RowsInv == db \in RowTypes /\ RowsAgree /\ Parked

Typed ==
  /\ pc \in [Sessions -> Labels] /\ renewal \in [Workers -> {"none", "sent", "held"}]
  /\ locks \in [Sessions -> SUBSET (RowNames \X Modes)]
  /\ pending \in [Sessions -> Writes]
  /\ target \in [Revokes -> Versions] /\ seen \in [Revokes -> Versions \cup {"none"}]

\* The statements each session comes to.
PublishLabels == {"publish_version", "publish_tool", "publish_run", "commit_publication"}
WorkerLabels ==
  {"claim_job", "claim_version", "idle", "append_owner", "append_run", "append_event",
   "commit_event", "stage_job", "stage_version", "publish_job", "suspend_job", "suspend_run",
   "commit_suspension", "reject_job", "reject_version", "done"} \cup PublishLabels
Place(s) ==
  /\ s \in Workers => pc[s] \in WorkerLabels
  /\ s \in Cancels =>
       pc[s] \in {"idle", "cancel_job", "cancel_version", "cancel_input", "cancel_run", "done"}
  /\ s \in Answers => pc[s] \in {"idle", "answer_input", "answer_job", "answer_run", "done"}
  /\ s \in Revokes => pc[s] \in {"idle", "revoke_tool", "revoke_version", "revoke_stable", "done"}

\* Between transactions, or before the first lock of one.
Unlocked ==
  {"idle", "done", "append_owner", "append_run", "stage_job", "stage_version", "publish_job",
   "suspend_job", "reject_job", "cancel_job", "answer_input", "revoke_tool", "claim_job"}

Job == <<"job", "update">>
Run == <<"run", "update">>
New == <<"new", "nokey">>
Tool == <<"tool", "nokey">>

At(s, label, held, written) == pc[s] = label => locks[s] = held /\ pending[s] = written

\* What a transaction holds and has written at each of its statements.
Cancelled == [Nothing EXCEPT !.job = "rejected", !.owner = "none", !.lease = "none"]
Published ==
  [Nothing EXCEPT !.new = "ready", !.stable = "new", !.job = "ready", !.lease = "none"]
Shape(s) ==
  /\ pc[s] \in Unlocked => locks[s] = {} /\ pending[s] = Nothing
  /\ At(s, "append_event", {Run}, Nothing)
  /\ pc[s] = "commit_event" =>
       locks[s] \subseteq {Run, <<"job", "share">>} /\ pending[s] = Nothing
  /\ At(s, "publish_version", {Job}, Nothing)
  /\ At(s, "publish_tool", {Job, New}, [Nothing EXCEPT !.new = "ready"])
  /\ At(s, "publish_run", {Job, New, Tool}, Published)
  /\ At(s, "commit_publication", {Job, New, Tool, Run}, Published)
  /\ At(s, "suspend_run", {Job}, [Nothing EXCEPT !.input = "pending"])
  /\ At(s, "commit_suspension", {Job, Run},
        [Nothing EXCEPT !.input = "pending", !.job = "awaiting_input", !.owner = "none",
                        !.lease = "none"])
  /\ At(s, "reject_version", {<<"job", "nokey">>},
        [Nothing EXCEPT !.job = "rejected", !.lease = "none"])
  /\ At(s, "cancel_version", {Job}, Cancelled)
  /\ At(s, "cancel_input", {Job, New}, [Cancelled EXCEPT !.new = "rejected"])
  /\ pc[s] = "cancel_run" =>
       \/ /\ locks[s] = {Job, New} /\ db.input # "pending"
          /\ pending[s] = [Cancelled EXCEPT !.new = "rejected"]
       \/ /\ locks[s] = {Job, New, <<"input", "nokey">>} /\ db.input = "pending"
          /\ pending[s] = [Cancelled EXCEPT !.new = "rejected", !.input = "answered"]
  /\ At(s, "answer_job", {<<"input", "update">>}, Nothing)
  /\ At(s, "answer_run", {<<"input", "update">>, Job},
        [Nothing EXCEPT !.input = "answered", !.job = "queued", !.owner = "none",
                        !.lease = "none"])
  /\ At(s, "revoke_version", {<<"tool", "update">>}, Nothing)
  /\ At(s, "revoke_stable", {<<"tool", "update">>, <<target[s], "update">>},
        [Nothing EXCEPT ![target[s]] = "revoked"])
  /\ At(s, "claim_version", {Job},
        [Nothing EXCEPT !.job = "running", !.owner = s, !.lease = "live"])

\* What a transaction has read is still so.
Knows(s) ==
  /\ pc[s] \in PublishLabels \cup {"suspend_run", "commit_suspension", "reject_version"} =>
       OwnedBy(s)
  /\ pc[s] \in {"cancel_version", "cancel_input", "cancel_run"} =>
       db.job \notin {"ready", "rejected"}
  /\ pc[s] = "cancel_input" => db.input = "pending"
  /\ pc[s] = "answer_run" => Asked
  /\ pc[s] = "claim_version" => db.job = "queued" \/ (db.job = "running" /\ db.lease = "expired")
  /\ pc[s] \in {"revoke_version", "revoke_stable"} => seen[s] = db.stable
  /\ pc[s] = "revoke_stable" => seen[s] = target[s] /\ db[target[s]] = "ready"

Mine(s) == Place(s) /\ Shape(s) /\ Knows(s)

\* Row locks do what they are for.
Exclusive ==
  \A s, t \in Sessions : s # t =>
    \A h \in locks[s], k \in locks[t] : h[1] = k[1] => ~Conflicts(h[2], k[2])

IInv == RowsInv /\ Typed /\ (\A s \in Sessions : Mine(s)) /\ Exclusive

-----------------------------------------------------------------------------
(* The rows: what every step of JobRows keeps.                             *)

LEMMA OtherVersion ==
  ASSUME NEW v \in Versions
  PROVE  LET other == CHOOSE u \in Versions : u # v
         IN  other \in Versions /\ other # v /\ Versions = {v, other}
BY DEF Versions

LEMMA RowsInit == Rows!Init => RowsInv
BY DEF Rows!Init, RowsInv, RowTypes, RowsAgree, OutcomeMatchesVersion, StableIffReady, PutBack,
       Parked, Versions

\* Each call leaves the rows in agreement if it found them so.
LEMMA RowsKept == RowsInv /\ Rows!Next => RowsInv'
<1> SUFFICES ASSUME RowsInv, Rows!Next
             PROVE  RowsInv'
  OBVIOUS
<1> USE DEF RowsInv, RowTypes, RowsAgree, OutcomeMatchesVersion, StableIffReady, PutBack,
            Parked, Versions
<1>1. ASSUME NEW w \in Workers, Rows!RenewLease(w)
      PROVE  RowsInv'
  BY <1>1 DEF Rows!RenewLease, Rows!Owns
<1>10. CASE Rows!LeaseExpires
  BY <1>10 DEF Rows!LeaseExpires
<1>2. CASE Rows!SetVersionStatus
  BY <1>2 DEF Rows!SetVersionStatus
<1>3. ASSUME NEW w \in Workers, Rows!PublishJob(w)
      PROVE  RowsInv'
  BY <1>3 DEF Rows!PublishJob, Rows!Owns
<1>4. ASSUME NEW w \in Workers, Rows!SuspendForInput(w)
      PROVE  RowsInv'
  BY <1>4 DEF Rows!SuspendForInput, Rows!Owns
<1>5. ASSUME NEW w \in Workers, Rows!RejectJob(w)
      PROVE  RowsInv'
  BY <1>5 DEF Rows!RejectJob, Rows!Owns
<1>6. CASE Rows!CancelJob
  BY <1>6 DEF Rows!CancelJob
<1>7. CASE Rows!AnswerInput
  BY <1>7 DEF Rows!AnswerInput
<1>8. ASSUME NEW v \in Rows!Versions, Rows!RevokeVersion(v)
      PROVE  RowsInv'
  <2> DEFINE other == CHOOSE u \in Versions : u # v
  <2>1. /\ v \in Versions /\ other \in Versions /\ other # v
        /\ other = CHOOSE u \in Rows!Versions : u # v
    BY <1>8, OtherVersion DEF Rows!Versions
  <2> HIDE DEF other
  <2>2. CASE v = "old"
    BY <1>8, <2>1, <2>2 DEF Rows!RevokeVersion
  <2>3. CASE v = "new"
    BY <1>8, <2>1, <2>3 DEF Rows!RevokeVersion
  <2> QED
    BY <2>1, <2>2, <2>3
<1>9. ASSUME NEW w \in Workers, Rows!ClaimJob(w)
      PROVE  RowsInv'
  BY <1>9 DEF Rows!ClaimJob
<1> QED
  BY <1>1, <1>2, <1>3, <1>4, <1>5, <1>6, <1>7, <1>8, <1>9, <1>10 DEF Rows!Next

\* No call changes the outcome of a job that has one.
LEMMA OutcomeKept ==
  RowsInv /\ Rows!Next => (db.job \in {"ready", "rejected"} => db'.job = db.job)
<1> SUFFICES ASSUME RowsInv, Rows!Next, db.job \in {"ready", "rejected"}
             PROVE  db'.job = db.job
  OBVIOUS
<1>1. db \in RowTypes
  BY DEF RowsInv
<1>2. ASSUME NEW v \in Rows!Versions, Rows!RevokeVersion(v)
      PROVE  db'.job = db.job
  BY <1>1, <1>2 DEF Rows!RevokeVersion, Rows!Versions, RowTypes
<1>3. CASE Rows!SetVersionStatus
  BY <1>1, <1>3 DEF Rows!SetVersionStatus, RowTypes
<1> QED
  BY <1>1, <1>2, <1>3
     DEF Rows!Next, Rows!RenewLease, Rows!PublishJob, Rows!SuspendForInput, Rows!RejectJob,
         Rows!CancelJob, Rows!AnswerInput, Rows!ClaimJob, Rows!LeaseExpires, Rows!Owns

-----------------------------------------------------------------------------
(* Statements: what they do to the session that runs one, and that they    *)
(* leave the others alone.                                                 *)

\* The sessions outside T are where they were.
Untouched(T) ==
  /\ \A t \in Sessions \ T :
       pc'[t] = pc[t] /\ locks'[t] = locks[t] /\ pending'[t] = pending[t]
  /\ \A t \in Revokes \ T : seen'[t] = seen[t]
  /\ target' = target

LEMMA NothingWritten == Nothing \in Writes
BY DEF Nothing, Writes, Values

\* The lock of each statement.
LEMMA NeedsAt ==
  /\ Needs["append_run"] = {Run} /\ Needs["append_event"] = {<<"job", "share">>}
  /\ Needs["stage_job"] = {<<"job", "nokey">>} /\ Needs["stage_version"] = {New}
  /\ Needs["publish_job"] = {Job} /\ Needs["publish_version"] = {New}
  /\ Needs["publish_tool"] = {Tool} /\ Needs["publish_run"] = {Run}
  /\ Needs["suspend_job"] = {Job} /\ Needs["suspend_run"] = {Run}
  /\ Needs["reject_job"] = {<<"job", "nokey">>} /\ Needs["reject_version"] = {New}
  /\ Needs["cancel_job"] = {Job} /\ Needs["cancel_version"] = {New}
  /\ Needs["cancel_input"] = {<<"input", "nokey">>} /\ Needs["cancel_run"] = {Run}
  /\ Needs["answer_input"] = {<<"input", "update">>} /\ Needs["answer_job"] = {Job}
  /\ Needs["answer_run"] = {Run}
  /\ Needs["revoke_tool"] = {<<"tool", "update">>}
  /\ Needs["revoke_version"] = {<<"target", "update">>} /\ Needs["revoke_stable"] = {Tool}
  /\ Needs["claim_job"] = {Job} /\ Needs["claim_version"] = {New}
  /\ \A label \in {"idle", "done", "append_owner", "commit_event", "commit_publication",
                   "commit_suspension"} : Needs[label] = {}
<1>1. /\ Needs["append_run"] = {Run}
      /\ Needs["append_event"] = {<<"job", "share">>}
      /\ Needs["stage_job"] = {<<"job", "nokey">>}
      /\ Needs["stage_version"] = {New}
  BY DEF Needs, Labels, In, AppendNeeds, StageNeeds, PublishNeeds, SuspendNeeds, RejectNeeds,
         CancelNeeds, AnswerNeeds, RevokeNeeds, ClaimNeeds, Job, Run, New, Tool
<1>2. /\ Needs["publish_job"] = {Job}
      /\ Needs["publish_version"] = {New}
      /\ Needs["publish_tool"] = {Tool}
      /\ Needs["publish_run"] = {Run}
  BY DEF Needs, Labels, In, AppendNeeds, StageNeeds, PublishNeeds, SuspendNeeds, RejectNeeds,
         CancelNeeds, AnswerNeeds, RevokeNeeds, ClaimNeeds, Job, Run, New, Tool
<1>3. /\ Needs["suspend_job"] = {Job}
      /\ Needs["suspend_run"] = {Run}
      /\ Needs["reject_job"] = {<<"job", "nokey">>}
      /\ Needs["reject_version"] = {New}
  BY DEF Needs, Labels, In, AppendNeeds, StageNeeds, PublishNeeds, SuspendNeeds, RejectNeeds,
         CancelNeeds, AnswerNeeds, RevokeNeeds, ClaimNeeds, Job, Run, New, Tool
<1>4. /\ Needs["cancel_job"] = {Job}
      /\ Needs["cancel_version"] = {New}
      /\ Needs["cancel_input"] = {<<"input", "nokey">>}
      /\ Needs["cancel_run"] = {Run}
  BY DEF Needs, Labels, In, AppendNeeds, StageNeeds, PublishNeeds, SuspendNeeds, RejectNeeds,
         CancelNeeds, AnswerNeeds, RevokeNeeds, ClaimNeeds, Job, Run, New, Tool
<1>5. /\ Needs["answer_input"] = {<<"input", "update">>}
      /\ Needs["answer_job"] = {Job}
      /\ Needs["answer_run"] = {Run}
  BY DEF Needs, Labels, In, AppendNeeds, StageNeeds, PublishNeeds, SuspendNeeds, RejectNeeds,
         CancelNeeds, AnswerNeeds, RevokeNeeds, ClaimNeeds, Job, Run, New, Tool
<1>6. /\ Needs["revoke_tool"] = {<<"tool", "update">>}
      /\ Needs["revoke_version"] = {<<"target", "update">>}
      /\ Needs["revoke_stable"] = {Tool}
  BY DEF Needs, Labels, In, AppendNeeds, StageNeeds, PublishNeeds, SuspendNeeds, RejectNeeds,
         CancelNeeds, AnswerNeeds, RevokeNeeds, ClaimNeeds, Job, Run, New, Tool
<1>7. /\ Needs["claim_job"] = {Job}
      /\ Needs["claim_version"] = {New}
  BY DEF Needs, Labels, In, AppendNeeds, StageNeeds, PublishNeeds, SuspendNeeds, RejectNeeds,
         CancelNeeds, AnswerNeeds, RevokeNeeds, ClaimNeeds, Job, Run, New, Tool
<1>8. \A label \in {"idle", "done", "append_owner", "commit_event", "commit_publication",
                   "commit_suspension"} : Needs[label] = {}
  BY DEF Needs, Labels, In, AppendNeeds, StageNeeds, PublishNeeds, SuspendNeeds, RejectNeeds,
         CancelNeeds, AnswerNeeds, RevokeNeeds, ClaimNeeds, Job, Run, New, Tool
<1> QED
  BY <1>1, <1>2, <1>3, <1>4, <1>5, <1>6, <1>7, <1>8

\* It is the one the statement names, but that of the version being revoked.
LEMMA WantsAt ==
  ASSUME NEW s, pc[s] \in Labels
  PROVE  /\ pc[s] # "revoke_version" => Wants(s) = Needs[pc[s]]
         /\ pc[s] = "revoke_version" => Wants(s) = {<<target[s], "update">>}
<1>1. \A n \in Needs[pc[s]] : pc[s] # "revoke_version" => n[1] # "target" /\ n = <<n[1], n[2]>>
  BY DEF Needs, In, AppendNeeds, StageNeeds, PublishNeeds, SuspendNeeds, RejectNeeds,
         CancelNeeds, AnswerNeeds, RevokeNeeds, ClaimNeeds
<1>2. CASE pc[s] = "revoke_version"
  <2>1. Needs[pc[s]] = {<<"target", "update">>}
    BY <1>2, NeedsAt
  <2>2. \A x : x \in Wants(s) <=> x = <<target[s], "update">>
    BY <2>1 DEF Wants
  <2> QED
    BY <1>2, <2>2
<1>3. CASE pc[s] # "revoke_version"
  <2> DEFINE name(n) == IF n[1] = "target" THEN target[s] ELSE n[1]
  <2>1. \A n \in Needs[pc[s]] : <<name(n), n[2]>> = n
    BY <1>1, <1>3
  <2>2. Wants(s) = {<<name(n), n[2]>> : n \in Needs[pc[s]]}
    BY DEF Wants
  <2> HIDE DEF name
  <2>3. \A x : x \in Wants(s) <=> x \in Needs[pc[s]]
    BY <2>1, <2>2
  <2> QED
    BY <1>3, <2>3
<1> QED
  BY <1>2, <1>3

LEMMA WantsRows ==
  ASSUME Typed, NEW s \in Sessions, Place(s)
  PROVE  Wants(s) \subseteq RowNames \X Modes
<1>0. pc[s] \in Labels
  BY DEF Typed
<1>1. Needs[pc[s]] \subseteq (RowNames \cup {"target"}) \X Modes
  BY <1>0 DEF Needs, In, AppendNeeds, StageNeeds, PublishNeeds, SuspendNeeds, RejectNeeds,
         CancelNeeds, AnswerNeeds, RevokeNeeds, ClaimNeeds, RowNames, Modes
<1>2. \A n \in Needs[pc[s]] : pc[s] # "revoke_version" => n[1] # "target"
  BY <1>0 DEF Needs, In, AppendNeeds, StageNeeds, PublishNeeds, SuspendNeeds, RejectNeeds,
         CancelNeeds, AnswerNeeds, RevokeNeeds, ClaimNeeds
<1>3. pc[s] = "revoke_version" => s \in Revokes
  BY DEF Place, WorkerLabels, PublishLabels, Sessions
<1> QED
  BY <1>0, <1>1, <1>2, <1>3, WantsAt DEF Typed, Versions, RowNames, Modes

\* Which session comes to which statement.
LEMMA Kinds ==
  ASSUME NEW s \in Sessions, Place(s)
  PROVE  /\ pc[s] \in {"revoke_tool", "revoke_version", "revoke_stable"} => s \in Revokes
         /\ pc[s] \in {"cancel_job", "cancel_version", "cancel_input", "cancel_run"} =>
              s \in Cancels
         /\ pc[s] \in {"answer_input", "answer_job", "answer_run"} => s \in Answers
         /\ pc[s] \in WorkerLabels \ {"idle", "done"} => s \in Workers
BY DEF Place, WorkerLabels, PublishLabels, Sessions

\* No other session holds what the statement of s needs.
Free(s) ==
  \A t \in Sessions \ {s} : \A h \in Wants(s), k \in locks[t] :
    h[1] = k[1] => ~Conflicts(h[2], k[2])

LEMMA RunsFree ==
  ASSUME NEW s \in Sessions, WaitsFor(s) = {}, Polled(s)
  PROVE  Free(s)
<1> SUFFICES ASSUME NEW t \in Sessions \ {s}, NEW h \in Wants(s), NEW k \in locks[t],
                    h[1] = k[1], Conflicts(h[2], k[2])
             PROVE  FALSE
  BY DEF Free
<1>1. t \in WaitsFor(s)
  BY DEF WaitsFor
<1> QED
  BY <1>1

LEMMA TakenExclusive ==
  ASSUME Typed, Exclusive, NEW s \in Sessions, Free(s),
         locks' = [locks EXCEPT ![s] = @ \cup Wants(s)]
  PROVE  Exclusive'
<1> SUFFICES ASSUME NEW a \in Sessions, NEW b \in Sessions, a # b,
                    NEW h \in locks'[a], NEW k \in locks'[b], h[1] = k[1]
             PROVE  ~Conflicts(h[2], k[2])
  BY DEF Exclusive
<1>1. \A t \in Sessions : locks'[t] = IF t = s THEN locks[s] \cup Wants(s) ELSE locks[t]
  BY DEF Typed
<1>2. Conflicts(h[2], k[2]) = Conflicts(k[2], h[2])
  BY DEF Conflicts
<1>3. CASE h \in locks[a] /\ k \in locks[b]
  BY <1>3 DEF Exclusive
<1>4. CASE a = s /\ h \in Wants(s)
  BY <1>1, <1>4 DEF Free
<1>5. CASE b = s /\ k \in Wants(s)
  BY <1>1, <1>2, <1>5 DEF Free
<1> QED
  BY <1>1, <1>3, <1>4, <1>5

LEMMA FreedExclusive ==
  ASSUME Exclusive, \A t \in Sessions : locks'[t] = locks[t] \/ locks'[t] = {}
  PROVE  Exclusive'
BY DEF Exclusive

\* What the statements that write nothing to seen leave alone.
Elsewhere(s) ==
  /\ target' = target /\ seen' \in [Revokes -> Versions \cup {"none"}]
  /\ \A t \in Revokes \ {s} : seen'[t] = seen[t]

LEMMA WriteEffect ==
  ASSUME Typed, NEW s \in Sessions, Place(s), Elsewhere(s),
         NEW w \in Writes, NEW n \in Labels, Write(s, w, n)
  PROVE  /\ pc'[s] = n /\ locks'[s] = locks[s] \cup Wants(s) /\ pending'[s] = w
         /\ db' = db /\ Typed' /\ Untouched({s})
BY WantsRows DEF Write, GoOn, Typed, Untouched, Elsewhere

LEMMA CommitEffect ==
  ASSUME Typed, NEW s \in Sessions, Elsewhere(s), NEW w, NEW n \in Labels, Commit(s, w, n)
  PROVE  /\ pc'[s] = n /\ locks'[s] = {} /\ pending'[s] = Nothing
         /\ db' = After(w, db) /\ Typed' /\ Untouched({s})
         /\ \A t \in Sessions : locks'[t] = locks[t] \/ locks'[t] = {}
BY NothingWritten DEF Commit, Release, GoOn, Typed, Untouched, Elsewhere

LEMMA RollbackEffect ==
  ASSUME Typed, NEW s \in Sessions, Elsewhere(s), NEW n \in Labels, Rollback(s, n)
  PROVE  /\ pc'[s] = n /\ locks'[s] = {} /\ pending'[s] = Nothing
         /\ db' = db /\ Typed' /\ Untouched({s})
         /\ \A t \in Sessions : locks'[t] = locks[t] \/ locks'[t] = {}
BY NothingWritten DEF Rollback, Release, GoOn, Typed, Untouched, Elsewhere

\* A session that was left alone knows what it knew, if the rows are the same.
LEMMA QuietKeepsMine ==
  ASSUME NEW T, Untouched(T), db' = db, NEW t \in Sessions \ T, Mine(t)
  PROVE  Mine(t)'
<1>1. /\ pc'[t] = pc[t] /\ locks'[t] = locks[t] /\ pending'[t] = pending[t]
      /\ target' = target /\ (t \in Revokes => seen'[t] = seen[t])
  BY DEF Untouched
<1>2. Place(t)'
  BY <1>1 DEF Mine, Place
<1>3. Shape(t)'
  BY <1>1 DEF Mine, Shape, At
<1>4. Knows(t)'
  BY <1>1, Kinds DEF Mine, Knows, OwnedBy, Asked
<1> QED
  BY <1>2, <1>3, <1>4 DEF Mine

\* s has locked this row to write it.
Locked(s, row) == \E m \in {"update", "nokey"} : <<row, m>> \in locks[s] \cup Wants(s)

\* A COMMIT of s changes only rows that s has locked.
ChangesLocked(s) ==
  /\ ~Locked(s, "job") =>
       db'.job = db.job /\ db'.owner = db.owner /\ db'.lease = db.lease /\ db'.input = db.input
  /\ ~Locked(s, "tool") => db'.stable = db.stable
  /\ \A v \in Versions : ~Locked(s, v) => db'[v] = db[v]

LEMMA LockedApart ==
  ASSUME Exclusive, NEW s \in Sessions, Free(s), NEW t \in Sessions \ {s}, NEW row,
         Locked(s, row)
  PROVE  \A m \in {"update", "nokey"} : <<row, m>> \notin locks[t]
<1> SUFFICES ASSUME NEW m \in {"update", "nokey"}, <<row, m>> \in locks[t]
             PROVE  FALSE
  OBVIOUS
<1>1. PICK n \in {"update", "nokey"} : <<row, n>> \in locks[s] \cup Wants(s)
  BY DEF Locked
<1>2. Conflicts(n, m)
  BY DEF Conflicts
<1>3. CASE <<row, n>> \in locks[s]
  BY <1>2, <1>3 DEF Exclusive
<1>4. CASE <<row, n>> \in Wants(s)
  BY <1>2, <1>4 DEF Free
<1> QED
  BY <1>1, <1>3, <1>4

\* So what another session has read under its locks is still so after it.
LEMMA CommitKeepsMine ==
  ASSUME Exclusive, NEW s \in Sessions, Free(s), ChangesLocked(s), Untouched({s}),
         NEW t \in Sessions \ {s}, Typed, Mine(t)
  PROVE  Mine(t)'
<1> DEFINE Strong(row) == \E m \in {"update", "nokey"} : <<row, m>> \in locks[t]
<1>1. /\ pc'[t] = pc[t] /\ locks'[t] = locks[t] /\ pending'[t] = pending[t]
      /\ target' = target /\ (t \in Revokes => seen'[t] = seen[t])
  BY DEF Untouched
<1>2. Place(t)'
  BY <1>1 DEF Mine, Place
<1>3. Strong("job") =>
        /\ db'.job = db.job /\ db'.owner = db.owner /\ db'.lease = db.lease
        /\ db'.input = db.input
  BY LockedApart DEF ChangesLocked
<1>4. Strong("tool") => db'.stable = db.stable
  BY LockedApart DEF ChangesLocked
<1>5. \A v \in Versions : Strong(v) => db'[v] = db[v]
  BY LockedApart DEF ChangesLocked
<1>6. pc[t] \in PublishLabels \cup {"suspend_run", "commit_suspension", "reject_version",
         "cancel_version", "cancel_input", "cancel_run", "answer_run", "claim_version"} =>
        Strong("job")
  BY DEF Mine, Shape, At, Job, PublishLabels
<1>7. pc[t] \in {"revoke_version", "revoke_stable"} => t \in Revokes /\ Strong("tool")
  BY Kinds DEF Mine, Shape, At
<1>8. pc[t] = "revoke_stable" => Strong(target[t]) /\ target[t] \in Versions
  BY <1>7 DEF Mine, Shape, At, Typed
<1> HIDE DEF Strong
<1>9. Shape(t)'
  BY <1>1, <1>3, <1>6 DEF Mine, Shape, At
<1>10. Knows(t)'
  BY <1>1, <1>3, <1>4, <1>5, <1>6, <1>7, <1>8 DEF Mine, Knows, OwnedBy, Asked
<1> QED
  BY <1>2, <1>9, <1>10 DEF Mine

\* A step of the sessions in T that leaves the rows alone.
LEMMA QuietStep ==
  ASSUME IInv, NEW T, Untouched(T), db' = db, Typed', Exclusive',
         \A t \in T : Mine(t)'
  PROVE  IInv'
<1>1. RowsInv'
  BY DEF IInv, RowsInv, RowsAgree, OutcomeMatchesVersion, StableIffReady, PutBack,
                   Parked
<1>2. ASSUME NEW t \in Sessions
      PROVE  Mine(t)'
  BY <1>2, QuietKeepsMine DEF IInv
<1> QED
  BY <1>1, <1>2 DEF IInv

\* A COMMIT.
LEMMA CommitStep ==
  ASSUME IInv, NEW s \in Sessions, Free(s), Untouched({s}), ChangesLocked(s), [Rows!Next]_db,
         Typed', Mine(s)',
         \A t \in Sessions : locks'[t] = locks[t] \/ locks'[t] = {}
  PROVE  IInv'
<1>1. RowsInv'
  BY RowsKept DEF IInv, RowsInv, RowsAgree, OutcomeMatchesVersion, StableIffReady, PutBack,
                   Parked
<1>2. ASSUME NEW t \in Sessions
      PROVE  Mine(t)'
  BY <1>2, CommitKeepsMine DEF IInv
<1>3. Exclusive'
  BY FreedExclusive DEF IInv
<1> QED
  BY <1>1, <1>2, <1>3 DEF IInv

\* A session between transactions depends on nothing.
LEMMA UnlockedMine ==
  ASSUME NEW s \in Sessions, Place(s)', pc'[s] \in Unlocked, locks'[s] = {},
         pending'[s] = Nothing
  PROVE  Mine(s)'
<1>1. Shape(s)'
  BY DEF Shape, At, Unlocked
<1>2. Knows(s)'
  BY DEF Knows, Unlocked, PublishLabels
<1> QED
  BY <1>1, <1>2 DEF Mine

\* The transaction of s is rolled back, and its call has failed.
LEMMA DropStep ==
  ASSUME IInv, NEW s \in Sessions, NEW n \in {"done", "reject_job"},
         n = "reject_job" => s \in Workers,
         pc' = [pc EXCEPT ![s] = n], locks' = Release(s),
         pending' = [pending EXCEPT ![s] = Nothing],
         renewal' \in [Workers -> {"none", "sent", "held"}],
         UNCHANGED <<db, target, seen>>
  PROVE  IInv' /\ db' = db
<1>1. /\ pc'[s] = n /\ locks'[s] = {} /\ pending'[s] = Nothing
      /\ Typed' /\ Untouched({s})
      /\ \A t \in Sessions : locks'[t] = locks[t] \/ locks'[t] = {}
  BY NothingWritten DEF IInv, Typed, Release, Untouched, Labels, RejectNeeds
<1>2. Place(s)'
  BY <1>1, LocksAssumption DEF Place, WorkerLabels
<1>3. Mine(s)'
  BY <1>1, <1>2, UnlockedMine DEF Unlocked
<1>4. Exclusive'
  BY <1>1, FreedExclusive DEF IInv
<1> QED
  BY <1>1, <1>3, <1>4, QuietStep

LEMMA RollbackStep ==
  ASSUME IInv, NEW s \in Sessions, UNCHANGED <<target, seen>>, NEW n \in {"done", "reject_job"},
         n = "reject_job" => s \in Workers, Rollback(s, n)
  PROVE  IInv' /\ db' = db
<1>1. renewal' \in [Workers -> {"none", "sent", "held"}]
  BY DEF Rollback, GoOn, IInv, Typed
<1> QED
  BY <1>1, DropStep DEF Rollback, GoOn

\* What a statement inside a transaction does to its session.
Wrote(s, w, n) ==
  /\ pc'[s] = n /\ locks'[s] = locks[s] \cup Wants(s) /\ pending'[s] = w
  /\ db' = db /\ target' = target

LEMMA WriteStep ==
  ASSUME IInv, NEW s \in Sessions, Elsewhere(s), NEW w \in Writes, NEW n \in Labels,
         NEW label, Runs(s, label), Write(s, w, n),
         Wrote(s, w, n) => Mine(s)'
  PROVE  IInv' /\ [Rows!Next]_db
<1>1. /\ db' = db /\ Typed' /\ Untouched({s}) /\ Wrote(s, w, n)
  BY WriteEffect DEF IInv, Mine, Wrote, Elsewhere
<1>2. Exclusive'
  BY RunsFree, TakenExclusive DEF IInv, Write, Runs
<1> QED
  BY <1>1, <1>2, QuietStep

\* A COMMIT, or an autocommitted statement, that leaves the session unlocked.
Committed(s, w, n) ==
  /\ pc'[s] = n /\ locks'[s] = {} /\ pending'[s] = Nothing
  /\ db' = After(w, db) /\ target' = target
  /\ \A t \in Sessions \ {s} : pc'[t] = pc[t]

LEMMA CommitsStep ==
  ASSUME IInv, NEW s \in Sessions, Elsewhere(s), NEW w, NEW n \in Labels \cap Unlocked,
         NEW label, Runs(s, label), Commit(s, w, n),
         Committed(s, w, n) => Place(s)' /\ ChangesLocked(s) /\ [Rows!Next]_db
  PROVE  IInv' /\ [Rows!Next]_db
<1>1. /\ Typed' /\ Untouched({s}) /\ Committed(s, w, n)
      /\ \A t \in Sessions : locks'[t] = locks[t] \/ locks'[t] = {}
  BY CommitEffect DEF IInv, Committed, Elsewhere, Untouched
<1>2. Mine(s)'
  BY <1>1, UnlockedMine DEF Committed
<1> QED
  BY <1>1, <1>2, RunsFree, CommitStep DEF Runs

-----------------------------------------------------------------------------
(* The steps of a worker.                                                  *)

\* What a step of a worker starts from.
LEMMA WorkerStarts ==
  ASSUME IInv, NEW s \in Workers, UNCHANGED <<target, seen>>
  PROVE  /\ s \in Sessions /\ Typed /\ Mine(s) /\ Elsewhere(s) /\ Exclusive /\ RowsInv
         /\ s \notin Cancels /\ s \notin Answers /\ s \notin Revokes /\ s # "kept"
BY LocksAssumption DEF IInv, Sessions, Elsewhere, Typed

LEMMA AppendStep ==
  ASSUME IInv, NEW s \in Workers, UNCHANGED <<target, seen>>, Append(s)
  PROVE  IInv' /\ [Rows!Next]_db
<1>1. /\ s \in Sessions /\ Typed /\ Mine(s) /\ Elsewhere(s) /\ Nothing \in Writes
  BY WorkerStarts, NothingWritten
<1>2. CASE Runs(s, "append_owner")
  <2>1. CASE Write(s, Nothing, "append_run")
    <3>1. Wants(s) = {} /\ locks[s] = {}
      BY <1>1, <1>2, NeedsAt, WantsAt DEF Labels, Runs, Mine, Shape, Unlocked
    <3>2. Wrote(s, Nothing, "append_run") => Mine(s)'
      BY <3>1, <1>1, UnlockedMine, LocksAssumption DEF Wrote, Unlocked, Place, WorkerLabels
    <3> QED
      BY <1>1, <1>2, <2>1, <3>2, WriteStep DEF Labels, AppendNeeds
  <2>2. CASE Rollback(s, "reject_job")
    BY <1>1, <2>2, RollbackStep
  <2> QED
    BY <1>2, <2>1, <2>2 DEF Append, Runs
<1>3. ASSUME Runs(s, "append_run"), NEW n \in {"append_event", "commit_event"},
             Write(s, Nothing, n)
      PROVE  IInv' /\ [Rows!Next]_db
  <2>1. Wants(s) = {Run} /\ locks[s] = {}
    BY <1>1, <1>3, NeedsAt, WantsAt DEF Labels, Runs, Mine, Shape, Unlocked
  <2>2. Wrote(s, Nothing, n) => Mine(s)'
    BY <2>1, <1>1, LocksAssumption
       DEF Wrote, Mine, Shape, At, Unlocked, Knows, PublishLabels, Place, WorkerLabels
  <2> QED
    BY <1>1, <1>3, <2>2, WriteStep DEF Labels, AppendNeeds
<1>4. CASE Runs(s, "append_event") /\ Write(s, Nothing, "commit_event")
  <2>1. Wants(s) = {<<"job", "share">>} /\ locks[s] = {Run}
    BY <1>1, <1>4, NeedsAt, WantsAt DEF Labels, Runs, Mine, Shape, At
  <2>2. Wrote(s, Nothing, "commit_event") => Mine(s)'
    BY <2>1, <1>1, LocksAssumption
       DEF Wrote, Mine, Shape, At, Unlocked, Knows, PublishLabels, Place, WorkerLabels
  <2> QED
    BY <1>1, <1>4, <2>2, WriteStep DEF Labels
<1>5. CASE Runs(s, "commit_event") /\ Commit(s, Nothing, "idle")
  <2>1. db' = db
    BY <1>1, <1>5, WorkerStarts DEF Commit, After, Nothing, RowsInv, RowTypes, Columns
  <2>2. Committed(s, Nothing, "idle") =>
          Place(s)' /\ ChangesLocked(s) /\ [Rows!Next]_db
    BY <1>1, <1>5, <2>1, WorkerStarts
       DEF Committed, Place, WorkerLabels, ChangesLocked
  <2> QED
    BY <1>1, <1>5, <2>2, CommitsStep DEF Labels, Unlocked
<1> QED
  BY <1>2, <1>3, <1>4, <1>5 DEF Append

LEMMA SetStageStep ==
  ASSUME IInv, NEW s \in Workers, UNCHANGED <<target, seen>>, SetStage(s)
  PROVE  IInv' /\ [Rows!Next]_db
<1> DEFINE live == [Nothing EXCEPT !.lease = "live"]
           building == [Nothing EXCEPT !.new = "building"]
<1>1. /\ s \in Sessions /\ Typed /\ Mine(s) /\ Elsewhere(s) /\ db \in RowTypes
  BY WorkerStarts DEF RowsInv
<1>2. CASE Runs(s, "stage_job") /\ OwnedBy(s) /\ Commit(s, live, "stage_version")
  <2>1. Locked(s, "job")
    BY <1>2, NeedsAt, WantsAt DEF Labels, Runs, Locked
  <2>2. After(live, db) = [db EXCEPT !.lease = "live"]
    BY <1>1 DEF After, Nothing, RowTypes, Columns
  <2>3. Committed(s, live, "stage_version") =>
          Place(s)' /\ ChangesLocked(s) /\ [Rows!Next]_db
    BY <1>1, <1>2, <2>1, <2>2, LocksAssumption
       DEF Committed, Place, WorkerLabels, ChangesLocked, RowTypes, Versions, Rows!Next,
           Rows!RenewLease, Rows!Owns, OwnedBy
  <2> QED
    BY <1>1, <1>2, <2>3, CommitsStep DEF Runs, Labels, Unlocked, StageNeeds
<1>3. CASE Rollback(s, "reject_job")
  BY <1>1, <1>3, RollbackStep
<1>4. CASE Runs(s, "stage_version") /\ Commit(s, building, "idle")
  <2>1. Locked(s, "new")
    BY <1>4, NeedsAt, WantsAt DEF Labels, Runs, Locked, New
  <2>2. After(building, db) = [db EXCEPT !.new = "building"]
    BY <1>1 DEF After, Nothing, RowTypes, Columns
  <2>3. Committed(s, building, "idle") =>
          Place(s)' /\ ChangesLocked(s) /\ [Rows!Next]_db
    BY <1>1, <1>4, <2>1, <2>2, WorkerStarts
       DEF Committed, Place, WorkerLabels, ChangesLocked, RowTypes, Versions, Rows!Next,
           Rows!SetVersionStatus, Runs
  <2> QED
    BY <1>1, <1>4, <2>3, CommitsStep DEF Runs, Labels, Unlocked, StageNeeds
<1> QED
  BY <1>2, <1>3, <1>4 DEF SetStage

LEMMA PublishStep ==
  ASSUME IInv, NEW s \in Workers, UNCHANGED <<target, seen>>, Publish(s)
  PROVE  IInv' /\ [Rows!Next]_db
<1> DEFINE ready == [Nothing EXCEPT !.new = "ready"]
<1>1. /\ s \in Sessions /\ Typed /\ Mine(s) /\ Elsewhere(s) /\ db \in RowTypes
      /\ Nothing \in Writes /\ ready \in Writes /\ Published \in Writes
  BY WorkerStarts, NothingWritten DEF RowsInv, Nothing, Published, Writes, Values, Columns
<1>2. CASE Runs(s, "publish_job") /\ OwnedBy(s) /\ Write(s, Nothing, "publish_version")
  <2>1. Wants(s) = {Job} /\ locks[s] = {}
    BY <1>1, <1>2, NeedsAt, WantsAt DEF Labels, Runs, Mine, Shape, Unlocked
  <2>2. Wrote(s, Nothing, "publish_version") => Mine(s)'
    BY <2>1, <1>1, <1>2, LocksAssumption
       DEF Wrote, Mine, Shape, At, Unlocked, Knows, OwnedBy, Place, WorkerLabels, PublishLabels
  <2> QED
    BY <1>1, <1>2, <2>2, WriteStep DEF Labels, PublishNeeds
<1>3. CASE Rollback(s, "reject_job")
  BY <1>1, <1>3, RollbackStep
<1>4. CASE /\ Runs(s, "publish_version")
           /\ Write(s, [pending[s] EXCEPT !.new = "ready"], "publish_tool")
  <2>1. Wants(s) = {New} /\ locks[s] = {Job} /\ pending[s] = Nothing /\ OwnedBy(s)
    BY <1>1, <1>4, NeedsAt, WantsAt DEF Labels, Runs, Mine, Shape, At, Knows, PublishLabels
  <2>2. Wrote(s, ready, "publish_tool") => Mine(s)'
    BY <2>1, <1>1, LocksAssumption
       DEF Wrote, Mine, Shape, At, Unlocked, Knows, OwnedBy, Place, WorkerLabels, PublishLabels
  <2> QED
    BY <1>1, <1>4, <2>1, <2>2, WriteStep DEF Labels, PublishNeeds
<1>5. CASE /\ Runs(s, "publish_tool")
           /\ Write(s, [pending[s] EXCEPT !.stable = "new", !.job = "ready", !.lease = "none"],
                    "publish_run")
  <2>1. Wants(s) = {Tool} /\ locks[s] = {Job, New} /\ pending[s] = ready /\ OwnedBy(s)
    BY <1>1, <1>5, NeedsAt, WantsAt DEF Labels, Runs, Mine, Shape, At, Knows, PublishLabels
  <2>2. [pending[s] EXCEPT !.stable = "new", !.job = "ready", !.lease = "none"] = Published
    BY <2>1 DEF Published
  <2>3. Wrote(s, Published, "publish_run") => Mine(s)'
    BY <2>1, <1>1, LocksAssumption
       DEF Wrote, Mine, Shape, At, Unlocked, Knows, OwnedBy, Place, WorkerLabels, PublishLabels
  <2> QED
    BY <1>1, <1>5, <2>2, <2>3, WriteStep DEF Labels, PublishNeeds
<1>6. CASE Runs(s, "publish_run") /\ Write(s, pending[s], "commit_publication")
  <2>1. /\ Wants(s) = {Run} /\ locks[s] = {Job, New, Tool} /\ pending[s] = Published
        /\ OwnedBy(s)
    BY <1>1, <1>6, NeedsAt, WantsAt DEF Labels, Runs, Mine, Shape, At, Knows, PublishLabels
  <2>2. Wrote(s, Published, "commit_publication") => Mine(s)'
    BY <2>1, <1>1, LocksAssumption
       DEF Wrote, Mine, Shape, At, Unlocked, Knows, OwnedBy, Place, WorkerLabels, PublishLabels
  <2> QED
    BY <1>1, <1>6, <2>1, <2>2, WriteStep DEF Labels
<1>7. CASE Runs(s, "commit_publication") /\ Commit(s, pending[s], "done")
  <2>1. /\ OwnedBy(s) /\ pending[s] = Published
        /\ Locked(s, "job") /\ Locked(s, "tool") /\ Locked(s, "new")
    BY <1>1, <1>7, NeedsAt, WantsAt
       DEF Labels, Runs, Mine, Shape, At, Knows, PublishLabels, Locked, Job, Tool, New
  <2>2. After(Published, db) = [db EXCEPT !.new = "ready", !.stable = "new", !.job = "ready",
                                          !.lease = "none"]
    BY <1>1 DEF After, Published, Nothing, RowTypes, Columns
  <2>3. Committed(s, Published, "done") =>
          Place(s)' /\ ChangesLocked(s) /\ [Rows!Next]_db
    BY <1>1, <2>1, <2>2
       DEF Committed, Place, WorkerLabels, ChangesLocked, RowTypes, Versions, Rows!Next,
           Rows!PublishJob, Rows!Owns, OwnedBy
  <2> QED
    BY <1>1, <1>7, <2>1, <2>3, CommitsStep DEF Labels, Unlocked
<1> QED
  BY <1>2, <1>3, <1>4, <1>5, <1>6, <1>7 DEF Publish

LEMMA SuspendStep ==
  ASSUME IInv, NEW s \in Workers, UNCHANGED <<target, seen>>, Suspend(s)
  PROVE  IInv' /\ [Rows!Next]_db
<1> DEFINE question == [Nothing EXCEPT !.input = "pending"]
           parked == [Nothing EXCEPT !.input = "pending", !.job = "awaiting_input",
                                     !.owner = "none", !.lease = "none"]
<1>1. /\ s \in Sessions /\ Typed /\ Mine(s) /\ Elsewhere(s) /\ db \in RowTypes
      /\ question \in Writes /\ parked \in Writes
  BY WorkerStarts DEF RowsInv, Nothing, Writes, Values, Columns
<1>2. CASE /\ Runs(s, "suspend_job") /\ OwnedBy(s)
           /\ Write(s, [pending[s] EXCEPT !.input = "pending"], "suspend_run")
  <2>1. Wants(s) = {Job} /\ locks[s] = {} /\ pending[s] = Nothing
    BY <1>1, <1>2, NeedsAt, WantsAt DEF Labels, Runs, Mine, Shape, Unlocked
  <2>2. Wrote(s, question, "suspend_run") => Mine(s)'
    BY <2>1, <1>1, <1>2, LocksAssumption
       DEF Wrote, Mine, Shape, At, Unlocked, Knows, OwnedBy, Place, WorkerLabels, PublishLabels
  <2> QED
    BY <1>1, <1>2, <2>1, <2>2, WriteStep DEF Labels, SuspendNeeds
<1>3. CASE Rollback(s, "reject_job")
  BY <1>1, <1>3, RollbackStep
<1>4. CASE /\ Runs(s, "suspend_run")
           /\ Write(s, [pending[s] EXCEPT !.job = "awaiting_input", !.owner = "none",
                                          !.lease = "none"], "commit_suspension")
  <2>1. Wants(s) = {Run} /\ locks[s] = {Job} /\ pending[s] = question /\ OwnedBy(s)
    BY <1>1, <1>4, NeedsAt, WantsAt DEF Labels, Runs, Mine, Shape, At, Knows
  <2>2. [pending[s] EXCEPT !.job = "awaiting_input", !.owner = "none", !.lease = "none"] = parked
    BY <2>1
  <2>3. Wrote(s, parked, "commit_suspension") => Mine(s)'
    BY <2>1, <1>1, LocksAssumption
       DEF Wrote, Mine, Shape, At, Unlocked, Knows, OwnedBy, Place, WorkerLabels, PublishLabels
  <2> QED
    BY <1>1, <1>4, <2>2, <2>3, WriteStep DEF Labels
<1>5. CASE Runs(s, "commit_suspension") /\ Commit(s, pending[s], "done")
  <2>1. /\ OwnedBy(s) /\ pending[s] = parked /\ Locked(s, "job")
    BY <1>1, <1>5, NeedsAt, WantsAt DEF Labels, Runs, Mine, Shape, At, Knows, Locked, Job
  <2>2. After(parked, db) = [db EXCEPT !.input = "pending", !.job = "awaiting_input",
                                       !.owner = "none", !.lease = "none"]
    BY <1>1 DEF After, Nothing, RowTypes, Columns
  <2> HIDE DEF parked
  <2>3. Committed(s, parked, "done") => Place(s)'
    BY DEF Committed, Place, WorkerLabels
  <2>4. Committed(s, parked, "done") => ChangesLocked(s)
    BY <1>1, <2>1, <2>2 DEF Committed, ChangesLocked, RowTypes, Versions
  <2>5. Committed(s, parked, "done") => [Rows!Next]_db
    BY <2>1, <2>2 DEF Committed, Rows!Next, Rows!SuspendForInput, Rows!Owns, OwnedBy
  <2> QED
    BY <1>1, <1>5, <2>1, <2>3, <2>4, <2>5, CommitsStep DEF Labels, Unlocked
<1> QED
  BY <1>2, <1>3, <1>4, <1>5 DEF Suspend

LEMMA RejectStep ==
  ASSUME IInv, NEW s \in Workers, UNCHANGED <<target, seen>>, Reject(s)
  PROVE  IInv' /\ [Rows!Next]_db
<1> DEFINE rejected == [Nothing EXCEPT !.job = "rejected", !.lease = "none"]
           both == [rejected EXCEPT !.new = "rejected"]
<1>1. /\ s \in Sessions /\ Typed /\ Mine(s) /\ Elsewhere(s) /\ db \in RowTypes
      /\ rejected \in Writes
  BY WorkerStarts DEF RowsInv, Nothing, Writes, Values, Columns
<1>2. CASE /\ Runs(s, "reject_job") /\ OwnedBy(s)
           /\ Write(s, [pending[s] EXCEPT !.job = "rejected", !.lease = "none"],
                    "reject_version")
  <2>1. Wants(s) = {<<"job", "nokey">>} /\ locks[s] = {} /\ pending[s] = Nothing
    BY <1>1, <1>2, NeedsAt, WantsAt DEF Labels, Runs, Mine, Shape, Unlocked
  <2>2. Wrote(s, rejected, "reject_version") => Mine(s)'
    BY <2>1, <1>1, <1>2
       DEF Wrote, Mine, Shape, At, Unlocked, Knows, OwnedBy, Place, WorkerLabels,
           PublishLabels, Runs
  <2> QED
    BY <1>1, <1>2, <2>1, <2>2, WriteStep DEF Labels, RejectNeeds
<1>3. CASE Rollback(s, "done")
  BY <1>1, <1>3, RollbackStep
<1>4. CASE Runs(s, "reject_version") /\ Commit(s, [pending[s] EXCEPT !.new = "rejected"], "done")
  <2>1. /\ OwnedBy(s) /\ pending[s] = rejected /\ Locked(s, "job") /\ Locked(s, "new")
    BY <1>1, <1>4, NeedsAt, WantsAt DEF Labels, Runs, Mine, Shape, At, Knows, Locked, New
  <2>2. After(both, db) = [db EXCEPT !.job = "rejected", !.lease = "none", !.new = "rejected"]
    BY <1>1 DEF After, Nothing, RowTypes, Columns
  <2>3. Committed(s, both, "done") => Place(s)'
    BY <1>1 DEF Committed, Mine, Place, WorkerLabels
  <2> HIDE DEF both
  <2>4. Committed(s, both, "done") => ChangesLocked(s)
    BY <1>1, <2>1, <2>2 DEF Committed, ChangesLocked, RowTypes, Versions
  <2>5. Committed(s, both, "done") => [Rows!Next]_db
    BY <2>1, <2>2 DEF Committed, Rows!Next, Rows!RejectJob, Rows!Owns, OwnedBy
  <2>6. [pending[s] EXCEPT !.new = "rejected"] = both
    BY <2>1 DEF both
  <2> QED
    BY <1>1, <1>4, <2>3, <2>4, <2>5, <2>6, CommitsStep DEF Runs, Labels, Unlocked
<1> QED
  BY <1>2, <1>3, <1>4 DEF Reject

\* claim_synthesis_job
LEMMA ClaimStep ==
  ASSUME IInv, NEW s \in Workers, UNCHANGED <<target, seen>>, Claim(s)
  PROVE  IInv' /\ [Rows!Next]_db
<1> DEFINE mine == [Nothing EXCEPT !.job = "running", !.owner = s, !.lease = "live"]
<1>1. /\ s \in Sessions /\ Typed /\ Mine(s) /\ Elsewhere(s) /\ db \in RowTypes
      /\ mine \in Writes /\ s # "kept"
  BY WorkerStarts DEF RowsInv, Nothing, Writes, Values, Columns
<1>2. CASE /\ Runs(s, "claim_job")
           /\ db.job = "queued" \/ (db.job = "running" /\ db.lease = "expired")
           /\ Write(s, [pending[s] EXCEPT !.job = "running", !.owner = s, !.lease = "live"],
                    "claim_version")
  <2>1. Wants(s) = {Job} /\ locks[s] = {} /\ pending[s] = Nothing
    BY <1>1, <1>2, NeedsAt, WantsAt DEF Labels, Runs, Mine, Shape, Unlocked
  <2>2. Wrote(s, mine, "claim_version") => Mine(s)'
    BY <1>1, <1>2, <2>1, LocksAssumption
       DEF Wrote, Mine, Shape, At, Unlocked, Knows, Place, WorkerLabels, PublishLabels
  <2> QED
    BY <1>1, <1>2, <2>1, <2>2, WriteStep DEF Labels, ClaimNeeds
<1>3. CASE Runs(s, "claim_version") /\ Commit(s, pending[s], "idle")
  <2>1. /\ db.job = "queued" \/ (db.job = "running" /\ db.lease = "expired")
        /\ Locked(s, "job") /\ pending[s] = mine
    BY <1>1, <1>3 DEF Runs, Mine, Shape, At, Knows, Locked, Job
  <2>2. After(mine, db) = [db EXCEPT !.job = "running", !.owner = s, !.lease = "live"]
    BY <1>1 DEF After, Nothing, RowTypes, Columns
  <2> HIDE DEF mine
  <2>3. Committed(s, mine, "idle") => Place(s)'
    BY LocksAssumption DEF Committed, Place, WorkerLabels
  <2>4. Committed(s, mine, "idle") => ChangesLocked(s)
    BY <1>1, <2>1, <2>2 DEF Committed, ChangesLocked, RowTypes, Versions
  <2>5. Committed(s, mine, "idle") => [Rows!Next]_db
    BY <2>1, <2>2 DEF Committed, Rows!Next, Rows!ClaimJob
  <2> QED
    BY <1>1, <1>3, <2>1, <2>3, <2>4, <2>5, CommitsStep DEF Labels, Unlocked
<1> QED
  BY <1>2, <1>3 DEF Claim

\* A step that only moves s to another statement outside a transaction.
LEMMA MoveStep ==
  ASSUME IInv, NEW s \in Sessions, NEW n \in Labels \cap Unlocked, pc[s] \in Unlocked,
         pc' = [pc EXCEPT ![s] = n], UNCHANGED <<db, pending, locks, renewal, target, seen>>,
         pc'[s] = n => Place(s)'
  PROVE  IInv' /\ [Rows!Next]_db
<1>1. pc'[s] = n /\ Typed' /\ Untouched({s})
  BY DEF IInv, Typed, Untouched
<1>2. locks[s] = {} /\ pending[s] = Nothing
  BY DEF IInv, Mine, Shape
<1>3. Mine(s)'
  BY <1>1, <1>2, UnlockedMine
<1>4. Exclusive'
  BY DEF IInv, Exclusive
<1> QED
  BY <1>1, <1>3, <1>4, QuietStep

\* A step that changes nothing but the lease, as a renewal and time do: who knows that
\* it has run out still knows.
LEMMA LeaseStep ==
  ASSUME IInv, NEW l \in {"live", "expired"}, db' = [db EXCEPT !.lease = l], Rows!Next,
         l = "expired" \/ \A t \in Sessions : pc[t] # "claim_version",
         renewal' \in [Workers -> {"none", "sent", "held"}],
         UNCHANGED <<pending, locks, pc, target, seen>>
  PROVE  IInv' /\ [Rows!Next]_db
<1>1. db \in RowTypes
  BY DEF IInv, RowsInv
<1>2. RowsInv'
  BY RowsKept DEF IInv
<1>3. /\ db'.job = db.job /\ db'.owner = db.owner /\ db'.input = db.input
      /\ db'.stable = db.stable /\ (\A v \in Versions : db'[v] = db[v])
      /\ db'.lease = l
  BY <1>1 DEF RowTypes, Versions
<1>4. ASSUME NEW t \in Sessions
      PROVE  Mine(t)'
  <2>1. /\ Mine(t) /\ (pc[t] = "revoke_stable" => target[t] \in Versions)
        /\ pc[t] = "claim_version" => l = "expired"
    BY Kinds DEF IInv, Typed, Mine
  <2>2. Place(t)' /\ Shape(t)'
    BY <1>3, <2>1 DEF Mine, Place, Shape, At
  <2>3. Knows(t)'
    BY <1>3, <2>1 DEF Mine, Knows, OwnedBy, Asked
  <2> QED
    BY <2>2, <2>3 DEF Mine
<1>5. Typed' /\ Exclusive'
  BY DEF IInv, Typed, Exclusive
<1> QED
  BY <1>2, <1>4, <1>5 DEF IInv

\* renew_job_lease waits for whoever has locked the job, its own worker included.
LEMMA RenewStep ==
  ASSUME IInv, NEW s \in Workers, UNCHANGED <<target, seen>>, Renew(s)
  PROVE  IInv' /\ [Rows!Next]_db
<1>1. s \in Sessions /\ renewal' \in [Workers -> {"none", "sent", "held"}]
  BY WorkerStarts DEF Renew, IInv, Typed
<1>2. CASE OwnedBy(s)
  <2>1. db' = [db EXCEPT !.lease = "live"] /\ UNCHANGED <<pending, locks, pc>>
    BY <1>2 DEF Renew
  <2>2. Rows!Next
    BY <1>2, <2>1 DEF Rows!Next, Rows!RenewLease, Rows!Owns, OwnedBy
  <2>3. ASSUME NEW t \in Sessions, pc[t] = "claim_version"
        PROVE  FALSE
    <3>1. Job \in locks[t]
      BY <2>3 DEF IInv, Mine, Shape, At
    <3>2. Job[1] = "job" /\ Conflicts("nokey", Job[2])
      BY DEF Job, Conflicts
    <3> QED
      BY <3>1, <3>2 DEF Renew
  <2> QED
    BY <1>1, <2>1, <2>2, <2>3, LeaseStep
<1>3. CASE ~OwnedBy(s)
  <2>1. /\ pc' = [pc EXCEPT ![s] = "reject_job"] /\ locks' = Release(s)
        /\ pending' = [pending EXCEPT ![s] = Nothing] /\ UNCHANGED <<db, target, seen>>
    BY <1>3 DEF Renew
  <2> QED
    BY <1>1, <2>1, DropStep
<1> QED
  BY <1>2, <1>3

LEMMA WorkerStep ==
  ASSUME IInv, NEW s \in Workers, Worker(s)
  PROVE  IInv' /\ [Rows!Next]_db
<1>1. /\ s \in Sessions /\ Typed /\ Mine(s) /\ UNCHANGED <<target, seen>>
  BY WorkerStarts DEF Worker
<1>2. ASSUME NEW label \in Calls, StartCall(s, label)
      PROVE  IInv' /\ [Rows!Next]_db
  <2>1. label \in Labels \cap Unlocked /\ (pc'[s] = label => Place(s)')
    BY <1>2, LocksAssumption
       DEF Calls, Labels, Unlocked, Place, WorkerLabels, StageNeeds, PublishNeeds,
           SuspendNeeds, RejectNeeds
  <2> QED
    BY <1>1, <1>2, <2>1, MoveStep DEF StartCall, Unlocked
<1>3. CASE Tick(s)
  <2>1. /\ UNCHANGED <<db, pending, locks, pc, target, seen>>
        /\ renewal' \in [Workers -> {"none", "sent", "held"}]
    BY <1>1, <1>3 DEF Tick, Typed
  <2>2. Typed' /\ Untouched({}) /\ Exclusive'
    BY <2>1 DEF IInv, Typed, Untouched, Exclusive
  <2> QED
    BY <2>1, <2>2, QuietStep
<1> QED
  BY <1>1, <1>2, <1>3, ClaimStep, AppendStep, SetStageStep, PublishStep, SuspendStep,
     RejectStep, RenewStep
     DEF Worker, Process

-----------------------------------------------------------------------------
(* Users' calls.                                                           *)

LEMMA CancellerStep ==
  ASSUME IInv, NEW c \in Cancels, Canceller(c)
  PROVE  IInv' /\ [Rows!Next]_db
<1> DEFINE rejected == [Cancelled EXCEPT !.new = "rejected"]
           all == [Cancelled EXCEPT !.new = "rejected", !.input = "answered"]
<1>1. /\ c \in Sessions /\ Mine(c) /\ Typed /\ db \in RowTypes
      /\ c \notin Answers /\ c \notin Revokes /\ c \notin Workers
  BY LocksAssumption DEF IInv, RowsInv, Sessions
<1>2. Cancelled \in Writes /\ rejected \in Writes /\ all \in Writes
  BY DEF Cancelled, Nothing, Writes, Values, Columns
<1>3. CASE Call(c, "cancel_job")
  <2>1. pc'[c] = "cancel_job" => Place(c)'
    BY <1>1 DEF Place
  <2> QED
    BY <1>1, <1>3, <2>1, MoveStep DEF Call, Unlocked, Labels, CancelNeeds, Typed
<1>4. ASSUME Cancel(c), UNCHANGED <<target, seen>>
      PROVE  IInv' /\ [Rows!Next]_db
  <2>1. Elsewhere(c)
    BY <1>1, <1>4 DEF Elsewhere, Typed
  <2>2. CASE Rollback(c, "done")
    BY <1>1, <1>4, <2>2, RollbackStep
  <2>3. CASE /\ Runs(c, "cancel_job") /\ db.job \notin {"ready", "rejected"}
             /\ Write(c, [pending[c] EXCEPT !.job = "rejected", !.owner = "none",
                                            !.lease = "none"], "cancel_version")
    <3>1. Wants(c) = {Job} /\ locks[c] = {} /\ pending[c] = Nothing
      BY <1>1, <2>3, NeedsAt, WantsAt DEF Labels, Runs, Mine, Shape, Unlocked
    <3>2. Wrote(c, Cancelled, "cancel_version") => Mine(c)'
      BY <1>1, <2>3, <3>1
         DEF Wrote, Mine, Shape, At, Unlocked, Knows, Place, PublishLabels
    <3> QED
      BY <1>1, <1>2, <2>1, <2>3, <3>1, <3>2, WriteStep DEF Labels, CancelNeeds, Cancelled
  <2>4. ASSUME Runs(c, "cancel_version"), NEW n \in {"cancel_input", "cancel_run"},
               n = IF db.input = "pending" THEN "cancel_input" ELSE "cancel_run",
               Write(c, [pending[c] EXCEPT !.new = "rejected"], n)
        PROVE  IInv' /\ [Rows!Next]_db
    <3>1. /\ Wants(c) = {New} /\ locks[c] = {Job} /\ pending[c] = Cancelled
          /\ db.job \notin {"ready", "rejected"}
      BY <1>1, <2>4, NeedsAt, WantsAt DEF Labels, Runs, Mine, Shape, At, Knows
    <3>2. Wrote(c, rejected, n) => Mine(c)'
      BY <1>1, <2>4, <3>1
         DEF Wrote, Mine, Shape, At, Unlocked, Knows, Place, PublishLabels
    <3> QED
      BY <1>1, <1>2, <2>1, <2>4, <3>1, <3>2, WriteStep DEF Labels, CancelNeeds
  <2>5. CASE /\ Runs(c, "cancel_input")
             /\ Write(c, [pending[c] EXCEPT !.input = "answered"], "cancel_run")
    <3>1. /\ Wants(c) = {<<"input", "nokey">>} /\ locks[c] = {Job, New}
          /\ pending[c] = rejected /\ db.job \notin {"ready", "rejected"}
          /\ db.input = "pending"
      BY <1>1, <2>5, NeedsAt, WantsAt DEF Labels, Runs, Mine, Shape, At, Knows
    <3>2. Wrote(c, all, "cancel_run") => Mine(c)'
      BY <1>1, <3>1 DEF Wrote, Mine, Shape, At, Unlocked, Knows, Place, PublishLabels
    <3>3. [pending[c] EXCEPT !.input = "answered"] = all
      BY <3>1
    <3> QED
      BY <1>1, <1>2, <2>1, <2>5, <3>2, <3>3, WriteStep DEF Labels, CancelNeeds
  <2>6. CASE Runs(c, "cancel_run") /\ Commit(c, pending[c], "done")
    <3>1. /\ db.job \notin {"ready", "rejected"} /\ Locked(c, "job") /\ Locked(c, "new")
          /\ pending[c] = IF db.input = "pending" THEN all ELSE rejected
      BY <1>1, <2>6 DEF Runs, Mine, Shape, Knows, Locked, Job, New
    <3>2. After(pending[c], db) =
            [db EXCEPT !.job = "rejected", !.owner = "none", !.lease = "none",
                       !.new = "rejected", !.input = IF @ = "pending" THEN "answered" ELSE @]
      <4>1. CASE db.input = "pending"
        <5>1. After(all, db) =
                [db EXCEPT !.job = "rejected", !.owner = "none", !.lease = "none",
                           !.new = "rejected", !.input = "answered"]
          BY <1>1 DEF After, Cancelled, Nothing, RowTypes, Columns
        <5> QED
          BY <3>1, <4>1, <5>1
      <4>2. CASE db.input # "pending"
        <5>1. After(rejected, db) =
                [db EXCEPT !.job = "rejected", !.owner = "none", !.lease = "none",
                           !.new = "rejected", !.input = db.input]
          BY <1>1 DEF After, Cancelled, Nothing, RowTypes, Columns
        <5> QED
          BY <3>1, <4>2, <5>1
      <4> QED
        BY <4>1, <4>2
    <3>3. Committed(c, pending[c], "done") => Place(c)' /\ ChangesLocked(c)
      BY <1>1, <3>1, <3>2 DEF Committed, Place, ChangesLocked, RowTypes, Versions
    <3>4. Committed(c, pending[c], "done") => [Rows!Next]_db
      BY <1>1, <3>1, <3>2 DEF Committed, Rows!Next, Rows!CancelJob, RowTypes
    <3> QED
      BY <1>1, <2>1, <2>6, <3>3, <3>4, CommitsStep DEF Runs, Labels, Unlocked
  <2> QED
    BY <1>4, <2>2, <2>3, <2>4, <2>5, <2>6 DEF Cancel
<1> QED
  BY <1>3, <1>4 DEF Canceller

LEMMA AnswererStep ==
  ASSUME IInv, NEW a \in Answers, Answerer(a)
  PROVE  IInv' /\ [Rows!Next]_db
<1> DEFINE answered == [Nothing EXCEPT !.input = "answered", !.job = "queued",
                                       !.owner = "none", !.lease = "none"]
<1>1. /\ a \in Sessions /\ Mine(a) /\ Typed /\ db \in RowTypes /\ Parked
      /\ a \notin Cancels /\ a \notin Revokes /\ a \notin Workers
  BY LocksAssumption DEF IInv, RowsInv, Sessions
<1>2. Nothing \in Writes /\ answered \in Writes
  BY DEF Nothing, Writes, Values, Columns
<1>3. CASE Call(a, "answer_input")
  <2>1. pc'[a] = "answer_input" => Place(a)'
    BY <1>1 DEF Place
  <2> QED
    BY <1>1, <1>3, <2>1, MoveStep DEF Call, Unlocked, Labels, AnswerNeeds, Typed
<1>4. ASSUME Answer(a), UNCHANGED <<target, seen>>
      PROVE  IInv' /\ [Rows!Next]_db
  <2>1. Elsewhere(a)
    BY <1>1, <1>4 DEF Elsewhere, Typed
  <2>2. CASE Rollback(a, "done")
    BY <1>1, <1>4, <2>2, RollbackStep
  <2>3. CASE Runs(a, "answer_input") /\ Asked /\ Write(a, Nothing, "answer_job")
    <3>1. Wants(a) = {<<"input", "update">>} /\ locks[a] = {}
      BY <1>1, <2>3, NeedsAt, WantsAt DEF Labels, Runs, Mine, Shape, Unlocked
    <3>2. Wrote(a, Nothing, "answer_job") => Mine(a)'
      BY <1>1, <3>1 DEF Wrote, Mine, Shape, At, Unlocked, Knows, Place, PublishLabels
    <3> QED
      BY <1>1, <1>2, <2>1, <2>3, <3>2, WriteStep DEF Labels, AnswerNeeds
  <2>4. CASE /\ Runs(a, "answer_job") /\ Asked
             /\ Write(a, [pending[a] EXCEPT !.input = "answered", !.job = "queued",
                                            !.owner = "none", !.lease = "none"], "answer_run")
    <3>1. Wants(a) = {Job} /\ locks[a] = {<<"input", "update">>} /\ pending[a] = Nothing
      BY <1>1, <2>4, NeedsAt, WantsAt DEF Labels, Runs, Mine, Shape, At
    <3>2. Wrote(a, answered, "answer_run") => Mine(a)'
      BY <1>1, <2>4, <3>1
         DEF Wrote, Mine, Shape, At, Unlocked, Knows, Place, PublishLabels, Asked
    <3> QED
      BY <1>1, <1>2, <2>1, <2>4, <3>1, <3>2, WriteStep DEF Labels, AnswerNeeds
  <2>5. CASE Runs(a, "answer_run") /\ Commit(a, pending[a], "done")
    <3>1. Asked /\ Locked(a, "job") /\ pending[a] = answered
      BY <1>1, <2>5 DEF Runs, Mine, Shape, At, Knows, Locked, Job
    <3>2. After(answered, db) = [db EXCEPT !.input = "answered", !.job = "queued"]
      BY <1>1, <3>1 DEF After, Nothing, RowTypes, Columns, Asked, Parked
    <3> HIDE DEF answered
    <3>3. Committed(a, answered, "done") => Place(a)' /\ ChangesLocked(a)
      BY <1>1, <3>1, <3>2 DEF Committed, Place, ChangesLocked, RowTypes, Versions
    <3>4. Committed(a, answered, "done") => [Rows!Next]_db
      BY <1>1, <3>1, <3>2 DEF Committed, Rows!Next, Rows!AnswerInput, Asked
    <3> QED
      BY <1>1, <2>1, <2>5, <3>1, <3>3, <3>4, CommitsStep DEF Runs, Labels, Unlocked
  <2> QED
    BY <1>4, <2>2, <2>3, <2>4, <2>5 DEF Answer
<1> QED
  BY <1>3, <1>4 DEF Answerer

LEMMA RevokerStep ==
  ASSUME IInv, NEW r \in Revokes, Revoker(r)
  PROVE  IInv' /\ [Rows!Next]_db
<1> DEFINE v == target[r]
           revoked == [Nothing EXCEPT ![v] = "revoked"]
<1>1. /\ r \in Sessions /\ Mine(r) /\ Typed /\ db \in RowTypes
      /\ r \notin Cancels /\ r \notin Answers /\ r \notin Workers
      /\ v \in Versions /\ v \in Columns
  BY LocksAssumption DEF IInv, RowsInv, Sessions, Typed, Versions, Columns
<1>2. Nothing \in Writes /\ revoked \in Writes
  BY DEF Nothing, Writes, Values
<1>3. CASE Call(r, "revoke_tool")
  <2>1. pc'[r] = "revoke_tool" => Place(r)'
    BY <1>1 DEF Place
  <2> QED
    BY <1>1, <1>3, <2>1, MoveStep DEF Call, Unlocked, Labels, RevokeNeeds, Typed
<1>4. ASSUME Revoke(r), UNCHANGED target
      PROVE  IInv' /\ [Rows!Next]_db
  <2>1. CASE /\ Runs(r, "revoke_tool") /\ Write(r, Nothing, "revoke_version")
             /\ seen' = [seen EXCEPT ![r] = db.stable]
    <3>1. Elsewhere(r) /\ seen'[r] = db.stable
      BY <1>1, <1>4, <2>1 DEF Elsewhere, Typed, RowTypes
    <3>2. Wants(r) = {<<"tool", "update">>} /\ locks[r] = {}
      BY <1>1, <2>1, NeedsAt, WantsAt DEF Labels, Runs, Mine, Shape, Unlocked
    <3>3. Wrote(r, Nothing, "revoke_version") => Mine(r)'
      BY <1>1, <3>1, <3>2
         DEF Wrote, Mine, Shape, At, Unlocked, Knows, Place, PublishLabels
    <3> QED
      BY <1>1, <1>2, <2>1, <3>1, <3>3, WriteStep DEF Labels, RevokeNeeds
  <2>2. ASSUME UNCHANGED seen, Runs(r, "revoke_version") \/ Runs(r, "revoke_stable")
        PROVE  /\ Elsewhere(r) /\ seen'[r] = seen[r] /\ seen[r] = db.stable
               /\ Locked(r, "tool")
    BY <1>1, <1>4, <2>2 DEF Elsewhere, Typed, Runs, Mine, Knows, Shape, At, Locked
  <2>3. CASE UNCHANGED seen /\ Runs(r, "revoke_version") /\ Rollback(r, "done")
    BY <1>1, <1>4, <2>3, RollbackStep
  <2>4. CASE /\ UNCHANGED seen /\ Runs(r, "revoke_version") /\ db[v] = "ready" /\ seen[r] = v
             /\ Write(r, [pending[r] EXCEPT ![v] = "revoked"], "revoke_stable")
    <3>1. /\ Wants(r) = {<<v, "update">>} /\ locks[r] = {<<"tool", "update">>}
          /\ pending[r] = Nothing
      BY <1>1, <2>4, NeedsAt, WantsAt DEF Labels, Runs, Mine, Shape, At
    <3>2. Wrote(r, revoked, "revoke_stable") => Mine(r)'
      BY <1>1, <2>2, <2>4, <3>1
         DEF Wrote, Mine, Shape, At, Unlocked, Knows, Place, PublishLabels
    <3> QED
      BY <1>1, <1>2, <2>2, <2>4, <3>1, <3>2, WriteStep DEF Labels, RevokeNeeds
  <2>5. CASE /\ UNCHANGED seen /\ Runs(r, "revoke_version") /\ db[v] = "ready" /\ seen[r] # v
             /\ Commit(r, [pending[r] EXCEPT ![v] = "revoked"], "done")
    <3>1. Locked(r, v) /\ pending[r] = Nothing /\ db.stable # v
      BY <1>1, <2>2, <2>5, WantsAt DEF Labels, Runs, Mine, Shape, At, Locked
    <3>2. After(revoked, db) = [db EXCEPT ![v] = "revoked"]
      BY <1>1 DEF After, Nothing, RowTypes, Columns, Versions
    <3> HIDE DEF revoked
    <3>3. Committed(r, revoked, "done") => Place(r)' /\ ChangesLocked(r)
      BY <1>1, <3>1, <3>2 DEF Committed, Place, ChangesLocked, RowTypes, Versions
    <3>4. Committed(r, revoked, "done") => [Rows!Next]_db
      BY <1>1, <2>5, <3>1, <3>2
         DEF Committed, Rows!Next, Rows!RevokeVersion, Rows!Versions, Versions
    <3>5. [pending[r] EXCEPT ![v] = "revoked"] = revoked
      BY <3>1 DEF revoked
    <3> QED
      BY <1>1, <2>2, <2>5, <3>4, <3>5, <3>3, CommitsStep DEF Runs, Labels, Unlocked
  <2>6. CASE /\ UNCHANGED seen /\ Runs(r, "revoke_stable")
             /\ Commit(r, [pending[r] EXCEPT !.stable = Fallback(v)], "done")
    <3> DEFINE both == [revoked EXCEPT !.stable = Fallback(v)]
    <3>1. /\ Locked(r, v) /\ pending[r] = revoked /\ db.stable = v /\ db[v] = "ready"
      BY <1>1, <2>2, <2>6 DEF Runs, Mine, Shape, At, Knows, Locked
    <3>2. Fallback(v) \in Versions \cup {"none"} /\ Fallback(v) # "kept"
      BY <1>1, OtherVersion DEF Fallback, Versions
    <3>3. After(both, db) = [[db EXCEPT ![v] = "revoked"] EXCEPT !.stable = Fallback(v)]
      BY <1>1, <3>2 DEF After, Nothing, RowTypes, Columns, Versions
    <3> HIDE DEF both
    <3>4. Committed(r, both, "done") =>
            /\ db'.job = db.job /\ db'.owner = db.owner /\ db'.lease = db.lease
            /\ db'.input = db.input /\ \A u \in Versions : u # v => db'[u] = db[u]
      <4>1. \A c \in Columns \ {"stable", v} : both[c] = "kept"
        BY <1>1 DEF both, Nothing
      <4>2. Committed(r, both, "done") => \A c \in Columns \ {"stable", v} : db'[c] = db[c]
        BY <4>1 DEF Committed, After
      <4> QED
        BY <1>1, <4>2 DEF Columns, Versions
    <3>5. Locked(r, "tool")
      BY <2>2, <2>6
    <3>6. Committed(r, both, "done") => Place(r)'
      BY <1>1 DEF Committed, Place
    <3>7. Committed(r, both, "done") => ChangesLocked(r)
      BY <1>1, <3>1, <3>4, <3>5 DEF ChangesLocked
    <3>8. Committed(r, both, "done") => Rows!RevokeVersion(v)
      BY <1>1, <3>1, <3>3
         DEF Committed, Rows!RevokeVersion, Rows!Versions, Versions, Fallback
    <3>9. Rows!RevokeVersion(v) => [Rows!Next]_db
      BY <1>1 DEF Rows!Next, Rows!Versions, Versions
    <3>10. [pending[r] EXCEPT !.stable = Fallback(v)] = both
      BY <3>1 DEF both
    <3> QED
      BY <1>1, <2>2, <2>6, <3>8, <3>9, <3>10, <3>7, <3>6, CommitsStep DEF Runs, Labels, Unlocked
  <2> QED
    BY <1>4, <2>1, <2>3, <2>4, <2>5, <2>6 DEF Revoke
<1> QED
  BY <1>3, <1>4 DEF Revoker

-----------------------------------------------------------------------------
(* The environment, and every step.                                        *)

LEMMA DeadlockStep ==
  ASSUME IInv, NEW s \in Sessions, DeadlockDetected(s) \/ ConnectionLost(s)
  PROVE  IInv' /\ [Rows!Next]_db
<1>1. Aborted(s) \in {"done", "reject_job"} /\ (Aborted(s) = "reject_job" => s \in Workers)
  BY DEF Aborted
<1> QED
  BY <1>1, RollbackStep DEF DeadlockDetected, ConnectionLost

LEMMA CrashStep ==
  ASSUME IInv, NEW w \in Workers, WorkerCrash(w)
  PROVE  IInv' /\ [Rows!Next]_db
<1>1. w \in Sessions /\ renewal' \in [Workers -> {"none", "sent", "held"}]
  BY DEF WorkerCrash, IInv, Typed, Sessions
<1> QED
  BY <1>1, DropStep DEF WorkerCrash

LEMMA ExpiryStep ==
  ASSUME IInv, LeaseExpires
  PROVE  IInv' /\ [Rows!Next]_db
<1>1. Rows!Next
  BY DEF LeaseExpires, Rows!Next, Rows!LeaseExpires
<1>2. renewal' \in [Workers -> {"none", "sent", "held"}]
  BY DEF LeaseExpires, IInv, Typed
<1> QED
  BY <1>1, <1>2, LeaseStep DEF LeaseExpires

\* Every step keeps the invariant, and is a step of JobRows or leaves the rows.
LEMMA StepKeeps == IInv /\ [Next]_vars => IInv' /\ [Rows!Next]_db
<1> SUFFICES ASSUME IInv, [Next]_vars
             PROVE  IInv' /\ [Rows!Next]_db
  OBVIOUS
<1>1. CASE UNCHANGED vars
  <2>1. /\ Untouched({}) /\ Typed' /\ Exclusive' /\ db' = db
    BY <1>1 DEF vars, Untouched, IInv, Typed, Exclusive
  <2> QED
    BY <2>1, QuietStep
<1>2. CASE Next
  BY <1>2, WorkerStep, CancellerStep, AnswererStep, RevokerStep, DeadlockStep, CrashStep,
     ExpiryStep DEF Next
<1> QED
  BY <1>1, <1>2

LEMMA InitHolds == Init => IInv /\ Rows!Init
<1> SUFFICES ASSUME Init
             PROVE  IInv /\ Rows!Init
  OBVIOUS
<1>1. Rows!Init
  BY DEF Init, Rows!Init
<1>2. Typed
  BY NothingWritten DEF Init, Typed, Labels, ClaimNeeds
<1>3. ASSUME NEW s \in Sessions
      PROVE  Mine(s)
  <2>1. /\ pc[s] = IF s \in Workers THEN "claim_job" ELSE "idle"
        /\ locks[s] = {} /\ pending[s] = Nothing
    BY DEF Init
  <2>2. Place(s) /\ Knows(s)
    BY <2>1, LocksAssumption DEF Place, Knows, WorkerLabels, PublishLabels
  <2>3. Shape(s)
    BY <2>1 DEF Shape, At, Unlocked
  <2> QED
    BY <2>2, <2>3 DEF Mine
<1>4. Exclusive
  BY DEF Init, Exclusive
<1> QED
  BY <1>1, <1>2, <1>3, <1>4, RowsInit DEF IInv

LEMMA InvariantHolds == Spec => []IInv
<1>1. Init => IInv
  BY InitHolds
<1>2. IInv /\ [Next]_vars => IInv'
  BY StepKeeps
<1> QED
  BY <1>1, <1>2, PTL DEF Spec

\* For any number of workers and calls, only open transactions hold locks or have
\* written, and the rows keep to their columns (migrations/0001, 0005).
THEOREM LocksTypeCorrect == Spec => []TypeOK
<1>1. IInv => TypeOK
  <2> SUFFICES ASSUME IInv
               PROVE  TypeOK
    OBVIOUS
  <2>1. db \in RowTypes /\ Typed
    BY DEF IInv, RowsInv
  <2>2. \A s \in Sessions : pc[s] \in {"idle", "done"} =>
          locks[s] = {} /\ pending[s] = Nothing
    BY DEF IInv, Mine, Shape, Unlocked
  <2> QED
    BY <2>1, <2>2 DEF TypeOK, RowTypes, Typed
<1> QED
  BY <1>1, InvariantHolds, PTL

\* At every statement of every call, of any number of workers that take the job over from
\* each other, the committed job, version and question agree, and the stable pointer names
\* a ready version if there is one, but for a version that a late second statement of
\* set_job_stage has put back (publish_job, cancel_job, revoke_tool_version).
THEOREM RowsAlwaysAgree == Spec => []RowsAgree
<1>1. IInv => RowsAgree
  BY DEF IInv, RowsInv
<1> QED
  BY <1>1, InvariantHolds, PTL

\* The calls of any number of workers and users, run statement by statement, implement
\* JobRows, where each is one step: what they lock is enough (lib.rs, the FOR UPDATE
\* clauses).
THEOREM JobLocksImplementsJobRows == Spec => CallsAreAtomic
<1>1. Init => Rows!Init
  BY InitHolds
<1>2. IInv /\ [Next]_vars => [Rows!Next]_db
  BY StepKeeps
<1> QED
  BY <1>1, <1>2, InvariantHolds, PTL DEF Spec, CallsAreAtomic, Rows!Spec

\* A published or rejected job stays so whatever statements of other calls are
\* under way (publish_job, cancel_job: FOR UPDATE).
THEOREM OutcomeOnce == Spec => OneOutcome
<1>1. IInv /\ [Next]_vars => [db.job \in {"ready", "rejected"} => db'.job = db.job]_vars
  BY StepKeeps, OutcomeKept DEF IInv, vars
<1> QED
  BY <1>1, InvariantHolds, PTL DEF Spec, OneOutcome

-----------------------------------------------------------------------------
(* Lock cycles.  Outside the three known cases a session waits only for    *)
(* sessions of a lower rank, so no chain of waits comes back to it.        *)

Rank(label) ==
  IF label \in {"append_run", "answer_input"} THEN 7
  ELSE IF label \in {"append_event", "stage_job", "publish_job", "suspend_job", "reject_job",
                     "cancel_job", "answer_job", "claim_job"} THEN 6
  ELSE IF label \in {"cancel_version", "publish_version", "stage_version", "reject_version",
                     "claim_version"} THEN 5
  ELSE IF label \in {"publish_tool", "revoke_tool"} THEN 4
  ELSE IF label = "revoke_version" THEN 3
  ELSE IF label = "cancel_input" THEN 2
  ELSE IF label \in {"publish_run", "suspend_run", "cancel_run", "answer_run"} THEN 1
  ELSE 0

EventAgainstCall ==
  /\ \E w \in Workers : pc[w] = "append_event"
  /\ \E t \in Sessions : pc[t] \in {"cancel_run", "publish_run", "suspend_run", "answer_run"}
PublishAgainstRevoke ==
  /\ \E w \in Workers : pc[w] = "publish_tool"
  /\ \E r \in Revokes : pc[r] = "revoke_version" /\ target[r] = "new"
AnswerAgainstCancel ==
  /\ \E a \in Answers : pc[a] = "answer_job"
  /\ \E c \in Cancels : pc[c] = "cancel_input"

\* Where a session is that has locked a row.
LEMMA Holders ==
  ASSUME IInv, NEW t \in Sessions, NEW k \in locks[t]
  PROVE  /\ k[1] = "run" =>
              pc[t] \in {"append_event", "commit_event", "commit_publication",
                         "commit_suspension"}
         /\ k[1] = "job" =>
              pc[t] \in {"commit_event", "suspend_run", "commit_suspension", "reject_version",
                         "cancel_version", "cancel_input", "cancel_run", "answer_run",
                         "claim_version"} \cup PublishLabels
         /\ k[1] = "new" =>
              pc[t] \in {"publish_tool", "publish_run", "commit_publication", "cancel_input",
                         "cancel_run", "revoke_stable"}
         /\ k[1] = "old" => pc[t] = "revoke_stable"
         /\ k[1] = "tool" =>
              pc[t] \in {"publish_run", "commit_publication", "revoke_version", "revoke_stable"}
         /\ k[1] = "input" => pc[t] \in {"answer_job", "answer_run", "cancel_run"}
<1>1. /\ Shape(t) /\ Place(t) /\ pc[t] \in Labels
      /\ pc[t] = "revoke_stable" => target[t] \in Versions
  BY Kinds DEF IInv, Mine, Typed
<1>2. pc[t] \notin Unlocked
  BY <1>1 DEF Shape
<1>3. pc[t] \in {"append_event", "commit_event", "suspend_run", "commit_suspension",
                 "reject_version", "cancel_version", "cancel_input", "cancel_run",
                 "answer_job", "answer_run", "revoke_version", "revoke_stable",
                 "claim_version"} \cup PublishLabels
  BY <1>1, <1>2
     DEF Labels, Unlocked, PublishLabels, AppendNeeds, StageNeeds, PublishNeeds, SuspendNeeds,
         RejectNeeds, CancelNeeds, AnswerNeeds, RevokeNeeds, ClaimNeeds
<1> QED
  BY <1>1, <1>3 DEF Shape, At, PublishLabels, Job, Run, New, Tool, Versions

LEMMA WaitsDescend ==
  ASSUME IInv, ~EventAgainstCall, ~PublishAgainstRevoke, ~AnswerAgainstCancel,
         NEW s \in Sessions, NEW t \in WaitsFor(s)
  PROVE  Rank(pc[t]) < Rank(pc[s])
<1>1. PICK h \in Wants(s), k \in locks[t] : h[1] = k[1] /\ Conflicts(h[2], k[2])
  BY DEF WaitsFor
<1>2. /\ t \in Sessions /\ t # s /\ Mine(s) /\ Mine(t) /\ Place(s) /\ Place(t)
      /\ pc[s] \in Labels
  BY DEF WaitsFor, IInv, Mine, Typed
<1>3. CASE pc[s] = "append_run"
  <2>1. k[1] = "run"
    BY <1>1, <1>3, NeedsAt, WantsAt DEF Labels, Run
  <2> QED
    BY <1>2, <1>3, <2>1, Holders DEF Rank
<1>4. CASE pc[s] \in {"publish_run", "suspend_run", "cancel_run", "answer_run"}
  <2>1. k[1] = "run"
    BY <1>1, <1>4, NeedsAt, WantsAt DEF Labels, Run
  <2>2. pc[t] \in {"append_event", "commit_event", "commit_publication", "commit_suspension"}
    BY <1>2, <2>1, Holders
  <2>3. pc[t] # "append_event"
    BY <1>2, <1>4, Kinds DEF EventAgainstCall, WorkerLabels
  <2> QED
    BY <1>4, <2>2, <2>3 DEF Rank
<1>5. CASE pc[s] = "cancel_input"
  <2>1. k[1] = "input"
    BY <1>1, <1>5, NeedsAt, WantsAt DEF Labels
  <2>2. pc[t] \in {"answer_run", "cancel_run"}
    BY <1>2, <1>5, <2>1, Kinds, Holders DEF AnswerAgainstCancel
  <2> QED
    BY <1>5, <2>2 DEF Rank
<1>6. CASE pc[s] = "revoke_version"
  <2>1. k[1] = target[s] /\ s \in Revokes /\ k[1] \in {"old", "new"}
    BY <1>1, <1>2, <1>6, WantsAt, Kinds DEF Labels, IInv, Typed, Versions
  <2>2. pc[t] \in {"publish_run", "commit_publication", "cancel_input", "cancel_run",
                   "revoke_stable"}
    BY <1>2, <1>6, <2>1, Kinds, Holders
       DEF PublishAgainstRevoke, WorkerLabels, PublishLabels
  <2> QED
    BY <1>6, <2>2 DEF Rank
<1>7. CASE pc[s] \in {"publish_tool", "revoke_tool"}
  <2>1. k[1] = "tool"
    BY <1>1, <1>7, NeedsAt, WantsAt DEF Labels, Tool
  <2> QED
    BY <1>2, <1>7, <2>1, Holders DEF Rank
<1>8. CASE pc[s] = "revoke_stable"
  <2>1. h = Tool /\ <<"tool", "update">> \in locks[s]
    BY <1>1, <1>2, <1>8, NeedsAt, WantsAt DEF Labels, Mine, Shape, At
  <2>2. Conflicts("update", k[2])
    BY <1>1, <2>1 DEF Conflicts, Tool
  <2> QED
    BY <1>1, <1>2, <2>1, <2>2 DEF IInv, Exclusive, Tool
<1>9. CASE pc[s] \in {"cancel_version", "publish_version", "stage_version", "reject_version",
                      "claim_version"}
  <2>1. k[1] = "new"
    BY <1>1, <1>9, NeedsAt, WantsAt DEF Labels, New
  <2> QED
    BY <1>2, <1>9, <2>1, Holders DEF Rank
<1>10. CASE pc[s] \in {"append_event", "stage_job", "publish_job", "suspend_job", "reject_job",
                       "cancel_job", "answer_job", "claim_job"}
  <2>1. k[1] = "job"
    BY <1>1, <1>10, NeedsAt, WantsAt DEF Labels, Job
  <2> QED
    BY <1>2, <1>10, <2>1, Holders DEF Rank, PublishLabels
<1>11. CASE pc[s] = "answer_input"
  <2>1. k[1] = "input"
    BY <1>1, <1>11, NeedsAt, WantsAt DEF Labels
  <2> QED
    BY <1>2, <1>11, <2>1, Holders DEF Rank
<1>12. CASE pc[s] \in {"idle", "done", "append_owner", "commit_event",
                       "commit_publication", "commit_suspension"}
  BY <1>1, <1>12, NeedsAt, WantsAt DEF Labels
<1> QED
  BY <1>2, <1>3, <1>4, <1>5, <1>6, <1>7, <1>8, <1>9, <1>10, <1>11, <1>12
     DEF Labels, AppendNeeds, StageNeeds, PublishNeeds, SuspendNeeds, RejectNeeds,
         CancelNeeds, AnswerNeeds, RevokeNeeds, ClaimNeeds

\* Whatever the number of workers and calls, a lock cycle is one of three: an event
\* against a cancellation, or against a call that came after its worker had lost the
\* job; a publication against a revocation; an answer against a cancellation
\* (append_agent_event, publish_job, answer_job_input).
THEOREM OnlyKnownCycles == Spec => []KnownLockCycles
<1>1. IInv => KnownLockCycles
  <2> SUFFICES ASSUME IInv, NEW s \in Sessions, InLockCycle(s),
                      ~EventAgainstCall, ~PublishAgainstRevoke, ~AnswerAgainstCancel
               PROVE  FALSE
    BY DEF KnownLockCycles, EventAgainstCall, PublishAgainstRevoke, AnswerAgainstCancel
  <2> DEFINE D == {t \in Sessions \ {s} : Rank(pc[t]) < Rank(pc[s])}
  <2>1. \A u \in Sessions : WaitsFor(u) \subseteq Sessions \ {u}
    BY DEF WaitsFor
  <2>2. WaitsFor(s) \subseteq D
    <3>1. \A t \in WaitsFor(s) : Rank(pc[t]) < Rank(pc[s])
      BY WaitsDescend
    <3> QED
      BY <2>1, <3>1
  <2>3. ASSUME NEW d \in D
        PROVE  WaitsFor(d) \subseteq D
    <3>1. \A t \in WaitsFor(d) : Rank(pc[t]) < Rank(pc[d])
      BY <2>3, WaitsDescend
    <3>2. \A t \in Sessions : Rank(pc[t]) \in Nat
      BY DEF Rank
    <3>3. ASSUME NEW t \in WaitsFor(d)
          PROVE  t \in Sessions /\ Rank(pc[t]) < Rank(pc[s])
      BY <2>1, <2>3, <3>1, <3>2
    <3>4. ~(Rank(pc[s]) < Rank(pc[s]))
      BY <3>2
    <3> QED
      BY <3>3, <3>4
  <2>4. D \in SUBSET (Sessions \ {s})
    OBVIOUS
  <2> HIDE DEF D
  <2> QED
    BY <2>2, <2>3, <2>4 DEF InLockCycle, D
<1> QED
  BY <1>1, InvariantHolds, PTL
=============================================================================
