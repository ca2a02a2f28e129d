----------------------------- MODULE Artifacts -----------------------------
(***************************************************************************)
(* Artifact directories, source images and who deletes them: ArtifactStore *)
(* (crates/jit-artifact), the candidates of a job (evaluate_after_mutation *)
(* and cleanup_candidates in apps/jit-worker/src/jobs.rs) and the clean-up *)
(* at a worker's start (cleanup_stale_state in apps/jit-worker/src/        *)
(* main.rs).                                                               *)
(*                                                                         *)
(* The workers share one artifact directory and one Docker daemon.  A step *)
(* is a database statement or transaction, one pass over the directory or  *)
(* one removal; another worker, a user or a crash can come between any two *)
(* of them.  As in Registry without stalls, a running job is claimed again *)
(* only when no live worker is at it.  An artifact is named by its digest, *)
(* which leaves out the time of validation, so a job that is resumed, or a *)
(* second registration of the same tool, can store the same one again.     *)
(***************************************************************************)
EXTENDS FiniteSets

CONSTANTS
  Jobs,       \* synthesis jobs
  Workers,    \* worker processes
  Digests,    \* artifact digests
  Sources,    \* digests of source texts
  SourceOf,   \* manifest.source_sha256
  Candidates, \* per job, the artifacts its agent may come to write
  NoJob, NoDigest

ASSUME ArtifactsAssumption ==
  /\ SourceOf \in [Digests -> Sources]
  /\ Candidates \in [Jobs -> SUBSET Digests]
  /\ NoJob \notin Jobs /\ NoDigest \notin Digests

JobStatuses == {"queued", "running", "awaiting_input", "ready", "rejected"}

VARIABLES
  status,     \* synthesis_jobs.status
  owner,      \* the worker process that claimed the job last, if any
  checkpoint, \* candidate_digests in synthesis_agent_runs.checkpoint
  artifacts,  \* digests in the table artifacts
  store,      \* directories sha256/xx/<digest>
  temporary,  \* workers whose last write left a directory .tmp-<uuid>
  images,     \* sources with a built image
  pc,         \* per worker: what it does next
  job,        \* per worker: the job it works on
  candidates, \* per worker: workspace.candidate_digests in memory
  current,    \* per worker: workspace.current_artifact_digest
  kept,       \* per worker: the digest drive_agent returned, if it returned one
  refs,       \* per worker: referenced digests read so far
  doomed      \* per worker: directories its clean-up has yet to remove

dbVars == <<status, owner, checkpoint, artifacts>>
diskVars == <<store, temporary, images>>
jobVars == <<job, candidates, current, kept>>
sweepVars == <<refs, doomed>>
vars == <<dbVars, diskVars, pc, jobVars, sweepVars>>

AtBoot == {"boot", "boot_artifacts", "boot_checkpoints", "boot_list", "boot_sweep",
           "boot_images"}
InAgent == {"agent", "put", "build", "validate", "publish", "save"}
InCleanup == {"clean_artifacts", "clean_checkpoints", "clean_sweep", "clean_images"}
Points == AtBoot \cup InAgent \cup InCleanup \cup {"down", "idle", "reject"}

Init ==
  /\ status = [j \in Jobs |-> "queued"]
  /\ owner = [j \in Jobs |-> {}]
  /\ checkpoint = [j \in Jobs |-> {}]
  /\ artifacts = {} /\ store = {} /\ temporary = {} /\ images = {}
  /\ pc = [w \in Workers |-> "down"]
  /\ job = [w \in Workers |-> NoJob]
  /\ candidates = [w \in Workers |-> {}]
  /\ current = [w \in Workers |-> NoDigest]
  /\ kept = [w \in Workers |-> NoDigest]
  /\ refs = [w \in Workers |-> {}]
  /\ doomed = [w \in Workers |-> {}]

\* Image tags derive from the source and not from the digest of the artifact, so
\* artifacts can share an image.
ByDigest(ds) == ds
SourcesOf(ds) == {SourceOf[d] : d \in ds}

Goto(w, point) == pc' = [pc EXCEPT ![w] = point]

\* The second query of referenced_artifacts_inner reads the checkpoints of the
\* jobs with these statuses; a clean-up after a job leaves out the job itself.
ReferencedRunning(j) == status[j] = "running"
Referenced(j) == status[j] \in {"running", "awaiting_input"}
CheckpointRefs(js) == UNION {checkpoint[j] : j \in {i \in js : Referenced(i)}}

\* Its first query.
ArtifactRefsNone == {}
ArtifactRefs == artifacts

\* WHERE id = $1 AND worker_id = $2 AND status = 'running'
Owns(w) == owner[job[w]] = {w} /\ status[job[w]] = "running"

-----------------------------------------------------------------------------
(* A worker's start: cleanup_stale_state.                                  *)

Start(w) ==
  /\ pc[w] = "down"
  /\ Goto(w, "boot")
  /\ UNCHANGED <<dbVars, diskVars, jobVars, sweepVars>>

\* cleanup_temporary takes every .tmp- directory for an interrupted write.
CleanupTemporary(w) ==
  /\ pc[w] = "boot"
  /\ temporary' = {}
  /\ Goto(w, "boot_artifacts")
  /\ UNCHANGED <<dbVars, store, images, jobVars, sweepVars>>

\* referenced_artifacts, in two statements outside a transaction.
BootReadArtifacts(w) ==
  /\ pc[w] = "boot_artifacts"
  /\ refs' = [refs EXCEPT ![w] = ArtifactRefs]
  /\ Goto(w, "boot_checkpoints")
  /\ UNCHANGED <<dbVars, diskVars, jobVars, doomed>>

BootReadCheckpoints(w) ==
  /\ pc[w] = "boot_checkpoints"
  /\ refs' = [refs EXCEPT ![w] = refs[w] \cup CheckpointRefs(Jobs)]
  /\ Goto(w, "boot_list")
  /\ UNCHANGED <<dbVars, diskVars, jobVars, doomed>>

\* A failed query ends the clean-up; the worker starts all the same.
BootReadFails(w) ==
  /\ pc[w] \in {"boot_artifacts", "boot_checkpoints"}
  /\ Goto(w, "idle")
  /\ UNCHANGED <<dbVars, diskVars, jobVars, sweepVars>>

BootDoomedNone(w) == {}
BootDoomed(w) == store \ refs[w]

\* list_digests.
BootList(w) ==
  /\ pc[w] = "boot_list"
  /\ doomed' = [doomed EXCEPT ![w] = BootDoomed(w)]
  /\ Goto(w, "boot_sweep")
  /\ UNCHANGED <<dbVars, diskVars, jobVars, refs>>

\* store.remove, at a start or after a job.
Remove(w) ==
  /\ pc[w] \in {"boot_sweep", "clean_sweep"}
  /\ \E d \in doomed[w] :
       /\ store' = store \ {d}
       /\ doomed' = [doomed EXCEPT ![w] = @ \ {d}]
  /\ UNCHANGED <<dbVars, temporary, images, pc, jobVars, refs>>

BootSweepEnds(w) ==
  /\ pc[w] = "boot_sweep" /\ doomed[w] = {}
  /\ Goto(w, "boot_images")
  /\ UNCHANGED <<dbVars, diskVars, jobVars, sweepVars>>

\* cleanup_unreferenced_images.
BootImages(w) ==
  /\ pc[w] = "boot_images"
  /\ images' = images \cap SourcesOf(refs[w])
  /\ Goto(w, "idle")
  /\ UNCHANGED <<dbVars, store, temporary, jobVars, sweepVars>>

-----------------------------------------------------------------------------
(* A job: claim, the agent's candidates, publication.                      *)

\* claim_synthesis_job, and load_or_create_run, which takes the workspace from
\* the checkpoint.  A job with its attempts used up is rejected at once.
Claim(w, j) ==
  /\ pc[w] = "idle"
  /\ \/ status[j] = "queued"
     \/ status[j] = "running" /\ \A x \in Workers : job[x] # j
  /\ status' = [status EXCEPT ![j] = "running"]
  /\ owner' = [owner EXCEPT ![j] = {w}]
  /\ job' = [job EXCEPT ![w] = j]
  /\ candidates' = [candidates EXCEPT ![w] = checkpoint[j]]
  /\ current' = [current EXCEPT ![w] = NoDigest]
  /\ kept' = [kept EXCEPT ![w] = NoDigest]
  /\ \E next \in {"agent", "reject"} : Goto(w, next)
  /\ UNCHANGED <<checkpoint, artifacts, diskVars, sweepVars>>

\* put, up to the rename: load if the directory exists, else write a temporary one.
Put(w, d) ==
  /\ pc[w] = "agent" /\ d \in Candidates[job[w]]
  /\ current' = [current EXCEPT ![w] = d]
  /\ IF d \in store
     THEN /\ candidates' = [candidates EXCEPT ![w] = @ \cup {d}]
          /\ Goto(w, "build")
          /\ UNCHANGED temporary
     ELSE /\ temporary' = temporary \cup {w}
          /\ Goto(w, "put")
          /\ UNCHANGED candidates
  /\ UNCHANGED <<dbVars, store, images, job, kept, sweepVars>>

\* The rename.  It fails when the temporary directory is gone, or when another
\* worker has stored the same digest in the meantime; that ends the job.
Rename(w) ==
  /\ pc[w] = "put"
  /\ temporary' = temporary \ {w}
  /\ IF w \in temporary /\ current[w] \notin store
     THEN /\ store' = store \cup {current[w]}
          /\ candidates' = [candidates EXCEPT ![w] = @ \cup {current[w]}]
          /\ Goto(w, "build")
     ELSE /\ Goto(w, "clean_artifacts")
          /\ UNCHANGED <<store, candidates>>
  /\ UNCHANGED <<dbVars, images, job, current, kept, sweepVars>>

\* build_artifact loads the artifact, and builds its image if there is none.
Build(w) ==
  /\ pc[w] = "build"
  /\ \/ /\ current[w] \in store
        /\ images' = images \cup SourcesOf({current[w]})
        /\ Goto(w, "validate")
     \/ Goto(w, "clean_artifacts") /\ UNCHANGED images
  /\ UNCHANGED <<dbVars, store, temporary, jobVars, sweepVars>>

\* validate_input_samples and validate_tests.  Every run loads the artifact anew;
\* one that cannot is a failed test and not an error of the job.
Validate(w) ==
  /\ pc[w] = "validate"
  /\ IF current[w] \in store
     THEN images' = images \cup SourcesOf({current[w]})
     ELSE UNCHANGED images
  /\ \/ current[w] \in store /\ Goto(w, "publish")
     \/ Goto(w, "save")
  /\ UNCHANGED <<dbVars, store, temporary, jobVars, sweepVars>>

\* save_checkpoint at the head of the agent's loop, after a tool that goes on.
SaveCheckpoint(w) ==
  /\ pc[w] = "save"
  /\ IF Owns(w)
     THEN /\ checkpoint' = [checkpoint EXCEPT ![job[w]] = candidates[w]]
          /\ Goto(w, "agent")
     ELSE /\ Goto(w, "clean_artifacts")
          /\ UNCHANGED checkpoint
  /\ UNCHANGED <<status, owner, artifacts, diskVars, jobVars, sweepVars>>

\* suspend_job_for_input; AwaitingInput skips the clean-up.
Suspend(w) ==
  /\ pc[w] = "agent" /\ Owns(w)
  /\ status' = [status EXCEPT ![job[w]] = "awaiting_input"]
  /\ owner' = [owner EXCEPT ![job[w]] = {}]
  /\ job' = [job EXCEPT ![w] = NoJob]
  /\ Goto(w, "idle")
  /\ UNCHANGED <<checkpoint, artifacts, diskVars, candidates, current, kept, sweepVars>>

\* Any error of the agent's loop: abort, a limit, a lost job, a failing service.
AgentFails(w) ==
  /\ pc[w] \in {"agent", "save", "publish"}
  /\ Goto(w, "clean_artifacts")
  /\ UNCHANGED <<dbVars, diskVars, jobVars, sweepVars>>

\* publish_job.  The worker may fail to hear of a commit.
Publish(w) ==
  /\ pc[w] = "publish" /\ Owns(w)
  /\ artifacts' = artifacts \cup {current[w]}
  /\ status' = [status EXCEPT ![job[w]] = "ready"]
  /\ \E heard \in {current[w], NoDigest} : kept' = [kept EXCEPT ![w] = heard]
  /\ Goto(w, "clean_artifacts")
  /\ UNCHANGED <<owner, checkpoint, diskVars, job, candidates, current, sweepVars>>

-----------------------------------------------------------------------------
(* After a job: cleanup_candidates, then reject_job unless it succeeded.   *)

CleanReadArtifacts(w) ==
  /\ pc[w] = "clean_artifacts"
  /\ refs' = [refs EXCEPT ![w] = ArtifactRefs]
  /\ Goto(w, "clean_checkpoints")
  /\ UNCHANGED <<dbVars, diskVars, jobVars, doomed>>

\* referenced_artifacts_excluding_job.
CleanReadCheckpoints(w) ==
  /\ pc[w] = "clean_checkpoints"
  /\ LET seen == refs[w] \cup CheckpointRefs(Jobs \ {job[w]})
     IN  /\ refs' = [refs EXCEPT ![w] = seen]
         /\ doomed' = [doomed EXCEPT ![w] = candidates[w] \ (seen \cup {kept[w]})]
  /\ Goto(w, "clean_sweep")
  /\ UNCHANGED <<dbVars, diskVars, jobVars>>

CleanSweepEnds(w) ==
  /\ pc[w] = "clean_sweep" /\ doomed[w] = {}
  /\ Goto(w, "clean_images")
  /\ UNCHANGED <<dbVars, diskVars, jobVars, sweepVars>>

\* The worker's next point and job once process_job has returned.
AfterCleanup(w) ==
  IF kept[w] = NoDigest
  THEN Goto(w, "reject") /\ UNCHANGED job
  ELSE Goto(w, "idle") /\ job' = [job EXCEPT ![w] = NoJob]

\* remove_source_image for the sources of the candidates.
CleanImages(w) ==
  /\ pc[w] = "clean_images"
  /\ images' = images \ (SourcesOf(candidates[w]) \ SourcesOf(refs[w]))
  /\ AfterCleanup(w)
  /\ UNCHANGED <<dbVars, store, temporary, candidates, current, kept, sweepVars>>

\* An error ends the clean-up with a warning.
CleanupFails(w) ==
  /\ pc[w] \in InCleanup
  /\ AfterCleanup(w)
  /\ UNCHANGED <<dbVars, diskVars, candidates, current, kept, sweepVars>>

\* A failed renewal ends process_job at its next await, without a clean-up; put
\* has none.
RenewalFails(w) ==
  /\ pc[w] \in (InAgent \cup InCleanup) \ {"put"}
  /\ Goto(w, "reject")
  /\ UNCHANGED <<dbVars, diskVars, jobVars, sweepVars>>

\* reject_job.  If it fails, the job stays as it is and its lease runs out.
Reject(w) ==
  /\ pc[w] = "reject"
  /\ \/ Owns(w) /\ status' = [status EXCEPT ![job[w]] = "rejected"]
     \/ UNCHANGED status
  /\ job' = [job EXCEPT ![w] = NoJob]
  /\ Goto(w, "idle")
  /\ UNCHANGED <<owner, checkpoint, artifacts, diskVars, candidates, current, kept,
                 sweepVars>>

-----------------------------------------------------------------------------
(* Users, invocations and crashes.                                         *)

Answer(j) ==
  /\ status[j] = "awaiting_input"
  /\ status' = [status EXCEPT ![j] = "queued"]
  /\ UNCHANGED <<owner, checkpoint, artifacts, diskVars, pc, jobVars, sweepVars>>

\* cancel_job.  No worker cleans up after a job that waited for an answer.
Cancel(j) ==
  /\ status[j] \in {"queued", "running", "awaiting_input"}
  /\ status' = [status EXCEPT ![j] = "rejected"]
  /\ UNCHANGED <<owner, checkpoint, artifacts, diskVars, pc, jobVars, sweepVars>>

\* An invocation of a published version builds its image if it is missing.
Invoke(d) ==
  /\ d \in artifacts \cap store
  /\ \E w \in Workers : pc[w] \notin AtBoot \cup {"down"}
  /\ images' = images \cup SourcesOf({d})
  /\ UNCHANGED <<dbVars, store, temporary, pc, jobVars, sweepVars>>

\* The worker process ends; a write in progress leaves its directory behind.
Crash(w) ==
  /\ pc[w] # "down"
  /\ Goto(w, "down")
  /\ job' = [job EXCEPT ![w] = NoJob]
  /\ UNCHANGED <<dbVars, diskVars, candidates, current, kept, sweepVars>>

WorkerStep(w) ==
  \/ Start(w) \/ CleanupTemporary(w) \/ BootReadArtifacts(w) \/ BootReadCheckpoints(w)
  \/ BootReadFails(w) \/ BootList(w) \/ Remove(w) \/ BootSweepEnds(w) \/ BootImages(w)
  \/ \E j \in Jobs : Claim(w, j)
  \/ \E d \in Digests : Put(w, d)
  \/ Rename(w) \/ Build(w) \/ Validate(w) \/ SaveCheckpoint(w) \/ Suspend(w)
  \/ AgentFails(w) \/ Publish(w)
  \/ CleanReadArtifacts(w) \/ CleanReadCheckpoints(w) \/ CleanSweepEnds(w)
  \/ CleanImages(w) \/ CleanupFails(w) \/ RenewalFails(w) \/ Reject(w) \/ Crash(w)

Next ==
  \/ \E w \in Workers : WorkerStep(w)
  \/ \E j \in Jobs : Answer(j) \/ Cancel(j)
  \/ \E d \in Digests : Invoke(d)

Spec == Init /\ [][Next]_vars

-----------------------------------------------------------------------------
(* Properties.                                                             *)

TypeOK ==
  /\ status \in [Jobs -> JobStatuses]
  /\ owner \in [Jobs -> SUBSET Workers]
  /\ checkpoint \in [Jobs -> SUBSET Digests]
  /\ artifacts \subseteq Digests /\ store \subseteq Digests
  /\ temporary \subseteq Workers /\ images \subseteq Sources
  /\ pc \in [Workers -> Points]
  /\ job \in [Workers -> Jobs \cup {NoJob}]
  /\ candidates \in [Workers -> SUBSET Digests]
  /\ current \in [Workers -> Digests \cup {NoDigest}]
  /\ kept \in [Workers -> Digests \cup {NoDigest}]
  /\ refs \in [Workers -> SUBSET Digests]
  /\ doomed \in [Workers -> SUBSET Digests]

\* Every artifact of the registry has its directory: whatever clean-ups, crashes,
\* retries and unheard commits there were, a published version can be loaded.
\* Several workers can break it: see the run artifacts_two.
PublishedArtifactsExist == artifacts \subseteq store

\* Published, or named by a checkpoint.
Named == artifacts \cup UNION {checkpoint[j] : j \in Jobs}

\* A clean-up at a start, when each of its removals succeeds, leaves no interrupted
\* write, no directory and no image that neither a published version nor a
\* checkpoint names (cleanup_stale_state; one that fails is only warned of, and what
\* it should have removed stays until the next start).
BootCollectsOrphans ==
  [][\A w \in Workers :
       pc[w] = "boot_images" /\ BootImages(w) =>
         /\ temporary' = {}
         /\ store' \subseteq Named
         /\ images' \subseteq SourcesOf(Named)]_vars

\* No clean-up, at a start or after another job, removes a candidate that the
\* checkpoint of a running or waiting job names: the job finds it when its answer
\* comes or its worker is replaced.  The job's own worker may give up.  A job that
\* an answer has queued again is not among them: no clean-up looks at it.
CheckpointsKeepCandidates ==
  [][\A j \in Jobs :
       status[j] \in {"running", "awaiting_input"} /\ (\A w \in Workers : job[w] # j) =>
         checkpoint[j] \cap store \subseteq store']_vars
=============================================================================
