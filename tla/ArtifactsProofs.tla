-------------------------- MODULE ArtifactsProofs --------------------------
(***************************************************************************)
(* Theorems about Artifacts.  With one worker process no clean-up meets a  *)
(* publication: what a sweep is about to remove was not published when it  *)
(* read the references, and nothing is published before the sweep is over. *)
(* Nor does one meet a save: what a sweep has read of the checkpoints      *)
(* stays true of the jobs that run or wait.                                *)
(***************************************************************************)
EXTENDS Artifacts, TLAPS

\* An artifact being written, built, tested or published is a digest.
CurrentKnown ==
  \A w \in Workers :
    pc[w] \in {"put", "build", "validate", "publish"} => current[w] \in Digests

TypeInv == TypeOK /\ CurrentKnown

LEMMA TypeInit == Init => TypeInv
  BY DEF Init, TypeInv, TypeOK, CurrentKnown, JobStatuses, Points, AtBoot, InAgent, InCleanup

LEMMA TypeStart ==
  TypeInv /\ (\E w \in Workers :
    \/ Start(w) \/ CleanupTemporary(w) \/ BootReadArtifacts(w) \/ BootReadCheckpoints(w)
    \/ BootReadFails(w) \/ BootList(w) \/ Remove(w) \/ BootSweepEnds(w) \/ BootImages(w))
  => TypeInv'
<1> SUFFICES ASSUME TypeInv, NEW w \in Workers,
      \/ Start(w) \/ CleanupTemporary(w) \/ BootReadArtifacts(w) \/ BootReadCheckpoints(w)
      \/ BootReadFails(w) \/ BootList(w) \/ Remove(w) \/ BootSweepEnds(w) \/ BootImages(w)
    PROVE TypeInv'
  OBVIOUS
<1> USE DEF TypeInv, TypeOK, CurrentKnown, Points, AtBoot, Goto, dbVars, diskVars, jobVars,
            sweepVars
<1>1. CASE Start(w) BY <1>1 DEF Start
<1>2. CASE CleanupTemporary(w) BY <1>2 DEF CleanupTemporary
<1>3. CASE BootReadArtifacts(w) BY <1>3 DEF BootReadArtifacts, ArtifactRefs
<1>4. CASE BootReadCheckpoints(w) BY <1>4 DEF BootReadCheckpoints, CheckpointRefs
<1>5. CASE BootReadFails(w) BY <1>5 DEF BootReadFails
<1>6. CASE BootList(w) BY <1>6 DEF BootList, BootDoomed
<1>7. CASE Remove(w) BY <1>7 DEF Remove
<1>8. CASE BootSweepEnds(w) BY <1>8 DEF BootSweepEnds
<1>9. CASE BootImages(w) BY <1>9 DEF BootImages
<1> QED BY <1>1, <1>2, <1>3, <1>4, <1>5, <1>6, <1>7, <1>8, <1>9

LEMMA TypeJob ==
  TypeInv /\ (\E w \in Workers :
    \/ \E j \in Jobs : Claim(w, j)
    \/ \E d \in Digests : Put(w, d)
    \/ Rename(w) \/ Build(w) \/ Validate(w) \/ SaveCheckpoint(w) \/ Suspend(w)
    \/ AgentFails(w) \/ Publish(w))
  => TypeInv'
<1> SUFFICES ASSUME TypeInv, NEW w \in Workers,
      \/ \E j \in Jobs : Claim(w, j)
      \/ \E d \in Digests : Put(w, d)
      \/ Rename(w) \/ Build(w) \/ Validate(w) \/ SaveCheckpoint(w) \/ Suspend(w)
      \/ AgentFails(w) \/ Publish(w)
    PROVE TypeInv'
  OBVIOUS
<1> USE ArtifactsAssumption DEF TypeInv, TypeOK, CurrentKnown, JobStatuses, Points, InAgent,
            InCleanup, Goto, dbVars, diskVars, jobVars, sweepVars
<1>1. ASSUME NEW j \in Jobs, Claim(w, j) PROVE TypeInv' BY <1>1 DEF Claim
<1>2. ASSUME NEW d \in Digests, Put(w, d) PROVE TypeInv' BY <1>2 DEF Put
<1>3. CASE Rename(w) BY <1>3 DEF Rename
<1>4. CASE Build(w) BY <1>4 DEF Build, SourcesOf
<1>5. CASE Validate(w) BY <1>5 DEF Validate, SourcesOf
<1>6. CASE SaveCheckpoint(w) BY <1>6 DEF SaveCheckpoint
<1>7. CASE Suspend(w) BY <1>7 DEF Suspend
<1>8. CASE AgentFails(w) BY <1>8 DEF AgentFails
<1>9. CASE Publish(w)
  <2>1. current[w] \in Digests /\ artifacts' \subseteq Digests
    BY <1>9 DEF Publish
  <2>2. status' \in [Jobs -> JobStatuses]
    BY <1>9 DEF Publish
  <2>3. kept' \in [Workers -> Digests \cup {NoDigest}]
    BY <1>9, <2>1 DEF Publish
  <2> QED BY <1>9, <2>1, <2>2, <2>3 DEF Publish
<1> QED BY <1>1, <1>2, <1>3, <1>4, <1>5, <1>6, <1>7, <1>8, <1>9

LEMMA TypeRest ==
  TypeInv /\ ( \/ \E w \in Workers :
                   \/ CleanReadArtifacts(w) \/ CleanReadCheckpoints(w) \/ CleanSweepEnds(w)
                   \/ CleanImages(w) \/ CleanupFails(w) \/ RenewalFails(w) \/ Reject(w)
                   \/ Crash(w)
               \/ \E j \in Jobs : Answer(j) \/ Cancel(j)
               \/ \E d \in Digests : Invoke(d)
               \/ UNCHANGED vars)
  => TypeInv'
<1> SUFFICES ASSUME TypeInv,
                    \/ \E w \in Workers :
                         \/ CleanReadArtifacts(w) \/ CleanReadCheckpoints(w)
                         \/ CleanSweepEnds(w) \/ CleanImages(w) \/ CleanupFails(w)
                         \/ RenewalFails(w) \/ Reject(w) \/ Crash(w)
                    \/ \E j \in Jobs : Answer(j) \/ Cancel(j)
                    \/ \E d \in Digests : Invoke(d)
                    \/ UNCHANGED vars
    PROVE TypeInv'
  OBVIOUS
<1> USE ArtifactsAssumption DEF TypeInv, TypeOK, CurrentKnown, JobStatuses, Points, InAgent,
            InCleanup, Goto, dbVars, diskVars, jobVars, sweepVars
<1>1. ASSUME NEW w \in Workers, CleanReadArtifacts(w) PROVE TypeInv'
  BY <1>1 DEF CleanReadArtifacts, ArtifactRefs
<1>2. ASSUME NEW w \in Workers, CleanReadCheckpoints(w) PROVE TypeInv'
  BY <1>2 DEF CleanReadCheckpoints, CheckpointRefs
<1>3. ASSUME NEW w \in Workers, CleanSweepEnds(w) PROVE TypeInv' BY <1>3 DEF CleanSweepEnds
<1>4. ASSUME NEW w \in Workers, CleanImages(w) PROVE TypeInv'
  BY <1>4 DEF CleanImages, AfterCleanup
<1>5. ASSUME NEW w \in Workers, CleanupFails(w) PROVE TypeInv'
  BY <1>5 DEF CleanupFails, AfterCleanup
<1>6. ASSUME NEW w \in Workers, RenewalFails(w) PROVE TypeInv' BY <1>6 DEF RenewalFails
<1>7. ASSUME NEW w \in Workers, Reject(w) PROVE TypeInv' BY <1>7 DEF Reject
<1>8. ASSUME NEW w \in Workers, Crash(w) PROVE TypeInv' BY <1>8 DEF Crash
<1>9. ASSUME NEW j \in Jobs, Answer(j) \/ Cancel(j) PROVE TypeInv' BY <1>9 DEF Answer, Cancel
<1>10. ASSUME NEW d \in Digests, Invoke(d) PROVE TypeInv' BY <1>10 DEF Invoke, SourcesOf
<1>11. CASE UNCHANGED vars BY <1>11 DEF vars
<1> QED BY <1>1, <1>2, <1>3, <1>4, <1>5, <1>6, <1>7, <1>8, <1>9, <1>10, <1>11

\* Every value stays in its type, with any number of workers.
THEOREM ArtifactsTypeCorrect == Spec => []TypeOK
<1>1. TypeInv /\ [Next]_vars => TypeInv'
  BY TypeStart, TypeJob, TypeRest DEF Next, WorkerStep
<1>2. TypeInv => TypeOK
  BY DEF TypeInv
<1> QED BY TypeInit, <1>1, <1>2, PTL DEF Spec

-----------------------------------------------------------------------------
(* One worker process.                                                     *)

OneWorker == \A a, b \in Workers : a = b

\* Between its two queries, and after them, a clean-up knows what is published.
RefsCoverPublished ==
  \A w \in Workers :
    pc[w] \in {"boot_checkpoints", "boot_list", "clean_checkpoints"} =>
      artifacts \subseteq refs[w]

\* What is about to be removed is not published.
DoomedUnpublished ==
  \A w \in Workers :
    pc[w] \in {"boot_sweep", "clean_sweep"} => doomed[w] \cap artifacts = {}

\* What is about to be published is there.
PublishableExists ==
  \A w \in Workers : pc[w] = "publish" => current[w] \in store

StoreInv ==
  PublishedArtifactsExist /\ RefsCoverPublished /\ DoomedUnpublished /\ PublishableExists

LEMMA StoreInit == Init => StoreInv
  BY DEF Init, StoreInv, PublishedArtifactsExist, RefsCoverPublished, DoomedUnpublished,
         PublishableExists

LEMMA StoreBoot ==
  ASSUME TypeInv, StoreInv, OneWorker, NEW w \in Workers,
         \/ Start(w) \/ CleanupTemporary(w) \/ BootReadArtifacts(w)
         \/ BootReadCheckpoints(w) \/ BootReadFails(w) \/ BootList(w) \/ BootSweepEnds(w)
         \/ BootImages(w)
  PROVE  StoreInv'
<1> USE DEF TypeInv, TypeOK, StoreInv, PublishedArtifactsExist, RefsCoverPublished,
            DoomedUnpublished, PublishableExists, Goto, dbVars, diskVars, jobVars, sweepVars
<1>1. CASE Start(w) BY <1>1 DEF Start
<1>2. CASE CleanupTemporary(w) BY <1>2 DEF CleanupTemporary
<1>3. CASE BootReadArtifacts(w) BY <1>3 DEF BootReadArtifacts, ArtifactRefs
<1>4. CASE BootReadCheckpoints(w) BY <1>4 DEF BootReadCheckpoints
<1>5. CASE BootReadFails(w) BY <1>5 DEF BootReadFails
<1>6. CASE BootList(w) BY <1>6 DEF BootList, BootDoomed
<1>7. CASE BootSweepEnds(w) BY <1>7 DEF BootSweepEnds
<1>8. CASE BootImages(w) BY <1>8 DEF BootImages
<1> QED BY <1>1, <1>2, <1>3, <1>4, <1>5, <1>6, <1>7, <1>8

\* The one removal: nobody else can be at a publication.
LEMMA StoreRemove ==
  ASSUME TypeInv, StoreInv, OneWorker, NEW w \in Workers, Remove(w)
  PROVE  StoreInv'
<1>1. PICK d \in doomed[w] : store' = store \ {d} /\ doomed' = [doomed EXCEPT ![w] = @ \ {d}]
  BY DEF Remove
<1>2. d \notin artifacts
  BY DEF Remove, StoreInv, DoomedUnpublished
<1>3. PublishedArtifactsExist'
  BY <1>1, <1>2 DEF Remove, StoreInv, PublishedArtifactsExist, dbVars
<1>4. RefsCoverPublished'
  BY DEF Remove, StoreInv, RefsCoverPublished, dbVars
<1>5. DoomedUnpublished'
  BY <1>1 DEF Remove, StoreInv, DoomedUnpublished, TypeInv, TypeOK, dbVars
<1>6. PublishableExists'
  BY DEF Remove, OneWorker, PublishableExists
<1> QED BY <1>3, <1>4, <1>5, <1>6 DEF StoreInv

LEMMA StoreJob ==
  ASSUME TypeInv, StoreInv, OneWorker, NEW w \in Workers,
         \/ \E j \in Jobs : Claim(w, j)
         \/ \E d \in Digests : Put(w, d)
         \/ Rename(w) \/ Build(w) \/ Validate(w) \/ SaveCheckpoint(w) \/ Suspend(w)
         \/ AgentFails(w)
  PROVE  StoreInv'
<1> USE DEF TypeInv, TypeOK, StoreInv, PublishedArtifactsExist, RefsCoverPublished,
            DoomedUnpublished, PublishableExists, Goto, dbVars, diskVars, jobVars, sweepVars
<1>1. ASSUME NEW j \in Jobs, Claim(w, j) PROVE StoreInv' BY <1>1 DEF Claim
<1>2. ASSUME NEW d \in Digests, Put(w, d) PROVE StoreInv' BY <1>2 DEF Put
<1>3. CASE Rename(w) BY <1>3 DEF Rename
<1>4. CASE Build(w) BY <1>4 DEF Build
<1>5. CASE Validate(w) BY <1>5 DEF Validate
<1>6. CASE SaveCheckpoint(w) BY <1>6 DEF SaveCheckpoint
<1>7. CASE Suspend(w) BY <1>7 DEF Suspend
<1>8. CASE AgentFails(w) BY <1>8 DEF AgentFails
<1> QED BY <1>1, <1>2, <1>3, <1>4, <1>5, <1>6, <1>7, <1>8

\* The one publication: nobody else can be at a clean-up.
LEMMA StorePublish ==
  ASSUME TypeInv, StoreInv, OneWorker, NEW w \in Workers, Publish(w)
  PROVE  StoreInv'
<1>1. artifacts' = artifacts \cup {current[w]} /\ store' = store /\ current[w] \in store
  BY DEF Publish, StoreInv, PublishableExists, diskVars
<1>2. \A x \in Workers : pc'[x] = "clean_artifacts"
  BY DEF Publish, OneWorker, Goto, TypeInv, TypeOK
<1> QED BY <1>1, <1>2 DEF StoreInv, PublishedArtifactsExist, RefsCoverPublished,
           DoomedUnpublished, PublishableExists

LEMMA StoreRest ==
  ASSUME TypeInv, StoreInv, OneWorker,
         \/ \E w \in Workers :
              \/ CleanReadArtifacts(w) \/ CleanReadCheckpoints(w) \/ CleanSweepEnds(w)
              \/ CleanImages(w) \/ CleanupFails(w) \/ RenewalFails(w) \/ Reject(w)
              \/ Crash(w)
         \/ \E j \in Jobs : Answer(j) \/ Cancel(j)
         \/ \E d \in Digests : Invoke(d)
         \/ UNCHANGED vars
  PROVE  StoreInv'
<1> USE DEF TypeInv, TypeOK, StoreInv, PublishedArtifactsExist, RefsCoverPublished,
            DoomedUnpublished, PublishableExists, Goto, dbVars, diskVars, jobVars, sweepVars
<1>1. ASSUME NEW w \in Workers, CleanReadArtifacts(w) PROVE StoreInv'
  BY <1>1 DEF CleanReadArtifacts, ArtifactRefs
<1>2. ASSUME NEW w \in Workers, CleanReadCheckpoints(w) PROVE StoreInv'
  BY <1>2 DEF CleanReadCheckpoints
<1>3. ASSUME NEW w \in Workers, CleanSweepEnds(w) PROVE StoreInv' BY <1>3 DEF CleanSweepEnds
<1>4. ASSUME NEW w \in Workers, CleanImages(w) PROVE StoreInv'
  BY <1>4 DEF CleanImages, AfterCleanup
<1>5. ASSUME NEW w \in Workers, CleanupFails(w) PROVE StoreInv'
  BY <1>5 DEF CleanupFails, AfterCleanup
<1>6. ASSUME NEW w \in Workers, RenewalFails(w) PROVE StoreInv' BY <1>6 DEF RenewalFails
<1>7. ASSUME NEW w \in Workers, Reject(w) PROVE StoreInv' BY <1>7 DEF Reject
<1>8. ASSUME NEW w \in Workers, Crash(w) PROVE StoreInv' BY <1>8 DEF Crash
<1>9. ASSUME NEW j \in Jobs, Answer(j) \/ Cancel(j) PROVE StoreInv'
  BY <1>9 DEF Answer, Cancel
<1>10. ASSUME NEW d \in Digests, Invoke(d) PROVE StoreInv' BY <1>10 DEF Invoke
<1>11. CASE UNCHANGED vars BY <1>11 DEF vars
<1> QED BY <1>1, <1>2, <1>3, <1>4, <1>5, <1>6, <1>7, <1>8, <1>9, <1>10, <1>11

\* With one worker process, whatever crashes, restarts, cancellations, answers and
\* unheard commits there are, every published artifact stays in the store.
THEOREM PublishedStayStored == OneWorker => (Spec => []PublishedArtifactsExist)
<1> SUFFICES ASSUME OneWorker PROVE Spec => []PublishedArtifactsExist
  OBVIOUS
<1>1. TypeInv /\ [Next]_vars => TypeInv'
  BY TypeStart, TypeJob, TypeRest DEF Next, WorkerStep
<1>2. TypeInv /\ StoreInv /\ [Next]_vars => StoreInv'
  <2> SUFFICES ASSUME TypeInv, StoreInv, [Next]_vars PROVE StoreInv'
    OBVIOUS
  <2>1. ASSUME NEW w \in Workers, WorkerStep(w) PROVE StoreInv'
    BY <2>1, StoreBoot, StoreRemove, StoreJob, StorePublish, StoreRest DEF WorkerStep
  <2>2. CASE \/ \E j \in Jobs : Answer(j) \/ Cancel(j)
             \/ \E d \in Digests : Invoke(d)
             \/ UNCHANGED vars
    BY <2>2, StoreRest
  <2> QED BY <2>1, <2>2 DEF Next
<1>3. StoreInv => PublishedArtifactsExist
  BY DEF StoreInv
<1> QED BY TypeInit, StoreInit, <1>1, <1>2, <1>3, PTL DEF Spec

-----------------------------------------------------------------------------
(* What the clean-ups of one worker process remove.                        *)

\* What a start has read of the references is named, and covers the checkpoints
\* of running and waiting jobs once both queries are done.
RefsNamed ==
  \A w \in Workers :
    /\ pc[w] \in {"boot_checkpoints", "boot_list", "boot_sweep", "boot_images"} =>
         refs[w] \subseteq Named
    /\ pc[w] = "boot_list" => \A j \in Jobs : Referenced(j) => checkpoint[j] \subseteq refs[w]

\* What a start leaves is referenced.
StartCollects ==
  \A w \in Workers :
    /\ pc[w] \in AtBoot \ {"boot"} => temporary = {}
    /\ pc[w] = "boot_sweep" => store \subseteq refs[w] \cup doomed[w]
    /\ pc[w] = "boot_images" => store \subseteq refs[w]

\* No sweep is about to remove what the checkpoint of another job names.
DoomedUnnamed ==
  \A w \in Workers : pc[w] \in {"boot_sweep", "clean_sweep"} =>
    \A j \in Jobs : Referenced(j) /\ job[w] # j => checkpoint[j] \cap doomed[w] = {}

SweepInv == RefsNamed /\ StartCollects /\ DoomedUnnamed

LEMMA SweepInit == Init => SweepInv
  BY DEF Init, SweepInv, RefsNamed, StartCollects, DoomedUnnamed, AtBoot

\* A start reads the registry while nobody publishes or saves: what it has read stays
\* named, and each of its points hands the next one what that needs.
LEMMA SweepBoot ==
  ASSUME TypeInv, SweepInv, OneWorker, NEW w \in Workers,
         \/ Start(w) \/ CleanupTemporary(w) \/ BootReadArtifacts(w)
         \/ BootReadCheckpoints(w) \/ BootReadFails(w) \/ BootList(w) \/ BootSweepEnds(w)
         \/ BootImages(w)
  PROVE  SweepInv'
<1>1. status' = status /\ checkpoint' = checkpoint /\ artifacts' = artifacts /\ job' = job
      /\ store' = store
  BY DEF Start, CleanupTemporary, BootReadArtifacts, BootReadCheckpoints, BootReadFails,
         BootList, BootSweepEnds, BootImages, dbVars, diskVars, jobVars
<1>2. Named' = Named /\ (\A j : Referenced(j)' <=> Referenced(j))
  BY <1>1 DEF Named, Referenced
<1> HIDE DEF Named, Referenced
<1> USE <1>1, <1>2 DEF TypeInv, TypeOK, SweepInv, RefsNamed, StartCollects, DoomedUnnamed,
            OneWorker, AtBoot, Goto, dbVars, diskVars, jobVars, sweepVars
<1>3. CASE Start(w) BY <1>3 DEF Start
<1>4. CASE CleanupTemporary(w) BY <1>4 DEF CleanupTemporary
<1>5. CASE BootReadArtifacts(w)
  <2>1. artifacts \subseteq Named
    BY DEF Named
  <2> QED BY <1>5, <2>1 DEF BootReadArtifacts, ArtifactRefs
<1>6. CASE BootReadCheckpoints(w)
  <2>1. CheckpointRefs(Jobs) \subseteq Named
    BY DEF Named, CheckpointRefs
  <2>2. \A j \in Jobs : Referenced(j) => checkpoint[j] \subseteq CheckpointRefs(Jobs)
    BY DEF CheckpointRefs
  <2> QED BY <1>6, <2>1, <2>2 DEF BootReadCheckpoints
<1>7. CASE BootReadFails(w) BY <1>7 DEF BootReadFails
<1>8. CASE BootList(w) BY <1>8 DEF BootList, BootDoomed
<1>9. CASE BootSweepEnds(w) BY <1>9 DEF BootSweepEnds
<1>10. CASE BootImages(w) BY <1>10 DEF BootImages
<1> QED BY <1>3, <1>4, <1>5, <1>6, <1>7, <1>8, <1>9, <1>10

\* A removal takes the same directory from the store and from the list.
LEMMA SweepRemove ==
  ASSUME TypeInv, SweepInv, OneWorker, NEW w \in Workers, Remove(w)
  PROVE  SweepInv'
<1>1. PICK d \in doomed[w] : store' = store \ {d} /\ doomed' = [doomed EXCEPT ![w] = @ \ {d}]
  BY DEF Remove
<1>2. /\ UNCHANGED <<status, checkpoint, artifacts, job, pc, refs, temporary>>
      /\ Named' = Named /\ \A j : Referenced(j)' <=> Referenced(j)
  BY DEF Remove, dbVars, jobVars, Named, Referenced
<1>3. RefsNamed'
  BY <1>2 DEF SweepInv, RefsNamed
<1>4. StartCollects'
  BY <1>1, <1>2 DEF SweepInv, StartCollects, OneWorker, TypeInv, TypeOK
<1>5. DoomedUnnamed'
  BY <1>1, <1>2 DEF SweepInv, DoomedUnnamed, OneWorker, TypeInv, TypeOK
<1> QED BY <1>3, <1>4, <1>5 DEF SweepInv

\* A worker at a job is in no clean-up, and nobody else is there to be.
LEMMA SweepJob ==
  ASSUME TypeInv, SweepInv, OneWorker, NEW w \in Workers,
         \/ \E j \in Jobs : Claim(w, j)
         \/ \E d \in Digests : Put(w, d)
         \/ Rename(w) \/ Build(w) \/ Validate(w) \/ SaveCheckpoint(w) \/ Suspend(w)
         \/ AgentFails(w) \/ Publish(w)
  PROVE  SweepInv'
<1> DEFINE Away == {"agent", "reject", "build", "put", "clean_artifacts", "validate",
                    "publish", "save", "idle"}
<1> USE DEF TypeInv, TypeOK, Goto
<1>1. pc'[w] \in Away
  <2>1. ASSUME NEW j \in Jobs, Claim(w, j) PROVE pc'[w] \in Away BY <2>1 DEF Claim
  <2>2. ASSUME NEW d \in Digests, Put(w, d) PROVE pc'[w] \in Away BY <2>2 DEF Put
  <2>3. CASE Rename(w) BY <2>3 DEF Rename
  <2>4. CASE Build(w) BY <2>4 DEF Build
  <2>5. CASE Validate(w) BY <2>5 DEF Validate
  <2>6. CASE SaveCheckpoint(w) BY <2>6 DEF SaveCheckpoint
  <2>7. CASE Suspend(w) BY <2>7 DEF Suspend
  <2>8. CASE AgentFails(w) BY <2>8 DEF AgentFails
  <2>9. CASE Publish(w) BY <2>9 DEF Publish
  <2> QED BY <2>1, <2>2, <2>3, <2>4, <2>5, <2>6, <2>7, <2>8, <2>9
<1>2. \A x \in Workers : pc'[x] \in Away
  BY <1>1 DEF OneWorker
<1> QED BY <1>2 DEF SweepInv, RefsNamed, StartCollects, DoomedUnnamed, AtBoot

LEMMA SweepRest ==
  ASSUME TypeInv, SweepInv, OneWorker,
         \/ \E w \in Workers :
              \/ CleanReadArtifacts(w) \/ CleanReadCheckpoints(w) \/ CleanSweepEnds(w)
              \/ CleanImages(w) \/ CleanupFails(w) \/ RenewalFails(w) \/ Reject(w)
              \/ Crash(w)
         \/ \E j \in Jobs : Answer(j) \/ Cancel(j)
         \/ \E d \in Digests : Invoke(d)
         \/ UNCHANGED vars
  PROVE  SweepInv'
<1> USE DEF TypeInv, TypeOK, Goto
<1>1. ASSUME NEW w \in Workers,
             \/ CleanReadArtifacts(w) \/ CleanSweepEnds(w) \/ CleanImages(w)
             \/ CleanupFails(w) \/ RenewalFails(w) \/ Reject(w) \/ Crash(w)
      PROVE  SweepInv'
  <2>1. pc'[w] \in {"clean_checkpoints", "clean_images", "reject", "idle", "down"}
    BY <1>1 DEF CleanReadArtifacts, CleanSweepEnds, CleanImages, CleanupFails, AfterCleanup,
                RenewalFails, Reject, Crash
  <2>2. \A x \in Workers :
          pc'[x] \in {"clean_checkpoints", "clean_images", "reject", "idle", "down"}
    BY <2>1 DEF OneWorker
  <2> QED BY <2>2 DEF SweepInv, RefsNamed, StartCollects, DoomedUnnamed, AtBoot
<1>2. ASSUME NEW w \in Workers, CleanReadCheckpoints(w) PROVE SweepInv'
  <2>1. \A x \in Workers : x = w /\ pc'[x] = "clean_sweep"
    BY <1>2 DEF CleanReadCheckpoints, OneWorker
  <2>2. doomed'[w] \cap CheckpointRefs(Jobs \ {job[w]}) = {}
    BY <1>2 DEF CleanReadCheckpoints
  <2>3. \A j \in Jobs : Referenced(j) /\ job[w] # j =>
          checkpoint[j] \subseteq CheckpointRefs(Jobs \ {job[w]})
    BY DEF CheckpointRefs
  <2>4. job' = job /\ checkpoint' = checkpoint /\ \A j : Referenced(j)' <=> Referenced(j)
    BY <1>2 DEF CleanReadCheckpoints, dbVars, jobVars, Referenced
  <2>5. DoomedUnnamed'
    BY <2>1, <2>2, <2>3, <2>4 DEF DoomedUnnamed
  <2> QED BY <2>1, <2>5 DEF SweepInv, RefsNamed, StartCollects, AtBoot
<1>3. ASSUME UNCHANGED <<checkpoint, artifacts, store, temporary, pc, job, refs, doomed>>,
             \A j \in Jobs : Referenced(j)' => Referenced(j)
      PROVE  SweepInv'
  <2>1. Named' = Named
    BY <1>3 DEF Named
  <2> QED BY <1>3, <2>1 DEF SweepInv, RefsNamed, StartCollects, DoomedUnnamed
<1>4. ASSUME NEW j \in Jobs, Answer(j) \/ Cancel(j) PROVE SweepInv'
  <2>1. \A i \in Jobs : Referenced(i)' => Referenced(i)
    BY <1>4 DEF Answer, Cancel, Referenced
  <2> QED BY <1>3, <1>4, <2>1 DEF Answer, Cancel, diskVars, jobVars, sweepVars
<1>5. ASSUME NEW d \in Digests, Invoke(d) PROVE SweepInv'
  <2>1. \A i \in Jobs : Referenced(i)' => Referenced(i)
    BY <1>5 DEF Invoke, dbVars, Referenced
  <2> QED BY <1>3, <1>5, <2>1 DEF Invoke, dbVars, jobVars, sweepVars
<1>6. CASE UNCHANGED vars
  <2>1. \A i \in Jobs : Referenced(i)' => Referenced(i)
    BY <1>6 DEF vars, dbVars, Referenced
  <2> QED BY <1>3, <1>6, <2>1 DEF vars, dbVars, diskVars, jobVars, sweepVars
<1> QED BY <1>1, <1>2, <1>4, <1>5, <1>6

LEMMA SweepStep ==
  ASSUME TypeInv, SweepInv, OneWorker, [Next]_vars
  PROVE  SweepInv'
<1>1. ASSUME NEW w \in Workers, WorkerStep(w) PROVE SweepInv'
  BY <1>1, SweepBoot, SweepRemove, SweepJob, SweepRest DEF WorkerStep
<1>2. CASE \/ \E j \in Jobs : Answer(j) \/ Cancel(j)
           \/ \E d \in Digests : Invoke(d)
           \/ UNCHANGED vars
  BY <1>2, SweepRest
<1> QED BY <1>1, <1>2 DEF Next

LEMMA SweepsKnow == OneWorker => (Spec => [](TypeInv /\ SweepInv))
<1> SUFFICES ASSUME OneWorker PROVE Spec => [](TypeInv /\ SweepInv)
  OBVIOUS
<1>1. TypeInv /\ [Next]_vars => TypeInv'
  BY TypeStart, TypeJob, TypeRest DEF Next, WorkerStep
<1>2. TypeInv /\ SweepInv /\ [Next]_vars => SweepInv'
  BY SweepStep
<1> QED BY TypeInit, SweepInit, <1>1, <1>2, PTL DEF Spec

\* The only step that takes a directory away is Remove.
LEMMA OnlyRemovalsShrink ==
  ASSUME [Next]_vars, \A w \in Workers : ~Remove(w)
  PROVE  store \subseteq store'
<1> USE DEF dbVars, diskVars
<1>1. ASSUME NEW w \in Workers, WorkerStep(w) PROVE store \subseteq store'
  <2>1. CASE \/ Start(w) \/ CleanupTemporary(w) \/ BootReadArtifacts(w)
             \/ BootReadCheckpoints(w) \/ BootReadFails(w) \/ BootList(w)
             \/ BootSweepEnds(w) \/ BootImages(w)
    BY <2>1 DEF Start, CleanupTemporary, BootReadArtifacts, BootReadCheckpoints,
                BootReadFails, BootList, BootSweepEnds, BootImages
  <2>2. CASE \/ \E j \in Jobs : Claim(w, j)
             \/ \E d \in Digests : Put(w, d)
             \/ Rename(w) \/ Build(w) \/ Validate(w) \/ SaveCheckpoint(w) \/ Suspend(w)
             \/ AgentFails(w) \/ Publish(w)
    BY <2>2 DEF Claim, Put, Rename, Build, Validate, SaveCheckpoint, Suspend, AgentFails,
                Publish
  <2>3. CASE \/ CleanReadArtifacts(w) \/ CleanReadCheckpoints(w) \/ CleanSweepEnds(w)
             \/ CleanImages(w) \/ CleanupFails(w) \/ RenewalFails(w) \/ Reject(w)
             \/ Crash(w)
    BY <2>3 DEF CleanReadArtifacts, CleanReadCheckpoints, CleanSweepEnds, CleanImages,
                CleanupFails, RenewalFails, Reject, Crash
  <2> QED BY <1>1, <2>1, <2>2, <2>3 DEF WorkerStep
<1>2. CASE \/ \E j \in Jobs : Answer(j) \/ Cancel(j)
           \/ \E d \in Digests : Invoke(d)
           \/ UNCHANGED vars
  BY <1>2 DEF Answer, Cancel, Invoke, vars
<1> QED BY <1>1, <1>2 DEF Next

\* With one worker process, a clean-up at a start that comes to its end, with every
\* removal successful, leaves no interrupted write, directory or image that nothing
\* names (cleanup_stale_state).
THEOREM StartsCollectOrphans == OneWorker => (Spec => BootCollectsOrphans)
<1> SUFFICES ASSUME OneWorker PROVE Spec => BootCollectsOrphans
  OBVIOUS
<1> DEFINE Collects == \A w \in Workers :
             pc[w] = "boot_images" /\ BootImages(w) =>
               /\ temporary' = {}
               /\ store' \subseteq Named
               /\ images' \subseteq SourcesOf(Named)
<1>1. TypeInv /\ SweepInv => Collects
  <2> SUFFICES ASSUME SweepInv, NEW w \in Workers, pc[w] = "boot_images", BootImages(w)
               PROVE  /\ temporary' = {}
                      /\ store' \subseteq Named
                      /\ images' \subseteq SourcesOf(Named)
    OBVIOUS
  <2>1. refs[w] \subseteq Named /\ store \subseteq refs[w] /\ temporary = {}
    BY DEF SweepInv, RefsNamed, StartCollects, AtBoot
  <2>2. store' = store /\ temporary' = temporary /\ images' \subseteq SourcesOf(refs[w])
    BY DEF BootImages
  <2>3. SourcesOf(refs[w]) \subseteq SourcesOf(Named)
    BY <2>1 DEF SourcesOf
  <2> QED BY <2>1, <2>2, <2>3
<1>2. TypeInv /\ SweepInv => [Collects]_vars
  BY <1>1
<1>3. Spec => [](TypeInv /\ SweepInv)
  BY SweepsKnow
<1> QED BY <1>2, <1>3, PTL DEF BootCollectsOrphans

\* With one worker process, no clean-up removes a candidate that the checkpoint of
\* another running or waiting job names.
THEOREM CandidatesKept == OneWorker => (Spec => CheckpointsKeepCandidates)
<1> SUFFICES ASSUME OneWorker PROVE Spec => CheckpointsKeepCandidates
  OBVIOUS
<1> DEFINE Keeps == \A j \in Jobs :
             status[j] \in {"running", "awaiting_input"} /\ (\A w \in Workers : job[w] # j) =>
               checkpoint[j] \cap store \subseteq store'
<1>1. TypeInv /\ SweepInv /\ [Next]_vars => [Keeps]_vars
  <2> SUFFICES ASSUME SweepInv, [Next]_vars, NEW j \in Jobs, Referenced(j),
                      \A w \in Workers : job[w] # j
               PROVE  checkpoint[j] \cap store \subseteq store'
    BY DEF Referenced
  <2>1. ASSUME NEW w \in Workers, Remove(w) PROVE checkpoint[j] \cap store \subseteq store'
    <3>1. PICK d \in doomed[w] : store' = store \ {d}
      BY <2>1 DEF Remove
    <3>2. checkpoint[j] \cap doomed[w] = {}
      BY <2>1 DEF Remove, SweepInv, DoomedUnnamed
    <3> QED BY <3>1, <3>2
  <2>2. CASE \A w \in Workers : ~Remove(w)
    BY <2>2, OnlyRemovalsShrink
  <2> QED BY <2>1, <2>2
<1>2. Spec => [](TypeInv /\ SweepInv)
  BY SweepsKnow
<1>3. Spec => [][Next]_vars
  BY DEF Spec
<1> QED BY <1>1, <1>2, <1>3, PTL DEF CheckpointsKeepCandidates
=============================================================================
