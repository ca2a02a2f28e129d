SPECIFICATION Spec
CONSTANTS
  w1 = w1
  w2 = w2
  Workers = {w1, w2}
  Tools = {slugify}
  CallIds = {ask1, ask2}
  UsedStages = {"contract", "building"}
  MaxRevision = 2
  MaxClaims = 3
  MaxAttempts = 2
  MayStall = FALSE
  NoWorker = NoWorker
  NoJob = NoJob
SYMMETRY WorkerSymmetry
INVARIANTS
  TypeOK
  InputMatchesStatus
  ResumableHasCheckpoint
  StableIffReady
  JobsAgreeWithVersions
  OneWorkerPerJob
  ExhaustedNeverPublished
PROPERTIES
  LivesAsPromised
CHECK_DEADLOCK FALSE
