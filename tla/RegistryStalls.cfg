SPECIFICATION FairSpec
CONSTANTS
  w1 = w1
  w2 = w2
  Workers = {w1, w2, w3}
  Tools = {slugify}
  CallIds = {ask1, ask2}
  UsedStages = {"contract", "building"}
  MaxRevision = 1
  MaxClaims = 3
  MaxAttempts = 2
  MayStall = TRUE
  NoWorker = NoWorker
  NoJob = NoJob
PROPERTIES
  TerminalJobsStay
  JobsSettle
CHECK_DEADLOCK FALSE
