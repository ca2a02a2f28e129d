SPECIFICATION Spec
CONSTANTS
  j1 = j1
  j2 = j2
  dShared = dShared
  dOwn = dOwn
  s1 = s1
  Jobs = {j1, j2}
  Workers = {w1}
  Digests = {dShared, dOwn}
  Sources = {s1}
  SourceOf <- OneSource
  Candidates <- SameTool
  NoJob = NoJob
  NoDigest = NoDigest
INVARIANTS
  TypeOK
  PublishedArtifactsExist
PROPERTIES
  BootCollectsOrphans
  CheckpointsKeepCandidates
