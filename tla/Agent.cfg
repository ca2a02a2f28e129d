SPECIFICATION FairSpec
CONSTANTS
  MaxProviderRetries = 1
  MaxProtocolRetries = 1
  sample = sample
  example = example
  generated = generated
  Samples = {sample}
  Examples = {example}
  GenTests = {generated}
  Results = {0, 1}
  Broken = 0
  Original <- MCOriginal
  Sources <- MCSources
  Keys = {key}
  Lookups = {search_web}
  MaxTurns = 5
  MaxSourceRevisions = 2
  MaxTestCorrections = 1
  MaxProbes = 1
  MaxLookups = 1
  MaxAttempts = 2
  None = None
INVARIANTS
  TypeOK
  PublishedEarnedIt
  AnswersReachTheWorkspace
  NothingAskedTwice
  UncountedWorkIsBounded
  RequestsBounded
PROPERTIES
  OnlyTheFailingTestChanges
  JobComesToRest
  AgentLivesAsPromised
CHECK_DEADLOCK FALSE
