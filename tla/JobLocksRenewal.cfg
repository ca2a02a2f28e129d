SPECIFICATION FairSpec
CONSTANTS
  Workers = {w1, w2}
  Cancels = {c1}
  Answers = {a1}
  Revokes = {r1}
  Failing = {}
PROPERTIES
  JobComesToRest
CHECK_DEADLOCK FALSE
