SPECIFICATION Spec
CONSTANTS
  Workers = {w1, w2}
  Cancels = {c1}
  Answers = {a1}
  Revokes = {r1}
  Failing = {w1, w2}
INVARIANTS
  TypeOK
  RowsAgree
  KnownLockCycles
PROPERTIES
  OneOutcome
  CallsAreAtomic
CHECK_DEADLOCK FALSE
SYMMETRY Interchangeable
