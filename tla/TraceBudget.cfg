SPECIFICATION Spec
CONSTANTS
  Limit = 40
  Reserve = 6
  PayloadLimit = 10
  BoundedSize = 7
  OmittedSize = 4
  Sizes = {2, 5, 9, 12}
INVARIANTS
  WithinBudget
  LastEventRecorded
CHECK_DEADLOCK FALSE
