SPECIFICATION FairSpec
CONSTANTS
  first = first
  second = second
  third = third
  Requests = {first, second, third}
  Asks <- MCAsks
  key = key
  key2 = key2
  tool = tool
  body = body
  body2 = body2
  Tools = {tool}
  Bodies = {body, body2}
  Keys = {key, key2}
  MaxLogins = 2
  MaxSessions = 1
  Term = 1
  MaxTime = 1
  None = None
INVARIANTS
  TypeOK
  KeysNameOneRevision
  RowsTellTheAnswer
  NothingOutlivesItsAnswer
  RevokedIsNotRun
PROPERTIES
  SessionsHoldTheirTerm
  RequestsEnd
CHECK_DEADLOCK FALSE
