SPECIFICATION Spec
CONSTANTS
  c1 = c1
  c2 = c2
  r1 = r1
  None = None
  Calls <- MCCalls
  Requests <- MCRequests
  RequestOf <- MCRequestOf
  MaxPolls = 4
CHECK_DEADLOCK FALSE
INVARIANTS
  TypeOK
  RefusalIsFinal
  AllowIsTaken
PROPERTIES
  NoSecondSubmission
  CallsReturn
