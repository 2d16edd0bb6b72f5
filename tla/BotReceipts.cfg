SPECIFICATION Spec
CONSTANTS
  Message = {"m1", "m2"}
  Body = {"b1", "b2"}
  Request <- MCRequest
  Call = {c1, c2}
  Capacity = 3
  Joined = Joined
  None = None
INVARIANTS
  ReceiptsNameStoredEvents
PROPERTIES
  AcknowledgedIsFinal
  CallbacksAreAnswered
