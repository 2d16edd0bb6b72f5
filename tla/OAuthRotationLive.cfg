\* Two concurrent operations, a clock that does not go back, appends that
\* succeed and one restart.
SPECIFICATION FairSpec
CONSTANTS
  None = None
  Op = {o1, o2}
  MaxTime = 1
  MaxTokens = 3
  MaxCrashes = 1
  ClockGoesBack = FALSE
  AppendFailures = {}
CHECK_DEADLOCK FALSE
PROPERTIES
  QueueIsReleased
  StoredCredentialRecovers
