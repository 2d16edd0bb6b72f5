\* Two concurrent operations, three instants, a clock that may be set back, two
\* restarts, and appends that fail in every way.
SPECIFICATION Spec
CONSTANTS
  None = None
  Op = {o1, o2}
  MaxTime = 2
  MaxTokens = 3
  MaxCrashes = 2
  ClockGoesBack = TRUE
  AppendFailures = {"lost", "torn", "whole"}
SYMMETRY OpSymmetry
CHECK_DEADLOCK FALSE
INVARIANTS
  TokenUsedOnce
  UnblockedIsFresh
PROPERTIES
  NewestIsKept
