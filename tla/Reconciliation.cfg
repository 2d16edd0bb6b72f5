\* Two tabs of the Connectors page, of which one may find the operation of the
\* other one pending, two rotations, a clock that may be set back, and appends that
\* may fail.  No other part is used.
SPECIFICATION RouteSpec
CONSTANTS
  None = None
  Other = Other
  Part = {"recovery"}
  Call = {c1, c2}
  MaxTime = 2
  MaxRows = 1
  MaxSequence = 2
  MaxStops = 1
  AppendFailures = {"lost", "torn", "whole"}
  MaxAttempts = 0
  MaxCrashes = 0
  Item = {}
  Slow = {}
  MaxRevision = 1
  MaxRestores = 0
  MaxLoads = 0
  Page = {}
  MaxSaves = 0
  MaxSettingsLoads = 0
  MaxRestarts = 0
SYMMETRY Symmetry
CHECK_DEADLOCK FALSE
INVARIANTS
  ResultsAreTrue
