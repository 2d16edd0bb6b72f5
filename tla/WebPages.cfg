\* Two items of the Inbox, of which the page does not know at first whether
\* replies may be approved, two tabs of the Connectors page, and two URLs of the
\* authorization, of which the first may be answered late, with a crash.
SPECIFICATION FairRouteSpec
CONSTANTS
  None = None
  Part = {"inbox", "settings", "authorization"}
  Other = Other
  MaxAttempts = 2
  MaxCrashes = 1
  Item = {a, b}
  Slow = {"approval"}
  MaxRevision = 2
  MaxRestores = 2
  MaxLoads = 1
  Page = {p1, p2}
  MaxSaves = 3
  MaxSettingsLoads = 2
  MaxRestarts = 1
  Call = {}
  MaxTime = 0
  MaxRows = 0
  MaxSequence = 1
  MaxStops = 0
  AppendFailures = {}
CHECK_DEADLOCK FALSE
INVARIANTS
  SavedIsStored
  CodesAreTheirOwn
  StatusIsTrue
PROPERTIES
  PostedIsShown
  PagesSettle
  InitialKeepsCredentials
  AttemptsEnd
