\* Two requests and two identities, with failing reads and another process.
SPECIFICATION FairSpec
CONSTANTS
  None = None
  Op = {o1, o2}
  Identity = {i1, i2}
  MaxRefreshes = 2
  StoreMayFail = TRUE
  OtherProcess = TRUE
INVARIANTS
  PollingIsOwned
  PortHasOneUse
  SettingsTakeEffect
PROPERTIES
  ShutdownCompletes
  RequestsAreAnswered
