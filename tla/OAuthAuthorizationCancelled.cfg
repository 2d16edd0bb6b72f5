\* One URL, and no crash: the person cancels while the Keychain is written.
SPECIFICATION FairSpec
CONSTANTS
  None = None
  Other = Other
  MaxAttempts = 1
  MaxCrashes = 0
INVARIANTS
  UncertainWritesAreReported
