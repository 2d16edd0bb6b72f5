SPECIFICATION Spec
CONSTANTS
  Persona = {p1, p2}
  Text = {t1, t2}
  None = None
  MaxApprovalTtl = 1
  ReplyApprovalTtl = 1
  MaxTime = 1
  MaxDispatches = 1
  MaxRevision = 2
  MaxMessages = 2
  MaxActions = 2
  Interruptible = {"model_run"}
  Answers = {"approved", "rejected"}
  Outcomes = {"succeeded", "retry_same_key"}
SYMMETRY Symmetry
CONSTRAINT RunIsNeeded
CHECK_DEADLOCK FALSE
INVARIANTS
  OneDraftToWorkOn
  DraftIsTheRunsAnswer
  AuditsAreTrue
  DeletedIsGone
  FlowIsRestored
PROPERTIES
  NeverRunAgain
  StaleIsInert
