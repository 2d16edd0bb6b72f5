\* Two processes; preparation may fail in every way.
SPECIFICATION FairSpec
CONSTANTS
  Host = {h1, h2}
  ProposalId = {p1}
  ApprovalId = {a1}
  None = None
  MaxApprovalTtl = 2
  ReplyApprovalTtl = 2
  MaxTime = 2
  MaxDispatches = 2
  IdentityType = "user"
INVARIANTS
  EarlierDispatchesDidNothing
  VerdictIsTrue
  ApprovalAuditedFirst
PROPERTIES
  AuditBeforeReplacement
  LeaseIsReleased
CHECK_DEADLOCK FALSE
