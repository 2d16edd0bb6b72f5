\* One process whose preparation may be temporarily unavailable.
SPECIFICATION Spec
CONSTANTS
  Host = {h1}
  ProposalId = {p1}
  ApprovalId = {a1}
  None = None
  MaxApprovalTtl = 2
  ReplyApprovalTtl = 2
  MaxTime = 3
  MaxDispatches = 2
  IdentityType = "user"
INVARIANTS
  NoResendAfterStop
CHECK_DEADLOCK FALSE
