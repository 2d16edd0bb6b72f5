SPECIFICATION Spec
CONSTANTS
  None = None
  ProposalId = {p1, p2}
  ApprovalId = {a1, a2}
  MaxApprovalTtl = 1
  MaxTime = 1
  MaxDispatches = 3
SYMMETRY ActionSymmetry
INVARIANTS
  StateAgreesWithReceipt
  ExecutionAuthorised
PROPERTIES
  KeepsLifecycle
