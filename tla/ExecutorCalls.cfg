CONSTANTS
    Count <- TestCount
    Plan = plan
    NoOutcome = NoOutcome
    ApprovalTTL <- TestApprovalTTL
    PermitTTL <- TestPermitTTL
    MaxWall <- TestMaxWall
    MaxFence = 2

SPECIFICATION Spec

INVARIANTS
    SubmittedOnceInOrder
    ReportIsTrue

PROPERTY AuthorityAtSubmit
