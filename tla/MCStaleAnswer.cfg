SPECIFICATION Spec
CONSTANTS
    Items = {1}
    Questions = {11, 12}
    Workers = {w1}
    MaxAttempts = 2
    LeaseTicks = 1
    DeadlineTicks = 1
    SameTree = FALSE
    Proposals <- FailingProposals
    ReturnTargets = {}
    BlockPolicies = {}
    BlockRefs = {}
    Misreports = {}
    Priorities = {}
    ClaimCap = 3
    MaxCrashes = 0
PROPERTY UnblockedOnlyWhenResolved
