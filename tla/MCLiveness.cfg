SPECIFICATION FairSpec
CONSTANTS
    Items = {1}
    Questions = {11}
    Workers = {w1}
    MaxAttempts = 2
    LeaseTicks = 1
    DeadlineTicks = 1
    SameTree = TRUE
    Proposals <- PlainProposals
    ReturnTargets = {"doing", "failed", "snoozed"}
    BlockPolicies = {"return", "abandon"}
    BlockRefs = {}
    Misreports = {}
    Priorities = {}
    ClaimCap = 3
    MaxCrashes = 1
PROPERTIES
    NothingStaysInFlight
    BoundedBlocksEnd
    FailuresAreRetried
    TheFactoryKeepsClassifying
