SPECIFICATION Spec
CONSTANTS
    Items = {1}
    Questions = {11}
    Workers = {w1, w2}
    MaxAttempts = 2
    LeaseTicks = 1
    DeadlineTicks = 1
    SameTree = TRUE
    Proposals <- AllProposals
    ReturnTargets = {"ready", "doing", "claimed", "done", "failed", "snoozed", "blocked", "nowhere"}
    BlockPolicies = {"return", "abandon", "none"}
    BlockRefs = {}
    Misreports = {0, 2}
    Priorities = {0}
    ClaimCap = 3
    MaxCrashes = 1
SYMMETRY WorkerSymmetry
INVARIANTS
    SingleFlight
    AgentActsOnCommittedClaim
    AgentKeepsItsItem
    AttemptsAreCapped
    FailedMeansRetryable
    LeaseCountsEveryClaim
    TurnsCommitWhatTheyWrite
    PlansOnlyAroundStuckItems
    NothingDueIsLeft
PROPERTIES
    DoneOnlyThroughTheGate
    TerminalIsFinal
    ImplementsLifecycle
