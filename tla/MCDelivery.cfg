SPECIFICATION Spec
CONSTANTS
    Queues = {q1, q2}
    SameTree = FALSE
    PublishWorkspace = TRUE
    PublishQueue = TRUE
    Unreachable = {q1, q2}
    MaxTurns = 3
    MaxWork = 1
    MaxOthers = 1
    MaxCrashes = 1
SYMMETRY QueueSymmetry
INVARIANTS
    MarkedCommitsAreTheRunsOwn
    OwnPushesFastForward
    TheJoinResolves
    PublishedRecordsNamePublicCommits
    TheLedgerAccountsForEveryRun
\* No turn begins after MaxTurns.
CHECK_DEADLOCK FALSE
