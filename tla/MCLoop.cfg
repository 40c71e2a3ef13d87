SPECIFICATION FairSpec
CONSTANTS
    HeartbeatSeconds = 5
    PollSeconds = 2
    BoardSeconds = 3
    MaxIterations = 2
    SameTree = TRUE
    MaxDeaths = 1
INVARIANT NeverWakesItself
PROPERTY EveryCommitIsMet
