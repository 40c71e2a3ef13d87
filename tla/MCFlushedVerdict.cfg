SPECIFICATION Spec
CONSTANTS
    Lines <- TurnLines
    WallClock = 2
    Grace = 1
    TurnCeiling = 1
    MaxLines = 3
INVARIANTS
    StoppedRunsHaveFailed
