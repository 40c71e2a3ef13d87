SPECIFICATION FairSpec
CONSTANTS
    Lines <- AllLines
    WallClock = 2
    Grace = 1
    TurnCeiling = 1
    MaxLines = 3
INVARIANTS
    TypeOK
    TheLastWordIsTheVerdict
    OnlyOverrunsAreStopped
    StarvedRunsSaySo
PROPERTY EveryRunEnds
