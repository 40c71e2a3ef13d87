SPECIFICATION FairSpec
CONSTANTS
    Threads = {1, 2, 3, 4}
    Comments = {11}
    Items = {1, 2, 3}
    Commands = {"cancel", "set_priority"}
    Authors = {"allowed"}
    Trees = {TRUE, FALSE}
    MaxOpened = 1
    MaxDamage = 1
    MaxPlanned = 0
    MaxClock = 2
    MaxFaults = 1
INVARIANTS
    AppliedOnce
    OneThreadPerItem
PROPERTIES
    ConsumedIsFinal
    TheBoardCatchesUp
