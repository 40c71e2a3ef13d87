SPECIFICATION FairSpec
CONSTANTS
    Threads = {1, 2, 3}
    Comments = {11, 12}
    Items = {1, 2}
    Commands = {"cancel"}
    Authors = {"allowed"}
    Trees = {TRUE}
    MaxOpened = 1
    MaxDamage = 0
    MaxPlanned = 0
    MaxClock = 2
    MaxFaults = 0
PROPERTY CommandsAreConsumed
