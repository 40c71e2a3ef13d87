SPECIFICATION FairSpec
CONSTANTS
    Threads = {1, 2, 3}
    Comments = {11}
    Items = {1, 2, 3}
    Commands = {"answer"}
    Authors = {"allowed", "stranger"}
    Trees = {TRUE, FALSE}
    MaxOpened = 1
    MaxDamage = 0
    MaxPlanned = 1
    MaxClock = 2
    MaxFaults = 1
INVARIANTS
    NeverSilent
    EffectsAreCommitted
PROPERTY IssuesBecomeItems
