SPECIFICATION Spec
CONSTANTS
    Runs = {1, 2, 3, 4}
    Window = 2
    Reach = 3
    Kinds = {"rate_limit", "auth"}
    MaxClock = 2
INVARIANTS
    SilenceMeansProgress
    WaitingIsWarranted
\* The stream ends with the last run.
CHECK_DEADLOCK FALSE
