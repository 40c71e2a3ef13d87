SPECIFICATION Spec
CONSTANTS
    Vocabulary <- Events
    ReturnTargets = {"doing", "claimed", "done", "failed", "snoozed", "blocked", "nowhere"}
    Clones = {a, b}
    Base <- Started
    Ends = {"done", "reclaimed", "gate_rejected"}
    MaxEnds = 3
    MaxLength = 6
SYMMETRY CloneSymmetry
INVARIANTS
    ViewIsTheFold
    SameLinesSameState
PROPERTY ClosedStaysClosed
\* A file ends with MaxLength lines.
CHECK_DEADLOCK FALSE
