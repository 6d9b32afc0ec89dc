\* Commands that are repeated, replaced, forgotten and too late.
CONSTANTS
    Nodes = {n1, n2}
    Ids = 3
    None = None
    Remembered = 2
    ResultDepth = 4
    MaxCommands = 3
SPECIFICATION Spec
INVARIANTS
    NoResultDropped
    ExecutedOnce
    OneOutcome
PROPERTIES
    AppliedTrue
    PendingEnds
