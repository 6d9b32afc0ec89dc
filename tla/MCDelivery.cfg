SPECIFICATION Spec
CONSTANTS
    Samples = {s1, s2}
    Powers = {p1, p2}
    MaxCounter = 2
    MaxAttempts = 2
    MaxWait = 1
    CheckTimeout = 1
    SendTimeout = 2
    AckTimeout = 2
    CycleTimeout = 4
    PerWindow = 1
    NoFrame = NoFrame
INVARIANTS
    TypeOK
    AcceptedOnce
    SealedOnce
PROPERTIES
    AcknowledgedMeansAccepted
    FrameOutlivesDriver
    CycleEnds
