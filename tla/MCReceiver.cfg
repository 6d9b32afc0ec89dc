SPECIFICATION Spec
CONSTANTS
    Role = "Receiver"
    Nodes = {n1, n2}
    Generations = {g1, g2, g3}
    Networks = {w1}
    None = None
    BindingCapacity = 2
    QueueCapacity = 2
    RetiredCapacity = 2
    MaxCounter = 2
    MaxSequence = 4
    ForgottenReplayed = FALSE
SYMMETRY MCSymmetry
INVARIANTS
    Mountable
    Coherent
    Remembered
PROPERTIES
    CounterFresh
    JournalImplemented
