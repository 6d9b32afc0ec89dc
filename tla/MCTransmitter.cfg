SPECIFICATION Spec
CONSTANTS
    Role = "Transmitter"
    Nodes = {n1}
    Generations = {g1, g2, g3, g4}
    Networks = {w1, w2}
    None = None
    BindingCapacity = 2
    QueueCapacity = 2
    RetiredCapacity = 4
    MaxCounter = 3
    MaxSequence = 0
    ForgottenReplayed = FALSE
SYMMETRY MCSymmetry
PROPERTIES
    CounterFresh
