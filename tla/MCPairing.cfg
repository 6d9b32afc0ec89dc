SPECIFICATION Spec
CONSTANTS
    Nodes = {n1, n2}
    Foreign = {n2}
    Generations = {g1, g2}
    None = None
    Slots = 2
    MaxCandidates = 1
    ConfirmAttempts = 2
    MaxDoneReplies = 2
    MaxAttempts = 2
    MaxSamples = 1
SYMMETRY MCSymmetry
INVARIANTS
    BindingKnown
    UsedNotCutOff
    OnlyConfirmedStored
    OfferUnrivalled
    DoneBounded
