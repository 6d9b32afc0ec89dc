SPECIFICATION Spec
CONSTANTS
    a = a  b = b
    Sources = {a, b}
    Configured = {a}
    None = None
    QueueCapacity = 1
    OutboxDepth = 1
    AckDepth = 1
    Mappings = 1
    StateIds = 1
    MaxSamples = 2
    MaxPublished = 2
    MaxMessages = 2
    MaxClients = 2
INVARIANTS
    MappingTrue
    OwnSource
PROPERTIES
    ForwardedAcknowledged
    WaitEnds
    ReplacementEnds
