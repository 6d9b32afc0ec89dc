SPECIFICATION Spec
CONSTANTS
    a = a  b = b
    Enrollments = {1, 2}
    NodeOf <- MCNodeOf
    BindingCapacity = 1
    RefusalBackoffPasses = 1
INVARIANTS
    Reported
    SlotForFrame
PROPERTIES
    NodeReported
CHECK_DEADLOCK FALSE
