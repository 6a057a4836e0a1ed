CONSTANTS
    Producers = {p1}
    Consumers = {c1}
    Size = 4
    Wrap = 8
    MaxPuts = 20
SPECIFICATION Spec
INVARIANTS TypeOK DeliveredInOrder
PROPERTY FifoSpec
CHECK_DEADLOCK FALSE
