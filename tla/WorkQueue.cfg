SPECIFICATION Spec
CONSTANTS
    p1 = p1
    p2 = p2
    c1 = c1
    c2 = c2
    a = a
    b = b
    Thread <- TwoByTwo
    Producer <- Producers
    Consumer <- Consumers
    Cancellable <- Consumers
    Value <- Values
    NoValue = NoValue
    NoThread = NoThread
    Max = 2
INVARIANTS
    RingConsistent
    NoLostWakeup
PROPERTY
    ImplementsFifo
CHECK_DEADLOCK FALSE
