SPECIFICATION FairSpec
CONSTANTS
    p1 = p1
    p2 = p2
    c1 = c1
    c2 = c2
    a = a
    b = b
    Thread <- TwoByTwo
    Producer <- Producers
    Consumer <- Consumers
    Cancellable <- Nobody
    Value <- OneValue
    NoValue = NoValue
    NoThread = NoThread
    Max = 1
PROPERTIES
    EnqueueProgress
    DequeueProgress
