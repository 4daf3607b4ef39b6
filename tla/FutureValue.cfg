\* Three threads: two set, two get, one does both.
SPECIFICATION FutureFairSpec
CONSTANTS
    Holder = {t1, t2, t3}
    Setter = {t1, t2}
    Getter = {t2, t3}
    Value = {a, b}
    NoValue = NoValue
    NoResult = NoResult
    NoThread = NoThread
PROPERTIES
    ImplementsWriteOnce
    GetReturns
