SPECIFICATION FairSpec
CONSTANTS
    c1 = c1
    c2 = c2
    k1 = k1
    k2 = k2
    Conn <- Two
    Key <- OneKey
    MaxVal = 3
    Retries = 2
    Ops <- AllOps
    NullScripts = FALSE
    Drops = TRUE
INVARIANT
    TransactionsEnd
PROPERTIES
    PatchIsAtomic
    Returns
