SPECIFICATION Spec
CONSTANTS
    c1 = c1
    c2 = c2
    k1 = k1
    k2 = k2
    Conn <- Two
    Key <- Keys
    MaxVal = 3
    Retries = 1
    Ops <- PutPatch
    NullScripts = TRUE
    Drops = FALSE
INVARIANT
    UpdatesCommitted
