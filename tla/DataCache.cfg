SPECIFICATION SpecReads
CONSTANTS
    r1 = r1
    r2 = r2
    k1 = k1
    Client <- Requests
    Key <- OneKey
    MaxVersion = 4
    MaxLag = 2
    Ops <- AllOps
    Evicts = TRUE
    Fails = TRUE
VIEW Live
SYMMETRY Symmetry
INVARIANT
    LevelsAgree
PROPERTY
    CalmReadsLatest
