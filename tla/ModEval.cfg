SPECIFICATION Spec
CONSTANTS
    p1 = p1
    r1 = r1
    r2 = r2
    a = a
    b = b
    v = v
    w = w
    NoChild = NoChild
    Child <- OneChild
    Request <- Requests
    MainOrder <- MainComponents
    VirtualOrder <- VirtualComponents
    Kinds <- AllKinds
    MaxConfigs = 3
SYMMETRY Symmetry
INVARIANTS
    RequestsReach
    RelaysReach
PROPERTY
    StopsUpToNoStop
