SPECIFICATION Spec
CONSTANTS
    p1 = p1
    p2 = p2
    k1 = k1
    k2 = k2
    NoFile = NoFile
    i1 = i1
    i2 = i2
    i3 = i3
    i4 = i4
    Proc <- Two
    Writer <- Two
    Ino <- Inodes4
    Reuse = FALSE
    Key <- Keys
    MaxVal = 1
    Crashes = TRUE
VIEW Live
SYMMETRY Symmetry4
INVARIANTS
    NeverPartial
    ReadsFresh
    LostOnlyToOverlap
