SPECIFICATION FairSpec
CONSTANTS
    Shapes <- Chains
    RecordSize = 3
    ReadSize = 2
INVARIANT
    StreamsKept
PROPERTIES
    EndsTogether
    Relayed
