SPECIFICATION ListenerSpec
CONSTANTS
    c1 = c1
    c2 = c2
    w1 = w1
    w2 = w2
    j1 = j1
    j2 = j2
    j3 = j3
    Client <- Clients
    Owner = c1
    WorkerThread <- WorkerThreads
    Job <- Jobs
    Rendezvous <- TwoJobs
    Endless <- EndlessJobs
    Listen = Listen
    Kinds <- AllKinds
    MaxMessage = 3
    Noise <- SecondIsNoise
    MaxPieces = 3
    Pill = Pill
    Nothing = Nothing
    WillCancel = TRUE
INVARIANTS
    RelaysKept
    RunsOnce
    ShutdownDrains
    PillsMatchThreads
PROPERTIES
    ShutdownTerminates
    WorkIsDone
    ListeningEnds
    MessagesAreRelayed
