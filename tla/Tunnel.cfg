SPECIFICATION FairSpec
CONSTANTS
    Threads = 2
    Worker = {}
    Pinger = p
    MaxSessions = 3
    MaxPackets = 0
    MaxEarly = 1
INVARIANTS
    TypeOK
PROPERTIES
    AreLines
    ReachableAgain
    AllAccepted
CHECK_DEADLOCK FALSE
