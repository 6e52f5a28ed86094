SPECIFICATION Spec
CONSTANTS
    Writer = {w1, w2}
    Key = {k1, k2}
    NoKey = NoKey
    Lengths = {0, 65519, 65520, 65535, 65536}
    Period = 65536
    Tag = 16
    MaxPackets = 2
INVARIANTS
    TypeOK
    Intact
    SealedOrNothing
PROPERTIES
    AllRead
CHECK_DEADLOCK FALSE
