SPECIFICATION FairSpec
CONSTANTS
    Sender = {s1, s2}
    WriteCap = 2
    MaxMsgs = 5
INVARIANTS
    TypeOK
    ClosedMeansDown
PROPERTIES
    IsPipe
    EndTogether
    SendersReleased
    AllWritten
