SPECIFICATION FairSpec
CONSTANTS
    Caller = {c1}
    Writer = {w1, w2}
    Session = {q1, q2, q3, q4, q5}
    NoSession = NoSession
INVARIANTS
    TypeOK
    NoSessionLeak
    CloseMeansStopped
PROPERTIES
    IsLine
    CallersServed
    Reconnects
CHECK_DEADLOCK FALSE
