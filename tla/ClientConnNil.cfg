SPECIFICATION Spec
CONSTANTS
    Caller = {c1}
    Writer = {w1, w2}
    Session = {q1, q2, q3, q4}
    NoSession = NoSession
INVARIANTS
    NoCrash
CHECK_DEADLOCK FALSE
