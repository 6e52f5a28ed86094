SPECIFICATION Spec
CONSTANTS
    Caller = {c1}
    Writer = {w1, w2}
    Session = {q1, q2, q3, q4}
    NoSession = NoSession
PROPERTIES
    OwnFailureOnly
CHECK_DEADLOCK FALSE
