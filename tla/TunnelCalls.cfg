SPECIFICATION CleanSpec
CONSTANTS
    Threads = 1
    Worker = {w1}
    Pinger = p
    MaxSessions = 3
    MaxPackets = 1
    MaxEarly = 0
PROPERTIES
    CallersReleased
    DeadRoutesForgotten
CHECK_DEADLOCK FALSE
