SPECIFICATION Spec
CONSTANTS
    v1 = v1
    v2 = v2
    a1 = a1
    a2 = a2
    a3 = a3
    c1 = c1
    c2 = c2
    c3 = c3
    Vip = {v1}
    Addr = {a1, a2}
    Conn = {c1, c2}
    Worker = {w1}
    Cleaner = {k}
    NoConn = NoConn
    NoAddr = NoAddr
    NoVip = NoVip
    AddrVip <- SoloAddrVip
    ConnVip <- SoloConnVip
    PingAddr <- SoloPingAddr
PROPERTIES
    NoConnsFault
