SPECIFICATION FairSpec
CONSTANTS
    Conn = {n1, n2, n3}
    NoConn = NoConn
    MboxSize = 2
    NumNetbuf = 2
INVARIANTS
    ConnsAccounted
    NothingUnasked
    FaultNeedsFlood
PROPERTIES
    OverIsReleased
    KeyNoticed
