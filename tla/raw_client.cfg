SPECIFICATION FairSpec
CONSTANTS
    Pcb = {p1, p2}
    NoPcb = NoPcb
    Ctx = {c1, c2}
    NoCtx = NoCtx
INVARIANTS
    FreedOnce
    NoPcbLost
    StatusTrue
    ContextLive
PROPERTIES
    DownIsRetried
CHECK_DEADLOCK FALSE
