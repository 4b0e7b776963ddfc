SPECIFICATION ServerFairSpec
CONSTANTS
    Pcb = {p1, p2}
    NoPcb = NoPcb
    Ctx = {c1, c2}
    NoCtx = NoCtx
INVARIANTS
    ServerFreedOnce
    LoneClientIsServerPcb
    ContextOwned
    MessageSafe
PROPERTIES
    ClosedIsReleased
CHECK_DEADLOCK FALSE
