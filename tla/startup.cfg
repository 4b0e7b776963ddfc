SPECIFICATION FairSpec
CONSTANTS
    Load = 4
    TicksPerMs = 1
    MaxGap = 7
    ResetMs = 3
    NegMs = 21
    ReadTo = 3
    Speed = {"100F", "10H"}
INVARIANTS
    DelayNeverShort
    UpAsNegotiated
PROPERTIES
    StartupEnds
