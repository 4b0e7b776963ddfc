SPECIFICATION BareFairSpec
CONSTANTS
  Callers = {"main", "isr"}
  ETH_TX_DESC_CNT = 3
  MaxFrame = 3
  MaxChain = 4
  CanTimeOut = FALSE
  CanFault = TRUE
INVARIANTS
  BareFramesWhole
  BareRingInStep
  BareBuffersLive
PROPERTIES
  ReturnsUnlessClash
CHECK_DEADLOCK FALSE
