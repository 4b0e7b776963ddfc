SPECIFICATION FairSpec
CONSTANTS
  Callers = {tcpip, app}
  NoOne = NoOne
  ETH_TX_DESC_CNT = 3
  MaxFrame = 4
  MaxChain = 4
  CanTimeOut = TRUE
  CanFault = TRUE
INVARIANTS
  FramesWhole
  
  BuffersLive
  OusemReturned
PROPERTY
  OutputReturns
CHECK_DEADLOCK FALSE
