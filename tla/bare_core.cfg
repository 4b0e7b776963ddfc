SPECIFICATION FairSpec
CONSTANTS
  ETH_RX_DESC_CNT = 3
  MaxFrame = 7
  PoolSize = 2
  IP_REASS_MAX_PBUFS = 2
INVARIANTS
  RingInOrder
  InOrderThroughIsr
PROPERTY
  PendingServed
CHECK_DEADLOCK FALSE
