SPECIFICATION Spec
CONSTANTS
  ETH_RX_DESC_CNT = 3
  MaxFrame = 6
  Pbufs = {b1, b2, b3}
  NoPbuf = NoPbuf
  MaxSem = 2
  TCPIP_MBOX_SIZE = 2
  MEMP_NUM_TCPIP_MSG_INPKT = 2
  MaxHeld = 3
  NETIF_IN_TASK_PRIORITY = 4
  TCPIP_THREAD_PRIO = 6
  CanWedge = TRUE
SYMMETRY PoolSymmetry
INVARIANTS
  PoolConserved
  NoLostWakeup
  IntactWithinRing
CHECK_DEADLOCK FALSE
