SPECIFICATION FairSpec
CONSTANTS
  ETH_RX_DESC_CNT = 4
  MaxFrame = 7
  Pbufs = {b1, b2, b3}
  NoPbuf = NoPbuf
  MaxSem = 2
  TCPIP_MBOX_SIZE = 2
  MEMP_NUM_TCPIP_MSG_INPKT = 2
  MaxHeld = 1
  NETIF_IN_TASK_PRIORITY = 4
  TCPIP_THREAD_PRIO = 6
  CanWedge = FALSE
INVARIANTS
  TypeOK
  RingInOrder
  NeverCutShort
PROPERTIES
  LosslessChannel
  EveryFrameDelivered
CHECK_DEADLOCK FALSE
