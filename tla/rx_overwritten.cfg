SPECIFICATION Spec
CONSTANTS
  ETH_RX_DESC_CNT = 2
  MaxFrame = 4
  Pbufs = {b1, b2, b3, b4}
  NoPbuf = NoPbuf
  MaxSem = 3
  TCPIP_MBOX_SIZE = 2
  MEMP_NUM_TCPIP_MSG_INPKT = 2
  MaxHeld = 2
  NETIF_IN_TASK_PRIORITY = 4
  TCPIP_THREAD_PRIO = 6
  CanWedge = FALSE
INVARIANT
  PayloadIntact
CHECK_DEADLOCK FALSE
