SPECIFICATION Spec
CONSTANTS
  uxLength = 2
  MaxGives = 5
  ETH_IRQ_PRIORITY = 5
  MAX_SYSCALL_PRIORITY = 5
INVARIANTS
  NoLostWakeup
PROPERTY
  ImplementsSemaphore
CHECK_DEADLOCK FALSE
