SPECIFICATION Spec
CONSTANTS
  uxLength = 2
  MaxGives = 5
  ETH_IRQ_PRIORITY = 1
  MAX_SYSCALL_PRIORITY = 5
INVARIANTS
  NoLostWakeup
CHECK_DEADLOCK FALSE
