------------------------------- MODULE SemIsr -------------------------------
(***************************************************************************)
(* The semaphore between the Ethernet interrupt and the ETHIN task, at the *)
(* level of the kernel: xSemaphoreGiveFromISR (xQueueGiveFromISR) against  *)
(* xSemaphoreTake (xQueueGenericReceive) in queue.c of FreeRTOS v9.0.0.    *)
(*                                                                         *)
(* A critical section of the kernel raises BASEPRI to                      *)
(* configMAX_SYSCALL_INTERRUPT_PRIORITY, 5.  An interrupt of priority 5 or *)
(* below waits for its end (IrqMasked); ETH_IRQn, which HAL_ETH_MspInit    *)
(* gives priority 1, does not, and may run between the read and the write  *)
(* of a field that the section updates.                                    *)
(***************************************************************************)
EXTENDS Naturals

CONSTANTS
  uxLength,   \* length of the queue: 40
  MaxGives,   \* bound: gives in a behaviour
  ETH_IRQ_PRIORITY,       \* 1
  MAX_SYSCALL_PRIORITY    \* 5

ASSUME SemAssumption ==
  /\ uxLength \in Nat \ {0}
  /\ MaxGives \in Nat
  /\ ETH_IRQ_PRIORITY \in Nat
  /\ MAX_SYSCALL_PRIORITY \in Nat

queueUNLOCKED          == 0  \* -1 in the code; one more here, to stay in Nat
queueLOCKED_UNMODIFIED == 1

VARIABLES
  uxMessagesWaiting,
  cTxLock,
  blocked,   \* the task is on xTasksWaitingToReceive
  pc,        \* where the task is in xQueueGenericReceive
  local,     \* its local copy of the field it is updating
  gives      \* calls of xQueueGiveFromISR so far

vars == <<uxMessagesWaiting, cTxLock, blocked, pc, local, gives>>

TypeOK ==
  /\ uxMessagesWaiting \in 0 .. uxLength
  /\ cTxLock \in 0 .. MaxGives + 1
  /\ blocked \in BOOLEAN
  /\ pc \in {"out", "read", "dec", "lock", "empty", "place", "unlock",
             "unlocked", "resume"}
  /\ local \in 0 .. uxLength
  /\ gives \in 0 .. MaxGives

Init ==
  /\ uxMessagesWaiting = 0
  /\ cTxLock = queueUNLOCKED
  /\ blocked = FALSE
  /\ pc = "out"
  /\ local = 0
  /\ gives = 0

(* The places between two accesses of one critical section. *)
InCritical == pc \in {"dec", "unlocked"}

IrqMasked == ETH_IRQ_PRIORITY >= MAX_SYSCALL_PRIORITY

HasRoom == uxMessagesWaiting < uxLength

xQueueGiveFromISR ==
  /\ gives < MaxGives
  /\ ~ (IrqMasked /\ InCritical)
  /\ gives' = gives + 1
  /\ IF HasRoom
     THEN /\ uxMessagesWaiting' = uxMessagesWaiting + 1
          /\ IF cTxLock = queueUNLOCKED
             THEN blocked' = FALSE /\ UNCHANGED cTxLock
             ELSE cTxLock' = cTxLock + 1 /\ UNCHANGED blocked
     ELSE UNCHANGED <<uxMessagesWaiting, cTxLock, blocked>>
  /\ UNCHANGED <<pc, local>>

-----------------------------------------------------------------------------
(* xQueueGenericReceive, step by step.                                     *)

Goto(from, to) == pc = from /\ pc' = to

Call ==
  /\ Goto("out", "read")
  /\ UNCHANGED <<uxMessagesWaiting, cTxLock, blocked, local, gives>>

ReadCount ==
  /\ \/ uxMessagesWaiting > 0 /\ Goto("read", "dec")
     \/ uxMessagesWaiting = 0 /\ Goto("read", "lock")
  /\ local' = uxMessagesWaiting
  /\ UNCHANGED <<uxMessagesWaiting, cTxLock, blocked, gives>>

(* Mutant of WriteCount: a take empties the semaphore, as if binary. *)
WriteZero ==
  /\ Goto("dec", "out")
  /\ uxMessagesWaiting' = 0
  /\ local' = 0
  /\ UNCHANGED <<cTxLock, blocked, gives>>

WriteCount ==
  /\ Goto("dec", "out")
  /\ uxMessagesWaiting' = local - 1
  /\ local' = 0
  /\ UNCHANGED <<cTxLock, blocked, gives>>

prvLockQueue ==
  /\ Goto("lock", "empty")
  /\ cTxLock' = IF cTxLock = queueUNLOCKED THEN queueLOCKED_UNMODIFIED
                ELSE cTxLock
  /\ UNCHANGED <<uxMessagesWaiting, blocked, local, gives>>

prvIsQueueEmpty ==
  /\ \/ uxMessagesWaiting = 0 /\ Goto("empty", "place")
     \/ uxMessagesWaiting > 0 /\ Goto("empty", "unlock")
  /\ UNCHANGED <<uxMessagesWaiting, cTxLock, blocked, local, gives>>

vTaskPlaceOnEventList ==
  /\ Goto("place", "unlock")
  /\ blocked' = TRUE
  /\ UNCHANGED <<uxMessagesWaiting, cTxLock, local, gives>>

(* Mutant of UnlockRead: the gives made under the lock are forgotten. *)
UnlockWakesNobody ==
  /\ Goto("unlock", "unlocked")
  /\ UNCHANGED <<uxMessagesWaiting, cTxLock, blocked, local, gives>>

(* prvUnlockQueue wakes the task if something was given while the queue    *)
(* was locked, and then writes the lock back: first the read ...           *)
UnlockRead ==
  /\ Goto("unlock", "unlocked")
  /\ blocked' = IF cTxLock > queueLOCKED_UNMODIFIED THEN FALSE ELSE blocked
  /\ UNCHANGED <<uxMessagesWaiting, cTxLock, local, gives>>

(* ... and then the write. *)
UnlockWrite ==
  /\ Goto("unlocked", "resume")
  /\ cTxLock' = queueUNLOCKED
  /\ UNCHANGED <<uxMessagesWaiting, blocked, local, gives>>

(* The task goes on, at once or when it has been taken off the event list. *)
Resume ==
  /\ ~ blocked
  /\ Goto("resume", "read")
  /\ UNCHANGED <<uxMessagesWaiting, cTxLock, blocked, local, gives>>

xQueueGenericReceive ==
  \/ ReadCount \/ WriteCount \/ prvLockQueue \/ prvIsQueueEmpty
  \/ vTaskPlaceOnEventList \/ UnlockRead \/ UnlockWrite \/ Resume

Next == Call \/ xQueueGenericReceive \/ xQueueGiveFromISR

(* The task goes on while it is not blocked; it need not ask again, and    *)
(* the interrupt need not come.                                            *)
Spec == Init /\ [][Next]_vars /\ WF_vars(xQueueGenericReceive)

-----------------------------------------------------------------------------
(* Properties.                                                             *)

(* No wake-up is lost ("The event list is not altered if the queue is      *)
(* locked.  This will be done when the queue is unlocked later."): a task  *)
(* that stays asleep in xSemaphoreTake sleeps on a semaphore that is down. *)
NoLostWakeup == pc = "resume" /\ blocked => uxMessagesWaiting = 0

(* xQueueGiveFromISR and xQueueGenericReceive implement the semaphore that *)
(* EthRx assumes.                                                          *)
Semaphore == INSTANCE CountingSem WITH
  count  <- uxMessagesWaiting,
  asking <- pc # "out"

ImplementsSemaphore == Semaphore!Spec
=============================================================================
