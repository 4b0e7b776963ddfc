--------------------------- MODULE SemIsr_proofs ----------------------------
(***************************************************************************)
(* Proofs about SemIsr when the kernel masks the Ethernet interrupt, as it *)
(* would at priority 5 or below.  At the firmware's priority 1 they fail:  *)
(* see the run sem_lost_wakeup.                                            *)
(***************************************************************************)
EXTENDS SemIsr, TLAPS

(* The queue is locked from prvLockQueue to the end of prvUnlockQueue, the *)
(* task is on the event list only from vTaskPlaceOnEventList on, and the   *)
(* copy of the count is up to date when it is written back.                *)
LockInv ==
  /\ cTxLock = queueUNLOCKED
       <=> pc \notin {"empty", "place", "unlock", "unlocked"}
  /\ cTxLock <= gives + 1
  /\ blocked => pc \in {"unlock", "unlocked", "resume"}
  /\ pc = "dec" => local = uxMessagesWaiting /\ local > 0

(* A give that finds the task on its way to sleep is recorded in the lock, *)
(* and one that finds it asleep wakes it.                                  *)
SleepInv ==
  /\ pc = "place" /\ uxMessagesWaiting > 0
       => cTxLock > queueLOCKED_UNMODIFIED
  /\ blocked /\ uxMessagesWaiting > 0
       => pc = "unlock" /\ cTxLock > queueLOCKED_UNMODIFIED

IInv == TypeOK /\ LockInv /\ SleepInv

LEMMA IInvInit == Init => IInv
<1> SUFFICES ASSUME Init PROVE IInv
  OBVIOUS
<1>1. TypeOK
  <2>1. /\ uxMessagesWaiting \in 0 .. uxLength
        /\ cTxLock \in 0 .. MaxGives + 1
        /\ local \in 0 .. uxLength
        /\ gives \in 0 .. MaxGives
    BY SemAssumption DEF Init, queueUNLOCKED
  <2> QED
    BY <2>1 DEF Init, TypeOK
<1>2. LockInv
  BY DEF Init, LockInv, queueUNLOCKED
<1>3. SleepInv
  BY DEF Init, SleepInv
<1> QED
  BY <1>1, <1>2, <1>3 DEF IInv

LEMMA IInvStep ==
  ASSUME IrqMasked, IInv, [Next]_vars
  PROVE  IInv'
<1> USE SemAssumption
    DEF IInv, TypeOK, LockInv, SleepInv, queueUNLOCKED, queueLOCKED_UNMODIFIED
<1>1. CASE Call
  BY <1>1 DEF Call, Goto
<1>2. CASE ReadCount
  BY <1>2 DEF ReadCount, Goto
<1>3. CASE WriteCount
  BY <1>3 DEF WriteCount, Goto
<1>4. CASE prvLockQueue
  BY <1>4 DEF prvLockQueue, Goto
<1>5. CASE prvIsQueueEmpty
  BY <1>5 DEF prvIsQueueEmpty, Goto
<1>6. CASE vTaskPlaceOnEventList
  BY <1>6 DEF vTaskPlaceOnEventList, Goto
<1>7. CASE UnlockRead
  BY <1>7 DEF UnlockRead, Goto
<1>8. CASE UnlockWrite
  BY <1>8 DEF UnlockWrite, Goto
<1>9. CASE Resume
  BY <1>9 DEF Resume, Goto
<1>10. CASE xQueueGiveFromISR
  <2>1. pc \notin {"dec", "unlocked"}
    BY <1>10 DEF xQueueGiveFromISR, InCritical
  <2> USE <1>10, <2>1 DEF xQueueGiveFromISR, HasRoom
  <2>2. TypeOK'
    <3>1. /\ uxMessagesWaiting' \in 0 .. uxLength
          /\ cTxLock' \in 0 .. MaxGives + 1
          /\ gives' \in 0 .. MaxGives
      OBVIOUS
    <3>2. blocked' \in BOOLEAN
      OBVIOUS
    <3> QED
      BY <3>1, <3>2
  <2>3. LockInv'
    OBVIOUS
  <2>4. SleepInv'
    OBVIOUS
  <2> QED
    BY <2>2, <2>3, <2>4
<1>11. CASE UNCHANGED vars
  BY <1>11 DEF vars
<1> QED
  BY <1>1, <1>2, <1>3, <1>4, <1>5, <1>6, <1>7, <1>8, <1>9, <1>10, <1>11
  DEF Next, xQueueGenericReceive

(* With the interrupt masked by the kernel's critical sections, a give     *)
(* never leaves the task asleep in xSemaphoreTake, for every length of the *)
(* queue and every number of gives.                                        *)
THEOREM NoLostWakeupMasked ==
  ASSUME IrqMasked
  PROVE  Spec => []NoLostWakeup
<1>1. IInv /\ [Next]_vars => IInv'
  BY IInvStep
<1>2. IInv => NoLostWakeup
  BY SemAssumption DEF IInv, TypeOK, SleepInv, NoLostWakeup
<1> QED
  BY <1>1, <1>2, IInvInit, PTL DEF Spec

(* With the interrupt masked, queue.c implements the semaphore's safety:   *)
(* every give is worth one take and no take is without a give.             *)
THEOREM SemaphoreSafety ==
  ASSUME IrqMasked
  PROVE  Spec => Semaphore!Init /\ [][Semaphore!Next]_(Semaphore!vars)
<1>1. Init => Semaphore!Init
  BY DEF Init, Semaphore!Init
<1>2. IInv /\ [Next]_vars => [Semaphore!Next]_(Semaphore!vars)
  <2> SUFFICES ASSUME IInv, [Next]_vars
               PROVE  [Semaphore!Next]_(Semaphore!vars)
    OBVIOUS
  <2> USE DEF IInv, TypeOK, LockInv, Semaphore!vars, Semaphore!Next
  <2>1. CASE Call
    BY <2>1 DEF Call, Goto, Semaphore!Ask
  <2>2. CASE WriteCount
    BY <2>2, SemAssumption DEF WriteCount, Goto, Semaphore!Take
  <2>3. CASE xQueueGiveFromISR
    BY <2>3 DEF xQueueGiveFromISR, HasRoom, Semaphore!Give
  <2>4. CASE \/ ReadCount \/ prvLockQueue \/ prvIsQueueEmpty
             \/ vTaskPlaceOnEventList \/ UnlockRead \/ UnlockWrite \/ Resume
             \/ UNCHANGED vars
    BY <2>4
    DEF ReadCount, prvLockQueue, prvIsQueueEmpty, vTaskPlaceOnEventList,
        UnlockRead, UnlockWrite, Resume, Goto, vars
  <2> QED
    BY <2>1, <2>2, <2>3, <2>4 DEF Next, xQueueGenericReceive
<1>3. IInv /\ [Next]_vars => IInv'
  BY IInvStep
<1> QED
  BY <1>1, <1>2, <1>3, IInvInit, PTL DEF Spec

(* Type correctness, under the same condition: the count of the semaphore  *)
(* stays within its length, and the queue lock counts no more gives than   *)
(* there were.                                                             *)
THEOREM TypeCorrect ==
  ASSUME IrqMasked
  PROVE  Spec => []TypeOK
<1>1. IInv /\ [Next]_vars => IInv'
  BY IInvStep
<1>2. IInv => TypeOK
  BY DEF IInv
<1> QED
  BY <1>1, <1>2, IInvInit, PTL DEF Spec
=============================================================================
