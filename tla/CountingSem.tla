---------------------------- MODULE CountingSem -----------------------------
(***************************************************************************)
(* What a FreeRTOS counting semaphore promises: every successful give is   *)
(* worth one take, and a task that asks while the semaphore is up gets it. *)
(***************************************************************************)
EXTENDS Naturals

CONSTANT uxLength  \* the count at which gives fail

VARIABLES
  count,   \* gives not yet taken
  asking   \* a task is inside xSemaphoreTake(..., portMAX_DELAY)

vars == <<count, asking>>

Init == count = 0 /\ asking = FALSE

Ask ==
  /\ ~ asking
  /\ asking' = TRUE
  /\ UNCHANGED count

Give ==
  /\ count < uxLength
  /\ count' = count + 1
  /\ UNCHANGED asking

Take ==
  /\ asking
  /\ count > 0
  /\ count' = count - 1
  /\ asking' = FALSE

Next == Ask \/ Give \/ Take

Spec == Init /\ [][Next]_vars /\ WF_vars(Take)
=============================================================================
