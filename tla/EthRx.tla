------------------------------- MODULE EthRx --------------------------------
(***************************************************************************)
(* The receive path of the FreeRTOS firmware, from the descriptor ring to  *)
(* the application:                                                        *)
(*                                                                         *)
(*   DMA --ring--> ETH_IRQHandler --s_xSemaphore--> ETHIN task             *)
(*       --tcpip_mbox--> tcpip thread --receive mailboxes--> application   *)
(*                                                                         *)
(* A step is a piece of code that no task switch can divide.  The DMA runs *)
(* at any time; so does the interrupt handler, also inside the critical    *)
(* sections of the tasks, because ETH_IRQn has priority 1 and a critical   *)
(* section masks 5 and below.  Tasks run by priority.                      *)
(***************************************************************************)
EXTENDS RxRing, Sequences, FiniteSets

CONSTANTS
  Pbufs,                    \* the elements of RX_POOL, 20 in the firmware
  NoPbuf,                   \* the NULL pointer
  MaxSem,                   \* xSemaphoreCreateCounting(40, 0)
  TCPIP_MBOX_SIZE,          \* 8 in lwipopts.h
  MEMP_NUM_TCPIP_MSG_INPKT, \* 8, the default of opt.h
  MaxHeld,                  \* bound: pbufs in receive mailboxes, or kept by
                            \* the stack
  NETIF_IN_TASK_PRIORITY,   \* 4
  TCPIP_THREAD_PRIO,        \* 6
  CanWedge                  \* whether the tcpip thread may block for ever
                            \* (in low_level_output, see EthTx)

ASSUME RxAssumption ==
  /\ MaxSem \in Nat \ {0}
  /\ TCPIP_MBOX_SIZE \in Nat \ {0}
  /\ MEMP_NUM_TCPIP_MSG_INPKT \in Nat \ {0}
  /\ MaxHeld \in Nat
  /\ NETIF_IN_TASK_PRIORITY \in Nat
  /\ TCPIP_THREAD_PRIO \in Nat
  /\ CanWedge \in BOOLEAN

(* A pbuf_custom in use: its pool element, the descriptor whose buffer is  *)
(* its payload, and the frame it was made for.                             *)
Pbuf == [id : Pbufs, desc : Desc, frame : 0 .. MaxFrame]

ASSUME NoPbufAssumption == NoPbuf \notin Pbuf

VARIABLES
  isr,           \* where ETH_IRQHandler is, "off" when it does not run
  s_xSemaphore,  \* count of the semaphore the interrupt gives
  ethin,         \* where the ETHIN task is in ethernetif_input
  p,             \* its local variable p
  semRead,       \* the count it has read inside xSemaphoreTake
  RX_POOL,       \* free elements of the pool
  tcpip_mbox,    \* the tcpip thread's mailbox
  work,          \* the pbuf the tcpip thread is processing
  held,          \* pbufs in receive mailboxes, in the application's hands,
                 \* or kept by the stack
  wedged,        \* the tcpip thread is blocked for ever
  delivered,     \* history: last frame that netif->input accepted
  cutShort       \* history: the ETHIN task last left its loop before it
                 \* had found the ring empty

taskVars == <<ethin, p, semRead>>
lwipVars == <<tcpip_mbox, work, held, wedged>>
histVars == <<delivered, cutShort>>
vars == <<ringVars, isr, s_xSemaphore, taskVars, RX_POOL, lwipVars, histVars>>

TypeOK ==
  /\ RingTypeOK
  /\ isr \in {"off", "clear1", "call2", "clear2"}
  /\ s_xSemaphore \in 0 .. MaxSem
  /\ ethin \in {"wait", "taking", "input", "build", "post", "again"}
  /\ p \in Pbuf \cup {NoPbuf}
  /\ semRead \in 0 .. MaxSem
  /\ RX_POOL \in SUBSET Pbufs
  /\ tcpip_mbox \in Seq(Pbuf)
  /\ work \in Pbuf \cup {NoPbuf}
  /\ held \in SUBSET Pbuf
  /\ wedged \in BOOLEAN
  /\ delivered \in 0 .. MaxFrame
  /\ cutShort \in BOOLEAN

Init ==
  /\ RingInit
  /\ isr = "off"
  /\ s_xSemaphore = 0
  /\ ethin = "wait"
  /\ p = NoPbuf
  /\ semRead = 0
  /\ RX_POOL = Pbufs
  /\ tcpip_mbox = <<>>
  /\ work = NoPbuf
  /\ held = {}
  /\ wedged = FALSE
  /\ delivered = 0
  /\ cutShort = FALSE

-----------------------------------------------------------------------------
(* Scheduling.  The interrupt preempts every task; a critical section      *)
(* holds off the other tasks; the ready task of highest priority runs.     *)

(* Mutant of InCritical: no taskEXIT_CRITICAL before netif->input. *)
CriticalThroughInput == ethin \in {"taking", "input", "build", "post", "again"}

InCritical == ethin \in {"taking", "input", "build", "again"}

EthinReady == ethin # "wait" \/ s_xSemaphore > 0

TcpipReady == ~ wedged /\ (work # NoPbuf \/ tcpip_mbox # <<>>)

EthinRuns ==
  /\ isr = "off"
  /\ \/ InCritical
     \/ NETIF_IN_TASK_PRIORITY >= TCPIP_THREAD_PRIO
     \/ ~ TcpipReady

TcpipRuns ==
  /\ isr = "off"
  /\ ~ InCritical
  /\ ~ wedged
  /\ TCPIP_THREAD_PRIO >= NETIF_IN_TASK_PRIORITY \/ ~ EthinReady

(* The applications run at the priority of the ETHIN task. *)
AppRuns == isr = "off" /\ ~ InCritical /\ ~ TcpipReady

-----------------------------------------------------------------------------
(* The interrupt.  ETH_IRQHandler calls HAL_ETH_IRQHandler twice; each     *)
(* call with RI set gives the semaphore and clears RI afterwards, in two   *)
(* accesses between which the DMA may set RI again.                        *)

GiveFromISR ==
  s_xSemaphore' = IF s_xSemaphore < MaxSem THEN s_xSemaphore + 1
                  ELSE s_xSemaphore

IsrCall1 ==
  /\ isr = "off"
  /\ RI
  /\ GiveFromISR
  /\ isr' = "clear1"
  /\ UNCHANGED <<ringVars, taskVars, RX_POOL, lwipVars, histVars>>

ClearRI ==
  /\ RI' = FALSE
  /\ UNCHANGED <<own, dmaVars, appVars>>

IsrClear1 ==
  /\ isr = "clear1"
  /\ ClearRI
  /\ isr' = "call2"
  /\ UNCHANGED <<s_xSemaphore, taskVars, RX_POOL, lwipVars, histVars>>

IsrCall2 ==
  /\ isr = "call2"
  /\ \/ /\ RI
        /\ GiveFromISR
        /\ isr' = "clear2"
     \/ /\ ~ RI
        /\ isr' = "off"
        /\ UNCHANGED s_xSemaphore
  /\ UNCHANGED <<ringVars, taskVars, RX_POOL, lwipVars, histVars>>

IsrClear2 ==
  /\ isr = "clear2"
  /\ ClearRI
  /\ isr' = "off"
  /\ UNCHANGED <<s_xSemaphore, taskVars, RX_POOL, lwipVars, histVars>>

-----------------------------------------------------------------------------
(* The ETHIN task: ethernetif_input.                                       *)

(* xSemaphoreTake decrements the count in two accesses, a read and a write. *)
(* The interrupt is not masked, so a give between them is overwritten.      *)
SemRead ==
  /\ s_xSemaphore > 0
  /\ semRead' = s_xSemaphore
  /\ ethin' = "taking"

SemWrite ==
  /\ ethin = "taking"
  /\ EthinRuns
  /\ s_xSemaphore' = semRead - 1
  /\ semRead' = 0
  /\ ethin' = "input"
  /\ UNCHANGED <<ringVars, isr, p, RX_POOL, lwipVars, histVars>>

(* xSemaphoreTake(s_xSemaphore, portMAX_DELAY) finds or is woken by a give. *)
EthinTake ==
  /\ ethin = "wait"
  /\ EthinRuns
  /\ SemRead
  /\ UNCHANGED <<ringVars, isr, s_xSemaphore, p, RX_POOL, lwipVars, histVars>>

(* Mutant of NewPbuf: FirstAppDesc is used as it was before the ring scan. *)
StalePbuf(e) == [id |-> e, desc |-> FirstAppDesc, frame |-> Rx_Buff[RxDataDesc]]

(* pbuf_alloced_custom over the buffer that the HAL returned. *)
NewPbuf(e) == [id |-> e, desc |-> RxDataDesc, frame |-> Rx_Buff[RxDataDesc]]

(* Mutant of pbuf_free_custom: the element is not given back. *)
PbufLeaked(b) == UNCHANGED RX_POOL

(* LWIP_MEMPOOL_FREE. *)
pbuf_free_custom(b) == RX_POOL' = RX_POOL \cup {b.id}

(* low_level_input: no data, a new pbuf, or no pbuf left.  In the last     *)
(* case the code uses the NULL pointer: the pbuf is built at address 0,    *)
(* which is RAM (ITCM) on this part, and the function returns its address, *)
(* NULL; the frame is lost because its descriptor is held all the same.    *)
LowLevelInput ==
  /\ ethin = "input"
  /\ EthinRuns
  /\ ethin' = "build"
  /\ \/ /\ ~ RxDataReady
        /\ p' = NoPbuf
        /\ cutShort' = FALSE
        /\ UNCHANGED <<RX_POOL, appVars>>
     \/ /\ HAL_ETH_GetRxDataBuffer
        /\ \E e \in RX_POOL :
             /\ p' = NewPbuf(e)
             /\ RX_POOL' = RX_POOL \ {e}
        /\ UNCHANGED cutShort
     \/ /\ HAL_ETH_GetRxDataBuffer
        /\ RX_POOL = {}
        /\ p' = NoPbuf
        /\ cutShort' = TRUE
        /\ UNCHANGED RX_POOL
  /\ UNCHANGED <<own, dmaVars, RI, isr, s_xSemaphore, semRead, lwipVars,
                 delivered>>

(* HAL_ETH_BuildRxDescriptors, the end of the critical section and the     *)
(* test of p.                                                              *)
BuildRx ==
  /\ ethin = "build"
  /\ EthinRuns
  /\ HAL_ETH_BuildRxDescriptors
  /\ ethin' = IF p = NoPbuf THEN "wait" ELSE "post"
  /\ UNCHANGED <<dmaVars, RI, isr, s_xSemaphore, p, semRead, RX_POOL,
                 lwipVars, histVars>>

(* tcpip_inpkt: a message from its pool, then a place in the mailbox. *)
InputAccepted ==
  /\ Len(tcpip_mbox) + (IF work = NoPbuf THEN 0 ELSE 1)
       < MEMP_NUM_TCPIP_MSG_INPKT
  /\ Len(tcpip_mbox) < TCPIP_MBOX_SIZE

(* netif->input took the pbuf: stay in the critical section and go on. *)
PostOk ==
  /\ ethin = "post"
  /\ EthinRuns
  /\ InputAccepted
  /\ tcpip_mbox' = Append(tcpip_mbox, p)
  /\ delivered' = p.frame
  /\ p' = NoPbuf
  /\ ethin' = "again"
  /\ UNCHANGED <<ringVars, isr, s_xSemaphore, semRead, RX_POOL, work, held,
                 wedged, cutShort>>

(* netif->input failed: free the pbuf and go back to wait for the          *)
(* semaphore, whatever the ring still holds.                               *)
PostErr ==
  /\ ethin = "post"
  /\ EthinRuns
  /\ ~ InputAccepted
  /\ pbuf_free_custom(p)
  /\ p' = NoPbuf
  /\ ethin' = "wait"
  /\ cutShort' = TRUE
  /\ UNCHANGED <<ringVars, isr, s_xSemaphore, semRead, lwipVars, delivered>>

(* Mutant of TryNext: one frame for each wake-up. *)
NoNext ==
  /\ ethin = "again"
  /\ EthinRuns
  /\ ethin' = "wait"
  /\ UNCHANGED <<ringVars, isr, s_xSemaphore, p, semRead, RX_POOL, lwipVars,
                 histVars>>

(* xSemaphoreTake(s_xSemaphore, 0), then goto TRY_GET_NEXT_FRAGMENT. *)
TryNext ==
  /\ ethin = "again"
  /\ EthinRuns
  /\ \/ SemRead
     \/ /\ s_xSemaphore = 0
        /\ ethin' = "input"
        /\ UNCHANGED semRead
  /\ UNCHANGED <<ringVars, isr, s_xSemaphore, p, RX_POOL, lwipVars, histVars>>

-----------------------------------------------------------------------------
(* The tcpip thread and the application: who frees a pbuf, and when.       *)

TcpipFetch ==
  /\ TcpipRuns
  /\ work = NoPbuf
  /\ tcpip_mbox # <<>>
  /\ work' = Head(tcpip_mbox)
  /\ tcpip_mbox' = Tail(tcpip_mbox)
  /\ UNCHANGED <<ringVars, isr, s_xSemaphore, taskVars, RX_POOL, held, wedged,
                 histVars>>

(* The frame was consumed by the stack itself, or refused by a full        *)
(* receive mailbox: pbuf_free ends in pbuf_free_custom.                    *)
TcpipFree ==
  /\ TcpipRuns
  /\ work # NoPbuf
  /\ pbuf_free_custom(work)
  /\ work' = NoPbuf
  /\ UNCHANGED <<ringVars, isr, s_xSemaphore, taskVars, tcpip_mbox, held,
                 wedged, histVars>>

(* The pbuf goes to the receive mailbox of a connection, or stays in the   *)
(* stack as a fragment or as refused data; it is still the custom one.     *)
TcpipKeep ==
  /\ TcpipRuns
  /\ work # NoPbuf
  /\ Cardinality(held) < MaxHeld
  /\ held' = held \cup {work}
  /\ work' = NoPbuf
  /\ UNCHANGED <<ringVars, isr, s_xSemaphore, taskVars, RX_POOL, tcpip_mbox,
                 wedged, histVars>>

TcpipWedge ==
  /\ CanWedge
  /\ TcpipRuns
  /\ work # NoPbuf
  /\ wedged' = TRUE
  /\ UNCHANGED <<ringVars, isr, s_xSemaphore, taskVars, RX_POOL, tcpip_mbox,
                 work, held, histVars>>

FreeHeld ==
  /\ \E b \in held :
       /\ held' = held \ {b}
       /\ pbuf_free_custom(b)
  /\ UNCHANGED <<ringVars, isr, s_xSemaphore, taskVars, tcpip_mbox, work,
                 wedged, histVars>>

(* The application has read a pbuf to its end, or deletes its netbuf. *)
AppFree == AppRuns /\ FreeHeld

(* A timer drops what the stack kept; timers run between two messages. *)
TimerFree == TcpipRuns /\ work = NoPbuf /\ FreeHeld

-----------------------------------------------------------------------------
DmaStep ==
  /\ DmaReceive
  /\ UNCHANGED <<isr, s_xSemaphore, taskVars, RX_POOL, lwipVars, histVars>>

Isr   == IsrCall1 \/ IsrClear1 \/ IsrCall2 \/ IsrClear2
Ethin == \/ EthinTake \/ SemWrite \/ LowLevelInput \/ BuildRx
         \/ PostOk \/ PostErr \/ TryNext
Tcpip == TcpipFetch \/ TcpipFree \/ TcpipKeep \/ TcpipWedge \/ TimerFree

Next == DmaStep \/ Isr \/ Ethin \/ Tcpip \/ AppFree

(* The network owes nothing.  The interrupt and the tasks run when they    *)
(* are the ones the processor has to run.                                  *)
Fairness ==
  /\ WF_vars(Isr)
  /\ WF_vars(Ethin)
  /\ WF_vars(TcpipFetch)
  /\ WF_vars(TcpipFree \/ TcpipKeep)
  /\ WF_vars(AppFree)

Spec     == Init /\ [][Next]_vars
FairSpec == Spec /\ Fairness

-----------------------------------------------------------------------------
(* Properties.                                                             *)

MboxPbufs == {tcpip_mbox[i] : i \in 1 .. Len(tcpip_mbox)}

(* The pbufs that the stack or an application may still read. *)
InStack == MboxPbufs \cup held \cup ({work} \ {NoPbuf})

(* ... and with the one in the ETHIN task's hands. *)
InUse == InStack \cup ({p} \ {NoPbuf})

Ids(S) == {b.id : b \in S}

(* Every element of RX_POOL is in exactly one place: no path through       *)
(* low_level_input, netif->input and pbuf_free_custom leaks one, frees one *)
(* twice, or leaves one in two hands.                                      *)
PoolConserved ==
  /\ RX_POOL = Pbufs \ Ids(InUse)
  /\ \A i, j \in 1 .. Len(tcpip_mbox) :
       tcpip_mbox[i].id = tcpip_mbox[j].id => i = j
  /\ \A b, c \in held : b.id = c.id => b = c
  /\ Ids(held) \cap Ids(MboxPbufs) = {}
  /\ work # NoPbuf => work.id \notin Ids(held) \cup Ids(MboxPbufs)
  /\ p # NoPbuf => p.id \notin Ids(InStack)

(* No wake-up is lost although many frames share one interrupt and many    *)
(* interrupts share one pass of the ETHIN task: while it sleeps with a     *)
(* closed descriptor to read, an interrupt is pending or the semaphore is  *)
(* up -- unless it left its loop early, for want of a pbuf or of room in   *)
(* the tcpip mailbox.                                                      *)
NoLostWakeup ==
  ethin = "wait" /\ ~ cutShort /\ ~ own[CurRxDesc] => RI \/ s_xSemaphore > 0

(* How long a zero-copy payload lives: BuildRx gives the buffer back to    *)
(* the DMA before the stack has seen the pbuf, so the payload is the       *)
(* pbuf's frame only until ETH_RX_DESC_CNT further frames have arrived.    *)
IntactWithinRing ==
  \A b \in InUse :
    arrived < b.frame + ETH_RX_DESC_CNT => Rx_Buff[b.desc] = b.frame

(* Neither error path of ethernetif_input is taken: the tcpip thread       *)
(* outranks the ETHIN task and empties its mailbox between two passes of   *)
(* the loop, so at most two pbufs are ever on their way, and netif->input  *)
(* and LWIP_MEMPOOL_ALLOC succeed if RX_POOL has two elements more than    *)
(* the receive mailboxes may hold.                                         *)
NeverCutShort ==
  /\ NETIF_IN_TASK_PRIORITY < TCPIP_THREAD_PRIO
  /\ ~ wedged
  /\ Cardinality(Pbufs) >= MaxHeld + 2
  => ~ cutShort

(* What the comment on HAL_ETH_BuildRxDescriptors asks for ("It should be  *)
(* called after processing the received Packet"): a packet that the stack  *)
(* or an application still holds has not been overwritten by a later one.  *)
PayloadIntact == \A b \in InStack : Rx_Buff[b.desc] = b.frame

(* Every frame received is offered to the stack, and the stack accepts it. *)
EveryFrameDelivered == \A f \in Frame : (arrived >= f) ~> (delivered >= f)

(* The path is a lossless channel: its queue is the pbuf in the ETHIN      *)
(* task's hands and the closed descriptors behind it.                      *)
Channel == INSTANCE FrameChannel WITH
  Capacity <- ETH_RX_DESC_CNT + 1,
  queue    <- (IF p = NoPbuf THEN <<>> ELSE <<p.frame>>)
                \o [k \in 1 .. ClosedFrom(CurRxDesc) |->
                      Rx_Buff[INCR_RX_DESC_INDEX(CurRxDesc, k - 1)]],
  accepted <- arrived,
  given    <- delivered

LosslessChannel == Channel!Spec
=============================================================================
