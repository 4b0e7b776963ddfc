----------------------------- MODULE EthRxBare ------------------------------
(***************************************************************************)
(* The receive path of the bare-metal firmware.  There is no task:         *)
(* ETH_IRQHandler itself empties the ring, runs the TCP/IP stack on every  *)
(* frame (ethernet_input, which always takes the pbuf) and only then calls *)
(* HAL_ETH_IRQHandler, which clears RI.                                    *)
(*                                                                         *)
(* A step is one access to what the DMA shares with the handler.  The main *)
(* loop touches neither the ring nor, but for reassembly timeouts, the     *)
(* pool.                                                                   *)
(***************************************************************************)
EXTENDS RxRing

CONSTANTS
  PoolSize,           \* elements of RX_POOL, 20 in the firmware
  IP_REASS_MAX_PBUFS  \* fragments the stack may keep, 10 in opt.h

ASSUME BareAssumption ==
  /\ PoolSize \in Nat \ {0}
  /\ IP_REASS_MAX_PBUFS \in Nat

VARIABLES
  isr,        \* where ETH_IRQHandler is, "off" when it does not run
  p,          \* local variable p of ethernetif_input, 0 for NULL
  RX_POOL,    \* number of free elements of the pool
  fragments,  \* pbufs kept by IP reassembly
  delivered,  \* history: last frame given to the stack
  starved     \* history: a frame found RX_POOL empty

histVars == <<delivered, starved>>
vars == <<ringVars, isr, p, RX_POOL, fragments, histVars>>

TypeOK ==
  /\ RingTypeOK
  /\ isr \in {"off", "input", "build", "stack", "clear"}
  /\ p \in 0 .. MaxFrame
  /\ RX_POOL \in 0 .. PoolSize
  /\ fragments \in 0 .. IP_REASS_MAX_PBUFS
  /\ delivered \in 0 .. MaxFrame
  /\ starved \in BOOLEAN

Init ==
  /\ RingInit
  /\ isr = "off"
  /\ p = 0
  /\ RX_POOL = PoolSize
  /\ fragments = 0
  /\ delivered = 0
  /\ starved = FALSE

DmaStep ==
  /\ DmaReceive
  /\ UNCHANGED <<isr, p, RX_POOL, fragments, histVars>>

IsrEnter ==
  /\ isr = "off"
  /\ RI
  /\ isr' = "input"
  /\ UNCHANGED <<ringVars, p, RX_POOL, fragments, histVars>>

(* low_level_input: a pbuf; no data; or no pbuf left, when the frame is    *)
(* lost and the NULL pointer ends the loop just as an empty ring does.     *)
LowLevelInput ==
  /\ isr = "input"
  /\ isr' = "build"
  /\ \/ /\ HAL_ETH_GetRxDataBuffer
        /\ RX_POOL > 0
        /\ p' = Rx_Buff[RxDataDesc]
        /\ RX_POOL' = RX_POOL - 1
        /\ UNCHANGED starved
     \/ /\ ~ RxDataReady
        /\ p' = 0
        /\ UNCHANGED <<RX_POOL, appVars, starved>>
     \/ /\ HAL_ETH_GetRxDataBuffer
        /\ RX_POOL = 0
        /\ p' = 0
        /\ starved' = TRUE
        /\ UNCHANGED RX_POOL
  /\ UNCHANGED <<own, dmaVars, RI, fragments, delivered>>

BuildRx ==
  /\ isr = "build"
  /\ HAL_ETH_BuildRxDescriptors
  /\ isr' = IF p = 0 THEN "clear" ELSE "stack"
  /\ UNCHANGED <<dmaVars, RI, p, RX_POOL, fragments, histVars>>

(* What the stack does with a pbuf: it frees it, keeps it as a fragment of *)
(* an IP packet, or frees it with the fragments kept for that packet.      *)
PbufTaken ==
  \/ RX_POOL' = RX_POOL + 1 /\ UNCHANGED fragments
  \/ /\ fragments < IP_REASS_MAX_PBUFS
     /\ fragments' = fragments + 1
     /\ UNCHANGED RX_POOL
  \/ RX_POOL' = RX_POOL + 1 + fragments /\ fragments' = 0

(* Mutant of Input: one frame for each interrupt. *)
InputOnce ==
  /\ isr = "stack"
  /\ isr' = "clear"
  /\ delivered' = p
  /\ p' = 0
  /\ PbufTaken
  /\ UNCHANGED <<ringVars, starved>>

(* netif->input, then goto TRY_GET_NEXT_FRAGMENT. *)
Input ==
  /\ isr = "stack"
  /\ isr' = "input"
  /\ delivered' = p
  /\ p' = 0
  /\ PbufTaken
  /\ UNCHANGED <<ringVars, starved>>

(* The reassembly timer, run by sys_check_timeouts in the main loop. *)
ReassemblyTimeout ==
  /\ isr = "off"
  /\ fragments > 0
  /\ RX_POOL' = RX_POOL + fragments
  /\ fragments' = 0
  /\ UNCHANGED <<ringVars, isr, p, histVars>>

(* HAL_ETH_IRQHandler, with the empty HAL_ETH_RxCpltCallback. *)
ClearRI ==
  /\ isr = "clear"
  /\ RI' = FALSE
  /\ isr' = "off"
  /\ UNCHANGED <<own, dmaVars, appVars, p, RX_POOL, fragments, histVars>>

Isr  == IsrEnter \/ LowLevelInput \/ BuildRx \/ Input \/ ClearRI
Next == DmaStep \/ Isr \/ ReassemblyTimeout

(* The interrupt preempts everything that runs in this firmware. *)
Spec     == Init /\ [][Next]_vars
FairSpec == Spec /\ WF_vars(Isr)

-----------------------------------------------------------------------------
(* Properties.                                                             *)

(* Frames are given to the stack in the order of arrival, and none is left *)
(* out until the pool runs empty: the last frame given is the one before   *)
(* the oldest in the ring, whatever the interleaving with the DMA.         *)
InOrderThroughIsr ==
  ~ starved => delivered = Taken - (IF p = 0 THEN 0 ELSE 1)

(* Every frame that is in the ring when an interrupt is raised outside the *)
(* handler is taken out: a frame can only strand between the handler's     *)
(* last look at the ring and its write to RI, and the next frame that the  *)
(* ring has room for takes it along.                                       *)
PendingServed ==
  \A f \in Frame :
    (isr = "off" /\ RI /\ arrived >= f) ~> (Taken >= f \/ starved)
=============================================================================
