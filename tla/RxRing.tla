------------------------------- MODULE RxRing -------------------------------
(***************************************************************************)
(* The receive descriptor ring of the STM32H7 Ethernet HAL: the list that  *)
(* the DMA engine fills from one end (dmaDesc) and the driver empties from *)
(* the other (CurRxDesc).  It has no process of its own; EthRx (FreeRTOS   *)
(* firmware) and EthRxBare (bare-metal firmware) extend it.                *)
(*                                                                         *)
(* A frame is the number it has in the order of reception, 1, 2, ...; a    *)
(* receive buffer holds the number of the last frame written to it and 0   *)
(* before the first.  A frame fits in one descriptor: RxBuffLen is 1528    *)
(* bytes, the longest frame of an 802.3 link with a VLAN tag is 1522.      *)
(***************************************************************************)
EXTENDS Naturals

CONSTANTS
  ETH_RX_DESC_CNT,  \* descriptors of the ring, 4 in stm32h7xx_hal_conf.h
  MaxFrame          \* bound: frames that the network delivers in a behaviour

ASSUME RingAssumption ==
  /\ ETH_RX_DESC_CNT \in Nat \ {0, 1}
  /\ MaxFrame \in Nat

VARIABLES
  own,           \* DESC3.OWN: TRUE while the DMA owns the descriptor
  Rx_Buff,       \* the frame in each descriptor's buffer, 0 when none yet
  dmaDesc,       \* the descriptor the DMA writes next
  RI,            \* DMACSR.RI: a receive interrupt is pending
  arrived,       \* frames accepted from the network so far
  CurRxDesc,     \* RxDescList.CurRxDesc: next descriptor to look at
  FirstAppDesc,  \* RxDescList.FirstAppDesc: descriptor the driver holds
  AppDescNbr     \* RxDescList.AppDescNbr: how many the driver holds

dmaVars  == <<Rx_Buff, dmaDesc, arrived>>
appVars  == <<CurRxDesc, FirstAppDesc, AppDescNbr>>
ringVars == <<own, dmaVars, RI, appVars>>

Desc  == 0 .. ETH_RX_DESC_CNT - 1
Frame == 1 .. MaxFrame

RingTypeOK ==
  /\ own \in [Desc -> BOOLEAN]
  /\ Rx_Buff \in [Desc -> 0 .. MaxFrame]
  /\ dmaDesc \in Desc
  /\ RI \in BOOLEAN
  /\ arrived \in 0 .. MaxFrame
  /\ CurRxDesc \in Desc
  /\ FirstAppDesc \in Desc
  /\ AppDescNbr \in 0 .. 1

(* Mutant of INCR_RX_DESC_INDEX: the end of the ring is tested with >. *)
IncrPastEnd(inx, offset) ==
  IF inx + offset > ETH_RX_DESC_CNT
  THEN inx + offset - ETH_RX_DESC_CNT
  ELSE inx + offset

(* The wrap-around of an index, without division as in the C macro. *)
INCR_RX_DESC_INDEX(inx, offset) ==
  IF inx + offset >= ETH_RX_DESC_CNT
  THEN inx + offset - ETH_RX_DESC_CNT
  ELSE inx + offset

(* The ring after HAL_ETH_DescAssignMemory has given every descriptor its  *)
(* buffer and HAL_ETH_Start_IT has started the DMA.                        *)
RingInit ==
  /\ own = [d \in Desc |-> TRUE]
  /\ Rx_Buff = [d \in Desc |-> 0]
  /\ dmaDesc = 0
  /\ RI = FALSE
  /\ arrived = 0
  /\ CurRxDesc = 0
  /\ FirstAppDesc = 0
  /\ AppDescNbr = 0

(***************************************************************************)
(* The DMA engine.  It closes the descriptor, whose IOC bit is set, and    *)
(* raises RI.  With no descriptor to write to it drops the frame, which    *)
(* leaves no trace here.                                                   *)
(***************************************************************************)
DmaReceive ==
  /\ arrived < MaxFrame
  /\ own[dmaDesc]
  /\ arrived' = arrived + 1
  /\ Rx_Buff' = [Rx_Buff EXCEPT ![dmaDesc] = arrived + 1]
  /\ own' = [own EXCEPT ![dmaDesc] = FALSE]
  /\ dmaDesc' = INCR_RX_DESC_INDEX(dmaDesc, 1)
  /\ RI' = TRUE
  /\ UNCHANGED appVars

(***************************************************************************)
(* HAL_ETH_GetRxDataBuffer, and HAL_ETH_IsRxDataAvailable that it calls    *)
(* when the driver holds no descriptor: RxDataReady is its HAL_OK outcome, *)
(* RxDataDesc the descriptor whose buffer it returns.  A descriptor that   *)
(* is already held is returned again and the ring is not scanned.          *)
(***************************************************************************)
RxDataReady == AppDescNbr # 0 \/ ~ own[CurRxDesc]

RxDataDesc == IF AppDescNbr # 0 THEN FirstAppDesc ELSE CurRxDesc

(* Mutant of HAL_ETH_GetRxDataBuffer: CurRxDesc is not advanced. *)
GetWithoutAdvance ==
  /\ RxDataReady
  /\ FirstAppDesc' = RxDataDesc
  /\ AppDescNbr' = 1
  /\ UNCHANGED CurRxDesc

HAL_ETH_GetRxDataBuffer ==
  /\ RxDataReady
  /\ FirstAppDesc' = RxDataDesc
  /\ AppDescNbr' = 1
  /\ CurRxDesc' = IF AppDescNbr # 0 THEN CurRxDesc
                  ELSE INCR_RX_DESC_INDEX(CurRxDesc, 1)

(* Mutant of HAL_ETH_BuildRxDescriptors: it starts from CurRxDesc. *)
BuildFromCur ==
  /\ own' = IF AppDescNbr # 0 THEN [own EXCEPT ![CurRxDesc] = TRUE] ELSE own
  /\ AppDescNbr' = 0
  /\ UNCHANGED <<CurRxDesc, FirstAppDesc>>

(* The descriptor held goes back to the DMA with the SAME buffer. *)
HAL_ETH_BuildRxDescriptors ==
  /\ own' = IF AppDescNbr # 0 THEN [own EXCEPT ![FirstAppDesc] = TRUE]
            ELSE own
  /\ AppDescNbr' = 0
  /\ UNCHANGED <<CurRxDesc, FirstAppDesc>>

-----------------------------------------------------------------------------
(* The number of closed descriptors from d to where the DMA writes next, 0 *)
(* when the DMA owns d: what a scan of the ring that starts at d finds.    *)
ClosedFrom(d) ==
  IF own[d] THEN 0
  ELSE IF dmaDesc > d THEN dmaDesc - d
  ELSE dmaDesc + ETH_RX_DESC_CNT - d

(* The oldest descriptor that has not been given back to the DMA. *)
OldestDesc == IF AppDescNbr # 0 THEN FirstAppDesc ELSE CurRxDesc

(* Frames the driver has taken out of the ring. *)
Taken == arrived - ClosedFrom(CurRxDesc)

(* Nothing of the ring is lost, repeated or taken out of order: the        *)
(* descriptors closed and not given back (HAL_ETH_IsRxDataAvailable,       *)
(* HAL_ETH_BuildRxDescriptors) are those from the oldest one up to where   *)
(* the DMA writes next, their buffers hold the latest frames in the order  *)
(* of arrival, and the scan goes on right behind the descriptor held.      *)
RingInOrder ==
  LET closed == ClosedFrom(OldestDesc)
      at(k)  == INCR_RX_DESC_INDEX(OldestDesc, k)
  IN  /\ CurRxDesc = at(AppDescNbr)
      /\ closed >= AppDescNbr
      /\ \A k \in 0 .. ETH_RX_DESC_CNT - 1 :
           /\ own[at(k)] <=> k >= closed
           /\ k < closed => Rx_Buff[at(k)] = arrived - closed + 1 + k
=============================================================================
