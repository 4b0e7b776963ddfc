--------------------------- MODULE RxRing_proofs ----------------------------
(***************************************************************************)
(* Lemmas about the operations of the receive ring, for a ring of any size *)
(* of two or more: each keeps the indices in the ring and the ring in      *)
(* order.  EthRx_proofs and EthRxBare_proofs build on them.                *)
(***************************************************************************)
EXTENDS RxRing, Integers, TLAPS

(* An index of the ring advanced by one, or by any number of places up to  *)
(* once around the ring, is an index of the ring.                          *)
LEMMA IndexInRing ==
  ASSUME NEW d \in Desc, NEW k \in 0 .. ETH_RX_DESC_CNT
  PROVE  INCR_RX_DESC_INDEX(d, k) \in Desc
BY RingAssumption DEF Desc, INCR_RX_DESC_INDEX

(* Different numbers of places lead to different indices. *)
LEMMA IndexDistinct ==
  ASSUME NEW d \in Desc,
         NEW j \in 0 .. ETH_RX_DESC_CNT - 1, NEW k \in 0 .. ETH_RX_DESC_CNT - 1,
         INCR_RX_DESC_INDEX(d, j) = INCR_RX_DESC_INDEX(d, k)
  PROVE  j = k
BY RingAssumption DEF Desc, INCR_RX_DESC_INDEX

(* To step by one and then by k is to step by k + 1, around the ring too.  *)
LEMMA IndexShift ==
  ASSUME NEW d \in Desc, NEW k \in 0 .. ETH_RX_DESC_CNT - 1
  PROVE  INCR_RX_DESC_INDEX(INCR_RX_DESC_INDEX(d, 1), k)
           = IF k = ETH_RX_DESC_CNT - 1 THEN d
             ELSE INCR_RX_DESC_INDEX(d, k + 1)
BY RingAssumption DEF Desc, INCR_RX_DESC_INDEX

(* To step by k and then by one is to step by k + 1, once around at most.  *)
LEMMA IndexNext ==
  ASSUME NEW d \in Desc, NEW k \in 0 .. ETH_RX_DESC_CNT - 1
  PROVE  INCR_RX_DESC_INDEX(INCR_RX_DESC_INDEX(d, k), 1)
           = INCR_RX_DESC_INDEX(d, k + 1)
BY RingAssumption DEF Desc, INCR_RX_DESC_INDEX

(* The strengthening of RingInOrder: when nothing is closed, the DMA       *)
(* writes next where the driver looks next.                                *)
RingInv ==
  /\ RingTypeOK
  /\ RingInOrder
  /\ own[OldestDesc] => dmaDesc = OldestDesc

LEMMA RingInvInit == RingInit => RingInv
<1> SUFFICES ASSUME RingInit PROVE RingInv
  OBVIOUS
<1>1. /\ 0 \in Desc
      /\ own = [d \in Desc |-> TRUE]
      /\ Rx_Buff = [d \in Desc |-> 0]
      /\ 0 \in 0 .. MaxFrame
  BY RingAssumption DEF RingInit, Desc
<1>2. RingTypeOK
  <2>1. own \in [Desc -> BOOLEAN] /\ RI \in BOOLEAN
    BY <1>1 DEF RingInit
  <2>2. Rx_Buff \in [Desc -> 0 .. MaxFrame] /\ arrived \in 0 .. MaxFrame
    BY <1>1 DEF RingInit
  <2> QED
    BY <1>1, <2>1, <2>2 DEF RingInit, RingTypeOK
<1>3. OldestDesc = 0
  BY DEF RingInit, OldestDesc
<1>4. ClosedFrom(OldestDesc) = 0
  BY <1>1, <1>3 DEF ClosedFrom
<1>5. ASSUME NEW k \in 0 .. ETH_RX_DESC_CNT - 1
      PROVE  own[INCR_RX_DESC_INDEX(OldestDesc, k)]
  <2>1. INCR_RX_DESC_INDEX(OldestDesc, k) \in Desc
    BY <1>1, <1>3, IndexInRing, RingAssumption
  <2> QED
    BY <1>1, <2>1
<1>6. CurRxDesc = INCR_RX_DESC_INDEX(OldestDesc, AppDescNbr)
  BY <1>3, RingAssumption DEF RingInit, INCR_RX_DESC_INDEX
<1>7. AppDescNbr = 0
  BY DEF RingInit
<1>8. RingInOrder
  <2>1. ASSUME NEW k \in 0 .. ETH_RX_DESC_CNT - 1
        PROVE  k >= 0 /\ ~ (k < 0)
    BY RingAssumption
  <2> QED
    BY <1>4, <1>5, <1>6, <1>7, <2>1 DEF RingInOrder
<1> QED
  BY <1>2, <1>3, <1>8 DEF RingInit, RingInv

(* Where the DMA writes next lies ClosedFrom places after the oldest       *)
(* descriptor, which is once around the ring when none is left to it.      *)
LEMMA DmaBehindClosed ==
  ASSUME RingInv
  PROVE  /\ OldestDesc \in Desc
         /\ ClosedFrom(OldestDesc) \in 0 .. ETH_RX_DESC_CNT
         /\ dmaDesc = INCR_RX_DESC_INDEX(OldestDesc, ClosedFrom(OldestDesc))
         /\ own[dmaDesc] => ClosedFrom(OldestDesc) < ETH_RX_DESC_CNT
<1>1. OldestDesc \in Desc
  BY DEF RingInv, RingTypeOK, OldestDesc
<1>2. dmaDesc \in Desc
  BY DEF RingInv, RingTypeOK
<1>3. ClosedFrom(OldestDesc) \in 0 .. ETH_RX_DESC_CNT
  BY <1>1, <1>2, RingAssumption DEF ClosedFrom, Desc
<1>4. dmaDesc = INCR_RX_DESC_INDEX(OldestDesc, ClosedFrom(OldestDesc))
  BY <1>1, <1>2, RingAssumption
  DEF ClosedFrom, Desc, INCR_RX_DESC_INDEX, RingInv
<1>5. ASSUME own[dmaDesc], ClosedFrom(OldestDesc) = ETH_RX_DESC_CNT
      PROVE  FALSE
  <2>1. dmaDesc = OldestDesc
    BY <1>1, <1>4, <1>5, RingAssumption DEF INCR_RX_DESC_INDEX, Desc
  <2> QED
    BY <1>5, <2>1, RingAssumption DEF ClosedFrom
<1> QED
  BY <1>1, <1>3, <1>4, <1>5, RingAssumption

(* A frame that the DMA writes is one more closed descriptor at the end.   *)
LEMMA RingInvDma ==
  ASSUME RingInv, DmaReceive
  PROVE  RingInv'
<1> DEFINE o == OldestDesc
           c == ClosedFrom(o)
           at(k) == INCR_RX_DESC_INDEX(o, k)
<1>1. /\ o \in Desc
      /\ c \in 0 .. ETH_RX_DESC_CNT - 1
      /\ dmaDesc = at(c)
  BY DmaBehindClosed, RingAssumption DEF DmaReceive
<1>2. OldestDesc' = o /\ CurRxDesc' = CurRxDesc /\ AppDescNbr' = AppDescNbr
  BY DEF DmaReceive, appVars, OldestDesc
<1>3. /\ CurRxDesc = at(AppDescNbr)
      /\ c >= AppDescNbr
      /\ \A k \in 0 .. ETH_RX_DESC_CNT - 1 :
           /\ own[at(k)] <=> k >= c
           /\ k < c => Rx_Buff[at(k)] = arrived - c + 1 + k
  BY DEF RingInv, RingInOrder
<1>4. \A k \in 0 .. ETH_RX_DESC_CNT - 1 : at(k) \in Desc /\ (at(k) = at(c) => k = c)
  BY <1>1, IndexInRing, IndexDistinct, RingAssumption
<1>5. dmaDesc' = at(c + 1)
  BY <1>1, IndexNext DEF DmaReceive
<1>6. \A d \in Desc : own'[d] = IF d = at(c) THEN FALSE ELSE own[d]
  BY <1>1 DEF DmaReceive, RingInv, RingTypeOK
<1>7. ~ own'[o]
  <2>1. at(0) = o
    BY <1>1, RingAssumption DEF INCR_RX_DESC_INDEX, Desc
  <2>2. CASE c = 0
    BY <1>1, <1>6, <2>1, <2>2
  <2>3. CASE c > 0
    <3>1. 0 \in 0 .. ETH_RX_DESC_CNT - 1 /\ ~ (0 >= c)
      BY <1>1, <2>3, RingAssumption
    <3>2. ~ own[at(0)]
      BY <1>3, <3>1
    <3> QED
      BY <1>1, <1>6, <2>1, <3>2
  <2> QED
    BY <1>1, <2>2, <2>3
<1>8. ClosedFrom(o)' = c + 1
  BY <1>1, <1>2, <1>5, <1>7, RingAssumption
  DEF ClosedFrom, INCR_RX_DESC_INDEX, Desc
<1>9. ASSUME NEW k \in 0 .. ETH_RX_DESC_CNT - 1
      PROVE  /\ own'[at(k)] <=> k >= c + 1
             /\ k < c + 1 => Rx_Buff'[at(k)] = arrived' - (c + 1) + 1 + k
  <2>1. arrived \in Nat /\ arrived' = arrived + 1 /\ c \in Nat /\ k \in Nat
    BY <1>1, RingAssumption DEF DmaReceive, RingInv, RingTypeOK
  <2>2. \A d \in Desc : Rx_Buff'[d] = IF d = at(c) THEN arrived + 1 ELSE Rx_Buff[d]
    BY <1>1 DEF DmaReceive, RingInv, RingTypeOK
  <2>3. CASE k = c
    <3>1. own'[at(k)] = FALSE /\ Rx_Buff'[at(k)] = arrived + 1
      BY <1>4, <1>6, <2>2, <2>3
    <3>2. ~ (k >= c + 1) /\ arrived' - (c + 1) + 1 + k = arrived + 1
      BY <2>1, <2>3
    <3> QED
      BY <3>1, <3>2
  <2>4. CASE k # c
    <3>1. at(k) # at(c) /\ at(k) \in Desc
      BY <1>4, <2>4
    <3>2. own'[at(k)] = own[at(k)] /\ Rx_Buff'[at(k)] = Rx_Buff[at(k)]
      BY <1>6, <2>2, <3>1
    <3>3. k >= c <=> k >= c + 1
      BY <2>1, <2>4
    <3>4. k < c + 1 => k < c /\ arrived' - (c + 1) + 1 + k = arrived - c + 1 + k
      BY <2>1, <2>4
    <3> QED
      BY <1>3, <3>2, <3>3, <3>4
  <2> QED
    BY <2>3, <2>4
<1>10. RingInOrder'
  <2>1. c + 1 >= AppDescNbr
    BY <1>1, <1>3, RingAssumption DEF RingInv, RingTypeOK
  <2>2. \A k : INCR_RX_DESC_INDEX(OldestDesc, k)' = at(k)
    BY <1>2 DEF INCR_RX_DESC_INDEX
  <2> QED
    BY <1>2, <1>3, <1>8, <1>9, <2>1, <2>2 DEF RingInOrder
<1>11. RingTypeOK'
  <2>1. dmaDesc' \in Desc
    BY <1>1, <1>5, IndexInRing, RingAssumption
  <2>2. arrived' \in 0 .. MaxFrame
    BY RingAssumption DEF DmaReceive, RingInv, RingTypeOK
  <2>3. own' \in [Desc -> BOOLEAN] /\ Rx_Buff' \in [Desc -> 0 .. MaxFrame]
    BY <2>2 DEF DmaReceive, RingInv, RingTypeOK
  <2> QED
    BY <2>1, <2>2, <2>3 DEF DmaReceive, appVars, RingInv, RingTypeOK
<1> QED
  BY <1>2, <1>7, <1>10, <1>11 DEF RingInv

(* Taking the oldest frame out of the ring moves the scan by one and       *)
(* leaves the order as it is.                                              *)
LEMMA RingInvGet ==
  ASSUME RingInv, HAL_ETH_GetRxDataBuffer, UNCHANGED <<own, dmaVars, RI>>
  PROVE  RingInv'
<1>1. CASE AppDescNbr # 0
  <2>1. UNCHANGED <<own, Rx_Buff, dmaDesc, RI, arrived, CurRxDesc, FirstAppDesc>>
        /\ AppDescNbr' = 1 /\ AppDescNbr = 1
    BY <1>1
    DEF HAL_ETH_GetRxDataBuffer, RxDataDesc, dmaVars, RingInv, RingTypeOK
  <2> QED
    BY <2>1
    DEF RingInv, RingTypeOK, RingInOrder, OldestDesc, ClosedFrom,
        INCR_RX_DESC_INDEX
<1>2. CASE AppDescNbr = 0
  <2>1. /\ UNCHANGED <<own, Rx_Buff, dmaDesc, RI, arrived>>
        /\ ~ own[CurRxDesc]
        /\ CurRxDesc \in Desc
        /\ FirstAppDesc' = CurRxDesc
        /\ AppDescNbr' = 1
        /\ CurRxDesc' = INCR_RX_DESC_INDEX(CurRxDesc, 1)
    BY <1>2
    DEF HAL_ETH_GetRxDataBuffer, RxDataDesc, RxDataReady, dmaVars, RingInv,
        RingTypeOK
  <2>2. OldestDesc = CurRxDesc /\ OldestDesc' = CurRxDesc
    BY <1>2, <2>1 DEF OldestDesc
  <2>3. ClosedFrom(OldestDesc)' = ClosedFrom(OldestDesc)
    BY <2>1, <2>2 DEF ClosedFrom
  <2>4. ClosedFrom(OldestDesc) >= 1
    BY <2>1, <2>2, RingAssumption DEF ClosedFrom, Desc, RingInv, RingTypeOK
  <2>5. RingInOrder'
    BY <2>1, <2>2, <2>3, <2>4 DEF RingInv, RingInOrder, INCR_RX_DESC_INDEX
  <2>6. RingTypeOK'
    BY <2>1, IndexInRing, RingAssumption DEF RingInv, RingTypeOK
  <2> QED
    BY <2>1, <2>2, <2>5, <2>6 DEF RingInv
<1> QED
  BY <1>1, <1>2

(* Giving the descriptor held back to the DMA makes the next one the       *)
(* oldest and leaves the frames behind it where they are.                  *)
LEMMA RingInvBuild ==
  ASSUME RingInv, HAL_ETH_BuildRxDescriptors, UNCHANGED <<dmaVars, RI>>
  PROVE  RingInv'
<1>1. CASE AppDescNbr = 0
  BY <1>1
  DEF HAL_ETH_BuildRxDescriptors, dmaVars, RingInv, RingTypeOK, RingInOrder,
      OldestDesc, ClosedFrom, INCR_RX_DESC_INDEX
<1>2. CASE AppDescNbr # 0
  <2> DEFINE o == FirstAppDesc
             n == CurRxDesc
             c == ClosedFrom(o)
             at(k) == INCR_RX_DESC_INDEX(o, k)
  <2>1. /\ AppDescNbr = 1 /\ AppDescNbr' = 0
        /\ UNCHANGED <<Rx_Buff, dmaDesc, RI, arrived, CurRxDesc, FirstAppDesc>>
        /\ o \in Desc /\ n \in Desc
        /\ OldestDesc = o /\ OldestDesc' = n
        /\ arrived \in Nat
    BY <1>2, RingAssumption
    DEF HAL_ETH_BuildRxDescriptors, dmaVars, RingInv, RingTypeOK, OldestDesc
  <2>2. /\ n = at(1)
        /\ c \in 1 .. ETH_RX_DESC_CNT
        /\ dmaDesc = at(c)
        /\ \A k \in 0 .. ETH_RX_DESC_CNT - 1 :
             /\ own[at(k)] <=> k >= c
             /\ k < c => Rx_Buff[at(k)] = arrived - c + 1 + k
    BY <2>1, DmaBehindClosed, RingAssumption DEF RingInv, RingInOrder
  <2>3. \A d \in Desc : own'[d] = IF d = o THEN TRUE ELSE own[d]
    BY <1>2, <2>1 DEF HAL_ETH_BuildRxDescriptors, RingInv, RingTypeOK
  <2>4. n # o
    BY <2>1, <2>2, RingAssumption DEF INCR_RX_DESC_INDEX, Desc
  <2>5. own'[n] <=> c = 1
    <3>1. 1 \in 0 .. ETH_RX_DESC_CNT - 1 /\ (1 >= c <=> c = 1)
      BY <2>2, RingAssumption
    <3>2. own[n] <=> c = 1
      BY <2>2, <3>1
    <3> QED
      BY <2>1, <2>3, <2>4, <3>2
  <2>6. ClosedFrom(n)' = c - 1
    BY <2>1, <2>2, <2>5, RingAssumption
    DEF ClosedFrom, INCR_RX_DESC_INDEX, Desc
  <2>7. ASSUME NEW k \in 0 .. ETH_RX_DESC_CNT - 1
        PROVE  /\ own'[INCR_RX_DESC_INDEX(n, k)] <=> k >= c - 1
               /\ k < c - 1 => Rx_Buff'[INCR_RX_DESC_INDEX(n, k)]
                                 = arrived' - (c - 1) + 1 + k
    <3>1. CASE k = ETH_RX_DESC_CNT - 1
      <4>1. INCR_RX_DESC_INDEX(n, k) = o
        BY <2>1, <2>2, <3>1, IndexShift
      <4>2. k >= c - 1 /\ ~ (k < c - 1)
        BY <2>2, <3>1, RingAssumption
      <4>3. own'[o]
        BY <2>1, <2>3
      <4> QED
        BY <4>1, <4>2, <4>3
    <3>2. CASE k # ETH_RX_DESC_CNT - 1
      <4>1. /\ k + 1 \in 0 .. ETH_RX_DESC_CNT - 1
            /\ k + 1 # 0
        BY <3>2, RingAssumption
      <4>2. INCR_RX_DESC_INDEX(n, k) = at(k + 1)
        BY <2>1, <2>2, <3>2, IndexShift
      <4>3. at(k + 1) \in Desc /\ at(k + 1) # o
        BY <2>1, <4>1, RingAssumption DEF INCR_RX_DESC_INDEX, Desc
      <4>4. own'[at(k + 1)] = own[at(k + 1)]
        BY <2>3, <4>3
      <4>5. /\ k + 1 >= c <=> k >= c - 1
            /\ k + 1 < c <=> k < c - 1
            /\ arrived - c + 1 + (k + 1) = arrived' - (c - 1) + 1 + k
        BY <2>1, <2>2, RingAssumption
      <4>6. /\ own[at(k + 1)] <=> k + 1 >= c
            /\ k + 1 < c => Rx_Buff[at(k + 1)] = arrived - c + 1 + (k + 1)
        BY <2>2, <4>1
      <4> QED
        BY <2>1, <4>2, <4>4, <4>5, <4>6
    <3> QED
      BY <3>1, <3>2
  <2>8. RingInOrder'
    <3>1. ClosedFrom(OldestDesc)' = c - 1 /\ c - 1 >= 0
      BY <2>1, <2>2, <2>6, RingAssumption DEF ClosedFrom
    <3>2. \A k : INCR_RX_DESC_INDEX(OldestDesc, k)' = INCR_RX_DESC_INDEX(n, k)
      BY <2>1 DEF INCR_RX_DESC_INDEX
    <3>3. n = INCR_RX_DESC_INDEX(n, 0)
      BY <2>1, RingAssumption DEF INCR_RX_DESC_INDEX, Desc
    <3> QED
      BY <2>1, <2>7, <3>1, <3>2, <3>3 DEF RingInOrder
  <2>9. RingTypeOK'
    <3>1. own' \in [Desc -> BOOLEAN]
      BY <1>2, <2>1 DEF HAL_ETH_BuildRxDescriptors, RingInv, RingTypeOK
    <3> QED
      BY <2>1, <3>1 DEF RingInv, RingTypeOK
  <2>10. own'[n] => dmaDesc' = n
    BY <2>1, <2>2, <2>5
  <2> QED
    BY <2>1, <2>8, <2>9, <2>10 DEF RingInv
<1> QED
  BY <1>1, <1>2

(* A step that leaves the descriptors and the indices alone, such as the   *)
(* interrupt clearing RI, keeps the invariant.                             *)
LEMMA RingInvFrame ==
  ASSUME RingInv, UNCHANGED <<own, dmaVars, appVars>>, RI' \in BOOLEAN
  PROVE  RingInv'
BY DEF dmaVars, appVars, RingInv, RingTypeOK, RingInOrder, OldestDesc,
       ClosedFrom, INCR_RX_DESC_INDEX
-----------------------------------------------------------------------------
(* What a scan of the ring finds.                                          *)

(* When the next descriptor to look at is the DMA's, it is the one the DMA *)
(* writes next, whether the driver holds a descriptor or not.              *)
LEMMA CurIsNext ==
  ASSUME RingInv
  PROVE  /\ CurRxDesc \in Desc /\ dmaDesc \in Desc
         /\ own[CurRxDesc] => dmaDesc = CurRxDesc
         /\ ClosedFrom(CurRxDesc) \in 0 .. ETH_RX_DESC_CNT
<1>1. /\ CurRxDesc \in Desc /\ dmaDesc \in Desc /\ AppDescNbr \in 0 .. 1
      /\ ClosedFrom(OldestDesc) \in 0 .. ETH_RX_DESC_CNT
      /\ dmaDesc = INCR_RX_DESC_INDEX(OldestDesc, ClosedFrom(OldestDesc))
  BY DmaBehindClosed DEF RingInv, RingTypeOK
<1>2. /\ CurRxDesc = INCR_RX_DESC_INDEX(OldestDesc, AppDescNbr)
      /\ ClosedFrom(OldestDesc) >= AppDescNbr
      /\ own[INCR_RX_DESC_INDEX(OldestDesc, AppDescNbr)]
           <=> AppDescNbr >= ClosedFrom(OldestDesc)
  BY <1>1, RingAssumption DEF RingInv, RingInOrder
<1>3. own[CurRxDesc] => dmaDesc = CurRxDesc
  <2>1. own[CurRxDesc] => ClosedFrom(OldestDesc) = AppDescNbr
    BY <1>1, <1>2
  <2> QED
    BY <1>1, <1>2, <2>1
<1>4. ClosedFrom(CurRxDesc) \in 0 .. ETH_RX_DESC_CNT
  BY <1>1, RingAssumption DEF ClosedFrom, Desc
<1> QED
  BY <1>1, <1>3, <1>4

(* A frame that arrives is not taken yet.                                  *)
LEMMA TakenDma ==
  ASSUME RingInv, DmaReceive
  PROVE  Taken' = Taken
<1>1. /\ CurRxDesc \in Desc /\ dmaDesc \in Desc
      /\ own[CurRxDesc] => dmaDesc = CurRxDesc
  BY CurIsNext
<1>2. /\ own[dmaDesc] /\ arrived' = arrived + 1 /\ CurRxDesc' = CurRxDesc
      /\ dmaDesc' = INCR_RX_DESC_INDEX(dmaDesc, 1)
      /\ own'[CurRxDesc] = IF dmaDesc = CurRxDesc THEN FALSE ELSE own[CurRxDesc]
  BY <1>1 DEF DmaReceive, appVars, RingInv, RingTypeOK
<1>3. ClosedFrom(CurRxDesc)' = ClosedFrom(CurRxDesc) + 1
  BY <1>1, <1>2, RingAssumption DEF ClosedFrom, INCR_RX_DESC_INDEX, Desc
<1>4. arrived \in Nat /\ ClosedFrom(CurRxDesc) \in Nat
  BY CurIsNext, RingAssumption DEF RingInv, RingTypeOK
<1> QED
  BY <1>2, <1>3, <1>4 DEF Taken

(* Looking at a closed descriptor takes one frame, the next in the order   *)
(* of arrival.                                                             *)
LEMMA TakenGet ==
  ASSUME RingInv, HAL_ETH_GetRxDataBuffer, UNCHANGED <<own, dmaVars, RI>>,
         AppDescNbr = 0
  PROVE  Taken' = Taken + 1 /\ Rx_Buff[RxDataDesc] = Taken + 1
<1>1. /\ CurRxDesc \in Desc /\ dmaDesc \in Desc
      /\ ~ own[CurRxDesc] /\ OldestDesc = CurRxDesc /\ RxDataDesc = CurRxDesc
      /\ CurRxDesc' = INCR_RX_DESC_INDEX(CurRxDesc, 1)
      /\ UNCHANGED <<own, dmaDesc, arrived>>
  BY CurIsNext
  DEF HAL_ETH_GetRxDataBuffer, RxDataReady, RxDataDesc, OldestDesc, dmaVars
<1>2. arrived \in Nat
  BY RingAssumption DEF RingInv, RingTypeOK
<1>3. ClosedFrom(CurRxDesc) \in 1 .. ETH_RX_DESC_CNT
  BY <1>1, RingAssumption DEF ClosedFrom, Desc
<1>4. Rx_Buff[CurRxDesc] = arrived - ClosedFrom(CurRxDesc) + 1
  <2>1. INCR_RX_DESC_INDEX(CurRxDesc, 0) = CurRxDesc /\ 0 \in 0 .. ETH_RX_DESC_CNT - 1
    BY <1>1, RingAssumption DEF INCR_RX_DESC_INDEX, Desc
  <2>2. 0 < ClosedFrom(CurRxDesc) =>
          Rx_Buff[INCR_RX_DESC_INDEX(CurRxDesc, 0)]
            = arrived - ClosedFrom(CurRxDesc) + 1 + 0
    BY <1>1, <2>1 DEF RingInv, RingInOrder
  <2> QED
    BY <1>2, <1>3, <2>1, <2>2
<1>5. ClosedFrom(CurRxDesc)' = ClosedFrom(CurRxDesc) - 1
  <2>1. CurRxDesc' \in Desc
    BY <1>1, IndexInRing, RingAssumption
  <2>2. own[CurRxDesc'] <=> ClosedFrom(CurRxDesc) = 1
    <3>1. own[INCR_RX_DESC_INDEX(CurRxDesc, 1)] <=> 1 >= ClosedFrom(CurRxDesc)
      BY <1>1, RingAssumption DEF RingInv, RingInOrder
    <3> QED
      BY <1>1, <1>3, <3>1
  <2> QED
    BY <1>1, <1>3, <2>1, <2>2, RingAssumption
    DEF ClosedFrom, INCR_RX_DESC_INDEX, Desc
<1> QED
  BY <1>1, <1>2, <1>3, <1>4, <1>5 DEF Taken

(* Giving a descriptor back takes no frame.                                *)
LEMMA TakenBuild ==
  ASSUME RingInv, HAL_ETH_BuildRxDescriptors, UNCHANGED <<dmaVars, RI>>
  PROVE  Taken' = Taken
<1>1. CASE AppDescNbr = 0
  BY <1>1 DEF HAL_ETH_BuildRxDescriptors, dmaVars, Taken, ClosedFrom
<1>2. CASE AppDescNbr # 0
  <2>1. /\ AppDescNbr = 1 /\ FirstAppDesc \in Desc /\ OldestDesc = FirstAppDesc
        /\ CurRxDesc = INCR_RX_DESC_INDEX(FirstAppDesc, 1)
    BY <1>2 DEF RingInv, RingTypeOK, RingInOrder, OldestDesc
  <2>2. CurRxDesc # FirstAppDesc
    BY <2>1, RingAssumption DEF INCR_RX_DESC_INDEX, Desc
  <2>3. own'[CurRxDesc] = own[CurRxDesc] /\ CurRxDesc' = CurRxDesc
    BY <1>2, <2>2, CurIsNext
    DEF HAL_ETH_BuildRxDescriptors, RingInv, RingTypeOK
  <2> QED
    BY <2>3 DEF dmaVars, Taken, ClosedFrom
<1> QED
  BY <1>1, <1>2

(* The closed descriptors that a scan finds hold the frames that follow    *)
(* those already taken, in the order of arrival.                           *)
LEMMA BacklogInOrder ==
  ASSUME RingInv
  PROVE  /\ ClosedFrom(CurRxDesc) \in Nat
         /\ arrived = Taken + ClosedFrom(CurRxDesc)
         /\ Taken \in Int
         /\ \A k \in 1 .. ClosedFrom(CurRxDesc) :
              Rx_Buff[INCR_RX_DESC_INDEX(CurRxDesc, k - 1)] = Taken + k
<1> DEFINE o == OldestDesc
           c == ClosedFrom(o)
           a == AppDescNbr
           n == ClosedFrom(CurRxDesc)
<1>1. /\ CurRxDesc \in Desc /\ dmaDesc \in Desc /\ arrived \in Nat
      /\ n \in 0 .. ETH_RX_DESC_CNT /\ a \in 0 .. 1
  BY CurIsNext, RingAssumption DEF RingInv, RingTypeOK
<1>2. /\ o \in Desc /\ c \in 0 .. ETH_RX_DESC_CNT
      /\ dmaDesc = INCR_RX_DESC_INDEX(o, c)
  BY DmaBehindClosed
<1>3. /\ CurRxDesc = INCR_RX_DESC_INDEX(o, a) /\ c >= a
      /\ \A k \in 0 .. ETH_RX_DESC_CNT - 1 :
           /\ own[INCR_RX_DESC_INDEX(o, k)] <=> k >= c
           /\ k < c => Rx_Buff[INCR_RX_DESC_INDEX(o, k)] = arrived - c + 1 + k
  BY DEF RingInv, RingInOrder
<1>4. n = c - a
  <2>1. CASE a = 0
    BY <1>1, <1>2, <2>1 DEF OldestDesc
  <2>2. CASE a = 1
    <3>1. own[CurRxDesc] <=> 1 >= c
      BY <1>1, <1>3, <2>2, RingAssumption
    <3> QED
      BY <1>1, <1>2, <1>3, <2>2, <3>1, RingAssumption
      DEF ClosedFrom, INCR_RX_DESC_INDEX, Desc
  <2> QED
    BY <1>1, <2>1, <2>2
<1>5. ASSUME NEW k \in 1 .. n
      PROVE  Rx_Buff[INCR_RX_DESC_INDEX(CurRxDesc, k - 1)] = arrived - n + k
  <2>1. /\ a + (k - 1) \in 0 .. ETH_RX_DESC_CNT - 1 /\ a + (k - 1) < c
        /\ arrived - c + 1 + (a + (k - 1)) = arrived - n + k
    <3> HIDE DEF a, c, n
    <3> QED
      BY <1>1, <1>2, <1>4, RingAssumption
  <2>2. INCR_RX_DESC_INDEX(CurRxDesc, k - 1) = INCR_RX_DESC_INDEX(o, a + (k - 1))
    BY <1>1, <1>2, <1>3, <2>1, RingAssumption DEF INCR_RX_DESC_INDEX, Desc
  <2> QED
    BY <1>3, <2>1, <2>2
<1> QED
  BY <1>1, <1>5 DEF Taken
=============================================================================
