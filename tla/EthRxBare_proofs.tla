-------------------------- MODULE EthRxBare_proofs ---------------------------
(***************************************************************************)
(* Proofs about EthRxBare for every size of the ring and of the pool and    *)
(* every number of fragments.                                               *)
(***************************************************************************)
EXTENDS EthRxBare, RxRing_proofs, Integers

-----------------------------------------------------------------------------
(* The inductive invariant.  A pbuf is in hand just between low_level_input *)
(* and the stack, and while no frame has been lost it is the last one       *)
(* taken; the driver holds a descriptor only until it is rebuilt; the       *)
(* elements of the pool are free, kept as fragments, or in hand.            *)
InHand == IF p = 0 THEN 0 ELSE 1

HandInv ==
  /\ isr # "build" => AppDescNbr = 0
  /\ isr \in {"off", "input", "clear"} => p = 0
  /\ isr = "stack" => p # 0

OrderInv ==
  /\ Taken >= 0
  /\ ~ starved => /\ delivered = Taken - InHand
                  /\ p # 0 => p = Taken

BareInv ==
  /\ TypeOK
  /\ RingInv
  /\ HandInv
  /\ RX_POOL + fragments + InHand = PoolSize
  /\ OrderInv

LEMMA BareInit == Init => BareInv
<1> SUFFICES ASSUME Init PROVE BareInv
  OBVIOUS
<1>1. RingInv
  BY RingInvInit DEF Init
<1>2. Taken = 0
  <2>1. 0 \in Desc /\ CurRxDesc = 0 /\ arrived = 0 /\ own = [d \in Desc |-> TRUE]
    BY RingAssumption DEF Init, RingInit, Desc
  <2>2. ClosedFrom(CurRxDesc) = 0
    BY <2>1 DEF ClosedFrom
  <2> QED
    BY <2>1, <2>2 DEF Taken
<1>3. TypeOK
  <2>1. 0 \in 0 .. MaxFrame /\ PoolSize \in 0 .. PoolSize /\ 0 \in 0 .. IP_REASS_MAX_PBUFS
    BY RingAssumption, BareAssumption
  <2> QED
    BY <1>1, <2>1 DEF Init, TypeOK, RingInv
<1> QED
  BY <1>1, <1>2, <1>3, BareAssumption DEF Init, RingInit, BareInv, HandInv, OrderInv, InHand

(* low_level_input: a frame taken is the pbuf in hand, or lost.             *)
LEMMA LowLevelInputKeeps ==
  ASSUME BareInv, LowLevelInput
  PROVE  BareInv'
<1>1. /\ isr = "input" /\ isr' = "build" /\ p = 0 /\ AppDescNbr = 0
      /\ UNCHANGED <<own, dmaVars, RI, fragments, delivered>>
  BY DEF LowLevelInput, BareInv, HandInv
<1>2. Taken \in Nat /\ RX_POOL \in Nat /\ fragments \in Nat /\ PoolSize \in Nat
  <2>1. arrived \in Int /\ ClosedFrom(CurRxDesc) \in Int
    BY CurIsNext DEF BareInv, RingInv, RingTypeOK
  <2> QED
    BY <2>1, BareAssumption DEF BareInv, TypeOK, OrderInv, Taken
<1>3. CASE ~ RxDataReady /\ p' = 0 /\ UNCHANGED <<RX_POOL, appVars, starved>>
  <2>1. RingInv'
    BY <1>1, <1>3, RingInvFrame DEF BareInv, RingInv, RingTypeOK
  <2>2. Taken' = Taken
    BY <1>1, <1>3 DEF dmaVars, appVars, Taken, ClosedFrom
  <2> QED
    BY <1>1, <1>3, <2>1, <2>2
    DEF BareInv, TypeOK, RingInv, HandInv, OrderInv, InHand
<1>4. CASE HAL_ETH_GetRxDataBuffer
  <2>1. RingInv'
    BY <1>1, <1>4, RingInvGet DEF BareInv
  <2>2. Taken' = Taken + 1 /\ Rx_Buff[RxDataDesc] = Taken + 1
    BY <1>1, <1>4, TakenGet DEF BareInv
  <2>3. Rx_Buff[RxDataDesc] \in 0 .. MaxFrame
    BY DEF BareInv, RingInv, RingTypeOK, RxDataDesc
  <2>4. CASE RX_POOL > 0 /\ p' = Rx_Buff[RxDataDesc] /\ RX_POOL' = RX_POOL - 1
             /\ UNCHANGED starved
    <3>1. p' \in 1 .. MaxFrame /\ p' = Taken' /\ InHand' = 1 /\ InHand = 0
      BY <1>1, <1>2, <2>2, <2>3, <2>4 DEF InHand
    <3>2. TypeOK'
      BY <1>1, <1>2, <2>1, <2>4, <3>1 DEF BareInv, TypeOK, RingInv
    <3>3. RX_POOL' + fragments' + InHand' = PoolSize
      BY <1>1, <1>2, <2>4, <3>1 DEF BareInv
    <3>4. OrderInv'
      BY <1>1, <1>2, <2>2, <2>4, <3>1 DEF BareInv, OrderInv
    <3> QED
      BY <1>1, <2>1, <3>1, <3>2, <3>3, <3>4 DEF BareInv, HandInv
  <2>5. CASE RX_POOL = 0 /\ p' = 0 /\ starved' = TRUE /\ UNCHANGED RX_POOL
    BY <1>1, <1>2, <2>1, <2>2, <2>5
    DEF BareInv, TypeOK, RingInv, HandInv, OrderInv, InHand
  <2> QED
    BY <1>3, <2>4, <2>5 DEF LowLevelInput
<1> QED
  BY <1>3, <1>4 DEF LowLevelInput

(* netif->input: the pbuf in hand is delivered, and its element of the pool *)
(* free or among the fragments.                                             *)
LEMMA InputKeeps ==
  ASSUME BareInv, Input
  PROVE  BareInv'
<1>1. /\ isr = "stack" /\ isr' = "input" /\ delivered' = p /\ p' = 0 /\ p # 0
      /\ PbufTaken /\ UNCHANGED <<ringVars, starved>> /\ AppDescNbr = 0
  BY DEF Input, BareInv, HandInv
<1>2. RingInv' /\ Taken' = Taken
  <2>1. UNCHANGED <<own, dmaVars, RI, appVars>>
    BY <1>1 DEF ringVars
  <2>2. RI' \in BOOLEAN
    BY <2>1 DEF BareInv, RingInv, RingTypeOK
  <2> QED
    BY <2>1, <2>2, RingInvFrame DEF dmaVars, appVars, Taken, ClosedFrom, BareInv
<1>3. /\ RX_POOL \in Nat /\ fragments \in 0 .. IP_REASS_MAX_PBUFS
      /\ RX_POOL + fragments + 1 = PoolSize /\ InHand' = 0 /\ InHand = 1
  BY <1>1 DEF BareInv, TypeOK, InHand
<1>4. /\ RX_POOL' \in 0 .. PoolSize
      /\ fragments' \in 0 .. IP_REASS_MAX_PBUFS
      /\ RX_POOL' + fragments' + InHand' = PoolSize
  BY <1>1, <1>3, BareAssumption DEF PbufTaken
<1>5. TypeOK'
  <2>1. p' \in 0 .. MaxFrame
    BY <1>1, RingAssumption
  <2> QED
    BY <1>1, <1>2, <1>4, <2>1 DEF BareInv, TypeOK, RingInv
<1>6. OrderInv'
  <2>1. Taken \in Int
    BY CurIsNext DEF BareInv, RingInv, RingTypeOK, Taken
  <2> QED
    BY <1>1, <1>2, <1>3, <2>1 DEF BareInv, OrderInv
<1>7. HandInv'
  BY <1>1 DEF HandInv, ringVars, appVars
<1> QED
  BY <1>2, <1>4, <1>5, <1>6, <1>7 DEF BareInv

LEMMA BareStep == BareInv /\ [Next]_vars => BareInv'
<1> SUFFICES ASSUME BareInv, [Next]_vars PROVE BareInv'
  OBVIOUS
<1>1. RingInv /\ RingTypeOK /\ TypeOK
  BY DEF BareInv, RingInv
<1>2. CASE DmaStep
  <2>1. RingInv' /\ Taken' = Taken /\ AppDescNbr' = AppDescNbr
    BY <1>1, <1>2, RingInvDma, TakenDma DEF DmaStep, DmaReceive, appVars
  <2> QED
    BY <1>2, <2>1
    DEF DmaStep, histVars, BareInv, TypeOK, RingInv, HandInv, OrderInv, InHand
<1>3. CASE BuildRx
  <2>1. RingInv' /\ Taken' = Taken /\ AppDescNbr' = 0
    BY <1>1, <1>3, RingInvBuild, TakenBuild
    DEF BuildRx, HAL_ETH_BuildRxDescriptors
  <2> QED
    BY <1>3, <2>1
    DEF BuildRx, histVars, BareInv, TypeOK, RingInv, HandInv, OrderInv, InHand
<1>4. CASE IsrEnter \/ ClearRI \/ ReassemblyTimeout \/ UNCHANGED vars
  <2>1. UNCHANGED <<own, dmaVars, appVars>> /\ RI' \in BOOLEAN
    BY <1>1, <1>4
    DEF IsrEnter, ClearRI, ReassemblyTimeout, vars, ringVars, RingTypeOK
  <2>2. RingInv' /\ Taken' = Taken /\ AppDescNbr' = AppDescNbr
    BY <1>1, <2>1, RingInvFrame DEF dmaVars, appVars, Taken, ClosedFrom
  <2>3. UNCHANGED <<p, delivered, starved>>
    BY <1>4 DEF IsrEnter, ClearRI, ReassemblyTimeout, vars, histVars
  <2>4. OrderInv' /\ InHand' = InHand
    BY <2>2, <2>3 DEF BareInv, OrderInv, InHand
  <2>5. HandInv' /\ isr' \in {"off", "input", "build", "stack", "clear"}
    BY <1>1, <1>4, <2>2, <2>3
    DEF IsrEnter, ClearRI, ReassemblyTimeout, vars, BareInv, HandInv, TypeOK
  <2>6. /\ RX_POOL' + fragments' + InHand' = PoolSize
        /\ RX_POOL' \in 0 .. PoolSize /\ fragments' \in 0 .. IP_REASS_MAX_PBUFS
    <3>1. CASE ReassemblyTimeout
      BY <1>1, <2>4, <3>1, BareAssumption DEF ReassemblyTimeout, BareInv, TypeOK, InHand
    <3>2. CASE UNCHANGED <<RX_POOL, fragments>>
      BY <1>1, <2>4, <3>2 DEF BareInv, TypeOK
    <3> QED
      BY <1>4, <3>1, <3>2 DEF IsrEnter, ClearRI, vars
  <2> QED
    BY <1>1, <2>2, <2>3, <2>4, <2>5, <2>6 DEF BareInv, TypeOK, RingInv
<1> QED
  BY <1>2, <1>3, <1>4, LowLevelInputKeeps, InputKeeps DEF Next, Isr

LEMMA BareAlways == Spec => []BareInv
BY BareInit, BareStep, PTL DEF Spec

(* Every variable keeps its type: among other things the pool never has     *)
(* more elements than it was made with, whatever way a pbuf comes back.     *)
THEOREM TypeCorrect == Spec => []TypeOK
<1>1. BareInv => TypeOK
  BY DEF BareInv
<1> QED
  BY <1>1, BareAlways, PTL

(* The ring loses, repeats and reorders nothing in the interrupt handler,   *)
(* also when the pool runs empty.                                           *)
THEOREM RingOrdered == Spec => []RingInOrder
<1>1. BareInv => RingInOrder
  BY DEF BareInv, RingInv
<1> QED
  BY <1>1, BareAlways, PTL

(* Until the pool runs empty every frame is given to the stack, in the      *)
(* order of arrival.                                                        *)
THEOREM HandlerInOrder == Spec => []InOrderThroughIsr
<1>1. BareInv => InOrderThroughIsr
  BY DEF BareInv, OrderInv, InHand, InOrderThroughIsr
<1> QED
  BY <1>1, BareAlways, PTL
=============================================================================
