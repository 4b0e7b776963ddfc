---------------------------- MODULE EthRx_proofs ----------------------------
(***************************************************************************)
(* Proofs about EthRx for every size of the ring, of the pool and of the   *)
(* mailboxes, every count of the semaphore and any two task priorities.    *)
(***************************************************************************)
EXTENDS EthRx, RxRing_proofs, FiniteSetTheorems, SequenceTheorems

(* The pbuf that low_level_input makes is never the NULL pointer. *)
LEMMA NewPbufType ==
  ASSUME TypeOK, NEW e \in RX_POOL
  PROVE  NewPbuf(e) \in Pbuf
<1>1. RxDataDesc \in Desc
  BY DEF TypeOK, RingTypeOK, RxDataDesc
<1>2. Rx_Buff[RxDataDesc] \in 0 .. MaxFrame
  BY <1>1 DEF TypeOK, RingTypeOK
<1>3. e \in Pbufs
  BY DEF TypeOK
<1> QED
  BY <1>1, <1>2, <1>3 DEF NewPbuf, Pbuf

(* What TypeOK needs to be inductive: the ETHIN task writes back a count   *)
(* that it has read as positive, and posts a pbuf that exists.             *)
TypeInv ==
  /\ TypeOK
  /\ ethin = "taking" => semRead > 0
  /\ ethin = "post" => p # NoPbuf

LEMMA TypeInit == Init => TypeInv
<1> SUFFICES ASSUME Init PROVE TypeInv
  OBVIOUS
<1>1. RingTypeOK
  BY RingAssumption DEF Init, RingInit, RingTypeOK, Desc
<1>2. /\ s_xSemaphore \in 0 .. MaxSem
      /\ semRead \in 0 .. MaxSem
      /\ delivered \in 0 .. MaxFrame
  BY RingAssumption, RxAssumption DEF Init
<1>3. tcpip_mbox \in Seq(Pbuf)
  BY DEF Init
<1> QED
  BY <1>1, <1>2, <1>3 DEF Init, TypeInv, TypeOK

(* Letting go of a held pbuf keeps every type. *)
LEMMA HeldType ==
  ASSUME TypeInv, FreeHeld
  PROVE  TypeInv'
<1>1. PICK b \in held : held' = held \ {b} /\ pbuf_free_custom(b)
  BY DEF FreeHeld
<1>2. b.id \in Pbufs
  BY DEF TypeInv, TypeOK, Pbuf
<1> QED
  BY <1>1, <1>2
  DEF FreeHeld, pbuf_free_custom, TypeInv, TypeOK, RingTypeOK, ringVars, dmaVars,
      appVars, taskVars, lwipVars, histVars

(* Each step of the DMA, the interrupt, the tasks and the application      *)
(* leaves every variable in its type.                                      *)
LEMMA TypeStep == TypeInv /\ [Next]_vars => TypeInv'
<1> SUFFICES ASSUME TypeInv, [Next]_vars PROVE TypeInv'
  OBVIOUS
<1> USE DEF TypeInv
<1>1. CASE DmaStep
  <2>1. dmaDesc' \in Desc
    BY <1>1, IndexInRing, RingAssumption
    DEF DmaStep, DmaReceive, TypeOK, RingTypeOK
  <2> QED
    BY <1>1, <2>1, RingAssumption
    DEF DmaStep, DmaReceive, TypeOK, RingTypeOK, appVars, taskVars, lwipVars,
        histVars
<1>2. CASE Isr
  <2> USE RxAssumption DEF TypeOK, RingTypeOK, ringVars, dmaVars, appVars,
                           taskVars, lwipVars, histVars
  <2>1. CASE IsrCall1
    BY <2>1 DEF IsrCall1, GiveFromISR
  <2>2. CASE IsrClear1
    BY <2>2 DEF IsrClear1, ClearRI
  <2>3. CASE IsrCall2
    BY <2>3 DEF IsrCall2, GiveFromISR
  <2>4. CASE IsrClear2
    BY <2>4 DEF IsrClear2, ClearRI
  <2> QED
    BY <1>2, <2>1, <2>2, <2>3, <2>4 DEF Isr
<1>3. CASE Ethin
  <2> USE DEF TypeOK, RingTypeOK, ringVars, dmaVars, appVars, taskVars,
              lwipVars, histVars
  <2>1. CASE EthinTake
    BY <2>1 DEF EthinTake, SemRead
  <2>2. CASE SemWrite
    BY <2>2, RxAssumption DEF SemWrite
  <2>3. CASE LowLevelInput
    <3>1. ASSUME HAL_ETH_GetRxDataBuffer
          PROVE  FirstAppDesc' \in Desc /\ AppDescNbr' \in 0 .. 1 /\ CurRxDesc' \in Desc
      BY <3>1, IndexInRing, RingAssumption
      DEF HAL_ETH_GetRxDataBuffer, RxDataDesc
    <3>2. p' \in Pbuf \cup {NoPbuf} /\ RX_POOL' \in SUBSET Pbufs
      BY <2>3, NewPbufType DEF LowLevelInput
    <3> QED
      BY <2>3, <3>1, <3>2 DEF LowLevelInput
  <2>4. CASE BuildRx
    BY <2>4 DEF BuildRx, HAL_ETH_BuildRxDescriptors
  <2>5. CASE PostOk
    <3>1. p \in Pbuf
      BY <2>5 DEF PostOk
    <3>2. p.frame \in 0 .. MaxFrame
      BY <3>1 DEF Pbuf
    <3>3. Append(tcpip_mbox, p) \in Seq(Pbuf)
      BY <3>1
    <3> QED
      BY <2>5, <3>2, <3>3 DEF PostOk
  <2>6. CASE PostErr
    <3>1. p.id \in Pbufs
      BY <2>6 DEF PostErr, Pbuf
    <3> QED
      BY <2>6, <3>1 DEF PostErr, pbuf_free_custom
  <2>7. CASE TryNext
    BY <2>7 DEF TryNext, SemRead
  <2> QED
    BY <1>3, <2>1, <2>2, <2>3, <2>4, <2>5, <2>6, <2>7 DEF Ethin
<1>4. CASE Tcpip
  <2> USE DEF TypeOK, RingTypeOK, ringVars, dmaVars, appVars, taskVars,
              lwipVars, histVars
  <2>1. CASE TcpipFetch
    <3>1. Head(tcpip_mbox) \in Pbuf /\ Tail(tcpip_mbox) \in Seq(Pbuf)
      BY <2>1 DEF TcpipFetch
    <3> QED
      BY <2>1, <3>1 DEF TcpipFetch
  <2>2. CASE TcpipFree
    <3>1. work.id \in Pbufs
      BY <2>2 DEF TcpipFree, Pbuf
    <3> QED
      BY <2>2, <3>1 DEF TcpipFree, pbuf_free_custom
  <2>3. CASE TcpipKeep
    BY <2>3 DEF TcpipKeep
  <2>4. CASE TcpipWedge
    BY <2>4 DEF TcpipWedge
  <2>5. CASE TimerFree
    BY <2>5, HeldType DEF TimerFree
  <2> QED
    BY <1>4, <2>1, <2>2, <2>3, <2>4, <2>5 DEF Tcpip
<1>5. CASE AppFree
  BY <1>5, HeldType DEF AppFree
<1>6. CASE UNCHANGED vars
  BY <1>6 DEF vars, TypeOK, RingTypeOK, ringVars, dmaVars, appVars, taskVars,
              lwipVars, histVars
<1> QED
  BY <1>1, <1>2, <1>3, <1>4, <1>5, <1>6 DEF Next

(* Type correctness: no count, index, place or queue of the receive path   *)
(* ever leaves its range.                                                  *)
THEOREM TypeCorrect == Spec => []TypeOK
<1>1. TypeInv => TypeOK
  BY DEF TypeInv
<1> QED
  BY <1>1, TypeInit, TypeStep, PTL DEF Spec

-----------------------------------------------------------------------------
(* NoLostWakeup is not inductive.  It needs that the semaphore is up from  *)
(* the interrupt's first give to its return, because it clears RI after    *)
(* it, and that the ETHIN task is covered from the scan that found the     *)
(* ring empty, not only from when it sleeps.                               *)
GiveBeforeClear == isr # "off" => s_xSemaphore > 0

Covered ==
  /\ ethin = "wait" \/ (ethin = "build" /\ p = NoPbuf)
  /\ ~ cutShort
  /\ ~ own[CurRxDesc]
  => RI \/ s_xSemaphore > 0

WakeInv == TypeInv /\ GiveBeforeClear /\ Covered

LEMMA GiveBeforeClearStep ==
  ASSUME TypeInv, GiveBeforeClear, [Next]_vars
  PROVE  GiveBeforeClear'
<1> USE DEF GiveBeforeClear
<1>1. CASE Isr
  <2> USE RxAssumption DEF TypeInv, TypeOK
  <2>1. CASE IsrCall1
    BY <2>1 DEF IsrCall1, GiveFromISR
  <2>2. CASE IsrClear1
    BY <2>2 DEF IsrClear1
  <2>3. CASE IsrCall2
    BY <2>3 DEF IsrCall2, GiveFromISR
  <2>4. CASE IsrClear2
    BY <2>4 DEF IsrClear2
  <2> QED
    BY <1>1, <2>1, <2>2, <2>3, <2>4 DEF Isr
<1>2. CASE Ethin
  BY <1>2
  DEF Ethin, EthinRuns, EthinTake, SemWrite, LowLevelInput, BuildRx, PostOk,
      PostErr, TryNext
<1>3. CASE Tcpip \/ AppFree
  BY <1>3 DEF Tcpip, TcpipFetch, TcpipFree, TcpipKeep, TcpipWedge, TimerFree,
        AppFree, FreeHeld
<1>4. CASE DmaStep \/ UNCHANGED vars
  BY <1>4 DEF DmaStep, vars
<1> QED
  BY <1>1, <1>2, <1>3, <1>4 DEF Next

LEMMA CoveredStep ==
  ASSUME TypeInv, GiveBeforeClear, Covered, [Next]_vars
  PROVE  Covered'
<1> USE DEF Covered
<1>1. CASE DmaStep
  BY <1>1 DEF DmaStep, DmaReceive
<1>2. CASE Isr
  <2> USE RxAssumption DEF TypeInv, TypeOK, ringVars, dmaVars, appVars,
                           taskVars, histVars
  <2>1. CASE IsrCall1
    BY <2>1 DEF IsrCall1, GiveFromISR
  <2>2. CASE IsrClear1
    BY <2>2 DEF IsrClear1, GiveBeforeClear
  <2>3. CASE IsrCall2
    BY <2>3 DEF IsrCall2, GiveFromISR
  <2>4. CASE IsrClear2
    BY <2>4 DEF IsrClear2, GiveBeforeClear
  <2> QED
    BY <1>2, <2>1, <2>2, <2>3, <2>4 DEF Isr
<1>3. CASE Ethin
  <2>1. CASE EthinTake \/ SemWrite \/ PostOk \/ TryNext
    BY <2>1 DEF EthinTake, SemWrite, PostOk, TryNext, SemRead
  <2>2. CASE LowLevelInput
    <3>1. \A e \in RX_POOL : NewPbuf(e) # NoPbuf
      BY NewPbufType, NoPbufAssumption DEF TypeInv
    <3>2. cutShort' \/ p' # NoPbuf \/ own'[CurRxDesc']
      BY <2>2, <3>1 DEF LowLevelInput, RxDataReady, appVars
    <3> QED
      BY <2>2, <3>2 DEF LowLevelInput
  <2>3. CASE BuildRx
    <3>1. own'[CurRxDesc'] \/ ~ own[CurRxDesc]
      BY <2>3 DEF BuildRx, HAL_ETH_BuildRxDescriptors, TypeInv, TypeOK, RingTypeOK
    <3> QED
      BY <2>3, <3>1 DEF BuildRx, histVars
  <2>4. CASE PostErr
    BY <2>4 DEF PostErr
  <2> QED
    BY <1>3, <2>1, <2>2, <2>3, <2>4 DEF Ethin
<1>4. CASE Tcpip \/ AppFree
  BY <1>4
  DEF Tcpip, TcpipFetch, TcpipFree, TcpipKeep, TcpipWedge, TimerFree,
        AppFree, FreeHeld, ringVars,
      appVars, taskVars, histVars
<1>5. CASE UNCHANGED vars
  BY <1>5 DEF vars, ringVars, appVars, taskVars, histVars
<1> QED
  BY <1>1, <1>2, <1>3, <1>4, <1>5 DEF Next

(* No wake-up is lost between the DMA, ETH_IRQHandler and ethernetif_input, *)
(* whatever the size of the ring, the depth of the semaphore (40) and the   *)
(* number of frames that one interrupt or one pass stands for.              *)
THEOREM WakeupsKept == Spec => []NoLostWakeup
<1>1. Init => WakeInv
  BY TypeInit
  DEF Init, RingInit, WakeInv, GiveBeforeClear, Covered, Desc, TypeInv, TypeOK,
      RingTypeOK
<1>2. WakeInv /\ [Next]_vars => WakeInv'
  BY TypeStep, GiveBeforeClearStep, CoveredStep DEF WakeInv
<1>3. WakeInv => NoLostWakeup
  BY DEF WakeInv, Covered, NoLostWakeup
<1> QED
  BY <1>1, <1>2, <1>3, PTL DEF Spec

-----------------------------------------------------------------------------
(* The ring: each step of the receive path does one of the ring's          *)
(* operations or leaves the descriptors alone.                             *)
LEMMA RingInvStep ==
  ASSUME TypeInv, RingInv, [Next]_vars
  PROVE  RingInv'
<1>1. CASE DmaStep
  BY <1>1, RingInvDma DEF DmaStep
<1>2. CASE Isr
  <2>1. UNCHANGED <<own, dmaVars, appVars>> /\ RI' \in {RI, FALSE}
    BY <1>2
    DEF Isr, IsrCall1, IsrClear1, IsrCall2, IsrClear2, ClearRI, ringVars
  <2> QED
    BY <2>1, RingInvFrame DEF RingInv, RingTypeOK
<1>3. CASE LowLevelInput
  <2>1. UNCHANGED <<own, dmaVars, RI>>
    BY <1>3 DEF LowLevelInput
  <2>2. HAL_ETH_GetRxDataBuffer \/ UNCHANGED appVars
    BY <1>3 DEF LowLevelInput
  <2> QED
    BY <2>1, <2>2, RingInvGet, RingInvFrame DEF RingInv, RingTypeOK
<1>4. CASE BuildRx
  BY <1>4, RingInvBuild DEF BuildRx
<1>5. CASE \/ EthinTake \/ SemWrite \/ PostOk \/ PostErr \/ TryNext
           \/ Tcpip \/ AppFree \/ UNCHANGED vars
  <2>1. UNCHANGED ringVars
    BY <1>5
    DEF EthinTake, SemWrite, PostOk, PostErr, TryNext, Tcpip, TcpipFetch,
        TcpipFree, TcpipKeep, TcpipWedge, TimerFree,
        AppFree, FreeHeld, vars
  <2> QED
    BY <2>1, RingInvFrame DEF ringVars, RingInv, RingTypeOK
<1> QED
  BY <1>1, <1>2, <1>3, <1>4, <1>5 DEF Next, Ethin

(* The ring stays in order under every interleaving of the DMA, the        *)
(* interrupt, the ETHIN task and the stack, for every number of            *)
(* descriptors: no frame is lost inside it, repeated or taken out of turn. *)
THEOREM RingOrdered == Spec => []RingInOrder
<1>1. Init => TypeInv /\ RingInv
  BY TypeInit, RingInvInit DEF Init
<1>2. TypeInv /\ RingInv /\ [Next]_vars => (TypeInv /\ RingInv)'
  BY TypeStep, RingInvStep
<1>3. RingInv => RingInOrder
  BY DEF RingInv
<1> QED
  BY <1>1, <1>2, <1>3, PTL DEF Spec

-----------------------------------------------------------------------------
(* The pbufs in the mailbox after a post and after a fetch.                *)
LEMMA MboxAppend ==
  ASSUME TypeOK, NEW b \in Pbuf, tcpip_mbox' = Append(tcpip_mbox, b)
  PROVE  MboxPbufs' = MboxPbufs \cup {b}
<1>1. /\ Len(tcpip_mbox) \in Nat
      /\ Len(tcpip_mbox') = Len(tcpip_mbox) + 1
      /\ \A i \in 1 .. Len(tcpip_mbox) : tcpip_mbox'[i] = tcpip_mbox[i]
      /\ tcpip_mbox'[Len(tcpip_mbox) + 1] = b
  BY DEF TypeOK
<1> QED
  BY <1>1 DEF MboxPbufs

LEMMA MboxTail ==
  ASSUME TypeOK, tcpip_mbox # <<>>, tcpip_mbox' = Tail(tcpip_mbox)
  PROVE  MboxPbufs = MboxPbufs' \cup {Head(tcpip_mbox)}
<1>1. /\ Len(tcpip_mbox) \in Nat \ {0}
      /\ Len(tcpip_mbox') = Len(tcpip_mbox) - 1
      /\ \A i \in 1 .. Len(tcpip_mbox') : tcpip_mbox'[i] = tcpip_mbox[i + 1]
      /\ Head(tcpip_mbox) = tcpip_mbox[1]
  BY DEF TypeOK
<1>2. ASSUME NEW i \in 1 .. Len(tcpip_mbox)
      PROVE  tcpip_mbox[i] \in MboxPbufs' \cup {Head(tcpip_mbox)}
  <2>1. CASE i = 1
    BY <1>1, <2>1
  <2>2. CASE i # 1
    <3>1. i - 1 \in 1 .. Len(tcpip_mbox')
      BY <1>1, <2>2
    <3>2. tcpip_mbox'[i - 1] = tcpip_mbox[i]
      BY <1>1, <3>1
    <3> QED
      BY <3>1, <3>2 DEF MboxPbufs
  <2> QED
    BY <2>1, <2>2
<1>3. ASSUME NEW i \in 1 .. Len(tcpip_mbox')
      PROVE  tcpip_mbox'[i] \in MboxPbufs
  <2>1. i + 1 \in 1 .. Len(tcpip_mbox) /\ tcpip_mbox'[i] = tcpip_mbox[i + 1]
    BY <1>1
  <2> QED
    BY <2>1 DEF MboxPbufs
<1>4. Head(tcpip_mbox) \in MboxPbufs
  BY <1>1 DEF MboxPbufs
<1> QED
  BY <1>2, <1>3, <1>4 DEF MboxPbufs

(* A step brings into use at most the pbuf that low_level_input makes.     *)
LEMMA InUseStep ==
  ASSUME TypeInv, [Next]_vars
  PROVE  \/ InUse' \subseteq InUse
         \/ \E e \in RX_POOL : /\ LowLevelInput
                              /\ HAL_ETH_GetRxDataBuffer
                              /\ InUse' \subseteq InUse \cup {NewPbuf(e)}
<1> USE DEF InUse, InStack
<1>1. CASE DmaStep \/ Isr \/ TcpipWedge \/ UNCHANGED vars
  BY <1>1
  DEF DmaStep, Isr, IsrCall1, IsrClear1, IsrCall2, IsrClear2, TcpipWedge, vars,
      taskVars, lwipVars, MboxPbufs
<1>2. CASE EthinTake \/ SemWrite \/ BuildRx \/ TryNext \/ PostErr
  BY <1>2
  DEF EthinTake, SemWrite, BuildRx, TryNext, PostErr, lwipVars, MboxPbufs
<1>3. CASE LowLevelInput
  <2>1. UNCHANGED lwipVars
    BY <1>3 DEF LowLevelInput
  <2>2. \/ p' = NoPbuf
        \/ HAL_ETH_GetRxDataBuffer /\ \E e \in RX_POOL : p' = NewPbuf(e)
    BY <1>3 DEF LowLevelInput
  <2> QED
    BY <1>3, <2>1, <2>2 DEF lwipVars, MboxPbufs
<1>4. CASE PostOk
  <2>1. p \in Pbuf /\ p # NoPbuf
    BY <1>4 DEF PostOk, TypeInv, TypeOK
  <2>2. MboxPbufs' = MboxPbufs \cup {p}
    BY <1>4, <2>1, MboxAppend DEF PostOk, TypeInv
  <2> QED
    BY <1>4, <2>1, <2>2 DEF PostOk
<1>5. CASE TcpipFetch
  <2>1. MboxPbufs = MboxPbufs' \cup {Head(tcpip_mbox)}
    BY <1>5, MboxTail DEF TcpipFetch, TypeInv
  <2> QED
    BY <1>5, <2>1 DEF TcpipFetch, taskVars
<1>6. CASE TcpipFree \/ TcpipKeep
  BY <1>6 DEF TcpipFree, TcpipKeep, taskVars, MboxPbufs
<1>7. CASE TimerFree \/ AppFree
  BY <1>7 DEF TimerFree, AppFree, FreeHeld, taskVars, MboxPbufs
<1> QED
  BY <1>1, <1>2, <1>3, <1>4, <1>5, <1>6, <1>7 DEF Next, Ethin, Tcpip

-----------------------------------------------------------------------------
(* IntactWithinRing is not inductive: a payload survives because the DMA   *)
(* is as many descriptors past it as frames have arrived since.            *)
Within(b) ==
  /\ b \in Pbuf
  /\ b.frame <= arrived
  /\ arrived < b.frame + ETH_RX_DESC_CNT =>
       /\ Rx_Buff[b.desc] = b.frame
       /\ dmaDesc = INCR_RX_DESC_INDEX(b.desc, arrived - b.frame + 1)

IntactInv ==
  /\ AppDescNbr # 0 => ethin = "build"
  /\ \A b \in InUse : Within(b)

(* Only the DMA writes buffers, and it writes one that is not within.      *)
LEMMA WithinStep ==
  ASSUME TypeInv, [Next]_vars, NEW b, Within(b)
  PROVE  Within(b)'
<1>1. CASE DmaStep
  <2>1. /\ own[dmaDesc] /\ dmaDesc \in Desc
        /\ arrived \in Nat /\ arrived' = arrived + 1
        /\ Rx_Buff' = [Rx_Buff EXCEPT ![dmaDesc] = arrived + 1]
        /\ Rx_Buff \in [Desc -> 0 .. MaxFrame]
        /\ dmaDesc' = INCR_RX_DESC_INDEX(dmaDesc, 1)
    BY <1>1, RingAssumption
    DEF DmaStep, DmaReceive, TypeInv, TypeOK, RingTypeOK
  <2>2. b \in Pbuf /\ b.desc \in Desc /\ b.frame \in Nat /\ b.frame <= arrived'
    BY <2>1, RingAssumption DEF Within, Pbuf
  <2>3. ASSUME arrived' < b.frame + ETH_RX_DESC_CNT
        PROVE  /\ Rx_Buff'[b.desc] = b.frame
               /\ dmaDesc' = INCR_RX_DESC_INDEX(b.desc, arrived' - b.frame + 1)
    <3>1. /\ Rx_Buff[b.desc] = b.frame
          /\ dmaDesc = INCR_RX_DESC_INDEX(b.desc, arrived - b.frame + 1)
          /\ arrived - b.frame + 1 \in 1 .. ETH_RX_DESC_CNT - 1
      BY <2>1, <2>2, <2>3, RingAssumption DEF Within
    <3>2. dmaDesc # b.desc
      BY <2>2, <3>1, RingAssumption DEF INCR_RX_DESC_INDEX, Desc
    <3>3. Rx_Buff'[b.desc] = b.frame
      BY <2>1, <2>2, <3>1, <3>2
    <3>4. dmaDesc' = INCR_RX_DESC_INDEX(b.desc, arrived' - b.frame + 1)
      <4> DEFINE k == arrived - b.frame + 1
      <4>1. k \in 0 .. ETH_RX_DESC_CNT - 1 /\ k + 1 = arrived' - b.frame + 1
        BY <2>1, <2>2, <3>1, RingAssumption
      <4>2. dmaDesc' = INCR_RX_DESC_INDEX(INCR_RX_DESC_INDEX(b.desc, k), 1)
        BY <2>1, <3>1
      <4> HIDE DEF k
      <4>3. dmaDesc' = INCR_RX_DESC_INDEX(b.desc, k + 1)
        BY <2>2, <4>1, <4>2, IndexNext
      <4> QED
        BY <4>1, <4>3
    <3> QED
      BY <3>3, <3>4
  <2> QED
    BY <2>2, <2>3 DEF Within
<1>2. CASE ~ DmaStep
  <2>1. UNCHANGED dmaVars
    BY <1>2
    DEF Next, Isr, IsrCall1, IsrClear1, IsrCall2, IsrClear2, ClearRI, Ethin,
        EthinTake, SemWrite, LowLevelInput, BuildRx, PostOk, PostErr, TryNext,
        Tcpip, TcpipFetch, TcpipFree, TcpipKeep, TcpipWedge, TimerFree,
        AppFree, FreeHeld, vars,
        ringVars
  <2> QED
    BY <2>1 DEF dmaVars, Within
<1> QED
  BY <1>1, <1>2

(* The pbuf that low_level_input makes has the payload of its frame.       *)
LEMMA WithinNew ==
  ASSUME TypeInv, RingInv, IntactInv, LowLevelInput, HAL_ETH_GetRxDataBuffer,
         NEW e \in RX_POOL
  PROVE  Within(NewPbuf(e))
<1> DEFINE b == NewPbuf(e)
           c == ClosedFrom(OldestDesc)
<1>1. AppDescNbr = 0 /\ ~ own[CurRxDesc] /\ OldestDesc = CurRxDesc
  BY DEF IntactInv, LowLevelInput, HAL_ETH_GetRxDataBuffer, RxDataReady,
         OldestDesc
<1>2. b.desc = OldestDesc /\ b.frame = Rx_Buff[OldestDesc] /\ b \in Pbuf
  BY <1>1, NewPbufType DEF NewPbuf, RxDataDesc, TypeInv
<1>3. OldestDesc \in Desc /\ c \in 1 .. ETH_RX_DESC_CNT
  BY <1>1, DmaBehindClosed, RingAssumption
  DEF ClosedFrom, Desc, RingInv, RingTypeOK
<1>4. 0 \in 0 .. ETH_RX_DESC_CNT - 1 /\ 0 < c
  BY <1>3, RingAssumption
<1>5. INCR_RX_DESC_INDEX(OldestDesc, 0) = OldestDesc
  BY <1>3, RingAssumption DEF INCR_RX_DESC_INDEX, Desc
<1>6. Rx_Buff[OldestDesc] = arrived - c + 1 + 0
  BY <1>4, <1>5 DEF RingInv, RingInOrder
<1>7. dmaDesc = INCR_RX_DESC_INDEX(OldestDesc, c)
  BY DmaBehindClosed
<1>8. b.frame <= arrived /\ arrived - b.frame + 1 = c
  BY <1>2, <1>3, <1>6, RingAssumption DEF RingInv, RingTypeOK
<1> QED
  BY <1>2, <1>7, <1>8 DEF Within

LEMMA IntactStep ==
  ASSUME TypeInv, RingInv, IntactInv, [Next]_vars
  PROVE  IntactInv'
<1>1. AppDescNbr' # 0 => ethin' = "build"
  <2>1. CASE LowLevelInput \/ BuildRx
    BY <2>1 DEF LowLevelInput, BuildRx, HAL_ETH_BuildRxDescriptors
  <2>2. CASE EthinTake \/ SemWrite \/ PostOk \/ PostErr \/ TryNext
    BY <2>2
    DEF EthinTake, SemWrite, PostOk, PostErr, TryNext, ringVars, appVars,
        IntactInv
  <2>3. CASE DmaStep \/ Isr \/ Tcpip \/ AppFree \/ UNCHANGED vars
    BY <2>3
    DEF DmaStep, DmaReceive, Isr, IsrCall1, IsrClear1, IsrCall2, IsrClear2,
        ClearRI, Tcpip, TcpipFetch, TcpipFree, TcpipKeep, TcpipWedge, TimerFree,
        AppFree, FreeHeld,
        vars, ringVars, appVars, taskVars, IntactInv
  <2> QED
    BY <2>1, <2>2, <2>3 DEF Next, Ethin
<1>2. ASSUME NEW b \in InUse' PROVE Within(b)'
  <2>1. CASE b \in InUse
    BY <2>1, WithinStep DEF IntactInv
  <2>2. CASE b \notin InUse
    <3>1. PICK e \in RX_POOL : /\ LowLevelInput
                              /\ HAL_ETH_GetRxDataBuffer
                              /\ InUse' \subseteq InUse \cup {NewPbuf(e)}
      BY <1>2, <2>2, InUseStep
    <3>2. b = NewPbuf(e)
      BY <1>2, <2>2, <3>1
    <3> QED
      BY <3>1, <3>2, WithinNew, WithinStep
  <2> QED
    BY <2>1, <2>2
<1> QED
  BY <1>1, <1>2 DEF IntactInv

(* A zero-copy payload is intact until the DMA has gone once around the    *)
(* ring, whatever the number of descriptors, pbufs and frames: this is all *)
(* that ethernetif_input guarantees the stack.                             *)
THEOREM PayloadLifetime == Spec => []IntactWithinRing
<1> DEFINE IInv == TypeInv /\ RingInv /\ IntactInv
<1>1. Init => IInv
  <2> SUFFICES ASSUME Init PROVE IntactInv
    BY TypeInit, RingInvInit DEF Init
  <2> QED
    BY DEF Init, RingInit, IntactInv, InUse, InStack, MboxPbufs
<1>2. IInv /\ [Next]_vars => IInv'
  BY TypeStep, RingInvStep, IntactStep
<1>3. IInv => IntactWithinRing
  BY DEF IntactInv, Within, IntactWithinRing
<1> QED
  BY <1>1, <1>2, <1>3, PTL DEF Spec

-----------------------------------------------------------------------------
(* PoolConserved is inductive once it is known when the ETHIN task has a   *)
(* pbuf in its hands: low_level_input overwrites p.                        *)
PoolInv ==
  /\ TypeInv
  /\ p # NoPbuf => ethin \in {"build", "post"}
  /\ PoolConserved

(* What a pbuf in one of the places says of the elements of the pool.      *)
LEMMA MboxIds ==
  ASSUME TypeOK
  PROVE  /\ Len(tcpip_mbox) \in Nat
         /\ \A i \in 1 .. Len(tcpip_mbox) : tcpip_mbox[i] \in MboxPbufs
         /\ \A b \in MboxPbufs : \E i \in 1 .. Len(tcpip_mbox) : b = tcpip_mbox[i]
         /\ InUse \subseteq Pbuf
<1>1. tcpip_mbox \in Seq(Pbuf)
  BY DEF TypeOK
<1>2. MboxPbufs \subseteq Pbuf
  BY <1>1 DEF MboxPbufs
<1> QED
  BY <1>1, <1>2 DEF MboxPbufs, InUse, InStack, TypeOK

(* low_level_input takes an element that nobody has.                       *)
LEMMA PoolAlloc ==
  ASSUME PoolInv, LowLevelInput
  PROVE  PoolConserved'
<1> USE DEF PoolInv
<1>1. UNCHANGED lwipVars /\ p = NoPbuf
  BY DEF LowLevelInput
<1>2. UNCHANGED <<MboxPbufs, InStack, held, work, tcpip_mbox>>
  BY <1>1 DEF lwipVars, MboxPbufs, InStack
<1>3. InUse = InStack
  BY <1>1 DEF InUse
<1>4. CASE p' = NoPbuf /\ UNCHANGED RX_POOL
  BY <1>1, <1>2, <1>4 DEF PoolConserved, InUse
<1>5. ASSUME NEW e \in RX_POOL, p' = NewPbuf(e), RX_POOL' = RX_POOL \ {e}
      PROVE  PoolConserved'
  <2>1. p' \in Pbuf /\ p' # NoPbuf /\ p'.id = e
    BY <1>5, NewPbufType, NoPbufAssumption DEF TypeInv, NewPbuf
  <2>2. InUse' = InUse \cup {p'}
    BY <1>2, <1>3, <2>1 DEF InUse
  <2>3. Ids(InUse)' = Ids(InUse) \cup {e}
    BY <2>1, <2>2 DEF Ids
  <2>4. e \notin Ids(InStack)
    BY <1>3, <1>5 DEF PoolConserved
  <2> QED
    BY <1>2, <1>5, <2>1, <2>3, <2>4 DEF PoolConserved, Ids
<1> QED
  BY <1>4, <1>5 DEF LowLevelInput

(* netif->input passes the pbuf on.                                        *)
LEMMA PoolPost ==
  ASSUME PoolInv, PostOk
  PROVE  PoolConserved'
<1> USE DEF PoolInv
<1>1. /\ tcpip_mbox' = Append(tcpip_mbox, p) /\ p' = NoPbuf
      /\ UNCHANGED <<RX_POOL, work, held>>
      /\ p \in Pbuf /\ p # NoPbuf
  BY DEF PostOk, TypeInv, TypeOK
<1>2. MboxPbufs' = MboxPbufs \cup {p}
  BY <1>1, MboxAppend DEF TypeInv
<1>3. InUse' = InUse
  BY <1>1, <1>2 DEF InUse, InStack
<1>4. p.id \notin Ids(InStack)
  BY <1>1 DEF PoolConserved
<1>5. \A i, j \in 1 .. Len(tcpip_mbox') :
        tcpip_mbox'[i].id = tcpip_mbox'[j].id => i = j
  <2> DEFINE n == Len(tcpip_mbox)
  <2>1. /\ n \in Nat /\ Len(tcpip_mbox') = n + 1
        /\ \A i \in 1 .. n : tcpip_mbox'[i] = tcpip_mbox[i]
        /\ tcpip_mbox'[n + 1] = p
    BY <1>1 DEF TypeInv, TypeOK
  <2>2. \A i \in 1 .. n : tcpip_mbox[i].id # p.id
    BY <1>4 DEF Ids, InStack, MboxPbufs
  <2>3. \A i, j \in 1 .. n : tcpip_mbox[i].id = tcpip_mbox[j].id => i = j
    BY DEF PoolConserved
  <2> QED
    BY <2>1, <2>2, <2>3
<1>6. /\ held \cap {p} = {} /\ p.id \notin Ids(held)
      /\ work # NoPbuf => p.id # work.id
  BY <1>4 DEF Ids, InStack
<1>7. Ids(held)' = Ids(held) /\ Ids(MboxPbufs)' = Ids(MboxPbufs) \cup {p.id}
  BY <1>1, <1>2 DEF Ids
<1>10. Ids(held)' \cap Ids(MboxPbufs)' = {}
  BY <1>6, <1>7 DEF PoolConserved
<1>11. work' # NoPbuf => work'.id \notin Ids(held)' \cup Ids(MboxPbufs)'
  BY <1>1, <1>6, <1>7 DEF PoolConserved
<1>8. RX_POOL' = Pbufs \ Ids(InUse)'
  BY <1>1, <1>3 DEF PoolConserved, Ids
<1>9. \A b, c \in held' : b.id = c.id => b = c
  BY <1>1 DEF PoolConserved
<1> QED
  BY <1>1, <1>5, <1>8, <1>9, <1>10, <1>11 DEF PoolConserved

(* The tcpip thread takes the first pbuf of its mailbox.                   *)
LEMMA PoolFetch ==
  ASSUME PoolInv, TcpipFetch
  PROVE  PoolConserved'
<1> USE DEF PoolInv
<1>1. /\ tcpip_mbox # <<>> /\ work = NoPbuf
      /\ work' = Head(tcpip_mbox) /\ tcpip_mbox' = Tail(tcpip_mbox)
      /\ UNCHANGED <<RX_POOL, p, held>>
  BY DEF TcpipFetch, taskVars
<1>2. MboxPbufs = MboxPbufs' \cup {work'}
  BY <1>1, MboxTail DEF TypeInv
<1>3. /\ Len(tcpip_mbox) \in Nat \ {0} /\ Len(tcpip_mbox') = Len(tcpip_mbox) - 1
      /\ \A i \in 1 .. Len(tcpip_mbox') : tcpip_mbox'[i] = tcpip_mbox[i + 1]
      /\ work' = tcpip_mbox[1] /\ work' \in Pbuf /\ work' # NoPbuf
  BY <1>1, NoPbufAssumption DEF TypeInv, TypeOK
<1>4. InStack' = InStack /\ InUse' = InUse
  BY <1>1, <1>2, <1>3 DEF InStack, InUse
<1>5. \A i, j \in 1 .. Len(tcpip_mbox') :
        tcpip_mbox'[i].id = tcpip_mbox'[j].id => i = j
  BY <1>3 DEF PoolConserved
<1>6. work'.id \notin Ids(MboxPbufs')
  <2>1. \A i \in 1 .. Len(tcpip_mbox') : tcpip_mbox'[i].id # work'.id
    BY <1>3 DEF PoolConserved
  <2> QED
    BY <2>1 DEF Ids, MboxPbufs
<1>7. work'.id \notin Ids(held)
  <2>1. work' \in MboxPbufs
    BY <1>2
  <2> QED
    BY <2>1 DEF PoolConserved, Ids
<1>8. /\ Ids(held)' = Ids(held) /\ Ids(InStack)' = Ids(InStack)
      /\ Ids(InUse)' = Ids(InUse)
      /\ Ids(MboxPbufs)' \subseteq Ids(MboxPbufs)
  BY <1>1, <1>2, <1>4 DEF Ids
<1>9. \A b, c \in held' : b.id = c.id => b = c
  BY <1>1 DEF PoolConserved
<1>10. work'.id \notin Ids(held)' \cup Ids(MboxPbufs)'
  BY <1>1, <1>6, <1>7 DEF Ids
<1> QED
  BY <1>1, <1>5, <1>8, <1>9, <1>10 DEF PoolConserved

(* Whoever frees a pbuf was the only one who had it.                       *)
LEMMA PoolFree ==
  ASSUME PoolInv, NEW b \in InUse, pbuf_free_custom(b),
         InUse' = InUse \ {b},
         \A x \in InUse : x.id = b.id => x = b
  PROVE  RX_POOL' = Pbufs \ Ids(InUse')
<1>1. b.id \in Pbufs
  BY MboxIds DEF PoolInv, TypeInv, Pbuf
<1>2. Ids(InUse') = Ids(InUse) \ {b.id}
  BY DEF Ids
<1> QED
  BY <1>1, <1>2 DEF PoolInv, PoolConserved, pbuf_free_custom

LEMMA PoolPostErr ==
  ASSUME PoolInv, PostErr
  PROVE  PoolConserved'
<1> USE DEF PoolInv
<1>1. /\ pbuf_free_custom(p) /\ p' = NoPbuf /\ p # NoPbuf
      /\ UNCHANGED <<tcpip_mbox, work, held>>
  BY DEF PostErr, TypeInv, lwipVars
<1>2. MboxPbufs' = MboxPbufs /\ InStack' = InStack
  BY <1>1 DEF MboxPbufs, InStack
<1>3. p.id \notin Ids(InStack)
  BY <1>1 DEF PoolConserved
<1>4. p \notin InStack /\ \A x \in InUse : x.id = p.id => x = p
  BY <1>3 DEF Ids, InUse
<1>5. p \in InUse /\ InUse' = InUse \ {p}
  BY <1>1, <1>2, <1>4 DEF InUse
<1>6. RX_POOL' = Pbufs \ Ids(InUse')
  BY <1>1, <1>4, <1>5, PoolFree
<1> QED
  BY <1>1, <1>2, <1>6 DEF PoolConserved, Ids

LEMMA PoolTcpipFree ==
  ASSUME PoolInv, TcpipFree
  PROVE  PoolConserved'
<1> USE DEF PoolInv
<1>1. /\ pbuf_free_custom(work) /\ work' = NoPbuf /\ work # NoPbuf
      /\ UNCHANGED <<tcpip_mbox, p, held>>
  BY DEF TcpipFree, taskVars
<1>2. MboxPbufs' = MboxPbufs
  BY <1>1 DEF MboxPbufs
<1>3. /\ work.id \notin Ids(held) \cup Ids(MboxPbufs)
      /\ p # NoPbuf => p.id # work.id
  BY <1>1 DEF PoolConserved, Ids, InStack
<1>4. \A x \in InUse : x.id = work.id => x = work
  BY <1>3 DEF Ids, InUse, InStack
<1>5. work \in InUse /\ InUse' = InUse \ {work} /\ InStack' \subseteq InStack
  BY <1>1, <1>2, <1>3 DEF InUse, InStack, Ids
<1>6. RX_POOL' = Pbufs \ Ids(InUse')
  BY <1>1, <1>4, <1>5, PoolFree
<1> QED
  BY <1>1, <1>2, <1>5, <1>6 DEF PoolConserved, Ids

LEMMA PoolKeep ==
  ASSUME PoolInv, TcpipKeep
  PROVE  PoolConserved'
<1> USE DEF PoolInv
<1>1. /\ held' = held \cup {work} /\ work' = NoPbuf /\ work # NoPbuf
      /\ UNCHANGED <<tcpip_mbox, p, RX_POOL>>
  BY DEF TcpipKeep, taskVars
<1>2. MboxPbufs' = MboxPbufs
  BY <1>1 DEF MboxPbufs
<1>3. InUse' = InUse /\ InStack' = InStack
  BY <1>1, <1>2 DEF InUse, InStack
<1>4. work.id \notin Ids(held) \cup Ids(MboxPbufs)
  BY <1>1 DEF PoolConserved
<1> QED
  BY <1>1, <1>2, <1>3, <1>4 DEF PoolConserved, Ids

LEMMA PoolFreeHeld ==
  ASSUME PoolInv, FreeHeld, UNCHANGED <<tcpip_mbox, work, p>>
  PROVE  PoolConserved'
<1> USE DEF PoolInv
<1>1. PICK b \in held : held' = held \ {b} /\ pbuf_free_custom(b)
  BY DEF FreeHeld
<1>2. MboxPbufs' = MboxPbufs
  BY DEF MboxPbufs
<1>3. /\ \A x \in held : x.id = b.id => x = b
      /\ \A x \in MboxPbufs : x.id # b.id
      /\ work # NoPbuf => work.id # b.id
      /\ p # NoPbuf => p.id # b.id
  BY <1>1 DEF PoolConserved, Ids, InStack
<1>4. \A x \in InUse : x.id = b.id => x = b
  BY <1>3 DEF InUse, InStack
<1>5. b \in InUse /\ InUse' = InUse \ {b} /\ InStack' \subseteq InStack
  BY <1>1, <1>2, <1>3 DEF InUse, InStack
<1>6. RX_POOL' = Pbufs \ Ids(InUse')
  BY <1>1, <1>4, <1>5, PoolFree
<1> QED
  BY <1>1, <1>2, <1>5, <1>6 DEF PoolConserved, Ids

LEMMA PoolStep == PoolInv /\ [Next]_vars => PoolInv'
<1> SUFFICES ASSUME PoolInv, [Next]_vars PROVE PoolInv'
  OBVIOUS
<1>1. TypeInv'
  BY TypeStep DEF PoolInv
<1>2. (p # NoPbuf => ethin \in {"build", "post"})'
  BY DEF PoolInv, Next, DmaStep, Isr, IsrCall1, IsrClear1, IsrCall2, IsrClear2,
         Ethin, EthinTake, SemWrite, SemRead, LowLevelInput, BuildRx, PostOk,
         PostErr, TryNext, Tcpip, TcpipFetch, TcpipFree, TcpipKeep, TcpipWedge,
         TimerFree, AppFree, FreeHeld, taskVars, vars
<1>3. PoolConserved'
  <2>1. CASE UNCHANGED <<RX_POOL, p, tcpip_mbox, work, held>>
    BY <2>1 DEF PoolInv, PoolConserved, InUse, InStack, MboxPbufs
  <2>2. CASE DmaStep \/ Isr \/ EthinTake \/ SemWrite \/ BuildRx \/ TryNext
             \/ TcpipWedge \/ UNCHANGED vars
    BY <2>1, <2>2
    DEF DmaStep, Isr, IsrCall1, IsrClear1, IsrCall2, IsrClear2, EthinTake,
        SemWrite, BuildRx, TryNext, TcpipWedge, vars, taskVars, lwipVars
  <2>3. CASE TimerFree \/ AppFree
    BY <2>3, PoolFreeHeld DEF TimerFree, AppFree, FreeHeld, taskVars
  <2> QED
    BY <2>2, <2>3, PoolAlloc, PoolPost, PoolFetch, PoolPostErr, PoolTcpipFree,
       PoolKeep
    DEF Next, Ethin, Tcpip
<1> QED
  BY <1>1, <1>2, <1>3 DEF PoolInv

LEMMA PoolInit == Init => PoolInv
<1> SUFFICES ASSUME Init PROVE PoolInv
  OBVIOUS
<1>1. MboxPbufs = {} /\ InUse = {}
  BY DEF Init, InUse, InStack, MboxPbufs
<1> QED
  BY <1>1, TypeInit DEF Init, PoolInv, PoolConserved, Ids, InStack

(* Every element of RX_POOL is in exactly one place, for every size of the *)
(* pool, of the mailboxes and of what the stack may keep: no path leaks    *)
(* one or frees one twice.                                                 *)
THEOREM PoolKept == Spec => []PoolConserved
<1>1. PoolInv => PoolConserved
  BY DEF PoolInv
<1> QED
  BY <1>1, PoolInit, PoolStep, PTL DEF Spec

-----------------------------------------------------------------------------
(* NeverCutShort is inductive together with the bounds it rests on: while  *)
(* the tcpip thread outranks the ETHIN task and does not block, one pbuf   *)
(* at most is between netif->input and the end of its processing, and the  *)
(* receive mailboxes hold MaxHeld pbufs at most.                           *)
Outranked == NETIF_IN_TASK_PRIORITY < TCPIP_THREAD_PRIO /\ ~ wedged

HeldBounded == IsFiniteSet(held) /\ Cardinality(held) <= MaxHeld

OneOnItsWay ==
  Outranked => /\ Len(tcpip_mbox) <= 1
               /\ work # NoPbuf => tcpip_mbox = <<>>

LeanInv == PoolInv /\ HeldBounded /\ OneOnItsWay /\ NeverCutShort

LEMMA HeldBoundedStep ==
  ASSUME TypeInv, HeldBounded, [Next]_vars
  PROVE  HeldBounded'
<1> USE DEF HeldBounded
<1>1. CASE TcpipKeep
  <2>1. /\ held' = held \cup {work} /\ Cardinality(held) < MaxHeld
        /\ Cardinality(held) \in Nat
    BY <1>1, FS_CardinalityType DEF TcpipKeep
  <2>2. /\ IsFiniteSet(held \cup {work})
        /\ Cardinality(held \cup {work}) <= Cardinality(held) + 1
        /\ Cardinality(held \cup {work}) \in Nat
    BY <2>1, FS_AddElement, FS_CardinalityType
  <2> QED
    BY <2>1, <2>2, RxAssumption
<1>2. CASE FreeHeld
  <2>1. PICK b \in held : held' = held \ {b}
    BY <1>2 DEF FreeHeld
  <2>2. /\ Cardinality(held) \in Nat /\ IsFiniteSet(held \ {b})
        /\ Cardinality(held \ {b}) = Cardinality(held) - 1
    BY FS_RemoveElement, FS_CardinalityType
  <2> QED
    BY <2>1, <2>2, RxAssumption
<1>3. CASE UNCHANGED held
  BY <1>3
<1>4. TcpipKeep \/ FreeHeld \/ UNCHANGED held
  BY DEF Next, DmaStep, Isr, IsrCall1, IsrClear1, IsrCall2, IsrClear2, Ethin,
         EthinTake, SemWrite, LowLevelInput, BuildRx, PostOk, PostErr, TryNext,
         Tcpip, TcpipFetch, TcpipFree, TcpipWedge, TimerFree, AppFree,
         lwipVars, vars
<1> QED
  BY <1>1, <1>2, <1>3, <1>4

(* The tcpip thread that has blocked once stays so. *)
LEMMA StaysOutranked ==
  ASSUME TypeInv, [Next]_vars, Outranked'
  PROVE  Outranked
BY DEF Outranked, Next, DmaStep, Isr, IsrCall1, IsrClear1, IsrCall2, IsrClear2,
       Ethin, EthinTake, SemWrite, LowLevelInput, BuildRx, PostOk, PostErr,
       TryNext, Tcpip, TcpipFetch, TcpipFree, TcpipKeep, TcpipWedge, TimerFree,
       AppFree, FreeHeld, lwipVars, vars

(* The ETHIN task runs outside of its critical sections only when the      *)
(* tcpip thread has nothing left to do.                                    *)
LEMMA PostFindsRoom ==
  ASSUME TypeInv, Outranked, ethin = "post", EthinRuns
  PROVE  tcpip_mbox = <<>> /\ work = NoPbuf /\ InputAccepted
<1>1. tcpip_mbox = <<>> /\ work = NoPbuf
  BY RxAssumption DEF Outranked, EthinRuns, InCritical, TcpipReady
<1>2. Len(tcpip_mbox) = 0
  BY <1>1
<1> QED
  BY <1>1, <1>2, RxAssumption DEF InputAccepted

LEMMA OneOnItsWayStep ==
  ASSUME TypeInv, OneOnItsWay, [Next]_vars
  PROVE  OneOnItsWay'
<1> SUFFICES ASSUME Outranked'
             PROVE  Len(tcpip_mbox') <= 1 /\ (work' # NoPbuf => tcpip_mbox' = <<>>)
  BY DEF OneOnItsWay
<1>1. Outranked
  BY StaysOutranked
<1>2. CASE PostOk
  <2>1. tcpip_mbox = <<>> /\ work = NoPbuf
    BY <1>1, <1>2, PostFindsRoom DEF PostOk
  <2>2. Len(tcpip_mbox') = 1
    BY <1>2, <2>1 DEF PostOk
  <2> QED
    BY <1>2, <2>1, <2>2 DEF PostOk
<1>3. CASE TcpipFetch
  <2>1. /\ tcpip_mbox \in Seq(Pbuf) /\ tcpip_mbox # <<>>
        /\ tcpip_mbox' = Tail(tcpip_mbox)
    BY <1>3 DEF TcpipFetch, TypeInv, TypeOK
  <2>3. Len(tcpip_mbox) <= 1
    BY <1>1 DEF OneOnItsWay
  <2>2. tcpip_mbox' = <<>>
    BY <2>1, <2>3
  <2> QED
    BY <2>2
<1>4. CASE UNCHANGED tcpip_mbox /\ work' \in {work, NoPbuf}
  BY <1>1, <1>4 DEF OneOnItsWay
<1>5. PostOk \/ TcpipFetch \/ (UNCHANGED tcpip_mbox /\ work' \in {work, NoPbuf})
  BY DEF Next, DmaStep, Isr, IsrCall1, IsrClear1, IsrCall2, IsrClear2, Ethin,
         EthinTake, SemWrite, LowLevelInput, BuildRx, PostErr, TryNext, Tcpip,
         TcpipFree, TcpipKeep, TcpipWedge, TimerFree, AppFree, FreeHeld,
         lwipVars, vars
<1> QED
  BY <1>2, <1>3, <1>4, <1>5

(* With the receive mailboxes full and one more pbuf on its way, the pool  *)
(* is empty only if it has MaxHeld + 1 elements at most.                   *)
LEMMA PoolSuffices ==
  ASSUME PoolInv, HeldBounded, NEW x, InUse \subseteq held \cup {x},
         RX_POOL = {}
  PROVE  Cardinality(Pbufs) \in Nat /\ Cardinality(Pbufs) <= MaxHeld + 1
<1> DEFINE S == held \cup {x}
           T == {b.id : b \in S}
           f == [b \in S |-> b.id]
<1>1. /\ IsFiniteSet(S) /\ Cardinality(S) \in Nat
      /\ Cardinality(S) <= MaxHeld + 1
  <2>1. Cardinality(held) \in Nat
    BY FS_CardinalityType DEF HeldBounded
  <2>2. /\ IsFiniteSet(S) /\ Cardinality(S) <= Cardinality(held) + 1
    BY <2>1, FS_AddElement DEF HeldBounded
  <2>3. Cardinality(S) \in Nat
    BY <2>2, FS_CardinalityType
  <2> QED
    BY <2>1, <2>2, <2>3, RxAssumption DEF HeldBounded
<1>2. f \in Surjection(S, T)
  BY DEF Surjection
<1>3. IsFiniteSet(T) /\ Cardinality(T) <= Cardinality(S)
  <2> HIDE DEF f, S, T
  <2> QED
    BY <1>1, <1>2, FS_Surjection
<1>4. Pbufs \in SUBSET T
  <2>1. Pbufs \subseteq Ids(InUse)
    BY DEF PoolInv, PoolConserved
  <2>2. Ids(InUse) \subseteq T
    BY DEF Ids
  <2> QED
    BY <2>1, <2>2
<1>5. /\ Cardinality(Pbufs) <= Cardinality(T)
      /\ Cardinality(Pbufs) \in Nat /\ Cardinality(T) \in Nat
  <2> HIDE DEF T
  <2>1. IsFiniteSet(Pbufs) /\ Cardinality(Pbufs) <= Cardinality(T)
    BY <1>3, <1>4, FS_Subset
  <2> QED
    BY <1>3, <2>1, FS_CardinalityType
<1> HIDE DEF S, T
<1> QED
  BY <1>1, <1>3, <1>5, RxAssumption

LEMMA NeverCutShortStep ==
  ASSUME LeanInv, [Next]_vars
  PROVE  NeverCutShort'
<1> SUFFICES ASSUME Outranked', Cardinality(Pbufs) >= MaxHeld + 2, cutShort'
             PROVE  FALSE
  BY DEF NeverCutShort, Outranked
<1> USE DEF LeanInv, PoolInv
<1>1. Outranked
  BY StaysOutranked
<1>2. ~ cutShort
  BY <1>1 DEF NeverCutShort, Outranked
<1>3. PostErr \/ (LowLevelInput /\ RX_POOL = {})
  BY <1>2
  DEF Next, DmaStep, Isr, IsrCall1, IsrClear1, IsrCall2, IsrClear2,
      Ethin, EthinTake, SemWrite, LowLevelInput, BuildRx, PostOk,
      TryNext, Tcpip, TcpipFetch, TcpipFree, TcpipKeep, TcpipWedge, TimerFree,
      AppFree, FreeHeld, histVars, vars
<1>4. CASE PostErr
  BY <1>1, <1>4, PostFindsRoom DEF PostErr
<1>5. CASE LowLevelInput /\ RX_POOL = {}
  <2>1. p = NoPbuf
    BY <1>5 DEF LowLevelInput
  <2>2. Len(tcpip_mbox) \in Nat
    BY MboxIds DEF TypeInv
  <2>5. Len(tcpip_mbox) <= 1
    BY <1>1 DEF OneOnItsWay
  <2>6. Len(tcpip_mbox) = 1 => work = NoPbuf
    BY <1>1 DEF OneOnItsWay
  <2>3. \E x : InUse \subseteq held \cup {x}
    <3>1. CASE Len(tcpip_mbox) = 0
      BY <2>1, <3>1 DEF InUse, InStack, MboxPbufs
    <3>2. CASE Len(tcpip_mbox) = 1
      <4>1. MboxPbufs = {tcpip_mbox[1]} /\ work = NoPbuf
        BY <2>6, <3>2 DEF MboxPbufs
      <4> QED
        BY <2>1, <4>1 DEF InUse, InStack
    <3>3. Len(tcpip_mbox) = 0 \/ Len(tcpip_mbox) = 1
      <4>1. \A n \in Nat : n <= 1 => n = 0 \/ n = 1
        OBVIOUS
      <4> QED
        BY <2>2, <2>5, <4>1
    <3> QED
      BY <3>1, <3>2, <3>3
  <2>4. Cardinality(Pbufs) \in Nat /\ Cardinality(Pbufs) <= MaxHeld + 1
    BY <1>5, <2>3, PoolSuffices
  <2> QED
    BY <2>4, RxAssumption
<1> QED
  BY <1>3, <1>4, <1>5

LEMMA LeanStep == LeanInv /\ [Next]_vars => LeanInv'
BY PoolStep, HeldBoundedStep, OneOnItsWayStep, NeverCutShortStep
DEF LeanInv, PoolInv

LEMMA LeanInit == Init => LeanInv
<1> SUFFICES ASSUME Init PROVE LeanInv
  OBVIOUS
<1>1. Len(tcpip_mbox) = 0
  BY DEF Init
<1> QED
  BY <1>1, PoolInit, FS_EmptySet, RxAssumption
  DEF Init, LeanInv, HeldBounded, OneOnItsWay, NeverCutShort

(* The ETHIN task never leaves its loop early while the tcpip thread       *)
(* outranks it and RX_POOL has two elements more than the receive          *)
(* mailboxes may hold, for every size of the mailboxes and of the ring.    *)
THEOREM LoopCompleted == Spec => []NeverCutShort
<1>1. LeanInv => NeverCutShort
  BY DEF LeanInv
<1> QED
  BY <1>1, LeanInit, LeanStep, PTL DEF Spec

-----------------------------------------------------------------------------
(* The channel.  The pbuf in the ETHIN task's hands is the last frame      *)
(* taken from the ring, so that pbuf and backlog are one run of frames up  *)
(* to the last one that arrived.                                           *)
HandInv == p # NoPbuf => p.frame = Taken

Run(t, m) == [k \in 1 .. m |-> t + k]

LEMMA RunExtended ==
  ASSUME NEW t \in Int, NEW m \in Nat
  PROVE  /\ Run(t, m) \in Seq(Int)
         /\ Len(Run(t, m)) = m
         /\ Append(Run(t, m), t + m + 1) = Run(t, m + 1)
<1> QED
  BY DEF Run

LEMMA RunConsumed ==
  ASSUME NEW t \in Int, NEW m \in Nat \ {0}
  PROVE  /\ Run(t, m) # <<>>
         /\ Head(Run(t, m)) = t + 1
         /\ Tail(Run(t, m)) = Run(t + 1, m - 1)
         /\ <<t + 1>> \o Run(t + 1, m - 1) = Run(t, m)
<1>1. Run(t, m) \in Seq(Int) /\ Len(Run(t, m)) = m
  BY RunExtended
<1>2. Run(t + 1, m - 1) \in Seq(Int) /\ Len(Run(t + 1, m - 1)) = m - 1
  <2>1. t + 1 \in Int /\ m - 1 \in Nat
    OBVIOUS
  <2> QED
    BY <2>1, RunExtended
<1>3. Run(t, m) # <<>> /\ Head(Run(t, m)) = t + 1
  BY <1>1 DEF Run
<1>4. Tail(Run(t, m)) = Run(t + 1, m - 1)
  <2>1. /\ Tail(Run(t, m)) \in Seq(Int)
        /\ Len(Tail(Run(t, m))) = m - 1
        /\ \A i \in 1 .. m - 1 : Tail(Run(t, m))[i] = Run(t, m)[i + 1]
    BY <1>1, <1>3, HeadTailProperties
  <2>2. \A i \in 1 .. m - 1 : Run(t, m)[i + 1] = Run(t + 1, m - 1)[i]
    BY DEF Run
  <2> QED
    BY <1>2, <2>1, <2>2, SeqEqual
<1>5. <<t + 1>> \o Run(t + 1, m - 1) = Run(t, m)
  <2> DEFINE h == <<t + 1>>
             r == Run(t + 1, m - 1)
  <2>1. h \in Seq(Int) /\ Len(h) = 1 /\ h[1] = t + 1
    OBVIOUS
  <2>2. \A i \in 1 .. m - 1 : r[i] = t + 1 + i
    BY DEF Run
  <2>3. \A i \in 1 .. m : Run(t, m)[i] = t + i
    BY DEF Run
  <2>4. r \in Seq(Int) /\ Len(r) = m - 1
    BY <1>2
  <2> HIDE DEF h, r
  <2>5. /\ h \o r \in Seq(Int)
        /\ Len(h \o r) = Len(h) + Len(r)
        /\ \A i \in 1 .. Len(h) + Len(r) :
             (h \o r)[i] = IF i <= Len(h) THEN h[i] ELSE r[i - Len(h)]
    BY <2>1, <2>4, ConcatProperties
  <2>6. Len(h \o r) = m
    BY <2>1, <2>4, <2>5
  <2>8. ASSUME NEW i \in 1 .. m PROVE (h \o r)[i] = t + i
    <3>1. (h \o r)[i] = IF i <= 1 THEN h[i] ELSE r[i - 1]
      BY <2>1, <2>4, <2>5
    <3>2. CASE i = 1
      BY <2>1, <3>1, <3>2
    <3>3. CASE i # 1
      <4>1. i - 1 \in 1 .. m - 1
        BY <3>3
      <4>2. r[i - 1] = t + 1 + (i - 1)
        BY <2>2, <4>1
      <4> QED
        BY <3>1, <3>3, <4>2
    <3> QED
      BY <3>2, <3>3
  <2>7. h \o r = Run(t, m)
    BY <1>1, <2>3, <2>5, <2>6, <2>8, SeqEqual
  <2> QED
    BY <2>7 DEF h, r
<1> QED
  BY <1>3, <1>4, <1>5
Queue ==
  (IF p = NoPbuf THEN <<>> ELSE <<p.frame>>)
    \o [k \in 1 .. ClosedFrom(CurRxDesc) |->
          Rx_Buff[INCR_RX_DESC_INDEX(CurRxDesc, k - 1)]]

InHand == IF p = NoPbuf THEN 0 ELSE 1

QueueInv ==
  /\ Taken \in Int /\ arrived - Taken \in Nat
  /\ arrived - Taken = ClosedFrom(CurRxDesc)
  /\ InHand \in 0 .. 1
  /\ Queue = Run(Taken - InHand, arrived - Taken + InHand)

LEMMA QueueIsRun == TypeInv /\ RingInv /\ HandInv => QueueInv
<1> SUFFICES ASSUME TypeInv, RingInv, HandInv PROVE QueueInv
  OBVIOUS
<1> USE DEF QueueInv
<1> DEFINE n == ClosedFrom(CurRxDesc)
           B == [k \in 1 .. n |-> Rx_Buff[INCR_RX_DESC_INDEX(CurRxDesc, k - 1)]]
<1>1. /\ n \in Nat /\ Taken \in Int /\ arrived = Taken + n
      /\ \A k \in 1 .. n :
           Rx_Buff[INCR_RX_DESC_INDEX(CurRxDesc, k - 1)] = Taken + k
  BY BacklogInOrder
<1>2. B = Run(Taken, n)
  BY <1>1 DEF Run
<1> HIDE DEF n
<1>3. arrived - Taken = n
  BY <1>1
<1>4. CASE p = NoPbuf
  <2>1. Queue = <<>> \o Run(Taken, n)
    BY <1>2, <1>4 DEF Queue, n
  <2>2. Run(Taken, n) \in Seq(Int)
    BY <1>1, RunExtended
  <2>3. Queue = Run(Taken, n)
    BY <2>1, <2>2, ConcatEmptySeq
  <2>4. InHand = 0 /\ Taken - InHand = Taken /\ n + InHand = n
    BY <1>1, <1>4 DEF InHand
  <2> QED
    BY <1>1, <1>3, <2>3, <2>4 DEF n
<1>5. CASE p # NoPbuf
  <2>1. Queue = <<Taken>> \o Run(Taken, n)
    BY <1>2, <1>5 DEF Queue, HandInv, n
  <2>2. /\ Taken - 1 \in Int /\ n + 1 \in Nat \ {0}
        /\ (Taken - 1) + 1 = Taken /\ (n + 1) - 1 = n
    BY <1>1
  <2>3. <<(Taken - 1) + 1>> \o Run((Taken - 1) + 1, (n + 1) - 1)
          = Run(Taken - 1, n + 1)
    BY <2>2, RunConsumed
  <2>4. InHand = 1
    BY <1>5 DEF InHand
  <2> QED
    BY <1>1, <1>3, <2>1, <2>2, <2>3, <2>4 DEF n
<1> QED
  BY <1>4, <1>5

(* Only the DMA adds to the backlog, and only low_level_input takes from   *)
(* it.                                                                     *)
LEMMA TakenStep ==
  ASSUME TypeInv, RingInv, IntactInv, [Next]_vars
  PROVE  \/ /\ DmaStep
            /\ Taken' = Taken /\ arrived' = arrived + 1
         \/ /\ LowLevelInput /\ HAL_ETH_GetRxDataBuffer
            /\ Taken' = Taken + 1 /\ arrived' = arrived
            /\ Rx_Buff[RxDataDesc] = Taken + 1
         \/ /\ ~ DmaStep /\ ~ (LowLevelInput /\ HAL_ETH_GetRxDataBuffer)
            /\ Taken' = Taken /\ arrived' = arrived
<1>1. CASE DmaStep
  BY <1>1, TakenDma DEF DmaStep, DmaReceive
<1>2. CASE ~ DmaStep /\ LowLevelInput /\ HAL_ETH_GetRxDataBuffer
  <2>1. UNCHANGED <<own, dmaVars, RI>> /\ AppDescNbr = 0
    BY <1>2 DEF LowLevelInput, IntactInv
  <2> QED
    BY <1>2, <2>1, TakenGet DEF dmaVars
<1>3. CASE BuildRx
  BY <1>3, TakenBuild DEF BuildRx, dmaVars, LowLevelInput, DmaStep, DmaReceive
<1>4. CASE /\ ~ DmaStep /\ ~ (LowLevelInput /\ HAL_ETH_GetRxDataBuffer)
           /\ UNCHANGED <<own, dmaVars, CurRxDesc>>
  BY <1>4 DEF Taken, ClosedFrom, dmaVars
<1>5. \/ DmaStep \/ BuildRx
      \/ LowLevelInput /\ HAL_ETH_GetRxDataBuffer
      \/ UNCHANGED <<own, dmaVars, CurRxDesc>>
  BY DEF Next, Isr, IsrCall1, IsrClear1, IsrCall2, IsrClear2, ClearRI, Ethin,
         EthinTake, SemWrite, LowLevelInput, PostOk, PostErr, TryNext, Tcpip,
         TcpipFetch, TcpipFree, TcpipKeep, TcpipWedge, TimerFree, AppFree,
         FreeHeld, ringVars, appVars, vars
<1> QED
  BY <1>1, <1>2, <1>3, <1>4, <1>5

(* What becomes of the pbuf in the ETHIN task's hands.                     *)
LEMMA HandStep ==
  ASSUME PoolInv, [Next]_vars
  PROVE  \/ UNCHANGED <<p, delivered>>
         \/ /\ LowLevelInput /\ HAL_ETH_GetRxDataBuffer /\ p = NoPbuf
            /\ \E e \in RX_POOL : p' = NewPbuf(e)
            /\ UNCHANGED delivered
         \/ /\ cutShort' /\ p' = NoPbuf
         \/ /\ PostOk /\ p # NoPbuf
<1>1. CASE LowLevelInput
  <2>1. p = NoPbuf /\ UNCHANGED delivered
    BY <1>1 DEF LowLevelInput, PoolInv
  <2> QED
    BY <1>1, <2>1 DEF LowLevelInput
<1>2. CASE PostOk \/ PostErr
  BY <1>2 DEF PostOk, PostErr, PoolInv, TypeInv
<1>3. CASE DmaStep \/ Isr \/ Tcpip \/ AppFree \/ UNCHANGED vars
  BY <1>3
  DEF DmaStep, Isr, IsrCall1, IsrClear1, IsrCall2, IsrClear2, Tcpip, TcpipFetch,
      TcpipFree, TcpipKeep, TcpipWedge, TimerFree, AppFree, FreeHeld, taskVars,
      histVars, vars
<1>4. CASE EthinTake \/ SemWrite \/ BuildRx \/ TryNext
  BY <1>4 DEF EthinTake, SemWrite, BuildRx, TryNext, histVars
<1> QED
  BY <1>1, <1>2, <1>3, <1>4 DEF Next, Ethin

LEMMA HandInvStep ==
  ASSUME PoolInv, RingInv, IntactInv, HandInv, [Next]_vars
  PROVE  HandInv'
<1> SUFFICES ASSUME p' # NoPbuf PROVE p'.frame = Taken'
  BY DEF HandInv
<1>1. \/ Taken' = Taken
      \/ /\ LowLevelInput /\ HAL_ETH_GetRxDataBuffer
         /\ Taken' = Taken + 1 /\ Rx_Buff[RxDataDesc] = Taken + 1
  BY TakenStep DEF PoolInv
<1>2. \/ UNCHANGED p
      \/ LowLevelInput /\ HAL_ETH_GetRxDataBuffer
         /\ \E e \in RX_POOL : p' = NewPbuf(e)
  BY HandStep DEF PostOk
<1>3. CASE LowLevelInput /\ HAL_ETH_GetRxDataBuffer
  <2>1. Taken' = Taken + 1 /\ Rx_Buff[RxDataDesc] = Taken + 1
    BY <1>3, TakenStep DEF PoolInv, DmaStep, LowLevelInput
  <2>2. \E e \in RX_POOL : p' = NewPbuf(e)
    BY <1>3 DEF LowLevelInput, RxDataReady, HAL_ETH_GetRxDataBuffer
  <2> QED
    BY <2>1, <2>2 DEF NewPbuf
<1>4. CASE ~ (LowLevelInput /\ HAL_ETH_GetRxDataBuffer)
  BY <1>1, <1>2, <1>4 DEF HandInv
<1> QED
  BY <1>3, <1>4

-----------------------------------------------------------------------------
(* The step simulation.                                                    *)
ChanInv ==
  /\ LeanInv
  /\ RingInv
  /\ IntactInv
  /\ HandInv
  /\ CanWedge \/ ~ wedged

LEMMA ChanInit == Init => ChanInv
<1> SUFFICES ASSUME Init PROVE ChanInv
  OBVIOUS
<1>1. LeanInv /\ RingInv
  BY LeanInit, RingInvInit DEF Init
<1>2. IntactInv
  BY DEF Init, RingInit, IntactInv, InUse, InStack, MboxPbufs
<1> QED
  BY <1>1, <1>2 DEF ChanInv, HandInv, Init

LEMMA ChanStep == ChanInv /\ [Next]_vars => ChanInv'
<1> SUFFICES ASSUME ChanInv, [Next]_vars PROVE ChanInv'
  OBVIOUS
<1>1. TypeInv /\ PoolInv
  BY DEF ChanInv, LeanInv, PoolInv
<1>2. LeanInv' /\ RingInv' /\ IntactInv' /\ HandInv'
  BY <1>1, LeanStep, RingInvStep, IntactStep, HandInvStep DEF ChanInv
<1>3. (CanWedge \/ ~ wedged)'
  BY DEF ChanInv, Next, DmaStep, Isr, IsrCall1, IsrClear1, IsrCall2, IsrClear2,
         Ethin, EthinTake, SemWrite, LowLevelInput, BuildRx, PostOk, PostErr,
         TryNext, Tcpip, TcpipFetch, TcpipFree, TcpipKeep, TcpipWedge, TimerFree,
         AppFree, FreeHeld, lwipVars, vars
<1> QED
  BY <1>2, <1>3 DEF ChanInv
(* When a frame goes into the ring, the channel has room for it.           *)
LEMMA RoomInRing ==
  ASSUME RingInv, DmaReceive
  PROVE  ClosedFrom(CurRxDesc) < ETH_RX_DESC_CNT
<1>1. /\ CurRxDesc \in Desc /\ dmaDesc \in Desc /\ own[dmaDesc]
      /\ own[CurRxDesc] => dmaDesc = CurRxDesc
  BY CurIsNext DEF DmaReceive
<1> QED
  BY <1>1, RingAssumption DEF ClosedFrom, Desc

LEMMA ChannelStep ==
  ASSUME NETIF_IN_TASK_PRIORITY < TCPIP_THREAD_PRIO, ~ CanWedge,
         Cardinality(Pbufs) >= MaxHeld + 2,
         ChanInv, QueueInv, ChanInv', QueueInv', [Next]_vars
  PROVE  [Channel!Next]_(Channel!vars)
<1> DEFINE t == Taken - InHand
           m == arrived - Taken + InHand
<1>1. TypeInv /\ PoolInv /\ RingInv /\ IntactInv /\ HandInv
  BY DEF ChanInv, LeanInv, PoolInv
<1>2. /\ Queue = Run(t, m) /\ t \in Int /\ m \in Nat
      /\ InHand \in 0 .. 1 /\ Taken \in Int
      /\ arrived - Taken = ClosedFrom(CurRxDesc)
      /\ arrived \in Nat /\ arrived = t + m
  <2>1. arrived \in Nat
    BY <1>1, RingAssumption DEF RingInv, RingTypeOK
  <2> QED
    BY <1>1, <2>1 DEF QueueInv
<1>3. Queue' = Run(t', m') /\ t' \in Int /\ m' \in Nat
  BY DEF QueueInv
<1>4. ~ cutShort'
  BY DEF ChanInv, LeanInv, NeverCutShort
<1>5. /\ Channel!vars = <<Queue, arrived, delivered>>
      /\ Channel!vars' = <<Queue', arrived', delivered'>>
  BY DEF Channel!vars, Queue
<1>6. CASE DmaStep
  <2>1. /\ Taken' = Taken /\ arrived' = arrived + 1 /\ arrived < MaxFrame
        /\ UNCHANGED <<p, delivered>>
    BY <1>6, TakenDma, <1>1 DEF DmaStep, DmaReceive, taskVars, histVars
  <2>2. t' = t /\ m' = m + 1 /\ arrived' = t + m + 1
    BY <1>2, <2>1 DEF InHand
  <2> HIDE DEF t, m
  <2>3. Queue' = Append(Queue, arrived + 1)
    BY <1>2, <1>3, <2>2, RunExtended
  <2>4. Len(Queue) < ETH_RX_DESC_CNT + 1
    <3>1. Len(Queue) = m
      BY <1>2, RunExtended
    <3>2. ClosedFrom(CurRxDesc) < ETH_RX_DESC_CNT
      BY <1>1, <1>6, RoomInRing DEF DmaStep
    <3>3. m < ETH_RX_DESC_CNT + 1
      BY <1>2, <3>2, RingAssumption DEF m
    <3> QED
      BY <3>1, <3>3
  <2>5. Channel!Accept
    BY <2>1, <2>3, <2>4 DEF Channel!Accept, Queue
  <2> QED
    BY <2>5 DEF Channel!Next
<1>7. CASE LowLevelInput /\ HAL_ETH_GetRxDataBuffer
  <2>1. /\ Taken' = Taken + 1 /\ arrived' = arrived
    BY <1>1, <1>7, TakenStep DEF DmaStep, LowLevelInput, taskVars
  <2>2. /\ p = NoPbuf /\ p' # NoPbuf /\ UNCHANGED delivered
    <3>1. \A e \in RX_POOL : NewPbuf(e) # NoPbuf
      BY <1>1, NewPbufType, NoPbufAssumption DEF TypeInv
    <3> QED
      BY <1>1, <1>4, <1>7, <3>1
      DEF LowLevelInput, PoolInv, RxDataReady, HAL_ETH_GetRxDataBuffer
  <2>3. t' = t /\ m' = m
    BY <1>2, <2>1, <2>2 DEF InHand
  <2>4. Queue' = Queue
    BY <1>2, <1>3, <2>3
  <2> QED
    BY <1>5, <2>1, <2>2, <2>4
<1>8. CASE /\ ~ DmaStep /\ ~ (LowLevelInput /\ HAL_ETH_GetRxDataBuffer)
  <2>1. Taken' = Taken /\ arrived' = arrived
    BY <1>1, <1>8, TakenStep
  <2>2. CASE UNCHANGED <<p, delivered>>
    <3>1. t' = t /\ m' = m
      BY <2>1, <2>2 DEF InHand
    <3>2. Queue' = Queue
      BY <1>2, <1>3, <3>1
    <3> QED
      BY <1>5, <2>1, <2>2, <3>2
  <2>3. CASE PostOk /\ p # NoPbuf
    <3>1. /\ p' = NoPbuf /\ delivered' = p.frame /\ p.frame = Taken
      BY <1>1, <2>3 DEF PostOk, HandInv
    <3>2. /\ t' = t + 1 /\ m' = m - 1 /\ m \in Nat \ {0} /\ delivered' = t + 1
      BY <1>2, <2>1, <2>3, <3>1 DEF InHand, QueueInv
    <3> HIDE DEF t, m
    <3>3. /\ Queue # <<>> /\ delivered' = Head(Queue) /\ Queue' = Tail(Queue)
      BY <1>2, <1>3, <3>2, RunConsumed
    <3>4. Channel!Give
      BY <2>1, <3>3 DEF Channel!Give, Queue
    <3> QED
      BY <3>4 DEF Channel!Next
  <2> QED
    BY <1>1, <1>4, <1>8, <2>2, <2>3, HandStep
<1> QED
  BY <1>6, <1>7, <1>8

(* The receive path is a lossless channel from the network to the stack    *)
(* (the safety part of LosslessChannel): with the priorities of the        *)
(* firmware, a tcpip thread that never blocks for ever and a pool of two   *)
(* elements more than the receive mailboxes hold, every step of the DMA,   *)
(* the interrupt and the tasks accepts the next frame at the end of the    *)
(* queue, gives the first one, or leaves the queue alone.                  *)
THEOREM ChannelLossless ==
  ASSUME NETIF_IN_TASK_PRIORITY < TCPIP_THREAD_PRIO, ~ CanWedge,
         Cardinality(Pbufs) >= MaxHeld + 2
  PROVE  Spec => Channel!Init /\ [][Channel!Next]_(Channel!vars)
<1>1. Init => Channel!Init
  <2> SUFFICES ASSUME Init PROVE Channel!Init
    OBVIOUS
  <2>1. /\ CurRxDesc \in Desc /\ own[CurRxDesc]
    BY RingAssumption DEF Init, RingInit, Desc
  <2>2. ClosedFrom(CurRxDesc) = 0
    BY <2>1 DEF ClosedFrom
  <2>3. TypeInv /\ RingInv /\ HandInv
    BY ChanInit DEF ChanInv, LeanInv, PoolInv
  <2>4. Queue = Run(Taken - InHand, 0) /\ Taken - InHand \in Int
    <3>1. InHand = 0
      BY DEF Init, InHand
    <3> QED
      BY <2>2, <2>3, <3>1, QueueIsRun DEF QueueInv
  <2>5. Len(Queue) = 0 /\ Queue \in Seq(Int)
    BY <2>4, RunExtended
  <2>6. Queue = <<>>
    BY <2>5, EmptySeq
  <2> QED
    BY <2>6 DEF Init, RingInit, Channel!Init, Queue
<1>2. ChanInv => QueueInv
  BY QueueIsRun DEF ChanInv, LeanInv, PoolInv
<1>3. ChanInv /\ QueueInv /\ (ChanInv /\ QueueInv)' /\ [Next]_vars
        => [Channel!Next]_(Channel!vars)
  BY ChannelStep
<1> QED
  BY <1>1, <1>2, <1>3, ChanInit, ChanStep, PTL DEF Spec
=============================================================================
