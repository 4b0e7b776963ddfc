---------------------------- MODULE EthTx_proofs ----------------------------
(***************************************************************************)
(* Proofs about the transmit paths, for every size of the ring and every   *)
(* length of the chains, with timeouts and faults or without: of EthTx for *)
(* any set of callers, of EthTxBare for the main loop and the interrupt.   *)
(*                                                                         *)
(* What is said of TxRing alone comes first, for a caller c whose turn it  *)
(* is: whoever else is in low_level_output has not begun to write to the   *)
(* ring, or has given its frame to the DMA.  In EthTx the core lock gives  *)
(* c its turn, in EthTxBare the absence of a clash.                        *)
(***************************************************************************)
EXTENDS EthTx, EthTxBare, SequenceTheorems, TLAPS

(* The index of the next descriptor is that of a descriptor.               *)
LEMMA TxIndexInRing ==
  ASSUME NEW d \in Desc
  PROVE  INCR_TX_DESC_INDEX(d, 1) \in Desc
BY TxAssumption DEF Desc, INCR_TX_DESC_INDEX

(* The ways in which the driver and the DMA write to a descriptor.         *)
LEMMA DescriptorWrites ==
  ASSUME NEW T \in [Desc -> TxDescriptor], NEW d \in Desc, NEW e \in Desc,
         NEW b \in Seq(Buffer), NEW x \in BOOLEAN, NEW y \in BOOLEAN
  PROVE  /\ [T EXCEPT ![d].own = x] \in [Desc -> TxDescriptor]
         /\ [T EXCEPT ![d].LD = x] \in [Desc -> TxDescriptor]
         /\ [T EXCEPT ![d].LD = x, ![e].FD = y] \in [Desc -> TxDescriptor]
         /\ [T EXCEPT ![d].bufs = b, ![d].FD = x] \in [Desc -> TxDescriptor]
<1>1. [T EXCEPT ![d].own = x] \in [Desc -> TxDescriptor]
  BY DEF TxDescriptor
<1>2. [T EXCEPT ![d].LD = x] \in [Desc -> TxDescriptor]
  BY DEF TxDescriptor
<1>3. [T EXCEPT ![d].LD = x, ![e].FD = y] \in [Desc -> TxDescriptor]
  <2> DEFINE U == [T EXCEPT ![d].LD = x]
  <2>1. [U EXCEPT ![e].FD = y] \in [Desc -> TxDescriptor]
    BY <1>2 DEF TxDescriptor
  <2> QED
    BY <2>1
<1>4. [T EXCEPT ![d].bufs = b, ![d].FD = x] \in [Desc -> TxDescriptor]
  <2> DEFINE U == [T EXCEPT ![d].bufs = b]
  <2>1. U \in [Desc -> TxDescriptor]
    BY DEF TxDescriptor
  <2>2. [U EXCEPT ![d].FD = x] \in [Desc -> TxDescriptor]
    BY <2>1 DEF TxDescriptor
  <2> QED
    BY <2>2
<1> QED
  BY <1>1, <1>2, <1>3, <1>4

(* Taking the first buffers off a list leaves lists of buffers. *)
LEMMA BufferLists ==
  ASSUME NEW s \in Seq(Buffer), s # <<>>,
         NEW n \in {1, 2}, n = 2 => Len(s) > 1
  PROVE  /\ SubSeq(s, 1, n) \in Seq(Buffer)
         /\ SubSeq(s, n + 1, Len(s)) \in Seq(Buffer)
         /\ Len(SubSeq(s, n + 1, Len(s))) = Len(s) - n
<1>1. Len(s) \in Nat /\ Len(s) >= 1 /\ n <= Len(s)
  BY LenProperties, EmptySeq
<1> QED
  BY <1>1

(***************************************************************************)
(* What the types need to be inductive: the list of a call never holds     *)
(* more buffers than there are descriptors left to fill, and it is empty   *)
(* only when the code does not read from it.                               *)
(***************************************************************************)
Listed(c) ==
  /\ pc[c] # "out" => frame[c] \in 1 .. MaxFrame
  /\ pc[c] \in {"config"} =>
       rest[c] # <<>> /\ Len(rest[c]) <= ETH_TX_DESC_CNT
  /\ pc[c] = "sem" => rest[c] # <<>>
  /\ pc[c] = "begin" => TxConfig # <<>> /\ Len(TxConfig) <= ETH_TX_DESC_CNT
  /\ pc[c] \in {"fill", "own", "more", "rollback", "last"} =>
       descnbr[c] + Len(rest[c]) <= ETH_TX_DESC_CNT
  /\ pc[c] \in {"fill", "more"} => rest[c] # <<>>
  /\ pc[c] \in {"own", "more", "rollback"} => descnbr[c] >= 1

-----------------------------------------------------------------------------
(* The initial state has its types.                                        *)
LEMMA TxInitTyped == TxInit => TxTypeOK /\ \A c \in Callers : Listed(c)
<1> SUFFICES ASSUME TxInit PROVE TxTypeOK /\ \A c \in Callers : Listed(c)
  OBVIOUS
<1> USE DEF TxInit
<1>1. TxTypeOK
  <2>1. TxDesc \in [Desc -> TxDescriptor]
    BY EmptySeq DEF TxDescriptor
  <2>2. 0 \in Desc
    BY TxAssumption DEF Desc
  <2>3. gather \in Seq(Buffer) /\ wire \in Seq(Seq(Buffer))
    BY EmptySeq
  <2>4. TxConfig \in Seq(Buffer) /\ rest \in [Callers -> Seq(Buffer)]
    BY EmptySeq
  <2>5. /\ frame \in [Callers -> 0 .. MaxFrame]
        /\ handed \in 0 .. MaxFrame
        /\ descnbr \in [Callers -> 0 .. ETH_TX_DESC_CNT]
    BY TxAssumption
  <2> QED
    BY <2>1, <2>2, <2>3, <2>4, <2>5 DEF TxTypeOK
<1>2. \A c \in Callers : Listed(c)
  BY DEF Listed
<1> QED
  BY <1>1, <1>2

(* The DMA and the error interrupt. *)
LEMMA HardwareTyped ==
  ASSUME TxTypeOK, TxDma \/ FaultIrq, UNCHANGED handed
  PROVE  TxTypeOK' /\ UNCHANGED <<pc, rest, descnbr, TxConfig, frame>>
<1>1. TxTypeOK'
  <2> USE DEF TxTypeOK, headVars, localVars
  <2>1. CASE FaultIrq
    BY <2>1 DEF FaultIrq, dmaVars
  <2>2. CASE TxDma
    <3> USE DEF TxDma
    <3>1. CASE DmaClose
      <4>1. dmaDesc' \in Desc
        BY <3>1, TxIndexInRing DEF DmaClose
      <4>2. wire' \in Seq(Seq(Buffer)) /\ gather' \in Seq(Buffer)
        <5>1. Append(wire, gather) \in Seq(Seq(Buffer))
          BY AppendProperties
        <5> QED
          BY <3>1, <5>1, EmptySeq DEF DmaClose
      <4>3. TxDesc' \in [Desc -> TxDescriptor]
        BY ZenonT(40), <3>1 DEF DmaClose, TxDescriptor
      <4> QED
        BY <2>2, <3>1, <4>1, <4>2, <4>3 DEF DmaClose
    <3>2. CASE DmaFetch /\ UNCHANGED TxDesc
      <4>1. gather' \in Seq(Buffer)
        <5>1. TxDesc[dmaDesc].bufs \in Seq(Buffer)
          BY DEF TxDescriptor
        <5>2. gather \o TxDesc[dmaDesc].bufs \in Seq(Buffer)
          BY <5>1, ConcatProperties
        <5> QED
          BY <3>2, <5>1, <5>2 DEF DmaFetch
      <4> QED
        BY <2>2, <3>2, <4>1 DEF DmaFetch
    <3>3. CASE DmaSuspend /\ UNCHANGED TxDesc
      BY <2>2, <3>3 DEF DmaSuspend
    <3>4. CASE DmaFault /\ UNCHANGED TxDesc
      BY <2>2, <3>4 DEF DmaFault
    <3> QED
      BY <2>2, <3>1, <3>2, <3>3, <3>4
  <2> QED
    BY <2>1, <2>2
<1>2. UNCHANGED <<pc, rest, descnbr, TxConfig, frame>>
  BY DEF TxDma, FaultIrq, localVars
<1> QED
  BY <1>1, <1>2

(* Every step of HAL_ETH_Transmit, and the write to TxConfig before it.    *)
LEMMA TransmitTyped ==
  ASSUME TxTypeOK, NEW c \in Callers, Listed(c),
         SetTxConfig(c) \/ HAL_ETH_Transmit(c), UNCHANGED handed
  PROVE  /\ TxTypeOK' /\ Listed(c)' /\ pc[c] \notin {"out", "sem"}
         /\ \E to : to \notin {"out", "sem"} /\ pc' = [pc EXCEPT ![c] = to]
<1> USE DEF Goto
<1>1. TxTypeOK /\ Listed(c)
  OBVIOUS
<1>t. TxDesc \in [Desc -> TxDescriptor] /\ descidx[c] \in Desc
  BY <1>1 DEF TxTypeOK
<1>2. UNCHANGED handed
  OBVIOUS
<1> DEFINE Kept == TxTypeOK' /\ Listed(c)'
           Goal == /\ Kept /\ pc[c] \notin {"out", "sem"}
                   /\ \E to : to \notin {"out", "sem"} /\ pc' = [pc EXCEPT ![c] = to]
<1>3. ASSUME Kept, pc[c] \notin {"out", "sem"},
             \E to : to \notin {"out", "sem"} /\ pc' = [pc EXCEPT ![c] = to]
      PROVE  Goal
  BY <1>3
<1> USE DEF TxTypeOK, Listed, headVars, quietVars, dmaVars, localVars
<1>4. CASE SetTxConfig(c)
  <2>1. Kept
    BY <1>1, <1>2, <1>4 DEF SetTxConfig
  <2> QED
    BY <2>1, <1>3, <1>4 DEF SetTxConfig
<1>5. CASE Begin(c)
  <2>1. CASE pc' = [pc EXCEPT ![c] = "fill"]
    <3>0. Len(TxConfig) \in Nat /\ 0 \in 0 .. ETH_TX_DESC_CNT
      BY <1>1, LenProperties, TxAssumption
    <3>1. /\ pc[c] = "begin"
          /\ descidx' = [descidx EXCEPT ![c] = CurTxDesc]
          /\ firstdescidx' = [firstdescidx EXCEPT ![c] = CurTxDesc]
          /\ descnbr' = [descnbr EXCEPT ![c] = 0]
          /\ rest' = [rest EXCEPT ![c] = TxConfig]
          /\ UNCHANGED <<TxDesc, headVars, quietVars, dmatxdesc>>
      BY <1>5, <2>1, <1>1 DEF Begin
    <3>2. TxTypeOK'
      BY <1>1, <1>2, <2>1, <3>0, <3>1
    <3>3. Listed(c)'
      BY <1>1, <2>1, <3>0, <3>1
    <3>4. Kept
      BY <3>2, <3>3
    <3> QED
      BY <3>4, <1>3, <3>1, <2>1
  <2>2. CASE pc' = [pc EXCEPT ![c] = "done"]
    <3>1. Kept
      BY <1>1, <1>2, <1>5, <2>2 DEF Begin
    <3> QED
      BY <3>1, <1>3, <1>5, <2>2 DEF Begin
  <2> QED
    BY <1>5, <2>1, <2>2 DEF Begin
<1>6. CASE Fill(c)
  <2> DEFINE n == IF Len(rest[c]) > 1 THEN 2 ELSE 1
  <2>0. /\ rest[c] \in Seq(Buffer) /\ rest[c] # <<>>
        /\ n \in {1, 2} /\ (n = 2 => Len(rest[c]) > 1)
    BY <1>1, <1>6 DEF Fill
  <2>1. /\ SubSeq(rest[c], 1, n) \in Seq(Buffer)
        /\ SubSeq(rest[c], n + 1, Len(rest[c])) \in Seq(Buffer)
        /\ Len(SubSeq(rest[c], n + 1, Len(rest[c]))) = Len(rest[c]) - n
    <3> HIDE DEF n
    <3> QED
      BY <2>0, BufferLists
  <2>2. Len(rest[c]) \in Nat /\ Len(rest[c]) >= n
    BY <1>1, <1>6, EmptySeq, LenProperties DEF Fill
  <2>3. /\ pc[c] = "fill" /\ pc' = [pc EXCEPT ![c] = "own"]
        /\ rest' = [rest EXCEPT ![c] = SubSeq(@, n + 1, Len(@))]
        /\ descnbr' = [descnbr EXCEPT ![c] = @ + 1]
        /\ UNCHANGED <<headVars, quietVars, descidx, firstdescidx, dmatxdesc>>
    BY <1>6 DEF Fill
  <2>4. TxDesc' \in [Desc -> TxDescriptor]
    <3> DEFINE b == SubSeq(rest[c], 1, n)
               x == descnbr[c] = 0 \/ TxDesc[descidx[c]].FD
    <3>1. x \in BOOLEAN
      BY <1>t DEF TxDescriptor
    <3>2. TxDesc' = [TxDesc EXCEPT ![descidx[c]].bufs = b, ![descidx[c]].FD = x]
      BY <1>6, <1>t DEF Fill, TxDescriptor
    <3>3. b \in Seq(Buffer)
      BY <2>1
    <3> HIDE DEF b, x
    <3> QED
      BY <1>t, <3>1, <3>2, <3>3, DescriptorWrites
  <2>5. descnbr[c] + 1 \in 0 .. ETH_TX_DESC_CNT
    BY SMTT(40), <1>1, <2>2, <2>3, TxAssumption
  <2>6. TxTypeOK'
    BY <1>1, <1>2, <2>1, <2>3, <2>4, <2>5
  <2>7. Listed(c)'
    <3> DEFINE rem == Len(rest[c])
    <3>1. /\ pc'[c] = "own" /\ frame' = frame
          /\ descnbr'[c] = descnbr[c] + 1 /\ Len(rest'[c]) = rem - n
      BY <1>1, <2>1, <2>3
    <3>2. /\ frame[c] \in 1 .. MaxFrame /\ descnbr[c] \in Nat /\ ETH_TX_DESC_CNT \in Nat
          /\ descnbr[c] + rem <= ETH_TX_DESC_CNT
      BY <1>1, <2>3, TxAssumption
    <3> HIDE DEF rem
    <3>3. rem \in Nat /\ n \in {1, 2}
      BY <2>0, <2>2 DEF rem
    <3> HIDE DEF n
    <3>4. (descnbr[c] + 1) + (rem - n) <= ETH_TX_DESC_CNT /\ descnbr[c] + 1 >= 1
      BY <3>2, <3>3
    <3> QED
      BY <3>1, <3>2, <3>4 DEF Listed
  <2> QED
    BY <1>3, <2>3, <2>6, <2>7
<1>7. CASE SetOwn(c)
  <2>1. TxDesc' \in [Desc -> TxDescriptor]
    BY ZenonT(60), <1>t, <1>7 DEF SetOwn, TxDescriptor
  <2>2. CASE rest[c] = <<>>
    <3>1. Kept
      BY <1>1, <1>2, <1>7, <2>1, <2>2 DEF SetOwn
    <3> QED
      BY <3>1, <1>3, <1>7, <2>2 DEF SetOwn
  <2>3. CASE rest[c] # <<>>
    <3>1. Kept
      BY <1>1, <1>2, <1>7, <2>1, <2>3 DEF SetOwn
    <3> QED
      BY <3>1, <1>3, <1>7, <2>3 DEF SetOwn
  <2> QED
    BY <2>2, <2>3
<1>8. CASE More(c)
  <2> DEFINE next == INCR_TX_DESC_INDEX(descidx[c], 1)
  <2>1. next \in Desc
    BY <1>1, TxIndexInRing
  <2>2. TxDesc' \in [Desc -> TxDescriptor]
    <3>1. TxDesc' = [TxDesc EXCEPT ![descidx[c]].LD = FALSE, ![next].FD = FALSE]
      BY <1>8 DEF More
    <3>2. \A T \in [Desc -> TxDescriptor], d, e \in Desc, x, y \in BOOLEAN :
            [T EXCEPT ![d].LD = x, ![e].FD = y] \in [Desc -> TxDescriptor]
      BY ZenonT(40), DescriptorWrites, EmptySeq
    <3> HIDE DEF next
    <3>3. [TxDesc EXCEPT ![descidx[c]].LD = FALSE, ![next].FD = FALSE]
            \in [Desc -> TxDescriptor]
      BY <1>t, <2>1, <3>2
    <3> QED
      BY <3>1, <3>3
  <2>3. CASE TxDesc[next].own
    <3>1. Kept
      BY ZenonT(40), <1>1, <1>2, <1>8, <2>2, <2>3 DEF More
    <3> QED
      BY <3>1, <1>3, <1>8, <2>3 DEF More
  <2>4. CASE ~ TxDesc[next].own
    <3>1. /\ pc[c] = "more"
          /\ pc' = [pc EXCEPT ![c] = "fill"]
          /\ descidx' = [descidx EXCEPT ![c] = next]
          /\ UNCHANGED <<headVars, quietVars, rest, firstdescidx, descnbr,
                         dmatxdesc>>
      BY <1>8, <2>4 DEF More
    <3>2. TxTypeOK'
      <4> HIDE DEF next
      <4> QED
        BY <1>1, <1>2, <2>1, <2>2, <3>1
    <3>3. Listed(c)'
      BY <1>1, <3>1
    <3> QED
      BY <3>1, <3>2, <3>3, <1>3
  <2> QED
    BY <2>3, <2>4
<1>9. CASE Rollback(c)
  <2>1. descidx' \in [Callers -> Desc]
    BY <1>1, <1>9, TxIndexInRing DEF Rollback
  <2>2. TxDesc' \in [Desc -> TxDescriptor]
    BY ZenonT(60), <1>t, <1>9 DEF Rollback, TxDescriptor
  <2>3. Len(rest[c]) \in Nat
    BY <1>1, LenProperties
  <2>4. /\ pc[c] = "rollback"
        /\ descnbr' = [descnbr EXCEPT ![c] = @ - 1]
        /\ UNCHANGED <<headVars, quietVars, rest, firstdescidx, dmatxdesc>>
    BY <1>9 DEF Rollback
  <2>5. descnbr[c] - 1 \in 0 .. ETH_TX_DESC_CNT
    BY <1>1, <2>4, TxAssumption
  <2>6. CASE descnbr[c] = 1
    <3>1. Kept
      BY <1>1, <1>2, <1>9, <2>1, <2>2, <2>4, <2>5, <2>6 DEF Rollback
    <3> QED
      BY <3>1, <1>3, <1>9, <2>6 DEF Rollback
  <2>7. CASE descnbr[c] # 1
    <3>1. pc' = [pc EXCEPT ![c] = "rollback"]
      BY <1>9, <2>7 DEF Rollback
    <3>2. TxTypeOK'
      BY <1>1, <1>2, <2>1, <2>2, <2>4, <2>5, <3>1
    <3>3. Listed(c)'
      BY <1>1, <2>3, <2>4, <2>7, <3>1, TxAssumption
    <3> QED
      BY <3>1, <3>2, <3>3, <1>3, <2>4
  <2> QED
    BY <2>6, <2>7
<1>10. CASE SetLast(c)
  <2>1. TxDesc' \in [Desc -> TxDescriptor]
    BY ZenonT(60), <1>t, <1>10 DEF SetLast, TxDescriptor
  <2>2. Kept
    BY <1>1, <1>2, <1>10, <2>1 DEF SetLast
  <2> QED
    BY <2>2, <1>3, <1>10 DEF SetLast
<1>11. CASE Advance(c)
  <2>1. CurTxDesc' \in Desc
    BY <1>1, <1>11, TxIndexInRing DEF Advance
  <2>2. Kept
    BY <1>1, <1>2, <1>11, <2>1 DEF Advance
  <2> QED
    BY <2>2, <1>3, <1>11 DEF Advance
<1>12. CASE Start(c)
  <2>1. Kept
    BY <1>1, <1>2, <1>12 DEF Start
  <2> QED
    BY <2>1, <1>3, <1>12 DEF Start
<1>13. CASE Poll(c)
  <2> USE DEF Poll, PollDone, PollFault, PollTimeout, Abandon
  <2>1. Kept
    BY ZenonT(40), <1>1, <1>2, <1>13
  <2> QED
    BY <2>1, <1>3, <1>13
<1> QED
  BY <1>4, <1>5, <1>6, <1>7, <1>8, <1>9, <1>10, <1>11, <1>12, <1>13
  DEF HAL_ETH_Transmit


(* What is known of the others does not change in a step of c, but that    *)
(* TxConfig may now point to c's list.                                     *)
LEMMA OthersListed ==
  ASSUME TxTypeOK, NEW c \in Callers, Listed(c), NEW d \in Callers, d # c, Listed(d),
         SetTxConfig(c) \/ HAL_ETH_Transmit(c)
  PROVE  Listed(d)'
<1>1. pc'[d] = pc[d] /\ rest'[d] = rest[d] /\ descnbr'[d] = descnbr[d] /\ frame' = frame
  BY ZenonT(60) DEF TxTypeOK, SetTxConfig, HAL_ETH_Transmit, Begin, Fill, SetOwn, More, Rollback,
     SetLast, Advance, Start, Poll, PollDone, PollFault, PollTimeout, Abandon, Goto,
     headVars, quietVars, dmaVars, localVars
<1>2. TxConfig' = TxConfig \/ (TxConfig' = rest[c] /\ pc[c] = "config")
  BY DEF SetTxConfig, HAL_ETH_Transmit, Begin, Fill, SetOwn, More, Rollback,
     SetLast, Advance, Start, Poll, PollDone, PollFault, PollTimeout, Abandon, Goto,
     quietVars
<1> QED
  BY <1>1, <1>2 DEF Listed

(* The caller comes in with a chain of its own.                            *)
LEMMA CallTyped ==
  ASSUME TxTypeOK, NEW c \in Callers, NEW n \in 1 .. MaxChain, NEW to \in {"sem", "config"},
         handed < MaxFrame, handed' = handed + 1, Call(c, handed + 1, n, to)
  PROVE  /\ TxTypeOK' /\ pc[c] = "out" /\ pc' = [pc EXCEPT ![c] = to]
         /\ rest' = [rest EXCEPT ![c] = Chain(handed + 1, n)]
         /\ frame' = [frame EXCEPT ![c] = handed + 1]
         /\ Chain(handed + 1, n) \in Seq(Buffer) /\ Chain(handed + 1, n) # <<>>
         /\ Len(Chain(handed + 1, n)) = n /\ handed + 1 \in 1 .. MaxFrame
         /\ pc'[c] = to /\ rest'[c] = Chain(handed + 1, n) /\ frame'[c] = handed + 1
<1>1. /\ pc[c] = "out" /\ pc' = [pc EXCEPT ![c] = to]
      /\ frame' = [frame EXCEPT ![c] = handed + 1]
      /\ rest' = [rest EXCEPT ![c] = Chain(handed + 1, n)]
      /\ UNCHANGED <<TxDesc, headVars, dmaVars, irqEnabled, TxConfig, abandoned,
                     descidx, firstdescidx, descnbr, dmatxdesc>>
  BY DEF Call, Goto
<1>3. handed + 1 \in 1 .. MaxFrame
  BY TxAssumption DEF TxTypeOK
<1>4. /\ Chain(handed + 1, n) \in Seq(Buffer) /\ Chain(handed + 1, n) # <<>>
      /\ Len(Chain(handed + 1, n)) = n
  <2>1. n \in Nat /\ n >= 1 /\ n <= MaxChain
    BY TxAssumption
  <2>2. \A i \in 1 .. n :
          [frame |-> handed + 1, part |-> i, of |-> n] \in Buffer
    BY <1>3, <2>1, TxAssumption DEF Buffer
  <2>3. Chain(handed + 1, n) \in Seq(Buffer) /\ Len(Chain(handed + 1, n)) = n
    BY <2>1, <2>2 DEF Chain
  <2> QED
    BY <2>1, <2>3, EmptySeq
<1>5. TxTypeOK'
  <2>1. handed + 1 \in 0 .. MaxFrame
    BY <1>3
  <2> QED
    BY <1>1, <1>4, <2>1 DEF TxTypeOK, headVars, dmaVars
<1>6. pc'[c] = to /\ rest'[c] = Chain(handed + 1, n) /\ frame'[c] = handed + 1
  BY <1>1 DEF TxTypeOK
<1> QED
  BY <1>1, <1>3, <1>4, <1>5, <1>6

(* It returns, and its local variables are gone.                           *)
LEMMA ReturnTyped ==
  ASSUME TxTypeOK, NEW c \in Callers, NEW from, Return(c, from), UNCHANGED handed
  PROVE  /\ TxTypeOK' /\ pc[c] = from /\ pc' = [pc EXCEPT ![c] = "out"]
         /\ \A d \in Callers : d # c =>
              /\ pc'[d] = pc[d] /\ rest'[d] = rest[d] /\ descnbr'[d] = descnbr[d]
              /\ frame'[d] = frame[d]
         /\ pc'[c] = "out" /\ frame'[c] = 0
         /\ UNCHANGED <<TxDesc, headVars, dmaVars, irqEnabled, TxConfig, abandoned>>
<1>1. /\ pc[c] = from /\ pc' = [pc EXCEPT ![c] = "out"]
      /\ frame' = [frame EXCEPT ![c] = 0]
      /\ rest' = [rest EXCEPT ![c] = <<>>]
      /\ descidx' = [descidx EXCEPT ![c] = 0]
      /\ firstdescidx' = [firstdescidx EXCEPT ![c] = 0]
      /\ descnbr' = [descnbr EXCEPT ![c] = 0]
      /\ dmatxdesc' = [dmatxdesc EXCEPT ![c] = 0]
      /\ UNCHANGED <<TxDesc, headVars, dmaVars, irqEnabled, TxConfig, abandoned>>
  BY DEF Return, Goto
<1>2. TxTypeOK'
  <2>1. 0 \in Desc /\ 0 \in 0 .. ETH_TX_DESC_CNT /\ 0 \in 0 .. MaxFrame
    BY TxAssumption DEF Desc
  <2>2. <<>> \in Seq(Buffer)
    BY EmptySeq
  <2> QED
    BY <1>1, <2>1, <2>2 DEF TxTypeOK, headVars, dmaVars
<1>3. \A d \in Callers : d # c =>
              /\ pc'[d] = pc[d] /\ rest'[d] = rest[d] /\ descnbr'[d] = descnbr[d]
              /\ frame'[d] = frame[d]
  BY <1>1 DEF TxTypeOK
<1>4. pc'[c] = "out" /\ frame'[c] = 0
  BY <1>1 DEF TxTypeOK
<1> QED
  BY <1>1, <1>2, <1>3, <1>4

-----------------------------------------------------------------------------
(* The ring as the DMA sees it: Slots[0] is the descriptor it is at.       *)
At(p) == INCR_TX_DESC_INDEX(dmaDesc, p)

Slots == [i \in Desc |-> TxDesc[At(i)]]

(* The steps that write descriptors, and all of a call until the DMA has   *)
(* been given the frame.                                                   *)
Preparing == {"fill", "own", "more", "rollback", "last", "advance", "start"}

Driving == {"sem", "config", "begin"} \cup Preparing

(* c has marked the descriptors from k + r on; r counts those that         *)
(* Rollback has taken back.                                                *)
Marked(c) == IF pc[c] = "own" THEN descnbr[c] - 1 ELSE descnbr[c]

Placed(c, k, r) ==
  /\ k + r + descnbr[c] <= ETH_TX_DESC_CNT
  /\ \A i \in Desc :
       Slots[i].own <=> i < k \/ (k + r <= i /\ i < k + r + Marked(c))
  /\ firstdescidx[c] = At(k)
  /\ pc[c] # "rollback" => r = 0
  /\ pc[c] = "rollback" => descidx[c] = At(k + r)
  /\ pc[c] = "fill" =>
       descidx[c] = At(k + descnbr[c]) /\ k + descnbr[c] < ETH_TX_DESC_CNT
  /\ pc[c] \in {"own", "more", "last", "advance", "start"} =>
       descidx[c] = At(k + descnbr[c] - 1) /\ descnbr[c] >= 1
  /\ pc[c] \in Preparing \ {"advance", "start"} => CurTxDesc = At(k)
  /\ pc[c] = "advance" => CurTxDesc = descidx[c]
  /\ pc[c] = "start" => CurTxDesc = At(k + descnbr[c]) /\ dmatxdesc[c] = descidx[c]

Position(k, r) ==
  /\ DMACTDTPR = At(k)
  /\ dma = "reading" => k > 0
  /\ (\A c \in Callers : pc[c] \notin Preparing) =>
       CurTxDesc = At(k) /\ \A i \in Desc : Slots[i].own <=> i < k
  /\ \A c \in Callers : pc[c] \in Preparing => Placed(c, k, r)

-----------------------------------------------------------------------------
(* The buffers of a chain of n pbufs of frame f: one, the first t of them, *)
(* those after the first t, and those that go into the descriptor that     *)
(* starts with number t.                                                   *)
Buf(f, n, t) == [frame |-> f, part |-> t, of |-> n]

Prefix(f, n, t) == [i \in 1 .. t |-> Buf(f, n, i)]

Suffix(f, n, t) == [i \in 1 .. n - t |-> Buf(f, n, t + i)]

Piece(f, n, t) ==
  IF t < n THEN <<Buf(f, n, t), Buf(f, n, t + 1)>> ELSE <<Buf(f, n, t)>>

(* The first buffer of slot i, and the number of its last.                 *)
First(i) == Slots[i].bufs[1]

Ends(i) == First(i).part + 1 >= First(i).of

Through(i) == IF First(i).part < First(i).of THEN First(i).part + 1 ELSE First(i).part

(* The k slots that the DMA has been given.                                *)
Holds(i) ==
  /\ First(i) \in Buffer
  /\ First(i).part <= First(i).of
  /\ Slots[i].bufs = Piece(First(i).frame, First(i).of, First(i).part)
  /\ Slots[i].LD <=> Ends(i)
  /\ Slots[i].FD => First(i).part = 1

(* R is the order of the frames, as a set of pairs: the numbers of two     *)
(* frames that leave one after the other are in R.                         *)
Committed(k, R) ==
  \A i \in Desc : i < k =>
    /\ Holds(i)
    /\ ~ Ends(i) =>
         /\ i + 1 < k
         /\ First(i + 1) = Buf(First(i).frame, First(i).of, First(i).part + 2)
    /\ \A j \in Desc : i < j /\ j < k /\ Ends(i) => <<First(i).frame, First(j).frame>> \in R

Gathered(k) ==
  gather # <<>> =>
    /\ dma \in {"suspended", "running"} =>
         /\ k > 0 /\ First(0).part > 1
         /\ gather = Prefix(First(0).frame, First(0).of, First(0).part - 1)
    /\ dma = "reading" =>
         gather = Prefix(First(0).frame, First(0).of, Through(0))

Sent(k, R) ==
  /\ \A x \in DOMAIN wire : IsWhole(wire[x])
  /\ \A x, y \in DOMAIN wire : x < y => <<wire[x][1].frame, wire[y][1].frame>> \in R
  /\ \A x \in DOMAIN wire : \A i \in Desc :
       i < k => <<wire[x][1].frame, First(i).frame>> \in R

(* The frames handed over before the one that c is about to send.          *)
Earlier(c, k, R) ==
  /\ \A x \in DOMAIN wire : <<wire[x][1].frame, frame[c]>> \in R
  /\ \A i \in Desc : i < k => <<First(i).frame, frame[c]>> \in R
  /\ \A d \in Callers : d # c /\ pc[d] \in Driving \cup {"poll"} => <<frame[d], frame[c]>> \in R

Numbered(k, R) ==
  /\ \A x \in DOMAIN wire : wire[x][1].frame <= handed
  /\ \A i \in Desc : i < k => First(i).frame <= handed
  /\ \A c \in Callers : frame[c] <= handed
  /\ \A c \in Callers : pc[c] \in Driving => Earlier(c, k, R)

(* Somebody waits for each frame that the DMA has been given, ...          *)
Live(k) ==
  \A i \in Desc : i < k =>
    \/ First(i).frame \in abandoned
    \/ \E c \in Callers : pc[c] = "poll" /\ First(i).frame = frame[c]

(* ... for the last of the slots that hold it.                             *)
Awaited(k) ==
  \A c \in Callers : \A i \in Desc :
    pc[c] = "poll" /\ i < k /\ First(i).frame = frame[c] =>
      \E j \in Desc : i <= j /\ j < k /\ At(j) = dmatxdesc[c]

(* What c has made of its chain of n pbufs.                                *)
Built(c, k, r, n) ==
  /\ \A j \in Desc : r <= j /\ j < r + descnbr[c] =>
       /\ 2 * j + 1 <= n
       /\ Slots[k + j].bufs = Piece(frame[c], n, 2 * j + 1)
       /\ pc[c] # "rollback" =>
            /\ Slots[k + j].FD => j = 0
            /\ j + 1 < descnbr[c] \/ pc[c] = "fill" => ~ Slots[k + j].LD
  /\ pc[c] = "fill" =>
       /\ Slots[k + descnbr[c]].FD => descnbr[c] = 0
       /\ 2 * descnbr[c] < n
  /\ pc[c] \in {"fill", "own", "more"} =>
       rest[c] = Suffix(frame[c], n, 2 * descnbr[c])
  /\ pc[c] \in {"last", "advance", "start"} => n <= 2 * descnbr[c]
  /\ pc[c] \in {"advance", "start"} => Slots[k + descnbr[c] - 1].LD

Makes(c, k, r, n) ==
  /\ pc[c] \in {"sem", "config"} => rest[c] = Chain(frame[c], n)
  /\ pc[c] = "begin" => TxConfig = Chain(frame[c], n)
  /\ pc[c] \in Preparing => Built(c, k, r, n)

Chained(k, r) == \A c \in Callers : \E n \in 1 .. MaxChain : Makes(c, k, r, n)

Contents(k, r, R) ==
  /\ Committed(k, R)
  /\ Gathered(k)
  /\ Sent(k, R)
  /\ Numbered(k, R)
  /\ Live(k)
  /\ Awaited(k)
  /\ Chained(k, r)

Ring(R) ==
  \E k \in 0 .. ETH_TX_DESC_CNT, r \in 0 .. ETH_TX_DESC_CNT :
    Position(k, r) /\ Contents(k, r, R)


-----------------------------------------------------------------------------
(* Index arithmetic. *)
LEMMA AtInRing ==
  ASSUME TxTypeOK, NEW p \in 0 .. ETH_TX_DESC_CNT
  PROVE  At(p) \in Desc /\ (p < ETH_TX_DESC_CNT => p \in Desc)
BY TxAssumption DEF TxTypeOK, Desc, At, INCR_TX_DESC_INDEX

(* Two slots are two descriptors. *)
LEMMA AtDistinct ==
  ASSUME TxTypeOK, NEW p \in Desc, NEW q \in Desc, At(p) = At(q)
  PROVE  p = q
<1>1. dmaDesc \in Desc
  BY DEF TxTypeOK
<1> QED
  BY <1>1, TxAssumption DEF Desc, At, INCR_TX_DESC_INDEX

(* Every descriptor is in a slot. *)
LEMMA AtOnto ==
  ASSUME TxTypeOK, NEW d \in Desc
  PROVE  \E p \in Desc : At(p) = d
<1>1. CASE d >= dmaDesc
  <2>1. d - dmaDesc \in Desc /\ At(d - dmaDesc) = d
    BY <1>1, TxAssumption
    DEF TxTypeOK, Desc, At, INCR_TX_DESC_INDEX
  <2> QED
    BY <2>1
<1>2. CASE d < dmaDesc
  <2>1. /\ d + ETH_TX_DESC_CNT - dmaDesc \in Desc
        /\ At(d + ETH_TX_DESC_CNT - dmaDesc) = d
    BY <1>2, TxAssumption
    DEF TxTypeOK, Desc, At, INCR_TX_DESC_INDEX
  <2> QED
    BY <2>1
<1> QED
  BY <1>1, <1>2, TxAssumption DEF TxTypeOK, Desc

(* Once around the ring is where the DMA is. *)
LEMMA AtEnds ==
  ASSUME TxTypeOK
  PROVE  At(0) = dmaDesc /\ At(ETH_TX_DESC_CNT) = dmaDesc /\ 0 \in Desc
BY TxAssumption DEF TxTypeOK, Desc, At, INCR_TX_DESC_INDEX

(* The driver goes on by one descriptor. *)
LEMMA AtNext ==
  ASSUME TxTypeOK, NEW p \in Desc
  PROVE  INCR_TX_DESC_INDEX(At(p), 1) = At(p + 1)
BY TxAssumption DEF TxTypeOK, Desc, At, INCR_TX_DESC_INDEX

(* When the DMA goes on by one, everything comes nearer by one. *)
LEMMA AtShift ==
  ASSUME TxTypeOK, dmaDesc' = INCR_TX_DESC_INDEX(dmaDesc, 1),
         NEW p \in 0 .. ETH_TX_DESC_CNT - 1
  PROVE  At(p)' = At(p + 1)
BY TxAssumption DEF TxTypeOK, Desc, At, INCR_TX_DESC_INDEX

(* The driver writes to the descriptor in slot p. *)
LEMMA SlotWrite ==
  ASSUME TxTypeOK, dmaDesc' = dmaDesc, NEW p \in Desc, NEW x,
         TxDesc' = [TxDesc EXCEPT ![At(p)] = x]
  PROVE  \A i \in Desc : Slots'[i] = IF i = p THEN x ELSE Slots[i]
<1>1. \A i \in Desc : At(i) \in Desc /\ At(i)' = At(i)
  <2> SUFFICES ASSUME NEW i \in Desc PROVE At(i) \in Desc /\ At(i)' = At(i)
    OBVIOUS
  <2>1. i \in 0 .. ETH_TX_DESC_CNT
    BY TxAssumption DEF Desc
  <2> QED
    BY <2>1, AtInRing DEF At
<1>2. \A d \in Desc : TxDesc'[d] = IF d = At(p) THEN x ELSE TxDesc[d]
  BY DEF TxTypeOK
<1>3. \A i \in Desc : At(i) = At(p) => i = p
  BY AtDistinct
<1> QED
  BY <1>1, <1>2, <1>3 DEF Slots

(* What a slot holds. *)
LEMMA SlotsType ==
  ASSUME TxTypeOK
  PROVE  /\ Slots \in [Desc -> TxDescriptor]
         /\ \A i \in Desc : /\ Slots[i] = TxDesc[At(i)]
                            /\ Slots[i].own \in BOOLEAN
                            /\ Slots[i].FD \in BOOLEAN
                            /\ Slots[i].LD \in BOOLEAN
                            /\ Slots[i].bufs \in Seq(Buffer)
<1>1. \A i \in Desc : At(i) \in Desc
  <2> SUFFICES ASSUME NEW i \in Desc PROVE At(i) \in Desc
    OBVIOUS
  <2>1. i \in 0 .. ETH_TX_DESC_CNT
    BY TxAssumption DEF Desc
  <2> QED
    BY <2>1, AtInRing
<1>2. Slots \in [Desc -> TxDescriptor]
  BY <1>1 DEF TxTypeOK, Slots
<1> QED
  BY <1>2 DEF Slots, TxDescriptor

(* What a step leaves alone. *)
LEMMA SlotsKept ==
  ASSUME UNCHANGED <<TxDesc, dmaDesc>>
  PROVE  Slots' = Slots /\ \A p : At(p)' = At(p)
BY DEF Slots, At

-----------------------------------------------------------------------------
(* The five steps of ETH_Prepare_Tx_Descriptors that write descriptors.    *)
LEMMA OwnWritten ==
  ASSUME TxTypeOK, dmaDesc' = dmaDesc, NEW p \in Desc, NEW v \in BOOLEAN,
         TxDesc' = [TxDesc EXCEPT ![At(p)].own = v]
  PROVE  \A i \in Desc :
           /\ Slots'[i].own <=> (i = p /\ v) \/ (i # p /\ Slots[i].own)
           /\ Slots'[i].FD <=> Slots[i].FD
           /\ Slots'[i].LD <=> Slots[i].LD
           /\ Slots'[i].bufs = Slots[i].bufs
<1> DEFINE x == [TxDesc[At(p)] EXCEPT !.own = v]
<1>1. TxDesc' = [TxDesc EXCEPT ![At(p)] = x]
  OBVIOUS
<1>2. \A i \in Desc : Slots'[i] = IF i = p THEN x ELSE Slots[i]
  <2> HIDE DEF x
  <2> QED
    BY <1>1, SlotWrite
<1>3. Slots[p] \in TxDescriptor /\ Slots[p] = TxDesc[At(p)]
  BY SlotsType
<1>4. /\ x.own = v /\ x.FD = Slots[p].FD /\ x.LD = Slots[p].LD
      /\ x.bufs = Slots[p].bufs
  BY <1>3 DEF TxDescriptor
<1> HIDE DEF x
<1> QED
  BY <1>2, <1>4

(* SetLast marks the descriptor in a slot. *)
LEMMA LastWritten ==
  ASSUME TxTypeOK, dmaDesc' = dmaDesc, NEW p \in Desc, NEW v \in BOOLEAN,
         TxDesc' = [TxDesc EXCEPT ![At(p)].LD = v]
  PROVE  \A i \in Desc :
           /\ Slots'[i].LD <=> (i = p /\ v) \/ (i # p /\ Slots[i].LD)
           /\ Slots'[i].own <=> Slots[i].own
           /\ Slots'[i].FD <=> Slots[i].FD
           /\ Slots'[i].bufs = Slots[i].bufs
<1> DEFINE x == [TxDesc[At(p)] EXCEPT !.LD = v]
<1>1. TxDesc' = [TxDesc EXCEPT ![At(p)] = x]
  OBVIOUS
<1>2. \A i \in Desc : Slots'[i] = IF i = p THEN x ELSE Slots[i]
  <2> HIDE DEF x
  <2> QED
    BY <1>1, SlotWrite
<1>3. Slots[p] \in TxDescriptor /\ Slots[p] = TxDesc[At(p)]
  BY SlotsType
<1>4. /\ x.LD = v /\ x.FD = Slots[p].FD /\ x.own = Slots[p].own
      /\ x.bufs = Slots[p].bufs
  BY <1>3 DEF TxDescriptor
<1> HIDE DEF x
<1> QED
  BY <1>2, <1>4

(* Fill writes the buffers of the descriptor in a slot. *)
LEMMA BufsWritten ==
  ASSUME TxTypeOK, dmaDesc' = dmaDesc, NEW p \in Desc, NEW b, NEW v \in BOOLEAN,
         TxDesc' = [TxDesc EXCEPT ![At(p)].bufs = b, ![At(p)].FD = v]
  PROVE  \A i \in Desc :
           /\ i = p => Slots'[i].bufs = b
           /\ i # p => Slots'[i].bufs = Slots[i].bufs
           /\ Slots'[i].own <=> Slots[i].own
           /\ Slots'[i].FD <=> (i = p /\ v) \/ (i # p /\ Slots[i].FD)
           /\ Slots'[i].LD <=> Slots[i].LD
<1> DEFINE t == TxDesc[At(p)]
           x == [[t EXCEPT !.bufs = b] EXCEPT !.FD = v]
<1>3. Slots[p] \in TxDescriptor /\ Slots[p] = t /\ At(p) \in Desc
  <2>1. p \in 0 .. ETH_TX_DESC_CNT
    BY TxAssumption DEF Desc
  <2> QED
    BY <2>1, SlotsType, AtInRing
<1>1. TxDesc' = [TxDesc EXCEPT ![At(p)] = x]
  BY <1>3 DEF TxTypeOK, TxDescriptor
<1>2. \A i \in Desc : Slots'[i] = IF i = p THEN x ELSE Slots[i]
  <2> HIDE DEF x
  <2> QED
    BY <1>1, SlotWrite
<1>4. /\ x.bufs = b /\ x.LD = Slots[p].LD /\ x.own = Slots[p].own
      /\ x.FD = v
  BY <1>3 DEF TxDescriptor
<1> HIDE DEF x
<1> QED
  BY <1>2, <1>4

(* More takes the next descriptor, and clears its FD. *)
LEMMA MoreWritten ==
  ASSUME TxTypeOK, dmaDesc' = dmaDesc, NEW p \in Desc, NEW q \in Desc,
         TxDesc' = [TxDesc EXCEPT ![At(p)].LD = FALSE, ![At(q)].FD = FALSE]
  PROVE  \A i \in Desc :
           /\ Slots'[i].bufs = Slots[i].bufs
           /\ Slots'[i].own <=> Slots[i].own
           /\ Slots'[i].FD <=> Slots[i].FD /\ i # q
           /\ Slots'[i].LD <=> Slots[i].LD /\ i # p
<1> DEFINE U == [TxDesc EXCEPT ![At(p)].LD = FALSE]
<1>1. TxDesc' = [U EXCEPT ![At(q)].FD = FALSE]
  OBVIOUS
<1>2. TxDesc \in [Desc -> TxDescriptor] /\ \A i \in Desc : At(i) \in Desc /\ At(i)' = At(i)
  <2> SUFFICES ASSUME NEW i \in Desc PROVE At(i) \in Desc /\ At(i)' = At(i)
    BY DEF TxTypeOK
  <2>1. i \in 0 .. ETH_TX_DESC_CNT
    BY TxAssumption DEF Desc
  <2> QED
    BY <2>1, AtInRing DEF At
<1>3. /\ U \in [Desc -> TxDescriptor]
      /\ \A d \in Desc : /\ U[d].bufs = TxDesc[d].bufs
                         /\ U[d].own <=> TxDesc[d].own
                         /\ U[d].FD <=> TxDesc[d].FD
                         /\ U[d].LD <=> TxDesc[d].LD /\ d # At(p)
  <2> DEFINE x == [TxDesc[At(p)] EXCEPT !.LD = FALSE]
  <2>1. U = [TxDesc EXCEPT ![At(p)] = x]
    OBVIOUS
  <2>2. TxDesc[At(p)] \in TxDescriptor
    BY <1>2
  <2>3. /\ x \in TxDescriptor /\ x.bufs = TxDesc[At(p)].bufs
        /\ x.own = TxDesc[At(p)].own /\ x.FD = TxDesc[At(p)].FD /\ x.LD = FALSE
    BY <2>2 DEF TxDescriptor
  <2> HIDE DEF U, x
  <2>4. \A d \in Desc : U[d] = IF d = At(p) THEN x ELSE TxDesc[d]
    BY <1>2, <2>1
  <2>5. U \in [Desc -> TxDescriptor]
    BY <1>2, <2>1, <2>3
  <2> QED
    BY <2>3, <2>4, <2>5
<1> HIDE DEF U
<1>5. \A d \in Desc : /\ TxDesc'[d].bufs = U[d].bufs
                      /\ TxDesc'[d].own <=> U[d].own
                      /\ TxDesc'[d].FD <=> U[d].FD /\ d # At(q)
                      /\ TxDesc'[d].LD <=> U[d].LD
  <2> DEFINE x == [U[At(q)] EXCEPT !.FD = FALSE]
  <2>1. TxDesc' = [U EXCEPT ![At(q)] = x]
    BY <1>1
  <2>2. U[At(q)] \in TxDescriptor
    BY <1>2, <1>3
  <2>3. /\ x.bufs = U[At(q)].bufs /\ x.own = U[At(q)].own
        /\ x.LD = U[At(q)].LD /\ x.FD = FALSE
    BY <2>2 DEF TxDescriptor
  <2> HIDE DEF x
  <2>4. \A d \in Desc : TxDesc'[d] = IF d = At(q) THEN x ELSE U[d]
    BY <1>2, <1>3, <2>1
  <2> QED
    BY <2>3, <2>4
<1>6. \A i \in Desc : (At(i) = At(p) => i = p) /\ (At(i) = At(q) => i = q)
  BY AtDistinct
<1>7. \A i \in Desc : Slots[i] = TxDesc[At(i)] /\ Slots'[i] = TxDesc'[At(i)]
  BY <1>2 DEF Slots
<1>8. ASSUME NEW i \in Desc
      PROVE  /\ Slots'[i].bufs = Slots[i].bufs
             /\ Slots'[i].own <=> Slots[i].own
             /\ Slots'[i].FD <=> Slots[i].FD /\ i # q
             /\ Slots'[i].LD <=> Slots[i].LD /\ i # p
  <2> DEFINE d == At(i)
  <2>1. d \in Desc /\ (d = At(p) <=> i = p) /\ (d = At(q) <=> i = q)
    BY <1>2, <1>6
  <2>2. Slots[i] = TxDesc[d] /\ Slots'[i] = TxDesc'[d]
    BY <1>7
  <2> HIDE DEF d
  <2>3. /\ U[d].bufs = TxDesc[d].bufs
        /\ U[d].own <=> TxDesc[d].own
        /\ U[d].FD <=> TxDesc[d].FD
        /\ U[d].LD <=> TxDesc[d].LD /\ d # At(p)
    BY <1>3, <2>1
  <2>4. /\ TxDesc'[d].bufs = U[d].bufs
        /\ TxDesc'[d].own <=> U[d].own
        /\ TxDesc'[d].FD <=> U[d].FD /\ d # At(q)
        /\ TxDesc'[d].LD <=> U[d].LD
    BY <1>5, <2>1
  <2>5. Slots'[i].bufs = Slots[i].bufs
    BY <2>2, <2>3, <2>4
  <2>6. /\ Slots'[i].own <=> Slots[i].own
        /\ Slots'[i].FD <=> Slots[i].FD /\ i # q
        /\ Slots'[i].LD <=> Slots[i].LD /\ i # p
    BY <2>1, <2>2, <2>3, <2>4
  <2> QED
    BY <2>5, <2>6
<1> QED
  BY <1>8

(* The DMA closes the descriptor it is at. *)
LEMMA SlotsShifted ==
  ASSUME TxTypeOK, dmaDesc' = INCR_TX_DESC_INDEX(dmaDesc, 1),
         TxDesc' = [TxDesc EXCEPT ![dmaDesc].own = FALSE]
  PROVE  /\ \A i \in Desc : i + 1 \in Desc => Slots'[i] = Slots[i + 1]
         /\ ~ Slots'[ETH_TX_DESC_CNT - 1].own
<1>1. \A i \in Desc : At(i) \in Desc
  <2> SUFFICES ASSUME NEW i \in Desc PROVE At(i) \in Desc
    OBVIOUS
  <2>1. i \in 0 .. ETH_TX_DESC_CNT
    BY TxAssumption DEF Desc
  <2> QED
    BY <2>1, AtInRing
<1>2. TxDesc \in [Desc -> TxDescriptor] /\ dmaDesc \in Desc
  BY DEF TxTypeOK
<1>3. ASSUME NEW i \in Desc, i + 1 \in Desc
      PROVE  Slots'[i] = Slots[i + 1]
  <2>1. i \in 0 .. ETH_TX_DESC_CNT - 1 /\ i + 1 # 0
    BY TxAssumption DEF Desc
  <2>2. At(i)' = At(i + 1)
    BY <2>1, AtShift
  <2>3. At(i + 1) # dmaDesc
    BY <1>3, <2>1, AtDistinct, AtEnds
  <2>4. TxDesc'[At(i + 1)] = TxDesc[At(i + 1)]
    BY <1>1, <1>2, <1>3, <2>3
  <2> QED
    BY <1>3, <2>2, <2>4 DEF Slots
<1>4. ~ Slots'[ETH_TX_DESC_CNT - 1].own
  <2>1. ETH_TX_DESC_CNT - 1 \in Desc /\ ETH_TX_DESC_CNT - 1 + 1 = ETH_TX_DESC_CNT
    BY TxAssumption DEF Desc
  <2>2. At(ETH_TX_DESC_CNT - 1)' = dmaDesc
    BY <2>1, AtShift, AtEnds DEF Desc
  <2>3. ~ TxDesc'[dmaDesc].own
    BY <1>2 DEF TxDescriptor
  <2> QED
    BY <2>1, <2>2, <2>3 DEF Slots
<1> QED
  BY <1>3, <1>4

-----------------------------------------------------------------------------
(* What Fill takes off a list, and what the DMA gathers.                   *)
LEMMA ChainParts ==
  ASSUME NEW f, NEW n \in 1 .. MaxChain
  PROVE  /\ Chain(f, n) = Suffix(f, n, 0)
         /\ Chain(f, n) = Prefix(f, n, n)
         /\ Prefix(f, n, 0) = <<>>
         /\ Prefix(f, n, n) # <<>>
         /\ Chain(f, n)[1] = Buf(f, n, 1)
<1>1. n \in Nat /\ n >= 1 /\ n - 0 = n
  BY TxAssumption
<1>2. \A i \in 1 .. n : 0 + i = i
  BY <1>1
<1>3. Chain(f, n) = Prefix(f, n, n)
  BY DEF Chain, Prefix, Buf
<1>4. Chain(f, n) = Suffix(f, n, 0)
  BY <1>1, <1>2 DEF Chain, Suffix, Buf
<1>5. Prefix(f, n, 0) = <<>>
  BY DEF Prefix
<1>6. 1 \in 1 .. n
  BY <1>1
<1>7. Chain(f, n)[1] = Buf(f, n, 1)
  BY <1>6 DEF Chain, Buf
<1>8. Prefix(f, n, n) # <<>>
  <2>1. DOMAIN Prefix(f, n, n) = 1 .. n
    BY DEF Prefix
  <2>2. DOMAIN <<>> = {}
    OBVIOUS
  <2> QED
    BY <1>6, <2>1, <2>2
<1> QED
  BY <1>3, <1>4, <1>5, <1>7, <1>8

(* How such a piece begins and ends.                                       *)
LEMMA PieceParts ==
  ASSUME NEW f, NEW n \in 1 .. MaxChain, NEW t \in 1 .. n
  PROVE  /\ Piece(f, n, t)[1] = Buf(f, n, t)
         /\ \A i \in DOMAIN Piece(f, n, t) : Piece(f, n, t)[i].frame = f
<1>1. CASE t < n
  <2>1. Piece(f, n, t) = <<Buf(f, n, t), Buf(f, n, t + 1)>>
    BY <1>1 DEF Piece
  <2> QED
    BY <2>1 DEF Buf
<1>2. CASE ~ (t < n)
  <2>1. Piece(f, n, t) = <<Buf(f, n, t)>>
    BY <1>2 DEF Piece
  <2> QED
    BY <2>1 DEF Buf
<1> QED
  BY <1>1, <1>2

(* The DMA appends a piece to what it has gathered. *)
LEMMA PrefixGrows ==
  ASSUME NEW f \in 1 .. MaxFrame, NEW n \in 1 .. MaxChain, NEW t \in 1 .. n
  PROVE  /\ Prefix(f, n, t - 1) \o Piece(f, n, t)
              = Prefix(f, n, IF t < n THEN t + 1 ELSE t)
         /\ t = 1 => Piece(f, n, t) = Prefix(f, n, IF t < n THEN t + 1 ELSE t)
<1> DEFINE B == [frame : {f}, part : Nat, of : {n}]
           S == Prefix(f, n, t - 1)
           T == Piece(f, n, t)
           m == IF t < n THEN 2 ELSE 1
           W == Prefix(f, n, t - 1 + m)
<1>1. n \in Nat /\ t \in Nat /\ t >= 1 /\ t - 1 \in Nat /\ m \in {1, 2}
  BY TxAssumption
<1>2. \A i \in Nat : Buf(f, n, i) \in B
  BY DEF Buf
<1>3. S \in Seq(B) /\ Len(S) = t - 1 /\ \A i \in 1 .. t - 1 : S[i] = Buf(f, n, i)
  <2>1. \A i \in 1 .. t - 1 : Buf(f, n, i) \in B
    BY <1>1, <1>2
  <2> QED
    BY <1>1, <2>1 DEF Prefix
<1>4. T \in Seq(B) /\ Len(T) = m /\ \A i \in 1 .. m : T[i] = Buf(f, n, t - 1 + i)
  <2>1. CASE t < n
    <3>1. T = <<Buf(f, n, t), Buf(f, n, t + 1)>> /\ m = 2
      BY <2>1 DEF Piece
    <3>2. Buf(f, n, t) \in B /\ Buf(f, n, t + 1) \in B
      BY <1>1, <1>2
    <3>3. t - 1 + 1 = t /\ t - 1 + 2 = t + 1
      BY <1>1
    <3> HIDE DEF T, m, B
    <3>4. T \in Seq(B) /\ Len(T) = 2 /\ T[1] = Buf(f, n, t) /\ T[2] = Buf(f, n, t + 1)
      BY <3>1, <3>2
    <3>5. \A i \in 1 .. 2 : i = 1 \/ i = 2
      OBVIOUS
    <3> QED
      BY <3>1, <3>3, <3>4, <3>5
  <2>2. CASE ~ (t < n)
    <3>1. T = <<Buf(f, n, t)>> /\ m = 1
      BY <2>2 DEF Piece
    <3>2. Buf(f, n, t) \in B
      BY <1>1, <1>2
    <3>3. t - 1 + 1 = t
      BY <1>1
    <3> HIDE DEF T, m, B
    <3>4. T \in Seq(B) /\ Len(T) = 1 /\ T[1] = Buf(f, n, t)
      BY <3>1, <3>2
    <3>5. \A i \in 1 .. 1 : i = 1
      OBVIOUS
    <3> QED
      BY <3>1, <3>3, <3>4, <3>5
  <2> QED
    BY <2>1, <2>2
<1>5. /\ W \in Seq(B) /\ Len(W) = t - 1 + m
      /\ \A i \in 1 .. t - 1 + m : W[i] = Buf(f, n, i)
  <2>1. \A i \in 1 .. t - 1 + m : Buf(f, n, i) \in B
    BY <1>1, <1>2
  <2>2. t - 1 + m \in Nat
    BY <1>1
  <2> QED
    BY <2>1, <2>2 DEF Prefix
<1>6. W = Prefix(f, n, IF t < n THEN t + 1 ELSE t)
  <2>1. t - 1 + m = IF t < n THEN t + 1 ELSE t
    BY <1>1
  <2> QED
    BY <2>1
<1> HIDE DEF B, S, T, W, m
<1>7. S \o T = W
  <2>1. /\ S \o T \in Seq(B)
        /\ Len(S \o T) = Len(S) + Len(T)
        /\ \A i \in 1 .. Len(S) + Len(T) :
             (S \o T)[i] = IF i <= Len(S) THEN S[i] ELSE T[i - Len(S)]
    BY <1>3, <1>4, ConcatProperties
  <2>2. Len(S \o T) = Len(W)
    BY <1>3, <1>4, <1>5, <2>1
  <2>3. ASSUME NEW i \in 1 .. Len(S \o T)
        PROVE  (S \o T)[i] = W[i]
    <3>1. i \in 1 .. t - 1 + m
      BY <2>3, <1>3, <1>4, <2>1
    <3>2. CASE i <= t - 1
      <4>1. i \in 1 .. t - 1
        BY <3>1, <3>2, <1>1
      <4> QED
        BY <4>1, <3>1, <1>3, <1>5, <2>1
    <3>3. CASE i > t - 1
      <4>1. i - (t - 1) \in 1 .. m /\ t - 1 + (i - (t - 1)) = i
        BY <3>1, <3>3, <1>1
      <4> QED
        BY <4>1, <3>1, <1>3, <1>4, <1>5, <2>1
    <3> QED
      BY <3>1, <3>2, <3>3, <1>1
  <2> QED
    BY <1>5, <2>1, <2>2, <2>3, SeqEqual
<1>8. ASSUME t = 1 PROVE T = W
  <2>1. Len(T) = Len(W)
    BY <1>1, <1>4, <1>5, <1>8
  <2>2. \A i \in 1 .. Len(T) : T[i] = W[i]
    <3>1. \A i \in 1 .. m : t - 1 + i = i /\ i \in 1 .. t - 1 + m
      BY <1>1, <1>8
    <3> QED
      BY <1>4, <1>5, <3>1
  <2> QED
    BY <1>4, <1>5, <2>1, <2>2, SeqEqual
<1> QED
  BY <1>6, <1>7, <1>8 DEF S, T

(* A list with no second part. *)
LEMMA ShortLists ==
  ASSUME NEW B, NEW a \in B, NEW b \in B
  PROVE  /\ <<a>> \in Seq(B) /\ Len(<<a>>) = 1
         /\ \A i \in 1 .. 1 : <<a>>[i] = a
         /\ <<a, b>> \in Seq(B) /\ Len(<<a, b>>) = 2
         /\ \A i \in 1 .. 2 : <<a, b>>[i] = IF i = 1 THEN a ELSE b
OBVIOUS

(* Fill takes a piece off the list. *)
LEMMA SuffixTaken ==
  ASSUME NEW f \in 1 .. MaxFrame, NEW n \in 1 .. MaxChain, NEW t \in 0 .. n - 1,
         NEW s, s = Suffix(f, n, t),
         NEW m \in {1, 2}, m = 2 <=> Len(s) > 1
  PROVE  /\ SubSeq(s, 1, m) = Piece(f, n, t + 1)
         /\ SubSeq(s, m + 1, Len(s)) = Suffix(f, n, t + 2)
<1>1. n \in Nat /\ n - t \in Nat /\ n - t >= 1
  BY TxAssumption
<1>2. Len(s) = n - t /\ \A i \in 1 .. n - t : s[i] = Buf(f, n, t + i)
  BY <1>1 DEF Suffix
<1> DEFINE B == {Buf(f, n, i) : i \in 1 .. n}
<1>3. \A i \in 1 .. n - t : s[i] \in B
  <2>1. \A i \in 1 .. n - t : t + i \in 1 .. n
    BY <1>1
  <2> QED
    BY <1>2, <2>1
<1>4. m \in {1, 2} /\ m <= n - t /\ (m = 2 <=> t + 1 < n)
  BY <1>1, <1>2
<1> HIDE DEF B
<1>5. SubSeq(s, 1, m) = Piece(f, n, t + 1)
  <2>1. /\ SubSeq(s, 1, m) \in Seq(B)
        /\ Len(SubSeq(s, 1, m)) = m
        /\ \A i \in 1 .. m : SubSeq(s, 1, m)[i] = s[i]
    <3>1. \A i \in 1 .. m : s[i] \in B
      BY <1>1, <1>3, <1>4
    <3>2. /\ SubSeq(s, 1, m) \in Seq(B)
          /\ Len(SubSeq(s, 1, m)) = IF 1 <= m THEN m - 1 + 1 ELSE 0
          /\ \A i \in 1 .. m - 1 + 1 : SubSeq(s, 1, m)[i] = s[1 + i - 1]
      BY <1>4, <3>1, SubSeqProperties
    <3>3. 1 <= m /\ m - 1 + 1 = m /\ \A i \in 1 .. m : 1 + i - 1 = i
      BY <1>4
    <3> QED
      BY <3>2, <3>3
  <2>2. \A i \in 1 .. m : i \in 1 .. n - t
    BY <1>1, <1>4
  <2>3. /\ Piece(f, n, t + 1) \in Seq(B)
        /\ Len(Piece(f, n, t + 1)) = m
        /\ \A i \in 1 .. m : Piece(f, n, t + 1)[i] = s[i]
    <3>1. CASE m = 2
      <4>1. 1 \in 1 .. n - t /\ 2 \in 1 .. n - t /\ t + 1 < n /\ t + 2 = t + 1 + 1
        BY <1>1, <1>4, <3>1
      <4>2. Piece(f, n, t + 1) = <<s[1], s[2]>> /\ s[1] \in B /\ s[2] \in B
        BY <1>2, <1>3, <4>1 DEF Piece
      <4>3. /\ <<s[1], s[2]>> \in Seq(B) /\ Len(<<s[1], s[2]>>) = 2
            /\ \A i \in 1 .. 2 :
                 <<s[1], s[2]>>[i] = IF i = 1 THEN s[1] ELSE s[2]
        BY <4>2, ShortLists
      <4>4. \A i \in 1 .. 2 : s[i] = IF i = 1 THEN s[1] ELSE s[2]
        OBVIOUS
      <4> QED
        BY <3>1, <4>2, <4>3, <4>4
    <3>2. CASE m = 1
      <4>1. 1 \in 1 .. n - t /\ ~ (t + 1 < n)
        BY <1>1, <1>4, <3>2
      <4>2. Piece(f, n, t + 1) = <<s[1]>> /\ s[1] \in B
        BY <1>2, <1>3, <4>1 DEF Piece
      <4>3. /\ <<s[1]>> \in Seq(B) /\ Len(<<s[1]>>) = 1
            /\ \A i \in 1 .. 1 : <<s[1]>>[i] = s[1]
        BY <4>2, ShortLists
      <4>4. \A i \in 1 .. 1 : s[i] = s[1]
        OBVIOUS
      <4> QED
        BY <3>2, <4>2, <4>3, <4>4
    <3> QED
      BY <1>4, <3>1, <3>2
  <2> QED
    BY <2>1, <2>3, SeqEqual
<1>6. SubSeq(s, m + 1, n - t) = Suffix(f, n, t + 2)
  <2>1. m + 1 \in Int /\ n - t \in Int
    BY <1>1, <1>4
  <2>2. CASE t + 2 < n
    <3>1. m = 2 /\ m + 1 <= n - t /\ n - t - (m + 1) + 1 = n - (t + 2)
      BY <1>1, <1>4, <2>2
    <3>2. \A i \in m + 1 .. n - t : s[i] \in B
      BY <1>1, <1>3, <1>4
    <3>3. /\ SubSeq(s, m + 1, n - t) \in Seq(B)
          /\ Len(SubSeq(s, m + 1, n - t)) = n - (t + 2)
          /\ \A i \in 1 .. n - (t + 2) :
               SubSeq(s, m + 1, n - t)[i] = s[m + 1 + i - 1]
      <4>1. /\ SubSeq(s, m + 1, n - t) \in Seq(B)
            /\ Len(SubSeq(s, m + 1, n - t)) =
                 IF m + 1 <= n - t THEN n - t - (m + 1) + 1 ELSE 0
            /\ \A i \in 1 .. n - t - (m + 1) + 1 :
                 SubSeq(s, m + 1, n - t)[i] = s[m + 1 + i - 1]
        BY <2>1, <3>2, SubSeqProperties
      <4>2. Len(SubSeq(s, m + 1, n - t)) = n - t - (m + 1) + 1
        BY <3>1, <4>1
      <4>3. \A i \in 1 .. n - (t + 2) :
                 SubSeq(s, m + 1, n - t)[i] = s[m + 1 + i - 1]
        BY <3>1, <4>1
      <4>4. Len(SubSeq(s, m + 1, n - t)) = n - (t + 2)
        BY <3>1, <4>2
      <4> QED
        BY <4>1, <4>3, <4>4
    <3>4. n - (t + 2) \in Nat
      BY <1>1, <2>2
    <3>5. \A i \in 1 .. n - (t + 2) :
            /\ m + 1 + i - 1 \in 1 .. n - t
            /\ t + (m + 1 + i - 1) = t + 2 + i
      BY <1>1, <3>1
    <3>6. \A i \in 1 .. n - (t + 2) : s[m + 1 + i - 1] = Buf(f, n, t + 2 + i)
      BY <1>2, <3>5
    <3>7. /\ Suffix(f, n, t + 2) \in Seq(B)
          /\ Len(Suffix(f, n, t + 2)) = n - (t + 2)
          /\ \A i \in 1 .. n - (t + 2) : Suffix(f, n, t + 2)[i] = Buf(f, n, t + 2 + i)
      <4>1. \A i \in 1 .. n - (t + 2) : t + 2 + i \in 1 .. n
        BY <1>1
      <4>2. \A i \in 1 .. n - (t + 2) : Buf(f, n, t + 2 + i) \in B
        BY <4>1 DEF B
      <4> QED
        BY <3>4, <4>2 DEF Suffix
    <3> DEFINE u == SubSeq(s, m + 1, n - t)
               v == Suffix(f, n, t + 2)
    <3>8. u \in Seq(B) /\ v \in Seq(B) /\ Len(u) = Len(v)
      BY <3>3, <3>7
    <3>9. \A i \in 1 .. Len(u) : u[i] = v[i]
      BY <3>3, <3>6, <3>7
    <3> HIDE DEF u, v
    <3>10. u = v
      BY <3>8, <3>9, SeqEqual
    <3> QED
      BY <3>10 DEF u, v
  <2>3. CASE ~ (t + 2 < n)
    <3>1. n - t < m + 1 /\ 1 .. n - (t + 2) = {}
      BY <1>1, <1>4, <2>3
    <3>2. SubSeq(s, m + 1, n - t) = <<>>
      BY <2>1, <3>1, SubSeqEmpty
    <3>3. Suffix(f, n, t + 2) = <<>>
      BY <3>1 DEF Suffix
    <3> QED
      BY <3>2, <3>3
  <2> QED
    BY <2>2, <2>3
<1> QED
  BY <1>2, <1>5, <1>6

(* Of a list that is empty all has been taken. *)
LEMMA SuffixEmpty ==
  ASSUME NEW f, NEW n \in 1 .. MaxChain, NEW t \in Nat
  PROVE  Suffix(f, n, t) = <<>> <=> n <= t
<1>1. n \in Nat
  BY TxAssumption
<1>2. DOMAIN Suffix(f, n, t) = 1 .. n - t
  BY DEF Suffix
<1>3. CASE n <= t
  <2>1. 1 .. n - t = {}
    BY <1>1, <1>3
  <2> QED
    BY <1>3, <2>1 DEF Suffix
<1>4. CASE ~ (n <= t)
  <2>1. 1 \in 1 .. n - t
    BY <1>1, <1>4
  <2>2. DOMAIN <<>> = {}
    OBVIOUS
  <2> QED
    BY <1>2, <1>4, <2>1, <2>2
<1> QED
  BY <1>3, <1>4

-----------------------------------------------------------------------------
(* A step that leaves the first k slots as they are, but for FD flags that *)
(* it clears, leaves what holds of them.                                   *)
LEMMA RegionKept ==
  ASSUME NEW R, NEW k \in 0 .. ETH_TX_DESC_CNT,
         \A i \in Desc : i < k => /\ Slots'[i].bufs = Slots[i].bufs
                                  /\ Slots'[i].LD <=> Slots[i].LD
                                  /\ Slots'[i].FD => Slots[i].FD,
         UNCHANGED <<gather, wire>>,
         \/ dma' = dma
         \/ dma \in {"suspended", "running"} /\ dma' \in {"suspended", "running"}
         \/ dma' = "stopped",
         dma = "reading" => k > 0,
         Committed(k, R), Gathered(k), Sent(k, R)
  PROVE  /\ Committed(k, R)' /\ Gathered(k)' /\ Sent(k, R)'
         /\ \A i \in Desc : i < k => First(i)' = First(i)
<1>0. k \in Nat /\ 0 \in Desc
  BY TxAssumption DEF Desc
<1>1. ASSUME NEW i \in Desc, i < k
      PROVE  /\ First(i)' = First(i)
             /\ Ends(i)' <=> Ends(i)
             /\ Through(i)' = Through(i)
             /\ Holds(i)'
  <2>1. First(i)' = First(i)
    BY <1>1 DEF First
  <2>2. Holds(i)
    BY <1>1 DEF Committed
  <2>3. (Ends(i)' <=> Ends(i)) /\ Through(i)' = Through(i)
    BY <2>1 DEF Ends, Through
  <2>4. Slots'[i].bufs = Piece(First(i)'.frame, First(i)'.of, First(i)'.part)
    BY <1>1, <2>1, <2>2 DEF Holds
  <2>5. Holds(i)'
    BY <1>1, <2>1, <2>2, <2>3, <2>4 DEF Holds
  <2> QED
    BY <2>1, <2>3, <2>5
<1>2. Committed(k, R)'
  <2> SUFFICES ASSUME NEW i \in Desc, i < k
               PROVE  /\ Holds(i)'
                      /\ ~ Ends(i)' =>
                           /\ i + 1 < k
                           /\ First(i + 1)' = Buf(First(i)'.frame, First(i)'.of, First(i)'.part + 2)
                      /\ \A j \in Desc : i < j /\ j < k /\ Ends(i)' =>
                           <<First(i)'.frame, First(j)'.frame>> \in R
    BY DEF Committed
  <2>1. ~ Ends(i)' =>
          /\ i + 1 < k
          /\ First(i + 1)' = Buf(First(i)'.frame, First(i)'.of, First(i)'.part + 2)
    <3> SUFFICES ASSUME ~ Ends(i)'
                 PROVE  /\ i + 1 < k
                        /\ First(i + 1)' = Buf(First(i)'.frame, First(i)'.of, First(i)'.part + 2)
      OBVIOUS
    <3>1. /\ i + 1 < k
          /\ First(i + 1) = Buf(First(i).frame, First(i).of, First(i).part + 2)
      BY <1>1 DEF Committed
    <3>2. i + 1 \in Desc
      BY <1>0, <3>1, TxAssumption DEF Desc
    <3> QED
      BY <1>1, <3>1, <3>2
  <2>2. \A j \in Desc : i < j /\ j < k /\ Ends(i) => <<First(i).frame, First(j).frame>> \in R
    BY DEF Committed
  <2> QED
    BY <1>1, <2>1, <2>2
<1>3. Gathered(k)'
  <2> SUFFICES ASSUME gather' # <<>>
               PROVE  /\ dma' \in {"suspended", "running"} =>
                           /\ k > 0 /\ First(0)'.part > 1
                           /\ gather' = Prefix(First(0)'.frame, First(0)'.of, First(0)'.part - 1)
                      /\ dma' = "reading" =>
                           gather' = Prefix(First(0)'.frame, First(0)'.of, Through(0)')
    BY DEF Gathered
  <2>1. CASE dma' \in {"suspended", "running"}
    <3>1. dma \in {"suspended", "running"}
      BY <2>1
    <3>2. /\ k > 0 /\ First(0).part > 1
          /\ gather = Prefix(First(0).frame, First(0).of, First(0).part - 1)
      BY <3>1 DEF Gathered
    <3> QED
      BY <1>0, <1>1, <2>1, <3>2
  <2>2. CASE dma' = "reading"
    <3>1. k > 0 /\ gather = Prefix(First(0).frame, First(0).of, Through(0))
      BY <2>2 DEF Gathered
    <3> QED
      BY <1>0, <1>1, <2>2, <3>1
  <2> QED
    BY <2>1, <2>2
<1>4. Sent(k, R)'
  <2>1. /\ \A x \in DOMAIN wire' : IsWhole(wire'[x])
        /\ \A x, y \in DOMAIN wire' : x < y => <<wire'[x][1].frame, wire'[y][1].frame>> \in R
    BY DEF Sent
  <2>2. \A x \in DOMAIN wire : \A i \in Desc : i < k => <<wire[x][1].frame, First(i).frame>> \in R
    BY DEF Sent
  <2> QED
    BY <1>1, <2>1, <2>2 DEF Sent
<1> QED
  BY <1>1, <1>2, <1>3, <1>4

(* It is c's turn: the others have not begun to write to the ring, or the  *)
(* DMA has their frame.                                                    *)
Aside == {"out", "sem", "config", "poll", "done"}

Solo(c) ==
  /\ TxTypeOK
  /\ Listed(c)
  /\ \A d \in Callers : d # c => pc[d] \in Aside

(* A step of c alone, which the DMA does not see.                          *)
Steps(c, to) ==
  /\ pc' = [pc EXCEPT ![c] = to]
  /\ UNCHANGED <<dma, dmaDesc, gather, wire, frame, handed, abandoned>>
  /\ \A d \in Callers : d # c => rest'[d] = rest[d] /\ dmatxdesc'[d] = dmatxdesc[d]

(* Only c moves. *)
LEMMA OnlyOne ==
  ASSUME NEW c \in Callers, Solo(c), NEW to, pc' = [pc EXCEPT ![c] = to]
  PROVE  /\ pc'[c] = to
         /\ \A d \in Callers : d # c => /\ pc[d] \in Aside /\ pc'[d] = pc[d]
                                       /\ pc[d] # "begin" /\ pc[d] \notin Preparing
BY DEF Solo, TxTypeOK, Aside, Preparing

(* The steps of the driver before it gives the DMA the frame.              *)
LEMMA DriverKeeps ==
  ASSUME NEW R, NEW k \in 0 .. ETH_TX_DESC_CNT, NEW r,
         Position(k, r), Contents(k, r, R), NEW c \in Callers, Solo(c), NEW to,
         pc[c] \in Driving, to \in Driving \cup {"done"}, Steps(c, to),
         \A i \in Desc : i < k => /\ Slots'[i].bufs = Slots[i].bufs
                                  /\ Slots'[i].LD <=> Slots[i].LD
                                  /\ Slots'[i].FD => Slots[i].FD
  PROVE  /\ Committed(k, R)' /\ Gathered(k)' /\ Sent(k, R)' /\ Numbered(k, R)'
         /\ Live(k)' /\ Awaited(k)'
<1> USE DEF Contents
<1>0. /\ pc' = [pc EXCEPT ![c] = to]
      /\ dma' = dma /\ dmaDesc' = dmaDesc /\ gather' = gather /\ wire' = wire
      /\ frame' = frame /\ handed' = handed /\ abandoned' = abandoned
      /\ \A d \in Callers : d # c => dmatxdesc'[d] = dmatxdesc[d]
  BY DEF Steps
<1>1. /\ Committed(k, R)' /\ Gathered(k)' /\ Sent(k, R)'
      /\ \A i \in Desc : i < k => First(i)' = First(i)
  <2>1. dma = "reading" => k > 0
    BY DEF Position
  <2> QED
    BY <1>0, <2>1, RegionKept
<1>2. /\ pc[c] \notin {"out", "poll"} /\ to # "poll"
      /\ pc'[c] = to /\ \A d \in Callers : d # c => pc'[d] = pc[d]
  BY <1>0, OnlyOne DEF Driving, Preparing
<1>3. Numbered(k, R)'
  <2>1. ASSUME NEW d \in Callers, pc'[d] \in Driving PROVE Earlier(d, k, R)'
    <3>1. pc[d] \in Driving
      BY <1>2, <2>1
    <3>2. Earlier(d, k, R)
      BY <3>1 DEF Numbered
    <3>3. \A e \in Callers : pc'[e] \in Driving \cup {"poll"} => pc[e] \in Driving \cup {"poll"}
      BY <1>2
    <3> QED
      BY <1>0, <1>1, <3>2, <3>3 DEF Earlier
  <2>2. /\ \A x \in DOMAIN wire' : wire'[x][1].frame <= handed'
        /\ \A i \in Desc : i < k => First(i)'.frame <= handed'
        /\ \A d \in Callers : frame'[d] <= handed'
    BY <1>0, <1>1 DEF Numbered
  <2> QED
    BY <2>1, <2>2 DEF Numbered
<1>4. Live(k)'
  <2> SUFFICES ASSUME NEW i \in Desc, i < k
               PROVE  \/ First(i)'.frame \in abandoned'
                      \/ \E d \in Callers : pc'[d] = "poll" /\ First(i)'.frame = frame'[d]
    BY DEF Live
  <2>1. CASE First(i).frame \in abandoned
    BY <1>0, <1>1, <2>1
  <2>2. ASSUME NEW d \in Callers, pc[d] = "poll", First(i).frame = frame[d]
        PROVE  pc'[d] = "poll" /\ First(i)'.frame = frame'[d]
    BY <1>0, <1>1, <1>2, <2>2
  <2> QED
    BY <2>1, <2>2 DEF Live
<1>5. Awaited(k)'
  <2> SUFFICES ASSUME NEW d \in Callers, NEW i \in Desc,
                      pc'[d] = "poll", i < k, First(i)'.frame = frame'[d]
               PROVE  \E j \in Desc : i <= j /\ j < k /\ At(j)' = dmatxdesc'[d]
    BY DEF Awaited
  <2>1. d # c /\ pc[d] = "poll" /\ First(i).frame = frame[d] /\ dmatxdesc'[d] = dmatxdesc[d]
    BY <1>0, <1>1, <1>2
  <2>2. \E j \in Desc : i <= j /\ j < k /\ At(j) = dmatxdesc[d]
    BY <2>1 DEF Awaited
  <2>3. \A p : At(p)' = At(p)
    BY <1>0 DEF At
  <2> QED
    BY <2>1, <2>2, <2>3
<1> QED
  BY <1>1, <1>3, <1>4, <1>5

(* Outside the steps that prepare descriptors the ring is at rest.         *)
LEMMA AtRest ==
  ASSUME NEW k, NEW r, Position(k, r), NEW c \in Callers, Solo(c), NEW to,
         pc[c] \notin Preparing, to \notin Preparing,
         pc' = [pc EXCEPT ![c] = to],
         UNCHANGED <<TxDesc, dmaDesc, CurTxDesc, DMACTDTPR, dma>>
  PROVE  Position(k, r)'
<1>1. pc'[c] = to /\ \A d \in Callers : d # c => pc[d] \notin Preparing /\ pc'[d] \notin Preparing
  BY OnlyOne
<1>2. Slots' = Slots /\ \A p : At(p)' = At(p)
  BY SlotsKept
<1>3. \A d \in Callers : pc[d] \notin Preparing /\ pc'[d] \notin Preparing
  BY <1>1
<1>4. CurTxDesc = At(k) /\ \A i \in Desc : Slots[i].own <=> i < k
  BY <1>3 DEF Position
<1> QED
  BY <1>2, <1>3, <1>4 DEF Position

(* What c makes of its chain says all there is: those of the others wait.  *)
LEMMA ChainedAlone ==
  ASSUME NEW c \in Callers, Solo(c), NEW to, pc' = [pc EXCEPT ![c] = to],
         \A d \in Callers : d # c => rest'[d] = rest[d] /\ frame'[d] = frame[d],
         NEW k, NEW r, NEW l, NEW q, Chained(l, q),
         NEW n \in 1 .. MaxChain, Makes(c, k, r, n)'
  PROVE  Chained(k, r)'
<1> SUFFICES ASSUME NEW d \in Callers, d # c
             PROVE  \E m \in 1 .. MaxChain : Makes(d, k, r, m)'
  BY DEF Chained
<1>1. PICK m \in 1 .. MaxChain : Makes(d, l, q, m)
  BY DEF Chained
<1>2. pc'[d] = pc[d] /\ pc[d] # "begin" /\ pc[d] \notin Preparing
  BY OnlyOne
<1>3. Makes(d, k, r, m)'
  BY <1>1, <1>2 DEF Makes
<1> QED
  BY <1>3

(* The same for Position. *)
LEMMA PositionAlone ==
  ASSUME NEW c \in Callers, Solo(c), NEW to \in Preparing,
         pc' = [pc EXCEPT ![c] = to], NEW k, NEW r,
         DMACTDTPR' = At(k)', dma' = "reading" => k > 0,
         Placed(c, k, r)'
  PROVE  Position(k, r)'
<1>1. pc'[c] = to /\ \A d \in Callers : d # c => pc'[d] \notin Preparing
  BY OnlyOne
<1>2. \A d \in Callers : pc'[d] \in Preparing => d = c
  BY <1>1
<1> QED
  BY <1>1, <1>2 DEF Position

(* A step of the driver that moves no descriptor to the DMA.               *)
LEMMA DriverStep ==
  ASSUME NEW R, NEW k \in 0 .. ETH_TX_DESC_CNT, NEW r \in 0 .. ETH_TX_DESC_CNT,
         NEW q \in 0 .. ETH_TX_DESC_CNT,
         NEW n \in 1 .. MaxChain, Position(k, r), Contents(k, r, R),
         NEW c \in Callers, Solo(c), NEW to,
         pc[c] \in Driving, to \in Driving \cup {"done"}, Steps(c, to),
         \A i \in Desc : i < k => /\ Slots'[i].bufs = Slots[i].bufs
                                  /\ Slots'[i].LD <=> Slots[i].LD
                                  /\ Slots'[i].FD => Slots[i].FD,
         Position(k, q)',
         to \in {"sem", "config"} => rest'[c] = Chain(frame[c], n),
         to = "begin" => TxConfig' = Chain(frame[c], n),
         to \in Preparing => Built(c, k, q, n)'
  PROVE  Ring(R)'
<1>1. /\ Committed(k, R)' /\ Gathered(k)' /\ Sent(k, R)' /\ Numbered(k, R)'
      /\ Live(k)' /\ Awaited(k)'
  BY DriverKeeps
<1>2. /\ pc' = [pc EXCEPT ![c] = to] /\ frame' = frame
      /\ \A d \in Callers : d # c => rest'[d] = rest[d] /\ frame'[d] = frame[d]
  BY DEF Steps
<1>3. Makes(c, k, q, n)'
  <2>1. pc'[c] = to
    BY <1>2, OnlyOne
  <2> QED
    BY <1>2, <2>1 DEF Makes
<1>4. Chained(k, q)'
  <2>1. Chained(k, r)
    BY DEF Contents
  <2> QED
    BY <1>2, <1>3, <2>1, ChainedAlone
<1> QED
  BY <1>1, <1>4 DEF Ring, Contents

-----------------------------------------------------------------------------
(* Of a call of HAL_ETH_Transmit, the steps before the start of the DMA.   *)
LEMMA StepsAlone ==
  ASSUME TxTypeOK, NEW c \in Callers, UNCHANGED handed,
         \/ SetTxConfig(c) \/ Begin(c) \/ Fill(c) \/ SetOwn(c) \/ More(c)
         \/ Rollback(c) \/ SetLast(c) \/ Advance(c)
  PROVE  Steps(c, pc'[c])
<1>1. /\ \E to : pc' = [pc EXCEPT ![c] = to]
      /\ UNCHANGED <<dma, dmaDesc, gather, wire, frame, abandoned>>
  BY DEF SetTxConfig, Begin, Fill, SetOwn, More, Rollback, SetLast, Advance, Goto,
         headVars, quietVars, dmaVars
<1>2. pc' = [pc EXCEPT ![c] = pc'[c]]
  BY <1>1 DEF TxTypeOK
<1>3. \A d \in Callers : d # c => rest'[d] = rest[d]
  BY DEF SetTxConfig, Begin, Fill, SetOwn, More, Rollback, SetLast, Advance,
         localVars, TxTypeOK
<1>4. \A d \in Callers : d # c => dmatxdesc'[d] = dmatxdesc[d]
  BY DEF SetTxConfig, Begin, Fill, SetOwn, More, Rollback, SetLast, Advance,
         localVars, TxTypeOK
<1> QED
  BY <1>1, <1>2, <1>3, <1>4 DEF Steps

(* TxConfig is set, and the descriptors have not been touched. *)
LEMMA SetTxConfigInStep ==
  ASSUME NEW R, NEW k \in 0 .. ETH_TX_DESC_CNT, NEW r \in 0 .. ETH_TX_DESC_CNT,
         NEW n \in 1 .. MaxChain, Position(k, r), Contents(k, r, R),
         NEW c \in Callers, Solo(c), Makes(c, k, r, n), SetTxConfig(c), UNCHANGED handed
  PROVE  Ring(R)'
<1>1. /\ pc[c] = "config"
      /\ pc' = [pc EXCEPT ![c] = "begin"]
      /\ TxConfig' = rest[c]
      /\ UNCHANGED <<TxDesc, CurTxDesc, DMACTDTPR, dma, dmaDesc, gather, wire,
                     frame, handed, abandoned>>
  BY DEF SetTxConfig, Goto, headVars, dmaVars
<1>2. Position(k, r)'
  BY <1>1, AtRest DEF Preparing
<1>3. TxConfig' = Chain(frame[c], n)
  BY <1>1 DEF Makes
<1>4. Slots' = Slots
  BY <1>1, SlotsKept
<1>5. Steps(c, "begin")
  BY <1>1, StepsAlone, OnlyOne DEF Solo
<1> QED
  BY <1>1, <1>2, <1>3, <1>4, <1>5, DriverStep DEF Driving, Preparing

-----------------------------------------------------------------------------
(* ETH_Prepare_Tx_Descriptors.                                             *)
LEMMA BeginInStep ==
  ASSUME NEW R, NEW k \in 0 .. ETH_TX_DESC_CNT, NEW r \in 0 .. ETH_TX_DESC_CNT,
         NEW n \in 1 .. MaxChain, Position(k, r), Contents(k, r, R),
         NEW c \in Callers, Solo(c), Makes(c, k, r, n), Begin(c), UNCHANGED handed
  PROVE  Ring(R)'
<1>0. /\ pc[c] = "begin"
      /\ UNCHANGED <<TxDesc, CurTxDesc, DMACTDTPR, dma, dmaDesc, gather, wire,
                     frame, handed, abandoned>>
  BY DEF Begin, Goto, headVars, quietVars, dmaVars
<1>1. Slots' = Slots /\ \A p : At(p)' = At(p)
  BY <1>0, SlotsKept
<1>2. TxTypeOK /\ k \in Nat /\ n \in Nat /\ n >= 1
  BY TxAssumption DEF Solo
<1>3. \A d \in Callers : pc[d] \notin Preparing
  <2>1. \A d \in Callers : d # c => pc[d] \in Aside
    BY DEF Solo
  <2> QED
    BY <1>0, <2>1 DEF Preparing, Aside
<1>4. CurTxDesc = At(k) /\ \A i \in Desc : Slots[i].own <=> i < k
  BY <1>3 DEF Position
<1>5. CASE pc' = [pc EXCEPT ![c] = "fill"]
  <2>1. /\ ~ TxDesc[CurTxDesc].own
        /\ descidx' = [descidx EXCEPT ![c] = CurTxDesc]
        /\ firstdescidx' = [firstdescidx EXCEPT ![c] = CurTxDesc]
        /\ descnbr' = [descnbr EXCEPT ![c] = 0]
        /\ rest' = [rest EXCEPT ![c] = TxConfig]
    BY <1>0, <1>2, <1>5 DEF Begin, Goto, TxTypeOK
  <2>2. k < ETH_TX_DESC_CNT
    <3> SUFFICES ASSUME k = ETH_TX_DESC_CNT PROVE FALSE
      BY <1>2, TxAssumption
    <3>1. CurTxDesc = At(0) /\ 0 \in Desc
      BY <1>2, <1>4, AtEnds
    <3>2. Slots[0].own
      BY <1>4, <3>1, TxAssumption
    <3> QED
      BY <2>1, <3>1, <3>2 DEF Slots
  <2>3. /\ pc'[c] = "fill" /\ descidx'[c] = At(k) /\ firstdescidx'[c] = At(k)
        /\ descnbr'[c] = 0 /\ rest'[c] = Chain(frame[c], n)
        /\ CurTxDesc' = At(k)
    <3>1. TxConfig = Chain(frame[c], n)
      BY <1>0 DEF Makes
    <3> QED
      BY <1>0, <1>2, <1>4, <1>5, <2>1, <3>1 DEF TxTypeOK
  <2>4. 0 \in 0 .. ETH_TX_DESC_CNT
    BY TxAssumption
  <2>5. Placed(c, k, 0)'
    <3>1. \A i \in Desc : Slots'[i].own <=> i < k \/ (k + 0 <= i /\ i < k + 0 + 0)
      BY <1>1, <1>2, <1>4 DEF Desc
    <3>2. Marked(c)' = 0
      BY <2>3 DEF Marked
    <3>3. At(k)' = At(k) /\ At(k + 0)' = At(k)
      BY <1>1, <1>2
    <3>4. k + 0 + 0 <= ETH_TX_DESC_CNT /\ k + 0 < ETH_TX_DESC_CNT
      BY <1>2, <2>2
    <3> QED
      BY <2>3, <3>1, <3>2, <3>3, <3>4 DEF Placed
  <2>6. DMACTDTPR' = At(k)' /\ (dma' = "reading" => k > 0)
    BY <1>0, <1>1 DEF Position
  <2>7. Position(k, 0)'
    <3>1. "fill" \in Preparing
      BY DEF Preparing
    <3> QED
      BY <1>5, <2>5, <2>6, <3>1, PositionAlone
  <2>8. Built(c, k, 0, n)'
    <3>1. \A j \in Desc : ~ (0 <= j /\ j < 0 + 0)
      BY DEF Desc
    <3>2. ~ Slots'[k + 0].FD \/ 0 = 0
      OBVIOUS
    <3>3. 2 * 0 = 0 /\ 0 < n
      BY <1>2
    <3>4. rest'[c] = Suffix(frame[c], n, 0)
      BY <2>3, ChainParts
    <3> QED
      BY <1>0, <2>3, <3>1, <3>3, <3>4 DEF Built
  <2> QED
    <3>1. Steps(c, "fill")
      BY <1>2, <2>3, StepsAlone
    <3> QED
      BY <1>0, <1>1, <2>4, <2>7, <2>8, <3>1, DriverStep DEF Driving, Preparing
<1>6. CASE pc' = [pc EXCEPT ![c] = "done"]
  <2>1. Position(k, r)'
    BY <1>0, <1>6, AtRest DEF Preparing
  <2>2. Steps(c, "done")
    <3>1. pc'[c] = "done"
      BY <1>6, OnlyOne
    <3> QED
      BY <1>2, <3>1, StepsAlone
  <2> QED
    BY <1>0, <1>1, <2>1, <2>2, DriverStep DEF Driving, Preparing
<1> QED
  BY <1>5, <1>6 DEF Begin, Goto

(* The buffers of one descriptor are written. *)
LEMMA FillInStep ==
  ASSUME NEW R, NEW k \in 0 .. ETH_TX_DESC_CNT, NEW r \in 0 .. ETH_TX_DESC_CNT,
         NEW n \in 1 .. MaxChain, Position(k, r), Contents(k, r, R),
         NEW c \in Callers, Solo(c), Makes(c, k, r, n), Fill(c), UNCHANGED handed
  PROVE  Ring(R)'
<1> DEFINE m == IF Len(rest[c]) > 1 THEN 2 ELSE 1
           j == descnbr[c]
           b == SubSeq(rest[c], 1, m)
<1>t. TxTypeOK /\ Listed(c)
  BY DEF Solo
<1>0. /\ pc[c] = "fill"
      /\ pc' = [pc EXCEPT ![c] = "own"]
      /\ rest' = [rest EXCEPT ![c] = SubSeq(rest[c], m + 1, Len(rest[c]))]
      /\ descnbr' = [descnbr EXCEPT ![c] = j + 1]
      /\ UNCHANGED <<CurTxDesc, DMACTDTPR, dma, dmaDesc, gather, wire,
                     frame, handed, abandoned, descidx, firstdescidx>>
  BY <1>t DEF Fill, Goto, headVars, quietVars, dmaVars, TxTypeOK
<1>1. Placed(c, k, r) /\ Built(c, k, r, n) /\ pc[c] \in Preparing
  BY <1>0 DEF Position, Makes, Preparing
<1>2. /\ r = 0 /\ k \in Nat /\ n \in Nat /\ j \in Nat
      /\ frame[c] \in 1 .. MaxFrame
      /\ k + j < ETH_TX_DESC_CNT /\ ETH_TX_DESC_CNT \in Nat
      /\ k + j \in Desc /\ j \in Desc
      /\ descidx[c] = At(k + j) /\ firstdescidx[c] = At(k)
      /\ 2 * j < n
  <2>1. /\ k \in Nat /\ n \in Nat /\ j \in Nat /\ ETH_TX_DESC_CNT \in Nat
        /\ frame[c] \in 1 .. MaxFrame
    BY <1>t, <1>0, TxAssumption DEF TxTypeOK, Listed
  <2>2. /\ r = 0 /\ k + j < ETH_TX_DESC_CNT
        /\ descidx[c] = At(k + j) /\ firstdescidx[c] = At(k)
    BY <1>0, <1>1 DEF Placed
  <2>3. 2 * j < n
    BY <1>0, <1>1 DEF Built
  <2>4. k + j \in Desc /\ j \in Desc
    BY <2>1, <2>2 DEF Desc
  <2> QED
    BY <2>1, <2>2, <2>3, <2>4
<1>3. \A p : At(p)' = At(p)
  BY <1>0 DEF At
<1>4. /\ b = Piece(frame[c], n, 2 * j + 1)
      /\ rest'[c] = Suffix(frame[c], n, 2 * (j + 1))
  <2>1. rest[c] = Suffix(frame[c], n, 2 * j)
    BY <1>0, <1>1 DEF Built
  <2>2. 2 * j \in 0 .. n - 1 /\ 2 * j + 2 = 2 * (j + 1)
    BY <1>2
  <2> DEFINE t == 2 * j
             s == rest[c]
             f == frame[c]
  <2>3. /\ m \in {1, 2} /\ (m = 2 <=> Len(s) > 1)
        /\ s = Suffix(f, n, t) /\ t \in 0 .. n - 1 /\ f \in 1 .. MaxFrame
    BY <1>2, <2>1, <2>2
  <2> HIDE DEF m, s, t, f
  <2>6. /\ SubSeq(s, 1, m) = Piece(f, n, t + 1)
        /\ SubSeq(s, m + 1, Len(s)) = Suffix(f, n, t + 2)
    BY <2>3, SuffixTaken
  <2>4. /\ SubSeq(rest[c], 1, m) = Piece(frame[c], n, 2 * j + 1)
        /\ SubSeq(rest[c], m + 1, Len(rest[c])) = Suffix(frame[c], n, 2 * j + 2)
    BY <2>6 DEF s, t, f
  <2>5. rest'[c] = SubSeq(rest[c], m + 1, Len(rest[c]))
    BY <1>t, <1>0 DEF TxTypeOK
  <2> QED
    BY <2>2, <2>4, <2>5
<1>5. \A i \in Desc :
           /\ i = k + j => Slots'[i].bufs = b
           /\ i # k + j => Slots'[i].bufs = Slots[i].bufs
           /\ Slots'[i].own <=> Slots[i].own
           /\ Slots'[i].FD <=> Slots[i].FD \/ (i = k + j /\ j = 0)
           /\ Slots'[i].LD <=> Slots[i].LD
  <2> DEFINE p == k + j
             v == j = 0 \/ Slots[p].FD
  <2>2. p \in Desc /\ dmaDesc' = dmaDesc /\ v \in BOOLEAN
    BY <1>t, <1>0, <1>2, SlotsType
  <2>1. TxDesc' = [TxDesc EXCEPT ![At(p)].bufs = b, ![At(p)].FD = v]
    <3>1. TxDesc \in [Desc -> TxDescriptor] /\ descidx[c] = At(p) /\ At(p) \in Desc
      BY <1>t, <1>2, <2>2 DEF TxTypeOK
    <3>2. Slots[p].FD = TxDesc[descidx[c]].FD
      BY <1>2, <2>2 DEF Slots
    <3> QED
      BY <3>1, <3>2 DEF Fill, TxDescriptor
  <2> HIDE DEF b, v, p
  <2>3. \A i \in Desc :
           /\ i = p => Slots'[i].bufs = b
           /\ i # p => Slots'[i].bufs = Slots[i].bufs
           /\ Slots'[i].own <=> Slots[i].own
           /\ Slots'[i].FD <=> (i = p /\ v) \/ (i # p /\ Slots[i].FD)
           /\ Slots'[i].LD <=> Slots[i].LD
    <3>1. TxTypeOK /\ p \in Desc /\ dmaDesc' = dmaDesc /\ v \in BOOLEAN
      BY <1>t, <2>2
    <3> HIDE DEF j, m
    <3> QED
      BY ZenonT(60), <2>1, <3>1, BufsWritten
  <2> HIDE DEF j
  <2>4. ASSUME NEW i \in Desc
        PROVE  (i = p /\ v) \/ (i # p /\ Slots[i].FD) <=> Slots[i].FD \/ (i = p /\ j = 0)
    BY DEF v
  <2>5. \A i \in Desc : Slots'[i].FD <=> Slots[i].FD \/ (i = p /\ j = 0)
    BY <2>3, <2>4
  <2> QED
    BY <2>3, <2>5 DEF p
<1>6. pc'[c] = "own" /\ descnbr'[c] = j + 1
  BY <1>t, <1>0 DEF TxTypeOK
<1> HIDE DEF m, b
<1>7. Placed(c, k, 0)'
  <2>1. \A i \in Desc : Slots'[i].own <=> i < k \/ (k + 0 <= i /\ i < k + 0 + j)
    <3>1. Marked(c) = j
      BY <1>0 DEF Marked
    <3> QED
      BY <1>1, <1>2, <1>5, <3>1 DEF Placed
  <2>2. Marked(c)' = j
    BY <1>2, <1>6 DEF Marked
  <2>3. CurTxDesc' = At(k)
    BY <1>0, <1>1 DEF Placed, Preparing
  <2>4. k + 0 + (j + 1) <= ETH_TX_DESC_CNT /\ k + (j + 1) - 1 = k + j /\ j + 1 >= 1
    BY <1>2
  <2> QED
    BY <1>0, <1>2, <1>3, <1>6, <2>1, <2>2, <2>3, <2>4 DEF Placed
<1>8. Position(k, 0)'
  <2>1. DMACTDTPR' = At(k)' /\ (dma' = "reading" => k > 0)
    BY <1>0, <1>3 DEF Position
  <2>2. "own" \in Preparing
    BY DEF Preparing
  <2> QED
    BY <1>0, <1>7, <2>1, <2>2, PositionAlone
<1>9. Built(c, k, 0, n)'
  <2>1. ASSUME NEW i \in Desc, 0 <= i, i < j + 1
        PROVE  /\ 2 * i + 1 <= n
               /\ Slots'[k + i].bufs = Piece(frame[c], n, 2 * i + 1)
               /\ Slots'[k + i].FD => i = 0
               /\ i + 1 < j + 1 => ~ Slots'[k + i].LD
    <3>0. i \in Nat
      BY DEF Desc
    <3>1. CASE i = j
      <4>1. Slots[k + j].FD => j = 0
        BY <1>0, <1>1 DEF Built
      <4>2. /\ Slots'[k + j].bufs = Piece(frame[c], n, 2 * j + 1)
            /\ Slots'[k + j].FD => j = 0
        BY <1>2, <1>4, <1>5, <4>1
      <4>3. 2 * j + 1 <= n /\ ~ (j + 1 < j + 1)
        BY <1>2
      <4> HIDE DEF j
      <4> QED
        BY <3>1, <4>2, <4>3
    <3>2. CASE i # j
      <4>1. r <= i /\ i < r + j /\ k + i # k + j /\ k + i \in Desc
        BY <1>2, <2>1, <3>0, <3>2 DEF Desc
      <4>2. /\ 2 * i + 1 <= n
            /\ Slots[k + i].bufs = Piece(frame[c], n, 2 * i + 1)
            /\ Slots[k + i].FD => i = 0
            /\ ~ Slots[k + i].LD
        BY <1>0, <1>1, <4>1 DEF Built
      <4> QED
        BY <1>5, <4>1, <4>2
    <3> QED
      BY <3>1, <3>2
  <2>2. 0 + (j + 1) = j + 1
    BY <1>2
  <2> QED
    BY <1>0, <1>4, <1>6, <2>1, <2>2 DEF Built
<1>10. \A i \in Desc : i < k => /\ Slots'[i].bufs = Slots[i].bufs
                                /\ Slots'[i].LD <=> Slots[i].LD
                                /\ Slots'[i].FD => Slots[i].FD
  <2>1. \A i \in Desc : i < k => i # k + j
    BY <1>2 DEF Desc
  <2> QED
    BY <1>5, <2>1
<1>11. Steps(c, "own")
  BY <1>t, <1>6, StepsAlone
<1>12. pc[c] \in Driving /\ 0 \in 0 .. ETH_TX_DESC_CNT
  BY <1>0, <1>2 DEF Driving, Preparing
<1>13. "own" \in Driving /\ "own" \notin {"sem", "config", "begin"}
  BY DEF Driving, Preparing
<1> QED
  BY <1>8, <1>9, <1>10, <1>11, <1>12, <1>13, DriverStep

(* The descriptor is marked as the DMA's. *)
LEMMA SetOwnInStep ==
  ASSUME NEW R, NEW k \in 0 .. ETH_TX_DESC_CNT, NEW r \in 0 .. ETH_TX_DESC_CNT,
         NEW n \in 1 .. MaxChain, Position(k, r), Contents(k, r, R),
         NEW c \in Callers, Solo(c), Makes(c, k, r, n), SetOwn(c), UNCHANGED handed
  PROVE  Ring(R)'
<1> DEFINE j == descnbr[c]
           to == IF rest[c] = <<>> THEN "last" ELSE "more"
<1>t. TxTypeOK /\ Listed(c)
  BY DEF Solo
<1>0. /\ pc[c] = "own"
      /\ pc' = [pc EXCEPT ![c] = to]
      /\ UNCHANGED <<CurTxDesc, DMACTDTPR, dma, dmaDesc, gather, wire,
                     frame, handed, abandoned, descidx, firstdescidx, descnbr, rest>>
  BY <1>t DEF SetOwn, Goto, headVars, quietVars, dmaVars, localVars
<1>1. Placed(c, k, r) /\ Built(c, k, r, n) /\ pc[c] \in Preparing
  BY <1>0 DEF Position, Makes, Preparing
<1>2. /\ r = 0 /\ k \in Nat /\ n \in Nat /\ j \in Nat /\ j >= 1
      /\ k + j <= ETH_TX_DESC_CNT /\ ETH_TX_DESC_CNT \in Nat
      /\ k + j - 1 \in Desc
      /\ descidx[c] = At(k + j - 1) /\ firstdescidx[c] = At(k)
  <2>1. k \in Nat /\ n \in Nat /\ j \in Nat /\ ETH_TX_DESC_CNT \in Nat
    BY <1>t, TxAssumption DEF TxTypeOK
  <2>2. /\ r = 0 /\ k + r + j <= ETH_TX_DESC_CNT /\ j >= 1
        /\ descidx[c] = At(k + j - 1) /\ firstdescidx[c] = At(k)
    BY <1>0, <1>1 DEF Placed
  <2>3. k + j <= ETH_TX_DESC_CNT /\ k + j - 1 \in Desc
    BY <2>1, <2>2 DEF Desc
  <2> QED
    BY <2>1, <2>2, <2>3
<1>3. \A p : At(p)' = At(p)
  BY <1>0 DEF At
<1>5. \A i \in Desc :
           /\ Slots'[i].own <=> i = k + j - 1 \/ Slots[i].own
           /\ Slots'[i].FD <=> Slots[i].FD
           /\ Slots'[i].LD <=> Slots[i].LD
           /\ Slots'[i].bufs = Slots[i].bufs
  <2>1. TxDesc' = [TxDesc EXCEPT ![At(k + j - 1)].own = TRUE]
    BY <1>2 DEF SetOwn
  <2> HIDE DEF j
  <2>2. k + j - 1 \in Desc /\ dmaDesc' = dmaDesc /\ TRUE \in BOOLEAN
    BY <1>0, <1>2
  <2> QED
    BY <1>t, <2>1, <2>2, OwnWritten
<1>6. pc'[c] = to
  BY <1>t, <1>0 DEF TxTypeOK
<1>s. to \in {"last", "more"}
  OBVIOUS
<1>7. Placed(c, k, 0)'
  <2>1. \A i \in Desc : Slots'[i].own <=> i < k \/ (k + 0 <= i /\ i < k + 0 + j)
    <3>1. Marked(c) = j - 1
      BY <1>0 DEF Marked
    <3>2. \A i \in Desc : Slots[i].own <=> i < k \/ (k <= i /\ i < k + (j - 1))
      BY <1>1, <1>2, <3>1 DEF Placed
    <3> HIDE DEF j
    <3>3. ASSUME NEW i \in Desc
          PROVE  Slots'[i].own <=> i < k \/ (k + 0 <= i /\ i < k + 0 + j)
      <4>0. i \in Nat
        BY DEF Desc
      <4>1. CASE i = k + j - 1
        BY <1>2, <1>5, <4>1
      <4>2. CASE i # k + j - 1
        BY <1>2, <1>5, <3>2, <4>0, <4>2
      <4> QED
        BY <4>1, <4>2
    <3> QED
      BY <3>3
  <2>2. Marked(c)' = j
    BY <1>0, <1>6, <1>s DEF Marked
  <2>3. CurTxDesc' = At(k)
    BY <1>0, <1>1 DEF Placed, Preparing
  <2>4. k + 0 + j <= ETH_TX_DESC_CNT
    BY <1>2
  <2> QED
    BY <1>0, <1>2, <1>3, <1>6, <1>s, <2>1, <2>2, <2>3, <2>4 DEF Placed
<1>8. Position(k, 0)'
  <2>1. DMACTDTPR' = At(k)' /\ (dma' = "reading" => k > 0)
    BY <1>0, <1>3 DEF Position
  <2>2. to \in Preparing
    BY DEF Preparing
  <2> HIDE DEF to
  <2> QED
    BY <1>0, <1>7, <2>1, <2>2, PositionAlone
<1>9. Built(c, k, 0, n)'
  <2>1. ASSUME NEW i \in Desc, 0 <= i, i < 0 + j
        PROVE  /\ 2 * i + 1 <= n
               /\ Slots'[k + i].bufs = Piece(frame[c], n, 2 * i + 1)
               /\ Slots'[k + i].FD => i = 0
               /\ i + 1 < j => ~ Slots'[k + i].LD
    <3>1. r <= i /\ i < r + j /\ k + i \in Desc
      BY <1>2, <2>1 DEF Desc
    <3>2. /\ 2 * i + 1 <= n
          /\ Slots[k + i].bufs = Piece(frame[c], n, 2 * i + 1)
          /\ Slots[k + i].FD => i = 0
          /\ i + 1 < j => ~ Slots[k + i].LD
      BY <1>0, <1>1, <3>1 DEF Built
    <3> QED
      BY <1>5, <3>1, <3>2
  <2>2. rest[c] = Suffix(frame[c], n, 2 * j)
    BY <1>0, <1>1 DEF Built
  <2>3. to = "last" => n <= 2 * j
    <3>1. 2 * j \in Nat
      BY <1>2
    <3> HIDE DEF j
    <3> QED
      BY <2>2, <3>1, SuffixEmpty
  <2> QED
    BY <1>0, <1>6, <1>s, <2>1, <2>2, <2>3 DEF Built
<1>10. \A i \in Desc : i < k => /\ Slots'[i].bufs = Slots[i].bufs
                                /\ Slots'[i].LD <=> Slots[i].LD
                                /\ Slots'[i].FD => Slots[i].FD
  BY <1>5
<1>11. to \in Preparing /\ to \notin {"sem", "config", "begin"} /\ to \in Driving \cup {"done"}
  BY DEF Preparing, Driving
<1> HIDE DEF to
<1>12. pc[c] \in Driving /\ 0 \in 0 .. ETH_TX_DESC_CNT
  BY <1>0, <1>2 DEF Driving, Preparing
<1>13. Steps(c, to)
  BY <1>t, <1>6, StepsAlone
<1> QED
  BY <1>8, <1>9, <1>10, <1>11, <1>12, <1>13, DriverStep

(* The next descriptor is taken, or found to be in use. *)
LEMMA MoreInStep ==
  ASSUME NEW R, NEW k \in 0 .. ETH_TX_DESC_CNT, NEW r \in 0 .. ETH_TX_DESC_CNT,
         NEW n \in 1 .. MaxChain, Position(k, r), Contents(k, r, R),
         NEW c \in Callers, Solo(c), Makes(c, k, r, n), More(c), UNCHANGED handed
  PROVE  Ring(R)'
<1> DEFINE j == descnbr[c]
           next == INCR_TX_DESC_INDEX(descidx[c], 1)
           p == k + j - 1
           q == IF k + j = ETH_TX_DESC_CNT THEN 0 ELSE k + j
           to == IF TxDesc[next].own THEN "rollback" ELSE "fill"
<1>t. TxTypeOK /\ Listed(c)
  BY DEF Solo
<1>0. /\ pc[c] = "more"
      /\ pc' = [pc EXCEPT ![c] = to]
      /\ descidx' = [descidx EXCEPT ![c] =
                       IF to = "rollback" THEN firstdescidx[c] ELSE next]
      /\ TxDesc' = [TxDesc EXCEPT ![descidx[c]].LD = FALSE, ![next].FD = FALSE]
      /\ UNCHANGED <<CurTxDesc, DMACTDTPR, dma, dmaDesc, gather, wire,
                     frame, handed, abandoned, firstdescidx, descnbr, rest>>
  BY <1>t DEF More, Goto, headVars, quietVars, dmaVars
<1>1. Placed(c, k, r) /\ Built(c, k, r, n) /\ pc[c] \in Preparing
  BY <1>0 DEF Position, Makes, Preparing
<1>2. /\ r = 0 /\ k \in Nat /\ n \in Nat /\ j \in Nat /\ j >= 1
      /\ k + j <= ETH_TX_DESC_CNT /\ ETH_TX_DESC_CNT \in Nat
      /\ p \in Desc /\ q \in Desc
      /\ descidx[c] = At(p) /\ firstdescidx[c] = At(k)
  <2>1. k \in Nat /\ n \in Nat /\ j \in Nat /\ ETH_TX_DESC_CNT \in Nat
    BY <1>t, TxAssumption DEF TxTypeOK
  <2>2. /\ r = 0 /\ k + r + j <= ETH_TX_DESC_CNT /\ j >= 1
        /\ descidx[c] = At(p) /\ firstdescidx[c] = At(k)
    BY <1>0, <1>1 DEF Placed
  <2>3. k + j <= ETH_TX_DESC_CNT /\ p \in Desc /\ q \in Desc
    BY <2>1, <2>2, TxAssumption DEF Desc
  <2> QED
    BY <2>1, <2>2, <2>3
<1>3. \A x : At(x)' = At(x)
  BY <1>0 DEF At
<1>4. next = At(k + j) /\ next = At(q)
  <2>1. next = At(k + j - 1 + 1) /\ k + j - 1 + 1 = k + j
    BY <1>t, <1>2, AtNext
  <2>2. CASE k + j = ETH_TX_DESC_CNT
    BY <1>t, <2>1, <2>2, AtEnds
  <2>3. CASE k + j # ETH_TX_DESC_CNT
    BY <2>1, <2>3
  <2> QED
    BY <2>2, <2>3
<1>5. \A i \in Desc :
           /\ Slots'[i].bufs = Slots[i].bufs
           /\ Slots'[i].own <=> Slots[i].own
           /\ Slots'[i].FD <=> Slots[i].FD /\ i # q
           /\ Slots'[i].LD <=> Slots[i].LD /\ i # p
  <2>1. TxDesc' = [TxDesc EXCEPT ![At(p)].LD = FALSE, ![At(q)].FD = FALSE]
    BY <1>0, <1>2, <1>4
  <2>2. p \in Desc /\ q \in Desc /\ dmaDesc' = dmaDesc
    BY <1>0, <1>2
  <2> HIDE DEF p, q
  <2> QED
    BY <1>t, <2>1, <2>2, MoreWritten
<1>6. /\ pc'[c] = to
      /\ descidx'[c] = IF to = "rollback" THEN firstdescidx[c] ELSE next
      /\ to \in {"fill", "rollback"}
  BY <1>t, <1>0 DEF TxTypeOK
<1>o. \A i \in Desc : Slots'[i].own <=> i < k \/ (k + 0 <= i /\ i < k + 0 + j)
  <2>1. Marked(c) = j
    BY <1>0 DEF Marked
  <2> QED
    BY <1>1, <1>2, <1>5, <2>1 DEF Placed
<1>f. to = "fill" <=> k + j < ETH_TX_DESC_CNT
  <2>1. Slots'[q].own <=> TxDesc[next].own
    BY <1>2, <1>4, <1>5 DEF Slots
  <2>2. Slots'[q].own <=> q < k \/ (k + 0 <= q /\ q < k + 0 + j)
    BY <1>2, <1>o
  <2>3. CASE k + j = ETH_TX_DESC_CNT
    <3>1. q = 0 /\ (0 < k \/ (k + 0 <= 0 /\ 0 < k + 0 + j)) /\ ~ (k + j < ETH_TX_DESC_CNT)
      BY <1>2, <2>3
    <3>2. TxDesc[next].own
      BY <2>1, <2>2, <3>1
    <3> QED
      BY <3>1, <3>2
  <2>4. CASE k + j # ETH_TX_DESC_CNT
    <3>1. q = k + j /\ k + j < ETH_TX_DESC_CNT /\ ~ (q < k \/ (k + 0 <= q /\ q < k + 0 + j))
      BY <1>2, <2>4
    <3>2. ~ TxDesc[next].own
      BY <2>1, <2>2, <3>1
    <3> QED
      BY <3>1, <3>2
  <2> QED
    BY <2>3, <2>4
<1>7. Placed(c, k, 0)'
  <2>2. Marked(c)' = j
    BY <1>0, <1>6 DEF Marked
  <2>3. CurTxDesc' = At(k)
    BY <1>0, <1>1 DEF Placed, Preparing
  <2>4. k + 0 + j <= ETH_TX_DESC_CNT /\ k + 0 = k
    BY <1>2
  <2>5. to = "fill" => descidx'[c] = At(k + j) /\ k + j < ETH_TX_DESC_CNT
    BY <1>4, <1>6, <1>f
  <2>6. to = "rollback" => descidx'[c] = At(k + 0)
    BY <1>2, <1>6, <2>4
  <2> HIDE DEF to, next
  <2> QED
    BY <1>0, <1>2, <1>3, <1>6, <1>o, <2>2, <2>3, <2>4, <2>5, <2>6 DEF Placed
<1>8. Position(k, 0)'
  <2>1. DMACTDTPR' = At(k)' /\ (dma' = "reading" => k > 0)
    BY <1>0, <1>3 DEF Position
  <2>2. to \in Preparing
    BY DEF Preparing
  <2> HIDE DEF to
  <2> QED
    BY <1>0, <1>7, <2>1, <2>2, PositionAlone
<1>9. Built(c, k, 0, n)'
  <2>1. ASSUME NEW i \in Desc, 0 <= i, i < 0 + j
        PROVE  /\ 2 * i + 1 <= n
               /\ Slots'[k + i].bufs = Piece(frame[c], n, 2 * i + 1)
               /\ Slots'[k + i].FD => i = 0
               /\ i + 1 < j \/ to = "fill" => ~ Slots'[k + i].LD
    <3>1. r <= i /\ i < r + j /\ k + i \in Desc /\ (i + 1 < j \/ k + i = p)
      BY <1>2, <2>1 DEF Desc
    <3>2. /\ 2 * i + 1 <= n
          /\ Slots[k + i].bufs = Piece(frame[c], n, 2 * i + 1)
          /\ Slots[k + i].FD => i = 0
          /\ i + 1 < j => ~ Slots[k + i].LD
      BY <1>0, <1>1, <3>1 DEF Built
    <3> HIDE DEF p, q
    <3> QED
      BY <1>5, <3>1, <3>2
  <2>2. rest[c] = Suffix(frame[c], n, 2 * j)
    BY <1>0, <1>1 DEF Built
  <2>3. 2 * j < n
    <3>1. 2 * j \in Nat
      BY <1>2
    <3>2. rest[c] # <<>>
      BY <1>t, <1>0 DEF Listed
    <3> HIDE DEF j
    <3>3. ~ (n <= 2 * j)
      BY <2>2, <3>1, <3>2, SuffixEmpty
    <3> QED
      BY <1>2, <3>1, <3>3
  <2>4. to = "fill" => ~ Slots'[k + j].FD
    <3>1. k + j < ETH_TX_DESC_CNT => q = k + j
      BY <1>2
    <3> QED
      BY <1>2, <1>5, <1>f, <3>1
  <2> HIDE DEF to
  <2> QED
    BY <1>0, <1>6, <2>1, <2>2, <2>3, <2>4 DEF Built
<1>10. \A i \in Desc : i < k => /\ Slots'[i].bufs = Slots[i].bufs
                                /\ Slots'[i].LD <=> Slots[i].LD
                                /\ Slots'[i].FD => Slots[i].FD
  <2>1. \A i \in Desc : i < k => i # p
    BY <1>2 DEF Desc
  <2> HIDE DEF p, q
  <2> QED
    BY <1>5, <2>1
<1>11. to \in Preparing /\ to \notin {"sem", "config", "begin"} /\ to \in Driving \cup {"done"}
  BY DEF Preparing, Driving
<1> HIDE DEF to
<1>12. pc[c] \in Driving /\ 0 \in 0 .. ETH_TX_DESC_CNT
  BY <1>0, <1>2 DEF Driving, Preparing
<1>13. Steps(c, to)
  BY <1>t, <1>6, StepsAlone
<1> QED
  BY <1>8, <1>9, <1>10, <1>11, <1>12, <1>13, DriverStep

(* A descriptor of a chain that did not fit is taken back. *)
LEMMA RollbackInStep ==
  ASSUME NEW R, NEW k \in 0 .. ETH_TX_DESC_CNT, NEW r \in 0 .. ETH_TX_DESC_CNT,
         NEW n \in 1 .. MaxChain, Position(k, r), Contents(k, r, R),
         NEW c \in Callers, Solo(c), Makes(c, k, r, n), Rollback(c), UNCHANGED handed
  PROVE  Ring(R)'
<1> DEFINE j == descnbr[c]
           to == IF j = 1 THEN "done" ELSE "rollback"
           p == k + r
<1>t. TxTypeOK /\ Listed(c)
  BY DEF Solo
<1>0. /\ pc[c] = "rollback"
      /\ pc' = [pc EXCEPT ![c] = to]
      /\ descidx' = [descidx EXCEPT ![c] = INCR_TX_DESC_INDEX(descidx[c], 1)]
      /\ descnbr' = [descnbr EXCEPT ![c] = j - 1]
      /\ TxDesc' = [TxDesc EXCEPT ![descidx[c]].own = FALSE]
      /\ UNCHANGED <<CurTxDesc, DMACTDTPR, dma, dmaDesc, gather, wire,
                     frame, handed, abandoned, firstdescidx, rest>>
  BY <1>t DEF Rollback, Goto, headVars, quietVars, dmaVars, TxTypeOK
<1>1. Placed(c, k, r) /\ Built(c, k, r, n) /\ pc[c] \in Preparing
  BY <1>0 DEF Position, Makes, Preparing
<1>2. /\ r \in Nat /\ k \in Nat /\ n \in Nat /\ j \in Nat /\ j >= 1
      /\ k + r + j <= ETH_TX_DESC_CNT /\ ETH_TX_DESC_CNT \in Nat
      /\ p \in Desc /\ r + 1 \in 0 .. ETH_TX_DESC_CNT
      /\ descidx[c] = At(p) /\ firstdescidx[c] = At(k)
  <2>1. r \in Nat /\ k \in Nat /\ n \in Nat /\ j \in Nat /\ ETH_TX_DESC_CNT \in Nat
    BY <1>t, TxAssumption DEF TxTypeOK
  <2>2. /\ k + r + j <= ETH_TX_DESC_CNT
        /\ descidx[c] = At(p) /\ firstdescidx[c] = At(k)
    BY <1>0, <1>1 DEF Placed
  <2>4. j >= 1
    BY <1>t, <1>0 DEF Listed
  <2>3. p \in Desc /\ r + 1 \in 0 .. ETH_TX_DESC_CNT
    BY <2>1, <2>2, <2>4, TxAssumption DEF Desc
  <2> QED
    BY <2>1, <2>2, <2>3, <2>4
<1>3. \A x : At(x)' = At(x)
  BY <1>0 DEF At
<1>5. \A i \in Desc :
           /\ Slots'[i].own <=> i # p /\ Slots[i].own
           /\ Slots'[i].FD <=> Slots[i].FD
           /\ Slots'[i].LD <=> Slots[i].LD
           /\ Slots'[i].bufs = Slots[i].bufs
  <2>1. TxDesc' = [TxDesc EXCEPT ![At(p)].own = FALSE]
    BY <1>0, <1>2
  <2>2. p \in Desc /\ dmaDesc' = dmaDesc /\ FALSE \in BOOLEAN
    BY <1>0, <1>2
  <2> HIDE DEF p
  <2> QED
    BY <1>t, <2>1, <2>2, OwnWritten
<1>6. pc'[c] = to /\ descnbr'[c] = j - 1 /\ descidx'[c] = At(k + r + 1)
  <2>1. pc'[c] = to /\ descnbr'[c] = j - 1
    BY <1>t, <1>0 DEF TxTypeOK
  <2>2. descidx'[c] = INCR_TX_DESC_INDEX(At(p), 1)
    BY <1>t, <1>0, <1>2 DEF TxTypeOK
  <2> HIDE DEF p
  <2>3. INCR_TX_DESC_INDEX(At(p), 1) = At(p + 1)
    BY <1>t, <1>2, AtNext
  <2> QED
    BY <2>1, <2>2, <2>3 DEF p
<1>o. \A i \in Desc : Slots'[i].own <=>
         i < k \/ (k + (r + 1) <= i /\ i < k + (r + 1) + (j - 1))
  <2>1. Marked(c) = j
    BY <1>0 DEF Marked
  <2>2. \A i \in Desc : Slots[i].own <=> i < k \/ (k + r <= i /\ i < k + r + j)
    BY <1>1, <2>1 DEF Placed
  <2>3. ASSUME NEW i \in Desc
        PROVE  Slots'[i].own <=> i < k \/ (k + (r + 1) <= i /\ i < k + (r + 1) + (j - 1))
    <3>1. i \in Nat
      BY DEF Desc
    <3>2. /\ i # p => (k + (r + 1) <= i <=> k + r <= i)
          /\ i = p => ~ (k + (r + 1) <= i) /\ ~ (i < k)
          /\ i < k + (r + 1) + (j - 1) <=> i < k + r + j
      BY <1>2, <3>1
    <3> HIDE DEF p
    <3> QED
      BY <1>5, <2>2, <3>2
  <2> QED
    BY <2>3
<1>9. \A i \in Desc : i < k => /\ Slots'[i].bufs = Slots[i].bufs
                               /\ Slots'[i].LD <=> Slots[i].LD
                               /\ Slots'[i].FD => Slots[i].FD
  BY <1>5
<1>u. /\ Steps(c, to)
      /\ pc[c] \in Driving
      /\ "done" \notin {"sem", "config", "begin"} \cup Preparing
      /\ "rollback" \in Driving /\ "rollback" \notin {"sem", "config", "begin"}
  BY <1>t, <1>0, <1>6, StepsAlone DEF Driving, Preparing
<1>10. CASE j = 1
  <2>1. pc' = [pc EXCEPT ![c] = "done"]
    BY <1>0, <1>10
  <2>2. Position(k, r)'
    <3>1. pc'[c] = "done" /\ \A d \in Callers : d # c => pc'[d] \notin Preparing
      BY <2>1, OnlyOne
    <3>2. \A d \in Callers : pc'[d] \notin Preparing
      BY <3>1 DEF Preparing
    <3>3. \A i \in Desc : Slots'[i].own <=> i < k
      <4>1. \A i \in Desc : ~ (k + (r + 1) <= i /\ i < k + (r + 1) + (j - 1))
        BY <1>2, <1>10 DEF Desc
      <4> QED
        BY <1>o, <4>1
    <3>4. CurTxDesc' = At(k)' /\ DMACTDTPR' = At(k)' /\ (dma' = "reading" => k > 0)
      BY <1>0, <1>1, <1>3 DEF Placed, Preparing, Position
    <3> QED
      BY <3>2, <3>3, <3>4 DEF Position
  <2> QED
    <3>1. Steps(c, "done")
      BY <1>u, <1>10
    <3> QED
      BY <1>u, <1>9, <2>2, <3>1, DriverStep
<1>11. CASE j # 1
  <2>0. pc' = [pc EXCEPT ![c] = "rollback"]
    BY <1>0, <1>11
  <2>1. Placed(c, k, r + 1)'
    <3>1. Marked(c)' = j - 1 /\ pc'[c] = "rollback"
      BY <1>6, <1>11 DEF Marked
    <3>2. k + (r + 1) + (j - 1) <= ETH_TX_DESC_CNT /\ k + r + 1 = k + (r + 1)
      BY <1>2
    <3>3. CurTxDesc' = At(k)
      BY <1>0, <1>1 DEF Placed, Preparing
    <3> HIDE DEF j
    <3> QED
      BY <1>0, <1>2, <1>3, <1>6, <1>o, <3>1, <3>2, <3>3 DEF Placed
  <2>2. Position(k, r + 1)'
    <3>1. DMACTDTPR' = At(k)' /\ (dma' = "reading" => k > 0)
      BY <1>0, <1>3 DEF Position
    <3>2. "rollback" \in Preparing
      BY DEF Preparing
    <3> QED
      BY <2>0, <2>1, <3>1, <3>2, PositionAlone
  <2>3. Built(c, k, r + 1, n)'
    <3>1. ASSUME NEW i \in Desc, r + 1 <= i, i < r + 1 + (j - 1)
          PROVE  /\ 2 * i + 1 <= n
                 /\ Slots'[k + i].bufs = Piece(frame[c], n, 2 * i + 1)
      <4>1. r <= i /\ i < r + j /\ k + i \in Desc
        BY <1>2, <3>1 DEF Desc
      <4>2. /\ 2 * i + 1 <= n
            /\ Slots[k + i].bufs = Piece(frame[c], n, 2 * i + 1)
        BY <1>1, <4>1 DEF Built
      <4> QED
        BY <1>5, <4>1, <4>2
    <3> HIDE DEF j
    <3> QED
      BY <1>0, <1>6, <1>11, <3>1 DEF Built
  <2> QED
    <3>1. Steps(c, "rollback")
      BY <1>u, <1>11
    <3> QED
      BY <1>u, <1>2, <1>9, <2>2, <2>3, <3>1, DriverStep
<1> QED
  BY <1>10, <1>11

(* The last descriptor of the chain is marked. *)
LEMMA SetLastInStep ==
  ASSUME NEW R, NEW k \in 0 .. ETH_TX_DESC_CNT, NEW r \in 0 .. ETH_TX_DESC_CNT,
         NEW n \in 1 .. MaxChain, Position(k, r), Contents(k, r, R),
         NEW c \in Callers, Solo(c), Makes(c, k, r, n), SetLast(c), UNCHANGED handed
  PROVE  Ring(R)'
<1> DEFINE j == descnbr[c]
           p == k + j - 1
<1>t. TxTypeOK /\ Listed(c)
  BY DEF Solo
<1>0. /\ pc[c] = "last"
      /\ pc' = [pc EXCEPT ![c] = "advance"]
      /\ CurTxDesc' = descidx[c]
      /\ TxDesc' = [TxDesc EXCEPT ![descidx[c]].LD = TRUE]
      /\ UNCHANGED <<DMACTDTPR, dma, dmaDesc, gather, wire,
                     frame, handed, abandoned, descidx, firstdescidx, descnbr>>
  BY <1>t DEF SetLast, Goto, quietVars, dmaVars, localVars
<1>1. Placed(c, k, r) /\ Built(c, k, r, n) /\ pc[c] \in Preparing
  BY <1>0 DEF Position, Makes, Preparing
<1>2. /\ r = 0 /\ k \in Nat /\ n \in Nat /\ j \in Nat /\ j >= 1
      /\ k + j <= ETH_TX_DESC_CNT /\ ETH_TX_DESC_CNT \in Nat
      /\ p \in Desc /\ descidx[c] = At(p) /\ firstdescidx[c] = At(k)
  <2>1. k \in Nat /\ n \in Nat /\ j \in Nat /\ ETH_TX_DESC_CNT \in Nat
    BY <1>t, TxAssumption DEF TxTypeOK
  <2>2. /\ r = 0 /\ k + r + j <= ETH_TX_DESC_CNT /\ j >= 1
        /\ descidx[c] = At(p) /\ firstdescidx[c] = At(k)
    BY <1>0, <1>1 DEF Placed
  <2>3. k + j <= ETH_TX_DESC_CNT /\ p \in Desc
    BY <2>1, <2>2, TxAssumption DEF Desc
  <2> QED
    BY <2>1, <2>2, <2>3
<1>3. \A x : At(x)' = At(x)
  BY <1>0 DEF At
<1>5. \A i \in Desc :
           /\ Slots'[i].bufs = Slots[i].bufs
           /\ Slots'[i].own <=> Slots[i].own
           /\ Slots'[i].FD <=> Slots[i].FD
           /\ Slots'[i].LD <=> i = p \/ Slots[i].LD
  <2>1. TxDesc' = [TxDesc EXCEPT ![At(p)].LD = TRUE]
    BY <1>0, <1>2
  <2>2. p \in Desc /\ dmaDesc' = dmaDesc /\ TRUE \in BOOLEAN
    BY <1>0, <1>2
  <2> HIDE DEF p
  <2> QED
    BY <1>t, <2>1, <2>2, LastWritten
<1>6. pc'[c] = "advance"
  BY <1>t, <1>0 DEF TxTypeOK
<1>7. Placed(c, k, 0)'
  <2>1. \A i \in Desc : Slots'[i].own <=> i < k \/ (k + 0 <= i /\ i < k + 0 + j)
    <3>1. Marked(c) = j
      BY <1>0 DEF Marked
    <3> QED
      BY <1>1, <1>2, <1>5, <3>1 DEF Placed
  <2>2. Marked(c)' = j
    BY <1>0, <1>6 DEF Marked
  <2>3. CurTxDesc' = descidx'[c]
    BY <1>0
  <2>4. k + 0 + j <= ETH_TX_DESC_CNT
    BY <1>2
  <2> QED
    BY <1>0, <1>2, <1>3, <1>6, <2>1, <2>2, <2>3, <2>4 DEF Placed
<1>8. Position(k, 0)'
  <2>1. DMACTDTPR' = At(k)' /\ (dma' = "reading" => k > 0)
    BY <1>0, <1>3 DEF Position
  <2>2. "advance" \in Preparing
    BY DEF Preparing
  <2> QED
    BY <1>0, <1>7, <2>1, <2>2, PositionAlone
<1>9. Built(c, k, 0, n)'
  <2>1. ASSUME NEW i \in Desc, 0 <= i, i < 0 + j
        PROVE  /\ 2 * i + 1 <= n
               /\ Slots'[k + i].bufs = Piece(frame[c], n, 2 * i + 1)
               /\ Slots'[k + i].FD => i = 0
               /\ i + 1 < j => ~ Slots'[k + i].LD
    <3>1. r <= i /\ i < r + j /\ k + i \in Desc /\ (i + 1 < j => k + i # p)
      BY <1>2, <2>1 DEF Desc
    <3>2. /\ 2 * i + 1 <= n
          /\ Slots[k + i].bufs = Piece(frame[c], n, 2 * i + 1)
          /\ Slots[k + i].FD => i = 0
          /\ i + 1 < j => ~ Slots[k + i].LD
      BY <1>0, <1>1, <3>1 DEF Built
    <3> HIDE DEF p
    <3> QED
      BY <1>5, <3>1, <3>2
  <2>2. Slots'[k + j - 1].LD
    BY <1>2, <1>5
  <2>3. n <= 2 * j
    BY <1>0, <1>1 DEF Built
  <2> QED
    BY <1>0, <1>6, <2>1, <2>2, <2>3 DEF Built
<1>10. \A i \in Desc : i < k => /\ Slots'[i].bufs = Slots[i].bufs
                                /\ Slots'[i].LD <=> Slots[i].LD
                                /\ Slots'[i].FD => Slots[i].FD
  <2>1. \A i \in Desc : i < k => i # p
    BY <1>2 DEF Desc
  <2> HIDE DEF p
  <2> QED
    BY <1>5, <2>1
<1>11. /\ Steps(c, "advance")
       /\ pc[c] \in Driving /\ 0 \in 0 .. ETH_TX_DESC_CNT
       /\ "advance" \in Driving /\ "advance" \notin {"sem", "config", "begin"}
  BY <1>t, <1>0, <1>2, <1>6, StepsAlone DEF Driving, Preparing
<1> QED
  BY <1>8, <1>9, <1>10, <1>11, DriverStep

-----------------------------------------------------------------------------
(* The rest of HAL_ETH_Transmit.                                           *)
LEMMA AdvanceInStep ==
  ASSUME NEW R, NEW k \in 0 .. ETH_TX_DESC_CNT, NEW r \in 0 .. ETH_TX_DESC_CNT,
         NEW n \in 1 .. MaxChain, Position(k, r), Contents(k, r, R),
         NEW c \in Callers, Solo(c), Makes(c, k, r, n), Advance(c), UNCHANGED handed
  PROVE  Ring(R)'
<1> DEFINE j == descnbr[c]
           p == k + j - 1
<1>t. TxTypeOK /\ Listed(c)
  BY DEF Solo
<1>0. /\ pc[c] = "advance"
      /\ pc' = [pc EXCEPT ![c] = "start"]
      /\ CurTxDesc' = INCR_TX_DESC_INDEX(CurTxDesc, 1)
      /\ dmatxdesc' = [dmatxdesc EXCEPT ![c] = CurTxDesc]
      /\ UNCHANGED <<TxDesc, DMACTDTPR, dma, dmaDesc, gather, wire,
                     frame, handed, abandoned, descidx, firstdescidx, descnbr>>
  BY <1>t DEF Advance, Goto, quietVars, dmaVars
<1>1. Placed(c, k, r) /\ Built(c, k, r, n) /\ pc[c] \in Preparing
  BY <1>0 DEF Position, Makes, Preparing
<1>2. /\ r = 0 /\ k \in Nat /\ n \in Nat /\ j \in Nat /\ j >= 1
      /\ k + j <= ETH_TX_DESC_CNT /\ ETH_TX_DESC_CNT \in Nat
      /\ p \in Desc /\ descidx[c] = At(p) /\ CurTxDesc = At(p)
  <2>1. k \in Nat /\ n \in Nat /\ j \in Nat /\ ETH_TX_DESC_CNT \in Nat
    BY <1>t, TxAssumption DEF TxTypeOK
  <2>2. /\ r = 0 /\ k + r + j <= ETH_TX_DESC_CNT /\ j >= 1
        /\ descidx[c] = At(p) /\ CurTxDesc = At(p)
    BY <1>0, <1>1 DEF Placed
  <2>3. k + j <= ETH_TX_DESC_CNT /\ p \in Desc
    BY <2>1, <2>2, TxAssumption DEF Desc
  <2> QED
    BY <2>1, <2>2, <2>3
<1>3. Slots' = Slots /\ \A x : At(x)' = At(x)
  BY <1>0, SlotsKept
<1>4. CurTxDesc' = At(k + j)
  <2>1. p + 1 = k + j
    BY <1>2
  <2> HIDE DEF p
  <2> QED
    BY <1>t, <1>0, <1>2, <2>1, AtNext
<1>6. pc'[c] = "start" /\ dmatxdesc'[c] = CurTxDesc
  BY <1>t, <1>0 DEF TxTypeOK
<1>7. Placed(c, k, 0)'
  <2>2. Marked(c)' = j /\ Marked(c) = j
    BY <1>0, <1>6 DEF Marked
  <2>3. dmatxdesc'[c] = descidx'[c]
    BY <1>0, <1>2, <1>6
  <2> QED
    BY <1>0, <1>1, <1>2, <1>3, <1>4, <1>6, <2>2, <2>3 DEF Placed
<1>8. Position(k, 0)'
  <2>1. DMACTDTPR' = At(k)' /\ (dma' = "reading" => k > 0)
    BY <1>0, <1>3 DEF Position
  <2>2. "start" \in Preparing
    BY DEF Preparing
  <2> QED
    BY <1>0, <1>7, <2>1, <2>2, PositionAlone
<1>9. Built(c, k, 0, n)'
  BY <1>0, <1>1, <1>2, <1>3, <1>6 DEF Built
<1>11. /\ Steps(c, "start")
       /\ pc[c] \in Driving /\ 0 \in 0 .. ETH_TX_DESC_CNT
       /\ "start" \in Driving /\ "start" \notin {"sem", "config", "begin"}
  BY <1>t, <1>0, <1>2, <1>6, StepsAlone DEF Driving, Preparing
<1> QED
  BY <1>3, <1>8, <1>9, <1>11, DriverStep

(* The frame is the DMA's: its slots are added to those in front, and the  *)
(* last of them is the one that c waits for.                               *)
LEMMA StartInStep ==
  ASSUME NEW R, \A g \in Nat : <<g, g>> \notin R,
         NEW k \in 0 .. ETH_TX_DESC_CNT, NEW r \in 0 .. ETH_TX_DESC_CNT,
         NEW n \in 1 .. MaxChain, Position(k, r), Contents(k, r, R),
         NEW c \in Callers, Solo(c), Makes(c, k, r, n), Start(c), UNCHANGED handed
  PROVE  Ring(R)'
<1> DEFINE j == descnbr[c]
           f == frame[c]
<1>t. TxTypeOK /\ Listed(c)
  BY DEF Solo
<1>0. /\ pc[c] = "start"
      /\ pc' = [pc EXCEPT ![c] = "poll"]
      /\ DMACTDTPR' = CurTxDesc
      /\ dma' = IF dma = "suspended" THEN "running" ELSE dma
      /\ UNCHANGED <<TxDesc, CurTxDesc, dmaDesc, gather, wire,
                     frame, handed, abandoned, rest, descidx, dmatxdesc>>
  BY <1>t DEF Start, Goto, localVars
<1>1. Placed(c, k, r) /\ Built(c, k, r, n) /\ pc[c] \in Preparing
  BY <1>0 DEF Position, Makes, Preparing
<1>k. PICK K \in 0 .. ETH_TX_DESC_CNT : K = k + j
  <2>1. r = 0 /\ k + r + j <= ETH_TX_DESC_CNT
    BY <1>0, <1>1 DEF Placed
  <2>2. k \in Nat /\ j \in Nat
    BY <1>t, TxAssumption DEF TxTypeOK
  <2> QED
    BY <2>1, <2>2, TxAssumption
<1>2. /\ r = 0 /\ k \in Nat /\ n \in Nat /\ j \in Nat /\ j >= 1
      /\ K \in 0 .. ETH_TX_DESC_CNT /\ K \in Nat /\ k < K
      /\ ETH_TX_DESC_CNT \in Nat
      /\ CurTxDesc = At(K) /\ n \in 1 .. MaxChain /\ f \in 1 .. MaxFrame
      /\ MaxFrame \in Nat /\ MaxChain \in Nat
  <2>1. /\ k \in Nat /\ n \in Nat /\ j \in Nat /\ ETH_TX_DESC_CNT \in Nat
        /\ f \in 1 .. MaxFrame /\ MaxFrame \in Nat /\ MaxChain \in Nat
    BY <1>t, <1>0, TxAssumption DEF TxTypeOK, Listed
  <2>2. r = 0 /\ k + r + j <= ETH_TX_DESC_CNT /\ j >= 1 /\ CurTxDesc = At(K)
    BY <1>0, <1>1, <1>k DEF Placed
  <2> QED
    BY <1>k, <2>1, <2>2
<1>3. Slots' = Slots /\ \A x : At(x)' = At(x)
  BY <1>0, SlotsKept
<1>4. pc'[c] = "poll" /\ \A d \in Callers : d # c => pc[d] \notin Preparing /\ pc'[d] = pc[d]
  BY <1>0, OnlyOne
<1>f. \A i \in Desc : /\ First(i)' = First(i)
                      /\ Holds(i)' <=> Holds(i)
                      /\ Ends(i)' <=> Ends(i)
                      /\ Through(i)' = Through(i)
  BY <1>3 DEF First, Holds, Ends, Through
<1>5. Position(K, 0)'
  <2>1. \A d \in Callers : pc'[d] \notin Preparing
    BY <1>4 DEF Preparing
  <2>2. \A i \in Desc : Slots'[i].own <=> i < K
    <3>1. Marked(c) = j
      BY <1>0 DEF Marked
    <3>2. \A i \in Desc : Slots[i].own <=> i < k \/ (k + 0 <= i /\ i < k + 0 + j)
      BY <1>1, <1>2, <3>1 DEF Placed
    <3>3. \A i \in Desc : i < k \/ (k + 0 <= i /\ i < k + 0 + j) <=> i < K
      BY <1>k, <1>2 DEF Desc
    <3> QED
      BY <1>3, <3>2, <3>3
  <2>3. CurTxDesc' = At(K)' /\ DMACTDTPR' = At(K)' /\ K > 0
    BY <1>0, <1>2, <1>3
  <2> QED
    BY <2>1, <2>2, <2>3 DEF Position
<1>6. ASSUME NEW i \in Desc, k <= i, i < K
      PROVE  /\ First(i) = Buf(f, n, 2 * (i - k) + 1)
             /\ Holds(i)
             /\ Ends(i) <=> i + 1 = K
  <2> DEFINE x == i - k
             t == 2 * x + 1
  <2>1. /\ x \in Nat /\ k + x = i /\ x \in Desc /\ r <= x /\ x < r + j
        /\ x + 1 < j <=> i + 1 # K
        /\ x + 1 = j <=> i + 1 = K
    BY <1>k, <1>2, <1>6 DEF Desc
  <2>2. /\ t <= n
        /\ Slots[i].bufs = Piece(f, n, t)
        /\ Slots[i].FD => x = 0
        /\ x + 1 < j => ~ Slots[i].LD
    <3>1. /\ 2 * x + 1 <= n
          /\ Slots[k + x].bufs = Piece(frame[c], n, 2 * x + 1)
          /\ Slots[k + x].FD => x = 0
          /\ x + 1 < j => ~ Slots[k + x].LD
      <4> HIDE DEF x
      <4> QED
        BY <1>0, <1>1, <2>1 DEF Built
    <3> QED
      BY <2>1, <3>1
  <2>3. n <= 2 * j /\ Slots[k + j - 1].LD
    BY <1>0, <1>1 DEF Built
  <2>4. t \in 1 .. n
    BY <1>2, <2>1, <2>2
  <2>5. First(i) = Buf(f, n, t)
    BY <2>2, <2>4, PieceParts DEF First
  <2>6. First(i).frame = f /\ First(i).part = t /\ First(i).of = n
    BY <2>5 DEF Buf
  <2>7. First(i) \in Buffer
    BY <1>2, <2>4, <2>5 DEF Buf, Buffer
  <2>8. t + 1 >= n <=> x + 1 = j
    <3>1. CASE x + 1 < j
      <4>1. x + 1 \in Desc /\ r <= x + 1 /\ x + 1 < r + j
        <5>1. x + 1 < ETH_TX_DESC_CNT /\ x + 1 \in Nat
          BY <1>k, <1>2, <2>1, <3>1
        <5> HIDE DEF x
        <5>2. x + 1 \in Desc
          BY <1>2, <5>1 DEF Desc
        <5> QED
          BY <1>2, <2>1, <3>1, <5>2
      <4>2. 2 * (x + 1) + 1 <= n
        <5> HIDE DEF x
        <5> QED
          BY <1>1, <4>1 DEF Built
      <4> QED
        BY <1>2, <2>1, <3>1, <4>2
    <3>2. CASE x + 1 = j
      BY <1>2, <2>1, <2>3, <3>2
    <3> QED
      BY <1>2, <2>1, <3>1, <3>2
  <2>9. Ends(i) <=> i + 1 = K
    BY <2>1, <2>6, <2>8 DEF Ends
  <2>10. Slots[i].LD <=> i + 1 = K
    <3>1. i + 1 = K => i = k + j - 1
      BY <1>k, <1>2, <2>1
    <3> QED
      BY <2>1, <2>2, <2>3, <3>1
  <2>11. Slots[i].FD => t = 1
    BY <2>2
  <2>12. Holds(i)
    BY <2>2, <2>4, <2>6, <2>7, <2>9, <2>10, <2>11 DEF Holds
  <2> QED
    BY <2>5, <2>9, <2>12
<1>7. Earlier(c, k, R) /\ pc[c] \in Driving
  BY <1>0 DEF Contents, Numbered, Driving, Preparing
<1>8. \A i \in Desc : i < K => i < k \/ (k <= i /\ i < K)
  BY <1>2 DEF Desc
<1>9. \A i \in Desc : k <= i /\ i < K => First(i).frame = f
  BY <1>6 DEF Buf
<1> HIDE DEF f
<1>10. Committed(K, R)'
  <2> SUFFICES ASSUME NEW i \in Desc, i < K
               PROVE  /\ Holds(i)'
                      /\ ~ Ends(i)' =>
                           /\ i + 1 < K
                           /\ First(i + 1)' = Buf(First(i)'.frame, First(i)'.of, First(i)'.part + 2)
                      /\ \A m \in Desc : i < m /\ m < K /\ Ends(i)' =>
                           <<First(i)'.frame, First(m)'.frame>> \in R
    BY DEF Committed
  <2>0. i \in Nat /\ i + 1 \in Nat
    BY DEF Desc
  <2>s. i + 1 < K => i + 1 \in Desc
    BY <1>2, <2>0 DEF Desc
  <2>1. CASE i < k
    <3>1. /\ Holds(i)
          /\ ~ Ends(i) =>
               /\ i + 1 < k
               /\ First(i + 1) = Buf(First(i).frame, First(i).of, First(i).part + 2)
          /\ \A m \in Desc : i < m /\ m < k /\ Ends(i) =>
               <<First(i).frame, First(m).frame>> \in R
      BY <2>1 DEF Contents, Committed
    <3>2. <<First(i).frame, f>> \in R
      BY <1>7, <2>1 DEF Earlier, f
    <3>4. i + 1 < k => i + 1 < K
      BY <1>2, <2>0
    <3>5. \A m \in Desc : i < m /\ m < K /\ Ends(i) =>
               <<First(i).frame, First(m).frame>> \in R
      BY <1>8, <1>9, <3>1, <3>2
    <3> QED
      BY <1>f, <2>s, <3>1, <3>4, <3>5
  <2>2. CASE k <= i /\ i < K
    <3>1. /\ First(i) = Buf(f, n, 2 * (i - k) + 1)
          /\ Holds(i) /\ (Ends(i) <=> i + 1 = K)
      BY <1>6, <2>2
    <3>2. ~ Ends(i) =>
            /\ i + 1 < K
            /\ First(i + 1) = Buf(First(i).frame, First(i).of, First(i).part + 2)
      <4> SUFFICES ASSUME ~ Ends(i)
                   PROVE  /\ i + 1 < K
                          /\ First(i + 1) = Buf(First(i).frame, First(i).of, First(i).part + 2)
        OBVIOUS
      <4>1. i + 1 < K
        BY <1>2, <2>0, <2>2, <3>1
      <4>2. k <= i + 1
        BY <1>2, <2>0, <2>2
      <4>3. First(i + 1) = Buf(f, n, 2 * (i + 1 - k) + 1)
        <5>1. PICK m \in Desc : m = i + 1
          BY <2>s, <4>1
        <5>2. k <= m /\ m < K
          BY <4>1, <4>2, <5>1
        <5>3. First(m) = Buf(f, n, 2 * (m - k) + 1)
          BY <1>6, <5>2
        <5> QED
          BY <5>1, <5>3
      <4>4. 2 * (i + 1 - k) + 1 = 2 * (i - k) + 1 + 2
        BY <1>2, <2>0
      <4>5. First(i).frame = f /\ First(i).of = n /\ First(i).part = 2 * (i - k) + 1
        BY <3>1 DEF Buf
      <4> QED
        BY <4>1, <4>3, <4>4, <4>5
    <3>3. \A m \in Desc : i < m /\ m < K => ~ Ends(i)
      <4> SUFFICES ASSUME NEW m \in Desc, i < m, m < K PROVE ~ Ends(i)
        OBVIOUS
      <4>1. i + 1 # K
        BY <1>2, <2>0, <2>2 DEF Desc
      <4> QED
        BY <3>1, <4>1
    <3> QED
      BY <1>f, <2>s, <3>1, <3>2, <3>3
  <2> QED
    BY <1>8, <2>1, <2>2
<1>11. Gathered(K)'
  <2> SUFFICES ASSUME gather' # <<>>
               PROVE  /\ dma' \in {"suspended", "running"} =>
                           /\ K > 0 /\ First(0)'.part > 1
                           /\ gather' = Prefix(First(0)'.frame, First(0)'.of, First(0)'.part - 1)
                      /\ dma' = "reading" =>
                           gather' = Prefix(First(0)'.frame, First(0)'.of, Through(0)')
    BY DEF Gathered
  <2>0. 0 \in Desc /\ K > 0
    BY <1>2, TxAssumption DEF Desc
  <2>1. Gathered(k) /\ gather # <<>>
    BY <1>0 DEF Contents
  <2> QED
    BY <1>0, <1>f, <2>0, <2>1 DEF Gathered
<1>12. Sent(K, R)'
  <2>1. /\ \A x \in DOMAIN wire : IsWhole(wire[x])
        /\ \A x, y \in DOMAIN wire : x < y => <<wire[x][1].frame, wire[y][1].frame>> \in R
    BY DEF Contents, Sent
  <2>2. ASSUME NEW x \in DOMAIN wire, NEW i \in Desc, i < K
        PROVE  <<wire[x][1].frame, First(i).frame>> \in R
    <3>1. CASE i < k
      BY <2>2, <3>1 DEF Contents, Sent
    <3>2. CASE k <= i
      BY <1>7, <1>9, <2>2, <3>2 DEF Earlier, f
    <3> QED
      BY <1>8, <2>2, <3>1, <3>2
  <2> QED
    BY <1>0, <1>f, <2>1, <2>2 DEF Sent
<1>13. Numbered(K, R)'
  <2>1. \A i \in Desc : i < K => First(i).frame <= handed
    <3>1. \A i \in Desc : i < k => First(i).frame <= handed
      BY DEF Contents, Numbered
    <3>2. f <= handed
      BY DEF Contents, Numbered, f
    <3> QED
      BY <1>8, <1>9, <3>1, <3>2
  <2>2. ASSUME NEW d \in Callers, pc'[d] \in Driving PROVE Earlier(d, K, R)'
    <3>1. d # c /\ pc[d] \in Driving
      BY <1>4, <2>2 DEF Driving, Preparing
    <3>2. Earlier(d, k, R)
      BY <3>1 DEF Contents, Numbered
    <3>3. <<f, frame[d]>> \in R
      BY <1>7, <3>1, <3>2 DEF Earlier, f
    <3>4. \A i \in Desc : i < K => <<First(i).frame, frame[d]>> \in R
      BY <1>8, <1>9, <3>2, <3>3 DEF Earlier
    <3>5. \A e \in Callers : pc'[e] \in Driving \cup {"poll"} => pc[e] \in Driving \cup {"poll"}
      BY <1>4, <1>7
    <3> QED
      BY <1>0, <1>f, <3>2, <3>4, <3>5 DEF Earlier
  <2>3. /\ \A x \in DOMAIN wire : wire[x][1].frame <= handed
        /\ \A d \in Callers : frame[d] <= handed
    BY DEF Contents, Numbered
  <2> QED
    BY <1>0, <1>f, <2>1, <2>2, <2>3 DEF Numbered
<1>14. Live(K)'
  <2>1. ASSUME NEW i \in Desc, i < K
        PROVE  \/ First(i).frame \in abandoned
               \/ \E d \in Callers : pc'[d] = "poll" /\ First(i).frame = frame[d]
    <3>1. CASE i < k
      <4>1. \A d \in Callers : pc[d] = "poll" => pc'[d] = "poll"
        BY <1>0, <1>4
      <4> QED
        BY <3>1, <4>1 DEF Contents, Live
    <3>2. CASE k <= i
      BY <1>4, <1>9, <2>1, <3>2 DEF f
    <3> QED
      BY <1>8, <2>1, <3>1, <3>2
  <2> QED
    BY <1>0, <1>f, <2>1 DEF Live
<1>17. Awaited(K)'
  <2> SUFFICES ASSUME NEW d \in Callers, NEW i \in Desc,
                      pc'[d] = "poll", i < K, First(i).frame = frame[d]
               PROVE  \E m \in Desc : i <= m /\ m < K /\ At(m) = dmatxdesc[d]
    BY <1>0, <1>3, <1>f DEF Awaited
  <2>1. CASE d = c
    <3>1. dmatxdesc[c] = At(k + j - 1)
      BY <1>0, <1>1 DEF Placed
    <3>2. k + j - 1 \in Desc /\ i <= k + j - 1 /\ k + j - 1 < K
      BY <1>k, <1>2 DEF Desc
    <3> QED
      BY <2>1, <3>1, <3>2
  <2>2. CASE d # c
    <3>1. pc[d] = "poll"
      BY <1>4, <2>2
    <3>2. CASE i < k
      <4>1. PICK m \in Desc : i <= m /\ m < k /\ At(m) = dmatxdesc[d]
        BY <3>1, <3>2 DEF Contents, Awaited
      <4>2. m < K
        BY <1>2, <4>1 DEF Desc
      <4> QED
        BY <4>1, <4>2
    <3>3. CASE k <= i
      <4>1. frame[d] = f
        BY <1>9, <3>3
      <4>2. <<frame[d], f>> \in R
        BY <1>7, <2>2, <3>1 DEF Earlier, f
      <4>3. f \in Nat
        BY <1>2
      <4> QED
        BY <4>1, <4>2, <4>3
    <3> QED
      BY <1>8, <3>2, <3>3
  <2> QED
    BY <2>1, <2>2
<1>15. Chained(K, 0)'
  <2>1. Makes(c, K, 0, n)'
    BY <1>4 DEF Makes, Preparing
  <2>2. Chained(k, r)
    BY DEF Contents
  <2>3. \A d \in Callers : d # c => rest'[d] = rest[d] /\ frame'[d] = frame[d]
    BY <1>0
  <2> QED
    BY <1>0, <2>1, <2>2, <2>3, ChainedAlone
<1>16. 0 \in 0 .. ETH_TX_DESC_CNT
  BY <1>2
<1> QED
  BY <1>2, <1>5, <1>10, <1>11, <1>12, <1>13, <1>14, <1>15, <1>16, <1>17
  DEF Ring, Contents

(* HAL_ETH_Transmit stops waiting, or low_level_output returns.            *)
LEMMA LeavingInStep ==
  ASSUME NEW R, NEW k \in 0 .. ETH_TX_DESC_CNT, NEW r \in 0 .. ETH_TX_DESC_CNT,
         Position(k, r), Contents(k, r, R), NEW c \in Callers, Solo(c),
         NEW to \in {"done", "out"}, pc[c] \in {"sem", "poll", "done"},
         pc' = [pc EXCEPT ![c] = to],
         UNCHANGED <<TxDesc, CurTxDesc, DMACTDTPR, dma, dmaDesc, gather, wire, handed>>,
         \A d \in Callers : d # c => /\ rest'[d] = rest[d] /\ frame'[d] = frame[d]
                                     /\ dmatxdesc'[d] = dmatxdesc[d],
         frame'[c] <= handed,
         \A i \in Desc : i < k =>
           \/ First(i).frame \in abandoned'
           \/ \E d \in Callers : d # c /\ pc[d] = "poll" /\ First(i).frame = frame[d]
  PROVE  Ring(R)'
<1>1. Position(k, r)'
  BY AtRest DEF Preparing
<1>2. Slots' = Slots /\ \A p : At(p)' = At(p)
  BY SlotsKept
<1>3. /\ Committed(k, R)' /\ Gathered(k)' /\ Sent(k, R)'
      /\ \A i \in Desc : i < k => First(i)' = First(i)
  <2>1. dma = "reading" => k > 0
    BY DEF Position
  <2> QED
    BY <1>2, <2>1, RegionKept DEF Contents
<1>4. pc'[c] = to /\ \A d \in Callers : d # c => pc'[d] = pc[d]
  BY OnlyOne
<1>5. Numbered(k, R)'
  <2>1. ASSUME NEW d \in Callers, pc'[d] \in Driving PROVE Earlier(d, k, R)'
    <3>1. d # c
      BY <1>4, <2>1 DEF Driving, Preparing
    <3>2. Earlier(d, k, R) /\ frame'[d] = frame[d]
      BY <1>4, <2>1, <3>1 DEF Contents, Numbered
    <3>3. \A e \in Callers : pc'[e] \in Driving \cup {"poll"} =>
            pc[e] \in Driving \cup {"poll"} /\ frame'[e] = frame[e]
      BY <1>4 DEF Driving, Preparing
    <3> QED
      BY <1>3, <3>2, <3>3 DEF Earlier
  <2>2. \A d \in Callers : frame'[d] <= handed'
    BY DEF Contents, Numbered
  <2> QED
    BY <1>3, <2>1, <2>2 DEF Contents, Numbered
<1>6. Live(k)'
  BY <1>3, <1>4 DEF Live
<1>8. Awaited(k)'
  <2> SUFFICES ASSUME NEW d \in Callers, NEW i \in Desc,
                      pc'[d] = "poll", i < k, First(i)'.frame = frame'[d]
               PROVE  \E j \in Desc : i <= j /\ j < k /\ At(j)' = dmatxdesc'[d]
    BY DEF Awaited
  <2>1. d # c /\ pc[d] = "poll" /\ First(i).frame = frame[d] /\ dmatxdesc'[d] = dmatxdesc[d]
    BY <1>3, <1>4
  <2>2. \E j \in Desc : i <= j /\ j < k /\ At(j) = dmatxdesc[d]
    BY <2>1 DEF Contents, Awaited
  <2> QED
    BY <1>2, <2>1, <2>2
<1>7. Chained(k, r)'
  <2>1. Makes(c, k, r, 1)' /\ 1 \in 1 .. MaxChain
    BY <1>4, TxAssumption DEF Makes, Preparing
  <2>2. Chained(k, r)
    BY DEF Contents
  <2> QED
    BY <2>1, <2>2, ChainedAlone
<1> QED
  BY <1>1, <1>3, <1>5, <1>6, <1>7, <1>8 DEF Ring, Contents

(* When the descriptor that c waits for has come back, none of its frame   *)
(* is left in front of it.                                                 *)
LEMMA NothingLeft ==
  ASSUME NEW R, NEW k \in 0 .. ETH_TX_DESC_CNT, NEW r \in 0 .. ETH_TX_DESC_CNT,
         Position(k, r), Contents(k, r, R), NEW c \in Callers, Solo(c),
         pc[c] = "poll", ~ TxDesc[dmatxdesc[c]].own
  PROVE  \A i \in Desc : i < k => First(i).frame # frame[c]
<1> SUFFICES ASSUME NEW i \in Desc, i < k, First(i).frame = frame[c] PROVE FALSE
  OBVIOUS
<1>1. \A d \in Callers : pc[d] \notin Preparing
  BY DEF Solo, Aside, Preparing
<1>2. \A m \in Desc : Slots[m].own <=> m < k
  BY <1>1 DEF Position
<1>3. PICK m \in Desc : m < k /\ At(m) = dmatxdesc[c]
  BY DEF Contents, Awaited
<1> QED
  BY <1>2, <1>3 DEF Slots

(* HAL_ETH_Transmit has got its last descriptor back, or gives up.         *)
LEMMA PollInStep ==
  ASSUME NEW R, NEW k \in 0 .. ETH_TX_DESC_CNT, NEW r \in 0 .. ETH_TX_DESC_CNT,
         Position(k, r), Contents(k, r, R), NEW c \in Callers, Solo(c),
         Poll(c), UNCHANGED handed
  PROVE  Ring(R)'
<1>1. /\ pc[c] = "poll" /\ pc' = [pc EXCEPT ![c] = "done"]
      /\ UNCHANGED <<TxDesc, CurTxDesc, DMACTDTPR, dma, dmaDesc, gather, wire, handed,
                     frame, rest, dmatxdesc>>
  BY DEF Poll, PollDone, PollFault, PollTimeout, Abandon, Goto, quietVars, dmaVars,
         localVars
<1>2. ASSUME NEW i \in Desc, i < k
      PROVE  \/ First(i).frame \in abandoned'
             \/ \E d \in Callers : d # c /\ pc[d] = "poll" /\ First(i).frame = frame[d]
  <2>1. \/ First(i).frame \in abandoned
        \/ \E d \in Callers : pc[d] = "poll" /\ First(i).frame = frame[d]
    BY <1>2 DEF Contents, Live
  <2>2. CASE PollDone(c)
    <3>1. First(i).frame # frame[c]
      BY <1>1, <1>2, <2>2, NothingLeft DEF PollDone
    <3>2. abandoned' = abandoned
      BY <2>2 DEF PollDone, quietVars
    <3> QED
      BY <2>1, <3>1, <3>2
  <2>3. CASE PollFault(c) \/ PollTimeout(c)
    <3>1. abandoned' = abandoned \cup {frame[c]}
      BY <2>3 DEF PollFault, PollTimeout, Abandon
    <3> QED
      BY <2>1, <3>1
  <2> QED
    BY <2>2, <2>3 DEF Poll
<1>3. frame'[c] <= handed
  BY <1>1 DEF Contents, Numbered
<1> QED
  BY <1>1, <1>2, <1>3, LeavingInStep

(* low_level_output returns, and the pbufs are freed.                      *)
LEMMA ReturnInStep ==
  ASSUME NEW R, NEW k \in 0 .. ETH_TX_DESC_CNT, NEW r \in 0 .. ETH_TX_DESC_CNT,
         Position(k, r), Contents(k, r, R), NEW c \in Callers, Solo(c),
         NEW from \in {"sem", "done"}, Return(c, from), UNCHANGED handed
  PROVE  Ring(R)'
<1>1. /\ pc[c] \in {"sem", "done"} /\ pc' = [pc EXCEPT ![c] = "out"]
      /\ UNCHANGED <<TxDesc, CurTxDesc, DMACTDTPR, dma, dmaDesc, gather, wire,
                     handed, abandoned>>
  BY DEF Return, Goto, headVars, dmaVars
<1>2. /\ frame'[c] = 0
      /\ \A d \in Callers : d # c => /\ rest'[d] = rest[d] /\ frame'[d] = frame[d]
                                     /\ dmatxdesc'[d] = dmatxdesc[d]
  BY DEF Return, Solo, TxTypeOK
<1>3. frame'[c] <= handed
  BY <1>2, TxAssumption DEF Solo, TxTypeOK
<1>4. \A i \in Desc : i < k =>
        \/ First(i).frame \in abandoned'
        \/ \E d \in Callers : d # c /\ pc[d] = "poll" /\ First(i).frame = frame[d]
  BY <1>1 DEF Contents, Live
<1> QED
  BY <1>1, <1>2, <1>3, <1>4, LeavingInStep

(* The frames on the wire and in the ring have numbers.                     *)
LEMMA FrameNumbers ==
  ASSUME NEW R, NEW k, TxTypeOK, Sent(k, R), Committed(k, R)
  PROVE  /\ \A x \in DOMAIN wire : wire[x][1].frame \in Int
         /\ \A i \in Desc : i < k => First(i).frame \in Int
<1>1. ASSUME NEW x \in DOMAIN wire PROVE wire[x][1].frame \in Int
  <2>1. wire \in Seq(Seq(Buffer)) /\ IsWhole(wire[x])
    BY DEF Sent, TxTypeOK
  <2>2. wire[x] \in Seq(Buffer) /\ wire[x] # <<>>
    BY <2>1 DEF IsWhole
  <2>3. wire[x][1] \in Buffer
    BY <2>2, EmptySeq, LenProperties
  <2> QED
    BY <2>3, TxAssumption DEF Buffer
<1>2. \A i \in Desc : i < k => First(i).frame \in Int
  BY TxAssumption DEF Committed, Holds, Buffer
<1> QED
  BY <1>1, <1>2

(* A frame is handed over: its number is higher than those before.         *)
LEMMA CallInStep ==
  ASSUME NEW R, \A f, g \in Int : f < g => <<f, g>> \in R,
         NEW k \in 0 .. ETH_TX_DESC_CNT, NEW r \in 0 .. ETH_TX_DESC_CNT,
         Position(k, r), Contents(k, r, R), NEW c \in Callers, Solo(c),
         \A d \in Callers : d # c /\ pc[d] \in Driving => <<handed + 1, frame[d]>> \in R,
         NEW m \in 1 .. MaxChain, NEW to \in {"sem", "config"},
         Call(c, handed + 1, m, to), handed' = handed + 1
  PROVE  Ring(R)'
<1>2. /\ pc[c] = "out"
      /\ pc' = [pc EXCEPT ![c] = to]
      /\ handed' = handed + 1
      /\ UNCHANGED <<TxDesc, CurTxDesc, DMACTDTPR, dma, dmaDesc, gather, wire,
                     abandoned, dmatxdesc>>
  BY DEF Call, Goto, headVars, dmaVars
<1>3. /\ frame'[c] = handed' /\ rest'[c] = Chain(frame'[c], m)
      /\ handed \in Nat
      /\ \A d \in Callers : d # c => rest'[d] = rest[d] /\ frame'[d] = frame[d]
      /\ \A d \in Callers : frame[d] \in Int
  BY <1>2, TxAssumption DEF Call, Solo, TxTypeOK
<1>4. /\ pc'[c] = to
      /\ \A d \in Callers : d # c => pc'[d] = pc[d]
  BY <1>2, OnlyOne
<1>5. Position(k, r)'
  BY <1>2, AtRest DEF Preparing
<1>6. Slots' = Slots /\ \A p : At(p)' = At(p)
  BY <1>2, SlotsKept
<1>7. /\ Committed(k, R)' /\ Gathered(k)' /\ Sent(k, R)'
      /\ \A i \in Desc : i < k => First(i)' = First(i)
  <2>1. dma = "reading" => k > 0
    BY DEF Position
  <2> QED
    BY <1>2, <1>6, <2>1, RegionKept DEF Contents
<1>8. Numbered(k, R)'
  <2>1. /\ \A x \in DOMAIN wire : wire[x][1].frame <= handed
        /\ \A i \in Desc : i < k => First(i).frame <= handed
        /\ \A d \in Callers : frame[d] <= handed
    BY DEF Contents, Numbered
  <2>2. /\ \A x \in DOMAIN wire : wire[x][1].frame \in Int
        /\ \A i \in Desc : i < k => First(i).frame \in Int
    BY FrameNumbers DEF Contents, Solo
  <2>l. \A z \in Int : z <= handed => /\ z <= handed + 1
                                      /\ <<z, handed + 1>> \in R
    <3>1. \A z \in Int : z <= handed => z < handed + 1 /\ z <= handed + 1 /\ handed + 1 \in Int
      BY <1>3
    <3> QED
      BY <3>1
  <2>4. Earlier(c, k, R)'
    <3>1. \A x \in DOMAIN wire' : <<wire'[x][1].frame, frame'[c]>> \in R
      BY <1>2, <1>3, <2>1, <2>2, <2>l
    <3>2. \A i \in Desc : i < k => <<First(i)'.frame, frame'[c]>> \in R
      BY <1>2, <1>3, <1>7, <2>1, <2>2, <2>l
    <3>3. \A d \in Callers : d # c => <<frame'[d], frame'[c]>> \in R
      BY <1>2, <1>3, <2>1, <2>l
    <3> QED
      BY <3>1, <3>2, <3>3 DEF Earlier
  <2>5. /\ \A x \in DOMAIN wire' : wire'[x][1].frame <= handed'
        /\ \A i \in Desc : i < k => First(i)'.frame <= handed'
    BY <1>2, <1>7, <2>1, <2>2, <2>l
  <2>6. \A d \in Callers : frame'[d] <= handed'
    <3>1. frame'[c] <= handed'
      BY <1>2, <1>3
    <3> QED
      BY <1>2, <1>3, <2>1, <2>l, <3>1
  <2>7. ASSUME NEW d \in Callers, d # c, pc'[d] \in Driving PROVE Earlier(d, k, R)'
    <3>1. pc[d] \in Driving /\ frame'[d] = frame[d]
      BY <1>3, <1>4, <2>7
    <3>2. Earlier(d, k, R) /\ <<handed + 1, frame[d]>> \in R
      BY <2>7, <3>1 DEF Contents, Numbered
    <3>3. ASSUME NEW e \in Callers, e # d, pc'[e] \in Driving \cup {"poll"}
          PROVE  <<frame'[e], frame'[d]>> \in R
      <4>1. CASE e = c
        BY <1>2, <1>3, <3>1, <3>2, <4>1
      <4>2. CASE e # c
        BY <1>3, <1>4, <3>1, <3>2, <3>3, <4>2 DEF Earlier
      <4> QED
        BY <4>1, <4>2
    <3> QED
      BY <1>2, <1>7, <3>1, <3>2, <3>3 DEF Earlier
  <2> QED
    BY <2>4, <2>5, <2>6, <2>7 DEF Numbered
<1>9. Live(k)'
  <2>1. \A d \in Callers : pc[d] = "poll" => pc'[d] = "poll" /\ frame'[d] = frame[d]
    BY <1>2, <1>3, <1>4
  <2> QED
    BY <1>2, <1>7, <2>1 DEF Contents, Live
<1>11. Awaited(k)'
  <2> SUFFICES ASSUME NEW d \in Callers, NEW i \in Desc,
                      pc'[d] = "poll", i < k, First(i)'.frame = frame'[d]
               PROVE  \E j \in Desc : i <= j /\ j < k /\ At(j)' = dmatxdesc'[d]
    BY DEF Awaited
  <2>1. pc[d] = "poll" /\ First(i).frame = frame[d]
    BY <1>3, <1>4, <1>7
  <2>2. \E j \in Desc : i <= j /\ j < k /\ At(j) = dmatxdesc[d]
    BY <2>1 DEF Contents, Awaited
  <2> QED
    BY <1>2, <1>6, <2>2
<1>10. Chained(k, r)'
  <2>1. Makes(c, k, r, m)'
    BY <1>3, <1>4 DEF Makes, Preparing
  <2>2. Chained(k, r)
    BY DEF Contents
  <2> QED
    BY <1>2, <1>3, <2>1, <2>2, ChainedAlone
<1> QED
  BY <1>5, <1>7, <1>8, <1>9, <1>10, <1>11 DEF Ring, Contents

-----------------------------------------------------------------------------
(* The DMA and the error interrupt.                                        *)

(* A step that moves neither the DMA nor a descriptor, nor a caller; a     *)
(* number may be taken for a frame that is not sent.                       *)
LEMMA HardwareRests ==
  ASSUME TxTypeOK, NEW R, NEW k \in 0 .. ETH_TX_DESC_CNT, NEW r \in 0 .. ETH_TX_DESC_CNT,
         Position(k, r), Contents(k, r, R),
         UNCHANGED <<TxDesc, dmaDesc, CurTxDesc, DMACTDTPR, wire, TxConfig, frame,
                     abandoned, pc, localVars>>,
         handed' \in {handed, handed + 1},
         dma' = "reading" => k > 0, Gathered(k)'
  PROVE  Ring(R)'
<1>1. /\ Slots' = Slots /\ \A p : At(p)' = At(p)
      /\ UNCHANGED <<rest, descidx, firstdescidx, descnbr, dmatxdesc>>
  BY SlotsKept DEF localVars
<1>2. \A i \in Desc : /\ First(i)' = First(i)
                      /\ Holds(i)' <=> Holds(i)
                      /\ Ends(i)' <=> Ends(i)
  BY <1>1 DEF First, Holds, Ends
<1>3. Position(k, r)'
  <2>1. \A c \in Callers : Placed(c, k, r) => Placed(c, k, r)'
    BY <1>1 DEF Placed, Marked
  <2> QED
    BY <1>1, <2>1 DEF Position
<1>4. Committed(k, R)'
  <2> SUFFICES ASSUME NEW i \in Desc, i < k
               PROVE  /\ Holds(i)'
                      /\ ~ Ends(i)' =>
                           /\ i + 1 < k
                           /\ First(i + 1)' = Buf(First(i)'.frame, First(i)'.of, First(i)'.part + 2)
                      /\ \A j \in Desc : i < j /\ j < k /\ Ends(i)' =>
                           <<First(i)'.frame, First(j)'.frame>> \in R
    BY DEF Committed
  <2>1. First(i + 1)' = First(i + 1)
    BY <1>1 DEF First
  <2> QED
    BY <1>2, <2>1 DEF Contents, Committed
<1>5. Sent(k, R)' /\ Numbered(k, R)' /\ Live(k)' /\ Awaited(k)'
  <2>2. Sent(k, R)'
    <3>1. /\ \A x \in DOMAIN wire' : IsWhole(wire'[x])
          /\ \A x, y \in DOMAIN wire' : x < y =>
               <<wire'[x][1].frame, wire'[y][1].frame>> \in R
      BY DEF Contents, Sent
    <3> QED
      BY <1>2, <3>1 DEF Contents, Sent
  <2>3. \A c \in Callers : Earlier(c, k, R) => Earlier(c, k, R)'
    BY <1>2 DEF Earlier
  <2>7. /\ \A x \in DOMAIN wire : wire[x][1].frame \in Int
        /\ \A i \in Desc : i < k => First(i).frame \in Int
    BY FrameNumbers DEF Contents
  <2>10. \A c \in Callers : frame[c] \in Int
    BY TxAssumption DEF TxTypeOK
  <2>8. \A z \in Int : z <= handed => z <= handed'
    BY DEF TxTypeOK
  <2>9. /\ \A x \in DOMAIN wire : wire[x][1].frame <= handed'
        /\ \A i \in Desc : i < k => First(i).frame <= handed'
        /\ \A c \in Callers : frame[c] <= handed'
    BY <2>7, <2>8, <2>10 DEF Contents, Numbered
  <2>4. Numbered(k, R)'
    BY <1>2, <2>3, <2>9 DEF Contents, Numbered
  <2>5. Live(k)'
    BY <1>2 DEF Contents, Live
  <2>6. Awaited(k)'
    BY <1>1, <1>2 DEF Contents, Awaited
  <2> QED
    BY <2>2, <2>4, <2>5, <2>6
<1>6. Chained(k, r)'
  <2>1. \A c \in Callers : \A n \in 1 .. MaxChain : Makes(c, k, r, n) => Makes(c, k, r, n)'
    BY <1>1 DEF Makes, Built
  <2> QED
    BY <2>1 DEF Contents, Chained
<1> QED
  BY <1>3, <1>4, <1>5, <1>6 DEF Ring, Contents

(* The DMA finds that the descriptor it is at is its own. *)
LEMMA FetchInStep ==
  ASSUME TxTypeOK, NEW R, NEW k \in 0 .. ETH_TX_DESC_CNT, NEW r \in 0 .. ETH_TX_DESC_CNT,
         Position(k, r), Contents(k, r, R),
         DmaFetch, UNCHANGED TxDesc,
         UNCHANGED <<headVars, irqEnabled, TxConfig, frame, abandoned, pc, localVars,
                     handed>>
  PROVE  Ring(R)'
<1>1. TxTypeOK /\ k \in Nat /\ ETH_TX_DESC_CNT \in Nat /\ ETH_TX_DESC_CNT > 0
  BY TxAssumption
<1>2. /\ dma = "running" /\ dma' = "reading" /\ Slots[0].own /\ 0 \in Desc
      /\ dmaDesc # At(k)
      /\ UNCHANGED <<TxDesc, dmaDesc, CurTxDesc, DMACTDTPR, wire, TxConfig, frame,
                     handed, abandoned, pc, localVars>>
  BY <1>1, AtEnds DEF DmaFetch, Position, Slots, headVars
<1>3. k > 0
  <2> SUFFICES ASSUME k = 0 PROVE FALSE
    BY <1>1
  <2> QED
    BY <1>1, <1>2, AtEnds
<1>4. /\ Slots[0] = TxDesc[dmaDesc]
      /\ Holds(0) /\ First(0) \in Buffer /\ First(0).part <= First(0).of
      /\ Slots[0].bufs = Piece(First(0).frame, First(0).of, First(0).part)
      /\ Slots[0].FD => First(0).part = 1
  <2>1. Slots[0] = TxDesc[dmaDesc]
    BY <1>1, <1>2, AtEnds DEF Slots
  <2>2. Holds(0)
    BY <1>2, <1>3 DEF Contents, Committed
  <2> QED
    BY <2>1, <2>2 DEF Holds
<1> DEFINE f == First(0).frame
           m == First(0).of
           t == First(0).part
           th == IF t < m THEN t + 1 ELSE t
<1>5. f \in 1 .. MaxFrame /\ m \in 1 .. MaxChain /\ t \in 1 .. m
  <2>1. First(0).frame \in 1 .. MaxFrame /\ First(0).of \in 1 .. MaxChain
        /\ First(0).part \in 1 .. MaxChain
    BY <1>4 DEF Buffer
  <2> QED
    BY <1>4, <2>1, TxAssumption
<1>6. gather' # <<>> => gather' = Prefix(f, m, th)
  <2> SUFFICES ASSUME gather' # <<>> PROVE gather' = Prefix(f, m, th)
    OBVIOUS
  <2>1. CASE TxDesc[dmaDesc].FD
    <3>1. gather' = Piece(f, m, t) /\ t = 1
      BY <1>4, <2>1 DEF DmaFetch
    <3> HIDE DEF f, m, t
    <3> QED
      BY <1>5, <3>1, PrefixGrows
  <2>2. CASE ~ TxDesc[dmaDesc].FD
    <3>1. gather # <<>> /\ gather' = gather \o Piece(f, m, t)
      BY <1>4, <2>2 DEF DmaFetch
    <3>2. gather = Prefix(f, m, t - 1)
      BY <1>2, <3>1 DEF Contents, Gathered
    <3> HIDE DEF f, m, t
    <3> QED
      BY <1>5, <3>1, <3>2, PrefixGrows
  <2> QED
    BY <2>1, <2>2
<1>7. Gathered(k)'
  <2>1. First(0)' = First(0) /\ Through(0)' = Through(0) /\ Through(0) = th
    <3>1. Slots' = Slots
      BY <1>2, SlotsKept
    <3> QED
      BY <3>1 DEF First, Through
  <2> QED
    BY <1>2, <1>6, <2>1 DEF Gathered
<1> QED
  BY <1>2, <1>3, <1>7, HardwareRests

(* The DMA suspends or meets a fault, or the interrupt reports it. *)
LEMMA QuietHardwareInStep ==
  ASSUME TxTypeOK, NEW R, NEW k \in 0 .. ETH_TX_DESC_CNT, NEW r \in 0 .. ETH_TX_DESC_CNT,
         Position(k, r), Contents(k, r, R),
         UNCHANGED handed,
         \/ TxDma /\ (DmaSuspend \/ DmaFault) /\ UNCHANGED TxDesc
         \/ FaultIrq
  PROVE  Ring(R)'
<1>1. /\ UNCHANGED <<TxDesc, dmaDesc, gather, CurTxDesc, DMACTDTPR, wire, TxConfig,
                     frame, handed, abandoned, pc, localVars>>
      /\ \/ dma' = dma
         \/ dma \in {"suspended", "running"} /\ dma' \in {"suspended", "running"}
         \/ dma' = "stopped"
  <2>1. CASE FaultIrq
    BY <2>1 DEF FaultIrq, dmaVars
  <2>2. CASE TxDma /\ DmaSuspend /\ UNCHANGED TxDesc
    BY <2>2 DEF TxDma, DmaSuspend, headVars
  <2>3. CASE TxDma /\ DmaFault /\ UNCHANGED TxDesc
    BY <2>3 DEF TxDma, DmaFault, headVars
  <2> QED
    BY <2>1, <2>2, <2>3
<1>2. dma = "reading" => k > 0
  BY DEF Position
<1>3. dma' = "reading" => k > 0
  BY <1>1, <1>2
<1>4. Gathered(k)'
  <2>1. Slots' = Slots
    BY <1>1, SlotsKept
  <2> QED
    BY <1>1, <1>2, <2>1, RegionKept DEF Contents
<1> QED
  BY <1>1, <1>3, <1>4, HardwareRests

(* A descriptor is closed: every slot comes nearer by one.                 *)
LEMMA ClosePosition ==
  ASSUME TxTypeOK, NEW k \in 0 .. ETH_TX_DESC_CNT, NEW r \in 0 .. ETH_TX_DESC_CNT,
         NEW K \in Nat, k = K + 1, Position(k, r), DmaClose,
         UNCHANGED <<CurTxDesc, DMACTDTPR, pc, localVars>>
  PROVE  Position(K, r)'
<1>1. TxTypeOK /\ k \in Nat /\ r \in Nat /\ ETH_TX_DESC_CNT \in Nat /\ ETH_TX_DESC_CNT > 0
  BY TxAssumption
<1>2. /\ dma' = "running" /\ dmaDesc' = INCR_TX_DESC_INDEX(dmaDesc, 1)
      /\ TxDesc' = [TxDesc EXCEPT ![dmaDesc].own = FALSE]
      /\ UNCHANGED <<rest, descidx, firstdescidx, descnbr, dmatxdesc>>
  BY DEF DmaClose, localVars
<1>3. /\ \A i \in Desc : i + 1 \in Desc => Slots'[i] = Slots[i + 1]
      /\ ~ Slots'[ETH_TX_DESC_CNT - 1].own
  BY <1>1, <1>2, SlotsShifted
<1>4. \A p \in Nat : p + 1 <= ETH_TX_DESC_CNT => At(p)' = At(p + 1)
  <2> SUFFICES ASSUME NEW p \in Nat, p + 1 <= ETH_TX_DESC_CNT
               PROVE  At(p)' = At(p + 1)
    OBVIOUS
  <2>1. p \in 0 .. ETH_TX_DESC_CNT - 1
    BY <1>1
  <2> QED
    BY <1>1, <1>2, <2>1, AtShift
<1>5. At(K)' = At(k)
  BY <1>1, <1>4
<1>6. ASSUME NEW a \in Nat, NEW b \in Nat, b <= ETH_TX_DESC_CNT, k <= a,
             \A i \in Desc : Slots[i].own <=> i < k \/ (a <= i /\ i < b)
      PROVE  \A i \in Desc : Slots'[i].own <=> i < K \/ (a - 1 <= i /\ i < b - 1)
  <2> SUFFICES ASSUME NEW i \in Desc
               PROVE  Slots'[i].own <=> i < K \/ (a - 1 <= i /\ i < b - 1)
    OBVIOUS
  <2>0. i \in Nat /\ i < ETH_TX_DESC_CNT
    BY <1>1 DEF Desc
  <2>1. CASE i + 1 < ETH_TX_DESC_CNT
    <3>1. PICK j \in Desc : j = i + 1
      BY <1>1, <2>0, <2>1 DEF Desc
    <3>2. Slots'[i] = Slots[j]
      BY <1>3, <3>1
    <3>3. Slots[j].own <=> j < k \/ (a <= j /\ j < b)
      BY <1>6
    <3>4. (j < k <=> i < K) /\ (a <= j <=> a - 1 <= i) /\ (j < b <=> i < b - 1)
      BY <1>1, <1>6, <2>0, <3>1
    <3> QED
      BY <3>2, <3>3, <3>4
  <2>2. CASE ~ (i + 1 < ETH_TX_DESC_CNT)
    <3>1. i = ETH_TX_DESC_CNT - 1
      BY <1>1, <2>0, <2>2
    <3>2. ~ (i < K) /\ ~ (i < b - 1)
      BY <1>1, <1>6, <3>1
    <3> QED
      BY <1>3, <3>1, <3>2
  <2> QED
    BY <2>1, <2>2
<1>7. (\A c \in Callers : pc[c] \notin Preparing) =>
        CurTxDesc' = At(K)' /\ \A i \in Desc : Slots'[i].own <=> i < K
  <2> SUFFICES ASSUME \A c \in Callers : pc[c] \notin Preparing
               PROVE  CurTxDesc' = At(K)' /\ \A i \in Desc : Slots'[i].own <=> i < K
    OBVIOUS
  <2>1. CurTxDesc = At(k) /\ \A i \in Desc : Slots[i].own <=> i < k
    BY DEF Position
  <2>2. \A i \in Desc : Slots[i].own <=> i < k \/ (k <= i /\ i < k)
    BY <1>1, <2>1 DEF Desc
  <2>3. \A i \in Desc : Slots'[i].own <=> i < K \/ (k - 1 <= i /\ i < k - 1)
    BY <1>1, <1>6, <2>2
  <2>4. \A i \in Desc : ~ (k - 1 <= i /\ i < k - 1)
    BY <1>1 DEF Desc
  <2> QED
    BY <1>5, <2>1, <2>3, <2>4
<1>8. ASSUME NEW c \in Callers, pc[c] \in Preparing PROVE Placed(c, K, r)'
  <2>1. Placed(c, k, r)
    BY <1>8 DEF Position
  <2>j. PICK j \in Nat : j = descnbr[c]
    BY <1>1 DEF TxTypeOK
  <2>m. PICK m \in Nat : m = Marked(c) /\ m <= j
    <3>1. pc[c] = "own" => j >= 1
      BY <2>1, <2>j DEF Placed
    <3>2. CASE pc[c] = "own"
      <4>1. Marked(c) = j - 1 /\ j - 1 \in Nat /\ j - 1 <= j
        BY <2>j, <3>1, <3>2 DEF Marked
      <4> QED
        BY <4>1
    <3>3. CASE pc[c] # "own"
      BY <2>j, <3>3 DEF Marked
    <3> QED
      BY <3>2, <3>3
  <2>2. /\ k + r + j <= ETH_TX_DESC_CNT
        /\ Marked(c)' = m /\ descnbr'[c] = j
    BY <1>2, <2>1, <2>j, <2>m DEF Placed, Marked
  <2>3. \A i \in Desc : Slots[i].own <=> i < k \/ (k + r <= i /\ i < k + r + m)
    BY <2>1, <2>m DEF Placed
  <2>4. \A i \in Desc : Slots'[i].own <=> i < K \/ (K + r <= i /\ i < K + r + m)
    <3>1. /\ k + r \in Nat /\ k + r + m \in Nat /\ k + r + m <= ETH_TX_DESC_CNT
          /\ k <= k + r
      BY <1>1, <2>m, <2>2
    <3>2. \A i \in Desc : Slots'[i].own <=> i < K \/ (k + r - 1 <= i /\ i < k + r + m - 1)
      BY <1>6, <2>3, <3>1
    <3>3. k + r - 1 = K + r /\ k + r + m - 1 = K + r + m
      BY <1>1, <2>m, <2>2
    <3> QED
      BY <3>2, <3>3
  <2>5. K + r + j <= ETH_TX_DESC_CNT
    BY <1>1, <2>2
  <2>6. pc[c] = "rollback" => descidx[c] = At(K + r)'
    <3>1. K + r \in Nat /\ K + r + 1 <= ETH_TX_DESC_CNT /\ K + r + 1 = k + r
      BY <1>1, <2>2
    <3>2. At(K + r)' = At(k + r)
      BY <1>4, <3>1
    <3> QED
      BY <2>1, <3>2 DEF Placed
  <2>7. pc[c] = "fill" => descidx[c] = At(K + j)' /\ K + j < ETH_TX_DESC_CNT
    <3> SUFFICES ASSUME pc[c] = "fill"
                 PROVE  descidx[c] = At(K + j)' /\ K + j < ETH_TX_DESC_CNT
      OBVIOUS
    <3>1. descidx[c] = At(k + j) /\ k + j < ETH_TX_DESC_CNT
      BY <2>1, <2>j DEF Placed
    <3>2. PICK q \in Nat : q = K + j
      BY <2>2
    <3>3. q + 1 <= ETH_TX_DESC_CNT /\ q + 1 = k + j
      BY <1>1, <2>2, <3>1, <3>2
    <3>4. At(q)' = At(k + j)
      BY <1>4, <3>3
    <3>5. K + j < ETH_TX_DESC_CNT
      BY <1>1, <3>1
    <3> QED
      BY <3>1, <3>2, <3>4, <3>5
  <2>8. pc[c] \in {"own", "more", "last", "advance", "start"} =>
          descidx[c] = At(K + j - 1)' /\ j >= 1
    <3> SUFFICES ASSUME pc[c] \in {"own", "more", "last", "advance", "start"}
                 PROVE  descidx[c] = At(K + j - 1)' /\ j >= 1
      OBVIOUS
    <3>1. descidx[c] = At(k + j - 1) /\ j >= 1
      BY <2>1, <2>j DEF Placed
    <3>2. PICK q \in Nat : q = K + j - 1
      BY <2>2, <3>1
    <3>3. q + 1 <= ETH_TX_DESC_CNT /\ q + 1 = k + j - 1
      BY <1>1, <2>2, <3>1, <3>2
    <3>4. At(q)' = At(k + j - 1)
      BY <1>4, <3>3
    <3> QED
      BY <3>1, <3>2, <3>4
  <2>9. pc[c] = "start" => CurTxDesc = At(K + j)' /\ dmatxdesc[c] = descidx[c]
    <3> SUFFICES ASSUME pc[c] = "start"
                 PROVE  CurTxDesc = At(K + j)' /\ dmatxdesc[c] = descidx[c]
      OBVIOUS
    <3>1. CurTxDesc = At(k + j) /\ dmatxdesc[c] = descidx[c]
      BY <2>1, <2>j DEF Placed
    <3>2. PICK q \in Nat : q = K + j
      BY <2>2
    <3>3. q + 1 <= ETH_TX_DESC_CNT /\ q + 1 = k + j
      BY <1>1, <2>2, <3>2
    <3>4. At(q)' = At(k + j)
      BY <1>4, <3>3
    <3> QED
      BY <3>1, <3>2, <3>4
  <2>10. /\ firstdescidx[c] = At(K)'
         /\ pc[c] # "rollback" => r = 0
         /\ pc[c] \in Preparing \ {"advance", "start"} => CurTxDesc = At(K)'
         /\ pc[c] = "advance" => CurTxDesc = descidx[c]
    BY <1>5, <2>1 DEF Placed
  <2> QED
    BY <1>2, <2>2, <2>4, <2>5, <2>6, <2>7, <2>8, <2>9, <2>10 DEF Placed
<1> QED
  BY <1>2, <1>5, <1>7, <1>8 DEF Position

(* The DMA closes a descriptor: it may complete a frame. *)
LEMMA CloseInStep ==
  ASSUME TxTypeOK, NEW R, NEW k \in 0 .. ETH_TX_DESC_CNT, NEW r \in 0 .. ETH_TX_DESC_CNT,
         Position(k, r), Contents(k, r, R), DmaClose,
         UNCHANGED <<headVars, irqEnabled, TxConfig, frame, abandoned, pc, localVars,
                     handed>>
  PROVE  Ring(R)'
<1>1. /\ TxTypeOK /\ k \in Nat /\ r \in Nat /\ ETH_TX_DESC_CNT \in Nat
      /\ ETH_TX_DESC_CNT > 0 /\ 0 \in Desc
  BY TxAssumption DEF Desc
<1>2. /\ dma = "reading" /\ dma' = "running"
      /\ UNCHANGED <<CurTxDesc, DMACTDTPR, TxConfig, frame, abandoned, pc, handed,
                     rest, descnbr, dmatxdesc>>
  BY DEF DmaClose, headVars, localVars
<1>3. k > 0
  BY <1>2 DEF Position
<1>4. PICK K \in 0 .. ETH_TX_DESC_CNT : k = K + 1
  <2>1. k - 1 \in 0 .. ETH_TX_DESC_CNT /\ k = k - 1 + 1
    BY <1>1, <1>3
  <2> QED
    BY <2>1
<1>5. K \in Nat /\ K < ETH_TX_DESC_CNT
  BY <1>1, <1>4
<1>6. Position(K, r)'
  BY <1>2, <1>4, <1>5, ClosePosition
<1>7. \A i \in Desc : i + 1 \in Desc => Slots'[i] = Slots[i + 1]
  BY <1>1, SlotsShifted DEF DmaClose
<1>8. \A i \in Desc : i < K => i + 1 \in Desc /\ i + 1 < k
  BY <1>1, <1>4, <1>5 DEF Desc
<1>9. ASSUME NEW i \in Desc, i + 1 \in Desc
      PROVE  /\ First(i)' = First(i + 1)
             /\ Ends(i)' <=> Ends(i + 1)
             /\ Through(i)' = Through(i + 1)
             /\ Holds(i)' <=> Holds(i + 1)
  <2>1. Slots'[i] = Slots[i + 1]
    BY <1>7, <1>9
  <2>2. First(i)' = First(i + 1)
    BY <2>1 DEF First
  <2>3. (Ends(i)' <=> Ends(i + 1)) /\ Through(i)' = Through(i + 1)
    BY <2>2 DEF Ends, Through
  <2>4. Holds(i)' <=> Holds(i + 1)
    BY <2>1, <2>2, <2>3 DEF Holds
  <2> QED
    BY <2>2, <2>3, <2>4
<1>10. Committed(K, R)'
  <2> SUFFICES ASSUME NEW i \in Desc, i < K
               PROVE  /\ Holds(i)'
                      /\ ~ Ends(i)' =>
                           /\ i + 1 < K
                           /\ First(i + 1)' = Buf(First(i)'.frame, First(i)'.of, First(i)'.part + 2)
                      /\ \A j \in Desc : i < j /\ j < K /\ Ends(i)' =>
                           <<First(i)'.frame, First(j)'.frame>> \in R
    BY DEF Committed
  <2>1. PICK x \in Desc : x = i + 1 /\ x < k
    BY <1>8
  <2>2. /\ Holds(x)
        /\ ~ Ends(x) => x + 1 < k /\ First(x + 1) = Buf(First(x).frame, First(x).of, First(x).part + 2)
        /\ \A j \in Desc : x < j /\ j < k /\ Ends(x) =>
             <<First(x).frame, First(j).frame>> \in R
    BY <2>1 DEF Contents, Committed
  <2>3. /\ First(i)' = First(x) /\ (Ends(i)' <=> Ends(x)) /\ (Holds(i)' <=> Holds(x))
    BY <1>9, <2>1
  <2>4. ~ Ends(i)' =>
          /\ i + 1 < K
          /\ First(i + 1)' = Buf(First(i)'.frame, First(i)'.of, First(i)'.part + 2)
    <3> SUFFICES ASSUME ~ Ends(x)
                 PROVE  /\ i + 1 < K
                        /\ First(i + 1)' = Buf(First(i)'.frame, First(i)'.of, First(i)'.part + 2)
      BY <2>3
    <3>1. x + 1 < k /\ First(x + 1) = Buf(First(x).frame, First(x).of, First(x).part + 2)
      BY <2>2
    <3>2. x < K /\ x + 1 \in Desc
      BY <1>1, <1>4, <1>5, <3>1 DEF Desc
    <3>3. First(x)' = First(x + 1)
      BY <1>9, <3>2
    <3> QED
      BY <2>1, <2>3, <3>1, <3>2, <3>3
  <2>5. ASSUME NEW j \in Desc, i < j, j < K, Ends(i)'
        PROVE  <<First(i)'.frame, First(j)'.frame>> \in R
    <3>1. PICK y \in Desc : y = j + 1 /\ y < k
      BY <1>8, <2>5
    <3>2. x < y
      BY <2>1, <2>5, <3>1 DEF Desc
    <3>3. First(j)' = First(y)
      BY <1>9, <3>1
    <3> QED
      BY <2>2, <2>3, <2>5, <3>1, <3>2, <3>3
  <2> QED
    BY <2>2, <2>3, <2>4, <2>5
<1> DEFINE f == First(0).frame
           m == First(0).of
           t == First(0).part
<1>11. /\ Holds(0) /\ First(0) \in Buffer /\ t <= m
       /\ Slots[0].LD <=> Ends(0)
       /\ ~ Ends(0) => 1 < k /\ First(1) = Buf(f, m, t + 2)
       /\ \A j \in Desc : 0 < j /\ j < k => (Ends(0) => <<f, First(j).frame>> \in R)
       /\ Slots[0] = TxDesc[dmaDesc]
  <2>1. Holds(0)
    BY <1>1, <1>3 DEF Contents, Committed
  <2>2. /\ First(0) \in Buffer /\ t <= m
        /\ Slots[0].LD <=> Ends(0)
    BY <2>1 DEF Holds
  <2>3. ~ Ends(0) => 1 < k /\ First(1) = Buf(f, m, t + 2)
    <3>1. 0 + 1 = 1
      OBVIOUS
    <3> QED
      BY <1>1, <1>3, <3>1 DEF Contents, Committed
  <2>4. \A j \in Desc : 0 < j /\ j < k => (Ends(0) => <<f, First(j).frame>> \in R)
    BY <1>1, <1>3 DEF Contents, Committed
  <2>5. Slots[0] = TxDesc[dmaDesc]
    BY <1>1, AtEnds DEF Slots
  <2> QED
    BY <2>1, <2>2, <2>3, <2>4, <2>5
<1>12. f \in 1 .. MaxFrame /\ m \in 1 .. MaxChain /\ t \in 1 .. m
  <2>1. First(0).frame \in 1 .. MaxFrame /\ First(0).of \in 1 .. MaxChain
        /\ First(0).part \in 1 .. MaxChain
    BY <1>11 DEF Buffer
  <2> QED
    BY <1>11, <2>1, TxAssumption
<1>13. gather # <<>> => gather = Prefix(f, m, Through(0))
  BY <1>2 DEF Contents, Gathered
<1>14. Gathered(K)'
  <2> SUFFICES ASSUME gather' # <<>>
               PROVE  /\ K > 0 /\ First(0)'.part > 1
                      /\ gather' = Prefix(First(0)'.frame, First(0)'.of, First(0)'.part - 1)
    BY <1>2 DEF Gathered
  <2>1. gather' = gather /\ ~ (Slots[0].LD /\ gather # <<>>)
    BY <1>11 DEF DmaClose
  <2>2. ~ Ends(0) /\ gather = Prefix(f, m, Through(0))
    BY <1>11, <1>13, <2>1
  <2>3. 1 < k /\ First(1) = Buf(f, m, t + 2)
    BY <1>11, <2>2
  <2>4. K > 0 /\ 1 \in Desc /\ 0 + 1 = 1
    BY <1>1, <1>4, <1>5, <2>3 DEF Desc
  <2>5. First(0)' = First(1)
    BY <1>1, <1>9, <2>4
  <2>6. First(0)'.frame = f /\ First(0)'.of = m /\ First(0)'.part = t + 2
    BY <2>3, <2>5 DEF Buf
  <2>7. Through(0) = t + 1 /\ t + 2 > 1 /\ t + 2 - 1 = t + 1
    <3>1. t < m
      BY <1>12, <2>2, TxAssumption DEF Ends
    <3>2. t \in Nat
      BY <1>12
    <3>3. Through(0) = t + 1
      BY <3>1 DEF Through
    <3> HIDE DEF t
    <3> QED
      BY <3>2, <3>3
  <2>10. t \in Nat
    BY <1>12
  <2> HIDE DEF f, m, t
  <2>8. First(0)'.part - 1 = Through(0) /\ First(0)'.part > 1
    <3>1. PICK p : p = First(0)'.part
      OBVIOUS
    <3>2. p = t + 2
      BY <2>6, <3>1
    <3>3. p - 1 = t + 1 /\ p > 1
      BY <2>10, <3>2
    <3> QED
      BY <2>7, <3>1, <3>3
  <2>9. gather' = Prefix(First(0)'.frame, First(0)'.of, Through(0))
    BY <2>1, <2>2, <2>6
  <2> QED
    BY <2>4, <2>8, <2>9
<1>15. Sent(K, R)' /\ \A x \in DOMAIN wire' :
                     \/ x \in DOMAIN wire /\ wire'[x] = wire[x]
                     \/ wire'[x][1].frame = f
  <2>1. wire \in Seq(Seq(Buffer)) /\ gather \in Seq(Buffer)
    BY <1>1 DEF TxTypeOK
  <2>2. /\ \A x \in DOMAIN wire : IsWhole(wire[x])
        /\ \A x, y \in DOMAIN wire : x < y => <<wire[x][1].frame, wire[y][1].frame>> \in R
        /\ \A x \in DOMAIN wire : \A i \in Desc : i < k =>
             <<wire[x][1].frame, First(i).frame>> \in R
    BY DEF Contents, Sent
  <2>3. CASE Slots[0].LD /\ gather # <<>>
    <3>1. wire' = Append(wire, gather)
      BY <1>11, <2>3 DEF DmaClose
    <3>2. /\ Len(wire) \in Nat /\ Len(wire') = Len(wire) + 1
          /\ DOMAIN wire = 1 .. Len(wire) /\ DOMAIN wire' = 1 .. Len(wire) + 1
          /\ \A x \in 1 .. Len(wire) : wire'[x] = wire[x]
          /\ wire'[Len(wire) + 1] = gather
      <4>1. /\ wire' \in Seq(Seq(Buffer)) /\ Len(wire') = Len(wire) + 1
            /\ \A x \in 1 .. Len(wire) : wire'[x] = wire[x]
            /\ wire'[Len(wire) + 1] = gather
        BY <2>1, <3>1, AppendProperties
      <4>2. Len(wire) \in Nat /\ DOMAIN wire = 1 .. Len(wire)
        BY <2>1, LenProperties
      <4>3. DOMAIN wire' = 1 .. Len(wire')
        BY <4>1, LenProperties
      <4> QED
        BY <4>1, <4>2, <4>3
    <3>3. Through(0) = m
      <4>1. t + 1 >= m
        BY <1>11, <2>3 DEF Ends
      <4>2. t \in Nat /\ m \in Nat /\ t <= m
        BY <1>12, TxAssumption
      <4>3. Through(0) = IF t < m THEN t + 1 ELSE t
        BY DEF Through
      <4> HIDE DEF t, m
      <4> QED
        BY <4>1, <4>2, <4>3
    <3>4. gather = Chain(f, m) /\ gather[1].frame = f /\ gather[1].of = m
      <4>1. gather = Prefix(f, m, m)
        BY <1>13, <2>3, <3>3
      <4> HIDE DEF f, m
      <4>2. gather = Chain(f, m) /\ gather[1] = Buf(f, m, 1)
        BY <1>12, <4>1, ChainParts
      <4> QED
        BY <4>2 DEF Buf
    <3>5. IsWhole(gather)
      BY <2>3, <3>4 DEF IsWhole
    <3>6. \A x \in DOMAIN wire : <<wire[x][1].frame, f>> \in R
      BY <1>1, <1>3, <2>2
    <3> HIDE DEF f, m, t
    <3>7. \A x \in DOMAIN wire' : x \in DOMAIN wire \/ x = Len(wire) + 1
      BY <3>2
    <3>8. \A x \in DOMAIN wire' : IsWhole(wire'[x])
      BY <2>2, <3>2, <3>5, <3>7
    <3>12. ASSUME NEW x \in DOMAIN wire', NEW y \in DOMAIN wire', x < y
           PROVE  <<wire'[x][1].frame, wire'[y][1].frame>> \in R
      <4>1. x \in DOMAIN wire
        BY <3>2, <3>12
      <4>2. CASE y \in DOMAIN wire
        BY <2>2, <3>2, <3>12, <4>1, <4>2
      <4>3. CASE y = Len(wire) + 1
        BY <3>2, <3>4, <3>6, <4>1, <4>3
      <4> QED
        BY <3>7, <4>2, <4>3
    <3>9. ASSUME NEW x \in DOMAIN wire', NEW i \in Desc, i < K
          PROVE  <<wire'[x][1].frame, First(i)'.frame>> \in R
      <4>1. PICK z \in Desc : z = i + 1 /\ z < k
        BY <1>8, <3>9
      <4>2. First(i)' = First(z)
        BY <1>9, <4>1
      <4>3. CASE x \in DOMAIN wire
        BY <2>2, <3>2, <4>1, <4>2, <4>3
      <4>4. CASE x = Len(wire) + 1
        <5>1. 0 < z
          BY <4>1 DEF Desc
        <5>2. Ends(0)
          BY <1>11, <2>3
        <5>3. <<f, First(z).frame>> \in R
          BY <1>11, <4>1, <5>1, <5>2 DEF f
        <5> QED
          BY <3>2, <3>4, <4>2, <4>4, <5>3
      <4> QED
        BY <3>7, <4>3, <4>4
    <3>10. Sent(K, R)'
      <4>1. \A x \in DOMAIN wire' : IsWhole(wire[x])' <=> IsWhole(wire'[x])
        BY DEF IsWhole
      <4> QED
        BY <3>8, <3>9, <3>12, <4>1 DEF Sent
    <3>11. \A x \in DOMAIN wire' :
                     \/ x \in DOMAIN wire /\ wire'[x] = wire[x]
                     \/ wire'[x][1].frame = f
      BY <3>2, <3>4, <3>7
    <3> QED
      BY <3>10, <3>11
  <2>4. CASE ~ (Slots[0].LD /\ gather # <<>>)
    <3>1. wire' = wire
      BY <1>11, <2>4 DEF DmaClose
    <3>2. \A x \in DOMAIN wire' : IsWhole(wire'[x])
      BY <2>2, <3>1
    <3>3. ASSUME NEW x \in DOMAIN wire, NEW i \in Desc, i < K
          PROVE  <<wire[x][1].frame, First(i)'.frame>> \in R
      <4>1. PICK z \in Desc : z = i + 1 /\ z < k
        BY <1>8, <3>3
      <4> QED
        BY <1>9, <2>2, <4>1
    <3> QED
      BY <2>2, <3>1, <3>2, <3>3 DEF Sent
  <2> QED
    BY <2>3, <2>4
<1>16. \A i \in Desc : i < K => \E z \in Desc : z < k /\ First(i)' = First(z)
  BY <1>8, <1>9
<1>17. Numbered(K, R)'
  <2>1. /\ \A x \in DOMAIN wire : wire[x][1].frame <= handed
        /\ \A i \in Desc : i < k => First(i).frame <= handed
        /\ \A c \in Callers : frame[c] <= handed
        /\ \A c \in Callers : pc[c] \in Driving => Earlier(c, k, R)
    BY DEF Contents, Numbered
  <2>2. ASSUME NEW c \in Callers, Earlier(c, k, R)
        PROVE  Earlier(c, K, R)'
    <3>1. \A x \in DOMAIN wire' : <<wire'[x][1].frame, frame[c]>> \in R
      BY <1>1, <1>3, <1>15, <2>2 DEF Earlier
    <3>2. \A i \in Desc : i < K => <<First(i)'.frame, frame[c]>> \in R
      BY <1>16, <2>2 DEF Earlier
    <3> QED
      BY <1>2, <2>2, <3>1, <3>2 DEF Earlier
  <2>3. \A x \in DOMAIN wire' : wire'[x][1].frame <= handed
    BY <1>1, <1>3, <1>15, <2>1
  <2>4. \A i \in Desc : i < K => First(i)'.frame <= handed
    BY <1>16, <2>1
  <2> QED
    BY <1>2, <2>1, <2>2, <2>3, <2>4 DEF Numbered
<1>18. Live(K)'
  BY <1>2, <1>16 DEF Contents, Live
<1>20. Awaited(K)'
  <2> SUFFICES ASSUME NEW d \in Callers, NEW i \in Desc,
                      pc[d] = "poll", i < K, First(i)'.frame = frame[d]
               PROVE  \E q \in Desc : i <= q /\ q < K /\ At(q)' = dmatxdesc[d]
    BY <1>2 DEF Awaited
  <2>1. PICK z \in Desc : z = i + 1 /\ z < k
    BY <1>8
  <2>2. First(z).frame = frame[d]
    BY <1>9, <2>1
  <2>3. PICK j \in Desc : z <= j /\ j < k /\ At(j) = dmatxdesc[d]
    BY <2>1, <2>2 DEF Contents, Awaited
  <2>4. PICK q \in Desc : q + 1 = j /\ i <= q /\ q < K
    <3>1. j - 1 \in Desc /\ j - 1 + 1 = j /\ i <= j - 1 /\ j - 1 < K
      BY <1>1, <1>4, <2>1, <2>3 DEF Desc
    <3> QED
      BY <3>1
  <2>5. At(q)' = At(j)
    <3>1. dmaDesc' = INCR_TX_DESC_INDEX(dmaDesc, 1) /\ q \in 0 .. ETH_TX_DESC_CNT - 1
      BY DEF DmaClose, Desc
    <3>2. At(q)' = At(q + 1)
      BY <1>1, <3>1, AtShift
    <3> QED
      BY <2>4, <3>2
  <2> QED
    BY <2>3, <2>4, <2>5
<1>19. Chained(K, r)'
  <2> SUFFICES ASSUME NEW c \in Callers
               PROVE  \E n \in 1 .. MaxChain : Makes(c, K, r, n)'
    BY DEF Chained
  <2>n. PICK n \in 1 .. MaxChain : Makes(c, k, r, n)
    BY DEF Contents, Chained
  <2>1. ASSUME pc[c] \in Preparing
        PROVE  Built(c, K, r, n)'
    <3>1. Built(c, k, r, n)
      BY <2>1, <2>n DEF Makes
    <3>2. Placed(c, k, r)
      BY <2>1 DEF Position
    <3>3. PICK j \in Nat : j = descnbr[c]
      BY <1>1 DEF TxTypeOK
    <3>4. k + r + j <= ETH_TX_DESC_CNT /\ descnbr'[c] = j
      BY <1>2, <3>2, <3>3 DEF Placed
    <3>5. \A q \in Nat : k + q < ETH_TX_DESC_CNT => Slots'[K + q] = Slots[k + q]
      <4> SUFFICES ASSUME NEW q \in Nat, k + q < ETH_TX_DESC_CNT
                   PROVE  Slots'[K + q] = Slots[k + q]
        OBVIOUS
      <4>1. PICK i \in Desc : i = K + q
        BY <1>1, <1>4, <1>5 DEF Desc
      <4>2. i + 1 = k + q /\ i + 1 \in Desc
        BY <1>1, <1>4, <1>5, <4>1 DEF Desc
      <4> QED
        BY <1>7, <4>1, <4>2
    <3>6. ASSUME NEW q \in Desc, r <= q, q < r + j
          PROVE  /\ 2 * q + 1 <= n
                 /\ Slots'[K + q].bufs = Piece(frame[c], n, 2 * q + 1)
                 /\ pc[c] # "rollback" =>
                      /\ Slots'[K + q].FD => q = 0
                      /\ q + 1 < j \/ pc[c] = "fill" => ~ Slots'[K + q].LD
      <4>1. q \in Nat /\ k + q < ETH_TX_DESC_CNT
        BY <1>1, <3>4, <3>6 DEF Desc
      <4>2. Slots'[K + q] = Slots[k + q]
        BY <3>5, <4>1
      <4> QED
        BY <3>1, <3>3, <3>6, <4>2 DEF Built
    <3>7. pc[c] = "fill" => (Slots'[K + j].FD => j = 0)
      <4> SUFFICES ASSUME pc[c] = "fill" PROVE Slots'[K + j].FD => j = 0
        OBVIOUS
      <4>1. k + j < ETH_TX_DESC_CNT
        BY <3>2, <3>3 DEF Placed
      <4>2. Slots'[K + j] = Slots[k + j]
        BY <3>5, <4>1
      <4> QED
        BY <3>1, <3>3, <4>2 DEF Built
    <3>8. pc[c] \in {"advance", "start"} => Slots'[K + j - 1].LD
      <4> SUFFICES ASSUME pc[c] \in {"advance", "start"} PROVE Slots'[K + j - 1].LD
        OBVIOUS
      <4>1. j >= 1 /\ Slots[k + j - 1].LD
        BY <3>1, <3>2, <3>3 DEF Placed, Built
      <4>2. PICK q \in Nat : q = j - 1
        BY <4>1
      <4>3. k + q < ETH_TX_DESC_CNT /\ K + q = K + j - 1 /\ k + q = k + j - 1
        BY <1>1, <1>4, <1>5, <3>4, <4>2
      <4>4. Slots'[K + q] = Slots[k + q]
        BY <3>5, <4>3
      <4> QED
        BY <4>1, <4>3, <4>4
    <3>9. /\ pc[c] = "fill" => 2 * j < n
          /\ pc[c] \in {"fill", "own", "more"} => rest[c] = Suffix(frame[c], n, 2 * j)
          /\ pc[c] \in {"last", "advance", "start"} => n <= 2 * j
      BY <3>1, <3>3 DEF Built
    <3> QED
      BY <1>2, <3>4, <3>6, <3>7, <3>8, <3>9 DEF Built
  <2>2. Makes(c, K, r, n)'
    BY <1>2, <2>n, <2>1 DEF Makes
  <2> QED
    BY <2>2
<1> QED
  BY <1>4, <1>6, <1>10, <1>14, <1>15, <1>17, <1>18, <1>19, <1>20 DEF Ring, Contents

-----------------------------------------------------------------------------
(* Together: what the steps of both firmwares do to the ring.              *)

(* The ring is empty at the start. *)
LEMMA RingStart ==
  ASSUME NEW R, TxInit
  PROVE  Ring(R)
<1> USE DEF TxInit
<1>1. /\ 0 \in 0 .. ETH_TX_DESC_CNT /\ 1 \in 1 .. MaxChain
      /\ ETH_TX_DESC_CNT \in Nat /\ 0 \in Desc
  BY TxAssumption DEF Desc
<1>2. TxTypeOK
  BY TxInitTyped
<1>3. \A i \in Desc : ~ (i < 0)
  BY DEF Desc
<1>4. At(0) = 0
  BY <1>2, AtEnds
<1>5. \A i \in Desc : ~ Slots[i].own
  <2> SUFFICES ASSUME NEW i \in Desc PROVE ~ Slots[i].own
    OBVIOUS
  <2>1. i \in 0 .. ETH_TX_DESC_CNT
    BY TxAssumption DEF Desc
  <2>2. At(i) \in Desc
    BY <1>2, <2>1, AtInRing
  <2> QED
    BY <2>2 DEF Slots
<1>6. \A c \in Callers : pc[c] = "out"
  OBVIOUS
<1>7. Position(0, 0)
  BY <1>3, <1>4, <1>5, <1>6 DEF Position, Preparing
<1>8. Committed(0, R) /\ Gathered(0) /\ Live(0) /\ Awaited(0)
  BY <1>3 DEF Committed, Gathered, Live, Awaited
<1>9. DOMAIN wire = {}
  OBVIOUS
<1>10. Sent(0, R)
  BY <1>3, <1>9 DEF Sent
<1>11. Numbered(0, R)
  BY <1>3, <1>6, <1>9 DEF Numbered, Driving, Preparing
<1>12. Chained(0, 0)
  BY <1>1, <1>6 DEF Chained, Makes, Preparing
<1>13. Contents(0, 0, R)
  BY <1>8, <1>10, <1>11, <1>12 DEF Contents
<1> HIDE DEF TxInit
<1> QED
  BY <1>1, <1>7, <1>13 DEF Ring

(* Each step of HAL_ETH_Transmit keeps the ring in order.                  *)
LEMMA TransmitInStep ==
  ASSUME NEW R, \A g \in Nat : <<g, g>> \notin R, Ring(R),
         NEW c \in Callers, Solo(c), SetTxConfig(c) \/ HAL_ETH_Transmit(c),
         UNCHANGED handed
  PROVE  Ring(R)'
<1>1. PICK k \in 0 .. ETH_TX_DESC_CNT, r \in 0 .. ETH_TX_DESC_CNT :
        Position(k, r) /\ Contents(k, r, R)
  BY DEF Ring
<1>2. PICK n \in 1 .. MaxChain : Makes(c, k, r, n)
  BY <1>1 DEF Contents, Chained
<1>3. CASE SetTxConfig(c)
  BY <1>1, <1>2, <1>3, SetTxConfigInStep
<1>4. CASE Begin(c)
  BY <1>1, <1>2, <1>4, BeginInStep
<1>5. CASE Fill(c)
  BY <1>1, <1>2, <1>5, FillInStep
<1>6. CASE SetOwn(c)
  BY <1>1, <1>2, <1>6, SetOwnInStep
<1>7. CASE More(c)
  BY <1>1, <1>2, <1>7, MoreInStep
<1>8. CASE Rollback(c)
  BY <1>1, <1>2, <1>8, RollbackInStep
<1>9. CASE SetLast(c)
  BY <1>1, <1>2, <1>9, SetLastInStep
<1>10. CASE Advance(c)
  BY <1>1, <1>2, <1>10, AdvanceInStep
<1>11. CASE Start(c)
  BY <1>1, <1>2, <1>11, StartInStep
<1>12. CASE Poll(c)
  BY <1>1, <1>12, PollInStep
<1> QED
  BY <1>3, <1>4, <1>5, <1>6, <1>7, <1>8, <1>9, <1>10, <1>11, <1>12
  DEF HAL_ETH_Transmit

(* So does each step of the DMA, and the error interrupt.                  *)
LEMMA HardwareInStep ==
  ASSUME TxTypeOK, NEW R, Ring(R), TxDma \/ FaultIrq, UNCHANGED handed
  PROVE  Ring(R)'
<1>1. PICK k \in 0 .. ETH_TX_DESC_CNT, r \in 0 .. ETH_TX_DESC_CNT :
        Position(k, r) /\ Contents(k, r, R)
  BY DEF Ring
<1>2. CASE FaultIrq
  BY <1>1, <1>2, QuietHardwareInStep
<1>3. CASE TxDma
  <2>1. UNCHANGED <<headVars, irqEnabled, TxConfig, frame, abandoned, pc, localVars>>
    BY <1>3 DEF TxDma
  <2>2. CASE DmaClose
    BY <1>1, <2>1, <2>2, CloseInStep
  <2>3. CASE DmaFetch /\ UNCHANGED TxDesc
    BY <1>1, <2>1, <2>3, FetchInStep
  <2>4. CASE (DmaSuspend \/ DmaFault) /\ UNCHANGED TxDesc
    BY <1>1, <1>3, <2>4, QuietHardwareInStep
  <2> QED
    BY <1>3, <2>2, <2>3, <2>4 DEF TxDma
<1> QED
  BY <1>2, <1>3

(* Nothing happens, or a frame is refused at once.                         *)
LEMMA RingStutters ==
  ASSUME TxTypeOK, NEW R, Ring(R), UNCHANGED txVars, handed' \in {handed, handed + 1}
  PROVE  Ring(R)'
<1>1. PICK k \in 0 .. ETH_TX_DESC_CNT, r \in 0 .. ETH_TX_DESC_CNT :
        Position(k, r) /\ Contents(k, r, R)
  BY DEF Ring
<1>2. UNCHANGED <<TxDesc, dmaDesc, CurTxDesc, DMACTDTPR, wire, TxConfig, frame,
                  abandoned, pc, localVars, dma, gather>>
  BY DEF txVars, headVars, quietVars, dmaVars
<1>3. dma = "reading" => k > 0
  BY <1>1 DEF Position
<1>4. Gathered(k)'
  <2>1. Slots' = Slots
    BY <1>2, SlotsKept
  <2> QED
    BY <1>1, <1>2, <1>3, <2>1, RegionKept DEF Contents
<1> QED
  BY <1>1, <1>2, <1>3, <1>4, HardwareRests

(* With nobody preparing a frame, the driver and the DMA agree.            *)
LEMMA RingAgrees ==
  ASSUME TxTypeOK, NEW R, Ring(R), \A c \in Callers : pc[c] \notin Preparing
  PROVE  /\ \E k \in 0 .. ETH_TX_DESC_CNT :
              /\ Owned = From(dmaDesc, k)
              /\ CurTxDesc = INCR_TX_DESC_INDEX(dmaDesc, k)
         /\ DMACTDTPR = CurTxDesc
<1>1. PICK k \in 0 .. ETH_TX_DESC_CNT, r \in 0 .. ETH_TX_DESC_CNT : Position(k, r)
  BY DEF Ring
<1>3. CurTxDesc = At(k) /\ DMACTDTPR = At(k) /\ \A i \in Desc : Slots[i].own <=> i < k
  BY <1>1 DEF Position
<1>4. From(dmaDesc, k) = {At(i) : i \in {p \in Desc : p < k}}
  BY DEF From, At
<1>5. \A i \in Desc : At(i) \in Desc /\ Slots[i] = TxDesc[At(i)]
  <2> SUFFICES ASSUME NEW i \in Desc PROVE At(i) \in Desc /\ Slots[i] = TxDesc[At(i)]
    OBVIOUS
  <2>1. i \in 0 .. ETH_TX_DESC_CNT
    BY TxAssumption DEF Desc
  <2> QED
    BY <2>1, AtInRing DEF Slots
<1>6. ASSUME NEW d PROVE d \in Owned <=> d \in From(dmaDesc, k)
  <2>1. ASSUME d \in Owned PROVE d \in From(dmaDesc, k)
    <3>1. PICK p \in Desc : At(p) = d
      BY <2>1, AtOnto DEF Owned
    <3> QED
      BY <1>3, <1>4, <1>5, <2>1, <3>1 DEF Owned
  <2>2. ASSUME d \in From(dmaDesc, k) PROVE d \in Owned
    BY <1>3, <1>4, <1>5, <2>2 DEF Owned
  <2> QED
    BY <2>1, <2>2
<1>7. Owned = From(dmaDesc, k)
  BY <1>6
<1>8. CurTxDesc = INCR_TX_DESC_INDEX(dmaDesc, k) /\ DMACTDTPR = CurTxDesc
  BY <1>3 DEF At
<1> HIDE DEF Owned
<1> QED
  BY <1>7, <1>8

(* The descriptors of the DMA point to pbufs that somebody still has.      *)
LEMMA RingLive ==
  ASSUME TxTypeOK, NEW R, Ring(R)
  PROVE  BuffersLive
<1> SUFFICES ASSUME NEW d \in Owned, NEW b \in DOMAIN TxDesc[d].bufs
             PROVE  TxDesc[d].bufs[b].frame \in
                      abandoned \cup {frame[c] : c \in Callers}
  BY DEF BuffersLive
<1>1. PICK k \in 0 .. ETH_TX_DESC_CNT, r \in 0 .. ETH_TX_DESC_CNT :
        Position(k, r) /\ Contents(k, r, R)
  BY DEF Ring
<1>2. d \in Desc /\ TxDesc[d].own
  BY DEF Owned
<1>3. PICK p \in Desc : At(p) = d
  BY <1>2, AtOnto
<1>4. Slots[p] = TxDesc[d] /\ Slots[p].own
  BY <1>2, <1>3 DEF Slots
<1>5. CASE p < k
  <2>1. Holds(p)
    BY <1>1, <1>5 DEF Contents, Committed
  <2>2. /\ First(p).of \in 1 .. MaxChain /\ First(p).part \in 1 .. First(p).of
    <3>1. First(p).of \in 1 .. MaxChain /\ First(p).part \in 1 .. MaxChain
      BY <2>1 DEF Holds, Buffer
    <3> QED
      BY <2>1, <3>1, TxAssumption DEF Holds
  <2>3. TxDesc[d].bufs = Piece(First(p).frame, First(p).of, First(p).part)
    BY <1>4, <2>1 DEF Holds
  <2>4. TxDesc[d].bufs[b].frame = First(p).frame
    BY <2>2, <2>3, PieceParts
  <2>5. \/ First(p).frame \in abandoned
        \/ \E c \in Callers : First(p).frame = frame[c]
    BY <1>1, <1>5 DEF Contents, Live
  <2> QED
    BY <2>4, <2>5
<1>6. CASE ~ (p < k)
  <2>1. PICK c \in Callers : pc[c] \in Preparing
    BY <1>1, <1>4, <1>6 DEF Position
  <2>n. PICK n \in 1 .. MaxChain : Makes(c, k, r, n)
    BY <1>1 DEF Contents, Chained
  <2>2. Placed(c, k, r) /\ Built(c, k, r, n)
    BY <1>1, <2>1, <2>n DEF Position, Makes
  <2>3. k + r <= p /\ p < k + r + Marked(c)
    BY <1>4, <1>6, <2>2 DEF Placed
  <2>4. PICK j \in Desc : p = k + j /\ r <= j /\ j < r + descnbr[c]
    <3>1. k \in Nat /\ r \in Nat /\ p \in Nat /\ descnbr[c] \in Nat
          /\ ETH_TX_DESC_CNT \in Nat /\ p < ETH_TX_DESC_CNT
      BY TxAssumption DEF TxTypeOK, Desc
    <3>2. Marked(c) \in Int /\ Marked(c) <= descnbr[c]
      <4>1. Marked(c) = descnbr[c] \/ Marked(c) = descnbr[c] - 1
        BY DEF Marked
      <4> QED
        BY <3>1, <4>1
    <3>3. p - k \in Desc /\ p = k + (p - k) /\ r <= p - k /\ p - k < r + descnbr[c]
      BY <2>3, <3>1, <3>2 DEF Desc
    <3> QED
      BY <3>3
  <2>5. TxDesc[d].bufs = Piece(frame[c], n, 2 * j + 1) /\ 2 * j + 1 <= n
    BY <1>4, <2>2, <2>4 DEF Built
  <2>6. 2 * j + 1 \in 1 .. n
    BY <2>5, TxAssumption DEF Desc
  <2>7. TxDesc[d].bufs[b].frame = frame[c]
    BY <2>5, <2>6, PieceParts
  <2> QED
    BY <2>7
<1> QED
  BY <1>5, <1>6


-----------------------------------------------------------------------------
(* EthTx: the core lock and the semaphore ousem.                           *)

(* The core lock: who is in low_level_output holds it. *)
Locked == \A c \in Callers : pc[c] # "out" <=> lock_tcpip_core = c

(* Somebody has taken ousem and not yet given it back. *)
Inside == \E c \in Callers : pc[c] \notin {"out", "sem"}

Ousem ==
  /\ Inside => ousem = 0 /\ refused = {}
  /\ ~ Inside => ousem = IF refused = {} THEN 1 ELSE 0

TxInv ==
  /\ TypeOK
  /\ \A c \in Callers : Listed(c)
  /\ Locked
  /\ Ousem

(* At the start nobody holds the lock, and ousem is up. *)
LEMMA TxInvInit == Init => TxInv
<1> SUFFICES ASSUME Init PROVE TxInv
  OBVIOUS
<1>1. TxTypeOK /\ \A c \in Callers : Listed(c)
  BY TxInitTyped DEF Init
<1>2. TypeOK
  BY <1>1 DEF Init, TypeOK
<1>3. Locked /\ Ousem
  BY NoOneAssumption DEF Init, TxInit, Locked, Ousem, Inside
<1> QED
  BY <1>1, <1>2, <1>3 DEF TxInv

(* The hardware touches neither. *)
LEMMA HardwareKeeps == TxInv /\ Hardware => TxInv'
<1> SUFFICES ASSUME TxInv, Hardware PROVE TxInv'
  OBVIOUS
<1>1. TxTypeOK' /\ UNCHANGED <<pc, rest, descnbr, TxConfig, frame>>
  BY HardwareTyped DEF TxInv, TypeOK, Hardware
<1>2. UNCHANGED <<lock_tcpip_core, ousem, refused>>
  BY DEF Hardware, senderVars
<1>3. TypeOK'
  BY <1>1, <1>2 DEF TxInv, TypeOK
<1>4. (\A c \in Callers : Listed(c))' /\ Locked' /\ Ousem'
  BY <1>1, <1>2 DEF TxInv, Listed, Locked, Ousem, Inside
<1> QED
  BY <1>3, <1>4 DEF TxInv

(* With the core lock held, only its holder is in low_level_output.        *)
LEMMA Alone ==
  ASSUME TxInv, NEW c \in Callers, pc[c] # "out"
  PROVE  \A d \in Callers : d # c => pc[d] = "out"
BY DEF TxInv, Locked

(* A step from inside low_level_output to inside it changes neither the    *)
(* lock nor what ousem must be.                                            *)
LEMMA StaysInside ==
  ASSUME TxInv, NEW c \in Callers, NEW to, to \notin {"out", "sem"},
         pc[c] \notin {"out", "sem"}, pc' = [pc EXCEPT ![c] = to],
         UNCHANGED <<lock_tcpip_core, ousem, refused>>
  PROVE  Locked' /\ Ousem' /\ \A d \in Callers : d # c => Listed(d)'
<1>1. \A d \in Callers : pc'[d] = IF d = c THEN to ELSE pc[d]
  BY DEF TxInv, TypeOK, TxTypeOK
<1>2. \A d \in Callers : d # c => pc'[d] = "out"
  BY <1>1, Alone
<1>3. Locked'
  BY <1>1 DEF TxInv, Locked
<1>4. Inside /\ Inside'
  BY <1>1 DEF Inside
<1>5. Ousem'
  BY <1>4 DEF TxInv, Ousem
<1> QED
  BY <1>2, <1>3, <1>5 DEF Listed

(* HAL_ETH_Transmit leaves both alone. *)
LEMMA TransmitKeeps ==
  ASSUME TxInv, NEW c \in Callers, Transmit(c)
  PROVE  TxInv'
<1>1. /\ TxTypeOK /\ Listed(c) /\ UNCHANGED <<handed, lock_tcpip_core, ousem, refused>>
      /\ SetTxConfig(c) \/ HAL_ETH_Transmit(c)
  BY DEF Transmit, TxInv, TypeOK, senderVars
<1>2. /\ TxTypeOK' /\ Listed(c)' /\ pc[c] \notin {"out", "sem"}
      /\ \E to : to \notin {"out", "sem"} /\ pc' = [pc EXCEPT ![c] = to]
  BY <1>1, TransmitTyped
<1>3. Locked' /\ Ousem' /\ \A d \in Callers : d # c => Listed(d)'
  BY <1>1, <1>2, StaysInside
<1>4. TypeOK'
  BY <1>1, <1>2 DEF TxInv, TypeOK
<1> QED
  BY <1>2, <1>3, <1>4 DEF TxInv

(* The caller takes the lock: nobody was in low_level_output.              *)
LEMMA OutputKeeps ==
  ASSUME TxInv, NEW c \in Callers, Output(c)
  PROVE  TxInv'
<1>1. /\ TxTypeOK /\ lock_tcpip_core = NoOne /\ lock_tcpip_core' = c
      /\ handed < MaxFrame /\ handed' = handed + 1 /\ UNCHANGED <<ousem, refused>>
  BY DEF TxInv, TypeOK, Output
<1>2. PICK n \in 1 .. MaxChain : Call(c, handed + 1, n, "sem")
  BY DEF Output
<1>3. /\ TxTypeOK' /\ pc[c] = "out" /\ pc' = [pc EXCEPT ![c] = "sem"]
      /\ Chain(handed + 1, n) # <<>> /\ handed + 1 \in 1 .. MaxFrame
      /\ pc'[c] = "sem" /\ rest'[c] = Chain(handed + 1, n) /\ frame'[c] = handed + 1
  BY <1>1, <1>2, CallTyped
<1>5. \A d \in Callers : pc[d] = "out" /\ (d # c => pc'[d] = "out")
  BY <1>1, <1>3, NoOneAssumption DEF TxInv, Locked, TxTypeOK
<1>7. TypeOK'
  BY <1>1, <1>3 DEF TxInv, TypeOK
<1>8. \A d \in Callers : Listed(d)'
  BY <1>3, <1>5 DEF Listed
<1>9. Locked'
  BY <1>1, <1>3, <1>5 DEF Locked
<1>10. Ousem'
  BY <1>1, <1>3, <1>5 DEF TxInv, Ousem, Inside
<1> QED
  BY <1>7, <1>8, <1>9, <1>10 DEF TxInv

(* ousem is taken for a chain that Txbuffer can list.                      *)
LEMMA ListChainKeeps ==
  ASSUME TxInv, NEW c \in Callers, ListChain(c)
  PROVE  TxInv'
<1>1. /\ pc[c] = "sem" /\ ousem = 1 /\ ousem' = 0
      /\ pc' = [pc EXCEPT ![c] = "config"]
      /\ Len(rest[c]) <= ETH_TX_DESC_CNT
      /\ UNCHANGED <<TxDesc, headVars, quietVars, localVars, lock_tcpip_core,
                     handed, refused>>
  BY DEF ListChain, TakeOusem, Goto
<1>2. TypeOK
  BY DEF TxInv
<1>3. \A d \in Callers : pc'[d] = IF d = c THEN "config" ELSE pc[d]
  BY <1>1, <1>2 DEF TypeOK, TxTypeOK
<1>4. \A d \in Callers : d # c => pc[d] = "out" /\ pc'[d] = "out"
  BY <1>1, <1>3, Alone
<1>5. TypeOK'
  BY <1>1, <1>2
  DEF TypeOK, TxTypeOK, headVars, quietVars, dmaVars, localVars
<1>6. Listed(c) /\ refused = {}
  BY <1>1, <1>4 DEF TxInv, Ousem, Inside
<1>7. \A d \in Callers : Listed(d)'
  BY <1>1, <1>3, <1>4, <1>6 DEF Listed, localVars, quietVars
<1>8. Locked'
  BY <1>1, <1>3 DEF TxInv, Locked
<1>9. Ousem'
  BY <1>1, <1>3, <1>6 DEF Ousem, Inside
<1> QED
  BY <1>5, <1>7, <1>8, <1>9 DEF TxInv

(* Both ways out: the caller returns, gives the lock back and leaves ousem *)
(* as Ousem says.                                                          *)
LEMMA LeavingKeeps ==
  ASSUME TxInv, NEW c \in Callers, NEW from \in {"sem", "done"},
         Return(c, from), lock_tcpip_core' = NoOne, UNCHANGED handed,
         refused' \in SUBSET (1 .. MaxFrame),
         ousem' = IF refused' = {} THEN 1 ELSE 0
  PROVE  TxInv'
<1>1. /\ TxTypeOK' /\ pc[c] = from /\ pc' = [pc EXCEPT ![c] = "out"]
      /\ pc'[c] = "out" /\ \A d \in Callers : d # c => pc'[d] = pc[d]
  BY ReturnTyped DEF TxInv, TypeOK
<1>3. \A d \in Callers : pc'[d] = "out"
  BY <1>1, Alone
<1>4. TypeOK'
  BY <1>1 DEF TypeOK
<1>5. \A d \in Callers : Listed(d)'
  BY <1>3 DEF Listed
<1>6. Locked'
  BY <1>3, NoOneAssumption DEF Locked
<1>7. Ousem'
  BY <1>3 DEF Ousem, Inside
<1> QED
  BY <1>4, <1>5, <1>6, <1>7 DEF TxInv

(* Every step keeps TxInv. *)
LEMMA TxInvStep == TxInv /\ [Next]_vars => TxInv'
<1> SUFFICES ASSUME TxInv, [Next]_vars PROVE TxInv'
  OBVIOUS
<1>1. CASE \E c \in Callers : Output(c)
  BY <1>1, OutputKeeps
<1>2. ASSUME NEW c \in Callers, low_level_output(c) PROVE TxInv'
  <2>1. CASE ListChain(c)
    BY <2>1, ListChainKeeps
  <2>2. CASE Transmit(c)
    BY <2>2, TransmitKeeps
  <2>3. CASE ChainTooLong(c)
    <3>1. /\ Return(c, "sem") /\ pc[c] = "sem" /\ ousem' = 0
          /\ lock_tcpip_core' = NoOne
          /\ refused' = refused \cup {frame[c]}
          /\ UNCHANGED handed
      BY <2>3 DEF ChainTooLong, TakeOusem
    <3>2. frame[c] \in 1 .. MaxFrame
      BY <3>1 DEF TxInv, Listed
    <3>3. refused' \in SUBSET (1 .. MaxFrame)
      BY <3>1, <3>2 DEF TxInv, TypeOK
    <3> QED
      BY <3>1, <3>3, LeavingKeeps
  <2>4. CASE Finish(c)
    <3>1. /\ Return(c, "done") /\ pc[c] = "done" /\ ousem' = 1
          /\ lock_tcpip_core' = NoOne
          /\ UNCHANGED <<handed, refused>>
      BY <2>4 DEF Finish, Return, Goto
    <3>2. frame[c] \in 1 .. MaxFrame
      BY <3>1 DEF TxInv, Listed
    <3>3. refused = {}
      BY <3>1 DEF TxInv, Ousem, Inside
    <3>4. refused' \in SUBSET (1 .. MaxFrame)
      BY <3>1, <3>2 DEF TxInv, TypeOK
    <3> QED
      BY <3>1, <3>3, <3>4, LeavingKeeps
  <2> QED
    BY <1>2, <2>1, <2>2, <2>3, <2>4 DEF low_level_output
<1>3. CASE Hardware
  BY <1>3, HardwareKeeps
<1>4. CASE UNCHANGED vars
  BY <1>4
  DEF vars, txVars, headVars, quietVars, dmaVars, localVars, senderVars,
      TxInv, TypeOK, TxTypeOK, Listed, Locked, Ousem, Inside
<1> QED
  BY <1>1, <1>2, <1>3, <1>4 DEF Next

(* TxInv holds in every state. *)
LEMMA TxInvAlways == Spec => []TxInv
BY TxInvInit, TxInvStep, PTL DEF Spec

(* Every variable keeps its type.  For the local variables that is more    *)
(* than it seems: ETH_Prepare_Tx_Descriptors never walks past the end of   *)
(* the buffer list nor counts more descriptors than the ring has, because  *)
(* low_level_output refuses a chain longer than the ring.                  *)
THEOREM TypeCorrect == Spec => []TypeOK
<1>1. TxInv => TypeOK
  BY DEF TxInv
<1> QED
  BY <1>1, TxInvAlways, PTL

(* The binary semaphore of low_level_output is up whenever nobody holds    *)
(* the core lock, unless a chain longer than Txbuffer has been refused.    *)
(* Whatever HAL_ETH_Transmit meets - a full ring, a timeout, a fault - is  *)
(* not a reason to lose it.                                                *)
THEOREM OusemSafe == Spec => []OusemReturned
<1>1. TxInv => OusemReturned
  <2> SUFFICES ASSUME TxInv, lock_tcpip_core = NoOne
               PROVE  ousem = IF refused = {} THEN 1 ELSE 0
    BY DEF OusemReturned
  <2>1. \A c \in Callers : pc[c] = "out"
    BY NoOneAssumption DEF TxInv, Locked
  <2> QED
    BY <2>1 DEF TxInv, Ousem, Inside
<1> QED
  BY <1>1, TxInvAlways, PTL

-----------------------------------------------------------------------------
(* EthTx: the ring.                                                        *)

(* The core lock gives a caller its turn.                                  *)
LEMMA LockHolderSolo ==
  ASSUME TxInv, NEW c \in Callers, pc[c] # "out" \/ lock_tcpip_core = NoOne
  PROVE  Solo(c) /\ \A d \in Callers : d # c => pc[d] = "out"
<1>1. \A d \in Callers : d # c => pc[d] = "out"
  BY NoOneAssumption DEF TxInv, Locked
<1>2. TxTypeOK /\ Listed(c)
  BY DEF TxInv, TypeOK
<1> QED
  BY <1>1, <1>2 DEF Solo, Aside

(* Frames leave in the order in which they were handed over.               *)
Before == {fg \in Int \X Int : fg[1] < fg[2]}

RingInv == Ring(Before)

(* The order of the frames has what the ring needs of it. *)
LEMMA BeforeOrders ==
  /\ \A f, g \in Int : f < g <=> <<f, g>> \in Before
  /\ \A g \in Nat : <<g, g>> \notin Before
BY DEF Before

(* A frame is handed over.                                                 *)
LEMMA OutputInStep ==
  ASSUME TxInv, RingInv, NEW c \in Callers, Output(c)
  PROVE  RingInv'
<1>1. PICK k \in 0 .. ETH_TX_DESC_CNT, r \in 0 .. ETH_TX_DESC_CNT :
        Position(k, r) /\ Contents(k, r, Before)
  BY DEF RingInv, Ring
<1>2. Solo(c) /\ \A d \in Callers : d # c => pc[d] = "out"
  BY LockHolderSolo DEF Output
<1>3. PICK n \in 1 .. MaxChain : Call(c, handed + 1, n, "sem")
  BY DEF Output
<1>4. \A d \in Callers : d # c /\ pc[d] \in Driving => <<handed + 1, frame[d]>> \in Before
  BY <1>2 DEF Driving, Preparing
<1>5. handed' = handed + 1
  BY DEF Output
<1>6. \A f, g \in Int : f < g => <<f, g>> \in Before
  BY BeforeOrders
<1>7. Ring(Before)'
  BY <1>1, <1>2, <1>3, <1>4, <1>5, <1>6, CallInStep
<1> QED
  BY <1>7 DEF RingInv

(* What happens in low_level_output before the descriptors are prepared.   *)
LEMMA ListChainInStep ==
  ASSUME TxInv, RingInv, NEW c \in Callers, ListChain(c)
  PROVE  RingInv'
<1>1. PICK k \in 0 .. ETH_TX_DESC_CNT, r \in 0 .. ETH_TX_DESC_CNT :
        Position(k, r) /\ Contents(k, r, Before)
  BY DEF RingInv, Ring
<1>2. /\ pc[c] = "sem"
      /\ pc' = [pc EXCEPT ![c] = "config"]
      /\ UNCHANGED <<TxDesc, CurTxDesc, DMACTDTPR, dma, dmaDesc, gather, wire,
                     frame, handed, abandoned, rest, dmatxdesc>>
  BY DEF ListChain, Goto, headVars, quietVars, dmaVars, localVars
<1>3. Solo(c)
  BY <1>2, LockHolderSolo
<1>4. Position(k, r)'
  BY <1>1, <1>2, <1>3, AtRest DEF Preparing
<1>5. PICK n \in 1 .. MaxChain : Makes(c, k, r, n)
  BY <1>1 DEF Contents, Chained
<1>6. rest'[c] = Chain(frame[c], n)
  BY <1>2, <1>5 DEF Makes
<1>7. Slots' = Slots
  BY <1>2, SlotsKept
<1>8. Steps(c, "config")
  BY <1>2 DEF Steps
<1>9. Ring(Before)'
  BY <1>1, <1>2, <1>3, <1>4, <1>6, <1>7, <1>8, DriverStep DEF Driving, Preparing
<1> QED
  BY <1>9 DEF RingInv

(* Every step keeps RingInv. *)
LEMMA RingInvStep == TxInv /\ RingInv /\ [Next]_vars => RingInv'
<1> SUFFICES ASSUME TxInv, RingInv, [Next]_vars PROVE RingInv'
  OBVIOUS
<1>1. TxTypeOK /\ Ring(Before)
  BY DEF TxInv, TypeOK, RingInv
<1>2. ASSUME NEW c \in Callers, Output(c) PROVE RingInv'
  BY <1>2, OutputInStep
<1>3. ASSUME NEW c \in Callers, ListChain(c) PROVE RingInv'
  BY <1>3, ListChainInStep
<1>4. ASSUME NEW c \in Callers, ChainTooLong(c) \/ Finish(c) PROVE RingInv'
  <2>1. UNCHANGED handed
    BY <1>4 DEF ChainTooLong, Finish
  <2>2. PICK from \in {"sem", "done"} : Return(c, from)
    BY <1>4 DEF ChainTooLong, Finish
  <2>3. pc[c] # "out"
    BY <2>2 DEF Return, Goto
  <2>4. Solo(c)
    BY <2>3, LockHolderSolo
  <2>5. PICK k \in 0 .. ETH_TX_DESC_CNT, r \in 0 .. ETH_TX_DESC_CNT :
          Position(k, r) /\ Contents(k, r, Before)
    BY <1>1 DEF Ring
  <2>6. Ring(Before)'
    BY <2>1, <2>2, <2>4, <2>5, ReturnInStep
  <2> QED
    BY <2>6 DEF RingInv
<1>5. ASSUME NEW c \in Callers, Transmit(c) PROVE RingInv'
  <2>1. UNCHANGED handed /\ (SetTxConfig(c) \/ HAL_ETH_Transmit(c))
    BY <1>5 DEF Transmit
  <2>2. pc[c] # "out"
    BY <1>1, <2>1, TransmitTyped DEF TxInv
  <2>3. Solo(c)
    BY <2>2, LockHolderSolo
  <2>4. \A g \in Nat : <<g, g>> \notin Before
    BY BeforeOrders
  <2>5. Ring(Before)'
    BY <1>1, <2>1, <2>3, <2>4, TransmitInStep
  <2> QED
    BY <2>5 DEF RingInv
<1>6. CASE Hardware
  <2>1. UNCHANGED handed /\ (TxDma \/ FaultIrq)
    BY <1>6 DEF Hardware
  <2>2. Ring(Before)'
    BY <1>1, <2>1, HardwareInStep
  <2> QED
    BY <2>2 DEF RingInv
<1>7. CASE UNCHANGED vars
  <2>1. UNCHANGED txVars /\ handed' \in {handed, handed + 1}
    BY <1>7 DEF vars
  <2>2. Ring(Before)'
    BY <1>1, <2>1, RingStutters
  <2> QED
    BY <2>2 DEF RingInv
<1> QED
  BY <1>2, <1>3, <1>4, <1>5, <1>6, <1>7 DEF Next, low_level_output

(* RingInv holds in every state. *)
LEMMA RingInvAlways == Spec => [](TxInv /\ RingInv)
<1>1. Init => TxInv /\ RingInv
  <2>1. Init => Ring(Before)
    BY RingStart DEF Init
  <2> QED
    BY <2>1, TxInvInit DEF RingInv
<1>2. TxInv /\ RingInv /\ [Next]_vars => (TxInv /\ RingInv)'
  BY TxInvStep, RingInvStep
<1> QED
  BY <1>1, <1>2, PTL DEF Spec

(* Every frame on the wire is a whole chain, and frames leave in the order *)
(* in which low_level_output got them, whatever was given up, refused or   *)
(* rolled back before.                                                     *)
THEOREM WireWhole == Spec => []FramesWhole
<1>1. TxInv /\ RingInv => FramesWhole
  <2> SUFFICES ASSUME TxInv, RingInv PROVE FramesWhole
    OBVIOUS
  <2>1. PICK k \in 0 .. ETH_TX_DESC_CNT, r \in 0 .. ETH_TX_DESC_CNT :
          Contents(k, r, Before)
    BY DEF RingInv, Ring
  <2>2. TxTypeOK /\ Sent(k, Before) /\ Committed(k, Before)
    BY <2>1 DEF TxInv, TypeOK, Contents
  <2>3. \A x \in DOMAIN wire : wire[x][1].frame \in Int
    BY <2>2, FrameNumbers
  <2>4. \A i, j \in DOMAIN wire : i < j => wire[i][1].frame < wire[j][1].frame
    BY <2>2, <2>3, BeforeOrders DEF Sent
  <2> QED
    BY <2>2, <2>4 DEF FramesWhole, Sent
<1> QED
  BY <1>1, RingInvAlways, PTL

(* With no call of HAL_ETH_Transmit under way CurTxDesc, the tail pointer  *)
(* and the OWN bits agree on what the DMA still has to send.               *)
THEOREM RingKept == Spec => []RingInStep
<1>1. TxInv /\ RingInv => RingInStep
  <2> SUFFICES ASSUME TxInv, RingInv, Idle PROVE RingInStep
    BY DEF RingInStep
  <2>1. TxTypeOK /\ Ring(Before)
    BY DEF TxInv, TypeOK, RingInv
  <2>2. \A c \in Callers : pc[c] \notin Preparing
    BY DEF Idle, Preparing
  <2> QED
    BY <2>1, <2>2, RingAgrees DEF RingInStep
<1> QED
  BY <1>1, RingInvAlways, PTL

(* The DMA never owns a descriptor that points into a chain which its      *)
(* caller has freed, but for those that the caller gave up waiting for.    *)
THEOREM BuffersKept == Spec => []BuffersLive
<1>1. TxInv /\ RingInv => BuffersLive
  BY RingLive DEF TxInv, TypeOK, RingInv
<1> QED
  BY <1>1, RingInvAlways, PTL

-----------------------------------------------------------------------------
(* EthTxBare: the main loop and the interrupt, until there is a clash.     *)

(* Two frames that leave are two frames; their order may not be that in    *)
(* which they were handed over, for the interrupt may overtake a main loop *)
(* that has not begun.                                                     *)
Differ == {fg \in Int \X Int : fg[1] # fg[2]}

(* While a frame of the interrupt is under way, the main loop is not       *)
(* preparing one of its own.                                               *)
Apart == pc["isr"] # "out" => ~ MainPrepares

BareInv ==
  /\ clash \in BOOLEAN
  /\ TxTypeOK
  /\ \A c \in Callers : Listed(c) /\ pc[c] # "sem"
  /\ ~ clash => Apart /\ Ring(Differ)

(* What the ring needs of Differ. *)
LEMMA DifferOrders ==
  /\ \A f, g \in Int : f # g <=> <<f, g>> \in Differ
  /\ \A g \in Nat : <<g, g>> \notin Differ
BY DEF Differ

(* It is the turn of the context that goes on, and there is no clash: the  *)
(* other has not begun, or waits for the DMA, or is not there.             *)
LEMMA BareSolo ==
  ASSUME BareContexts, BareInv, NEW c \in Callers, Runs(c),
         c = "isr" => ~ MainPrepares
  PROVE  Solo(c) /\ \A d \in Callers : d # c => pc[d] \in {"out", "config", "poll", "done"}
<1>1. \A d \in Callers : d # c => pc[d] \in {"out", "config", "poll", "done"}
  BY DEF BareContexts, Runs, MainPrepares
<1>2. TxTypeOK /\ Listed(c)
  BY DEF BareInv
<1> QED
  BY <1>1, <1>2 DEF Solo, Aside

(* At the start the ring is empty and nobody sends.                        *)
LEMMA BareInvInit == BareContexts /\ BareInit => BareInv
<1> SUFFICES ASSUME BareContexts, BareInit PROVE BareInv
  OBVIOUS
<1>1. TxInit /\ clash = FALSE
  BY DEF BareInit
<1>2. TxTypeOK /\ \A c \in Callers : Listed(c)
  BY <1>1, TxInitTyped
<1>3. \A c \in Callers : pc[c] = "out"
  BY <1>1 DEF TxInit
<1>4. Ring(Differ)
  BY <1>1, RingStart
<1>5. Apart
  BY <1>3 DEF BareContexts, Apart
<1> QED
  BY <1>1, <1>2, <1>3, <1>4, <1>5 DEF BareInv

(* A frame is handed over in either context.                               *)
LEMMA BareOutputKeeps ==
  ASSUME BareContexts, BareInv, NEW c \in Callers, BareOutput(c)
  PROVE  BareInv'
<1>1. /\ TxTypeOK /\ Runs(c) /\ handed < MaxFrame /\ handed' = handed + 1
      /\ clash' = (clash \/ (c = "isr" /\ MainPrepares))
      /\ \A d \in Callers : Listed(d) /\ pc[d] # "sem"
  BY DEF BareInv, BareOutput, HandOver
<1>2. PICK n \in 1 .. MaxChain : n <= ETH_TX_DESC_CNT /\ Call(c, handed + 1, n, "config")
  BY DEF BareOutput
<1>3. /\ TxTypeOK' /\ pc[c] = "out" /\ pc' = [pc EXCEPT ![c] = "config"]
      /\ rest' = [rest EXCEPT ![c] = Chain(handed + 1, n)]
      /\ frame' = [frame EXCEPT ![c] = handed + 1]
      /\ Chain(handed + 1, n) # <<>> /\ Len(Chain(handed + 1, n)) = n
      /\ handed + 1 \in 1 .. MaxFrame
      /\ pc'[c] = "config" /\ rest'[c] = Chain(handed + 1, n) /\ frame'[c] = handed + 1
  BY <1>1, <1>2, CallTyped
<1>4. UNCHANGED <<descnbr, TxConfig>>
  BY <1>2 DEF Call
<1>5. \A d \in Callers : d # c => /\ pc'[d] = pc[d] /\ rest'[d] = rest[d]
                                  /\ frame'[d] = frame[d]
  BY <1>1, <1>3 DEF TxTypeOK
<1>6. Listed(c)' /\ pc'[c] # "sem"
  BY <1>2, <1>3 DEF Listed
<1>7. \A d \in Callers : d # c => Listed(d)' /\ pc'[d] # "sem"
  BY <1>1, <1>4, <1>5 DEF Listed
<1>8. clash' \in BOOLEAN
  BY <1>1 DEF BareInv
<1>9. ASSUME ~ clash' PROVE Apart' /\ Ring(Differ)'
  <2>1. ~ clash /\ (c = "isr" => ~ MainPrepares)
    BY <1>1, <1>9
  <2>2. Solo(c) /\ \A d \in Callers : d # c => pc[d] \in {"out", "config", "poll", "done"}
    BY <1>1, <2>1, BareSolo
  <2>3. Apart'
    <3>1. ~ MainPrepares'
      BY <1>3, <1>5, <2>2 DEF BareContexts, MainPrepares
    <3> QED
      BY <3>1 DEF Apart
  <2>4. PICK k \in 0 .. ETH_TX_DESC_CNT, r \in 0 .. ETH_TX_DESC_CNT :
          Position(k, r) /\ Contents(k, r, Differ)
    BY <2>1 DEF BareInv, Ring
  <2>5. \A f, g \in Int : f < g => <<f, g>> \in Differ
    BY DifferOrders
  <2>6. \A d \in Callers : d # c /\ pc[d] \in Driving => <<handed + 1, frame[d]>> \in Differ
    <3> SUFFICES ASSUME NEW d \in Callers PROVE <<handed + 1, frame[d]>> \in Differ
      OBVIOUS
    <3>1. frame[d] <= handed
      BY <2>4 DEF Contents, Numbered
    <3>2. frame[d] \in Int /\ handed \in Int
      BY <1>1, TxAssumption DEF TxTypeOK
    <3>3. handed + 1 \in Int /\ handed + 1 # frame[d]
      BY <3>1, <3>2
    <3> QED
      BY <3>2, <3>3, DifferOrders
  <2>7. Ring(Differ)'
    BY <1>1, <1>2, <2>2, <2>4, <2>5, <2>6, CallInStep
  <2> QED
    BY <2>3, <2>7
<1> QED
  BY <1>3, <1>6, <1>7, <1>8, <1>9 DEF BareInv

(* A step of HAL_ETH_Transmit, or the return to the caller.                *)
LEMMA BareTransmitKeeps ==
  ASSUME BareContexts, BareInv, NEW c \in Callers, BareTransmit(c)
  PROVE  BareInv'
<1>1. /\ TxTypeOK /\ Runs(c) /\ UNCHANGED <<handed, clash>>
      /\ \A d \in Callers : Listed(d) /\ pc[d] # "sem"
      /\ clash' \in BOOLEAN
  BY DEF BareInv, BareTransmit
<1>2. CASE SetTxConfig(c) \/ HAL_ETH_Transmit(c)
  <2>1. /\ TxTypeOK' /\ Listed(c)' /\ pc[c] \notin {"out", "sem"}
        /\ \E to : to \notin {"out", "sem"} /\ pc' = [pc EXCEPT ![c] = to]
    BY <1>1, <1>2, TransmitTyped
  <2>2. PICK to : to \notin {"out", "sem"} /\ pc' = [pc EXCEPT ![c] = to]
    BY <2>1
  <2>3. pc'[c] = to /\ \A d \in Callers : d # c => pc'[d] = pc[d]
    BY <1>1, <2>2 DEF TxTypeOK
  <2>4. \A d \in Callers : d # c => Listed(d)'
    BY <1>1, <1>2, OthersListed
  <2>5. \A d \in Callers : pc'[d] # "sem"
    BY <1>1, <2>2, <2>3
  <2>6. ASSUME ~ clash' PROVE Apart' /\ Ring(Differ)'
    <3>1. ~ clash /\ Apart /\ Ring(Differ)
      BY <1>1, <2>6 DEF BareInv
    <3>2. c = "isr" => ~ MainPrepares
      BY <2>1, <3>1 DEF Apart
    <3>3. Solo(c)
      BY <1>1, <3>2, BareSolo
    <3>4. Apart'
      <4>1. CASE c = "isr"
        BY <2>3, <3>2, <4>1 DEF BareContexts, Apart, MainPrepares
      <4>2. CASE c = "main"
        BY <1>1, <2>3, <4>2 DEF BareContexts, Apart, Runs
      <4> QED
        BY <4>1, <4>2 DEF BareContexts
    <3>5. \A g \in Nat : <<g, g>> \notin Differ
      BY DifferOrders
    <3>6. Ring(Differ)'
      BY <1>1, <1>2, <3>1, <3>3, <3>5, TransmitInStep
    <3> QED
      BY <3>4, <3>6
  <2> QED
    BY <1>1, <2>1, <2>4, <2>5, <2>6 DEF BareInv
<1>3. CASE BareFinish(c)
  <2>1. Return(c, "done")
    BY <1>3 DEF BareFinish
  <2>2. /\ TxTypeOK' /\ pc[c] = "done" /\ pc'[c] = "out"
        /\ \A d \in Callers : d # c =>
             /\ pc'[d] = pc[d] /\ rest'[d] = rest[d] /\ descnbr'[d] = descnbr[d]
             /\ frame'[d] = frame[d]
        /\ UNCHANGED TxConfig
    BY <1>1, <2>1, ReturnTyped
  <2>3. \A d \in Callers : Listed(d)' /\ pc'[d] # "sem"
    <3>1. Listed(c)' /\ pc'[c] # "sem"
      BY <2>2 DEF Listed
    <3>2. \A d \in Callers : d # c => Listed(d)' /\ pc'[d] # "sem"
      BY <1>1, <2>2 DEF Listed
    <3> QED
      BY <3>1, <3>2
  <2>4. ASSUME ~ clash' PROVE Apart' /\ Ring(Differ)'
    <3>1. ~ clash /\ Apart /\ Ring(Differ)
      BY <1>1, <2>4 DEF BareInv
    <3>2. c = "isr" => ~ MainPrepares
      BY <2>2, <3>1 DEF Apart
    <3>3. Solo(c)
      BY <1>1, <3>2, BareSolo
    <3>4. Apart'
      <4>1. CASE c = "isr"
        BY <2>2, <4>1 DEF Apart
      <4>2. CASE c = "main"
        BY <1>1, <2>2, <4>2 DEF BareContexts, Apart, Runs
      <4> QED
        BY <4>1, <4>2 DEF BareContexts
    <3>5. PICK k \in 0 .. ETH_TX_DESC_CNT, r \in 0 .. ETH_TX_DESC_CNT :
            Position(k, r) /\ Contents(k, r, Differ)
      BY <3>1 DEF Ring
    <3>6. "done" \in {"sem", "done"}
      OBVIOUS
    <3>7. Ring(Differ)'
      BY <1>1, <2>1, <3>3, <3>5, <3>6, ReturnInStep
    <3> QED
      BY <3>4, <3>7
  <2> QED
    BY <1>1, <2>2, <2>3, <2>4 DEF BareInv
<1> QED
  BY <1>2, <1>3 DEF BareTransmit

(* Every step keeps BareInv. *)
LEMMA BareInvStep == BareContexts /\ BareInv /\ [BareNext]_bareVars => BareInv'
<1> SUFFICES ASSUME BareContexts, BareInv, [BareNext]_bareVars PROVE BareInv'
  OBVIOUS
<1>1. /\ TxTypeOK /\ clash \in BOOLEAN
      /\ \A c \in Callers : Listed(c) /\ pc[c] # "sem"
      /\ ~ clash => Apart /\ Ring(Differ)
  BY DEF BareInv
<1>2. CASE \E c \in Callers : BareOutput(c)
  BY <1>2, BareOutputKeeps
<1>3. CASE \E c \in Callers : BareTransmit(c)
  BY <1>3, BareTransmitKeeps
<1>4. ASSUME UNCHANGED <<txVars, clash>>, handed' \in {handed, handed + 1},
             handed' \in 0 .. MaxFrame
      PROVE  BareInv'
  <2>1. UNCHANGED <<pc, rest, descnbr, TxConfig, frame>>
    BY <1>4 DEF txVars, quietVars, localVars
  <2>2. TxTypeOK'
    BY <1>1, <1>4 DEF TxTypeOK, txVars, headVars, quietVars, dmaVars, localVars
  <2>3. \A c \in Callers : Listed(c)' /\ pc'[c] # "sem"
    BY <1>1, <2>1 DEF Listed
  <2>4. ASSUME ~ clash' PROVE Apart' /\ Ring(Differ)'
    <3>1. Apart /\ Ring(Differ)
      BY <1>1, <1>4, <2>4
    <3>2. Apart'
      BY <2>1, <3>1 DEF Apart, MainPrepares
    <3>3. Ring(Differ)'
      BY <1>1, <1>4, <3>1, RingStutters
    <3> QED
      BY <3>2, <3>3
  <2> QED
    BY <1>1, <1>4, <2>2, <2>3, <2>4 DEF BareInv
<1>5. CASE \E c \in Callers : BareChainTooLong(c)
  <2>1. UNCHANGED <<txVars, clash>> /\ handed < MaxFrame /\ handed' = handed + 1
    BY <1>5 DEF BareChainTooLong, HandOver
  <2>2. handed' \in 0 .. MaxFrame
    BY <1>1, <2>1, TxAssumption DEF TxTypeOK
  <2> QED
    BY <1>4, <2>1, <2>2
<1>6. CASE BareHardware
  <2>1. UNCHANGED <<handed, clash>> /\ (TxDma \/ FaultIrq)
    BY <1>6 DEF BareHardware
  <2>2. TxTypeOK' /\ UNCHANGED <<pc, rest, descnbr, TxConfig, frame>>
    BY <1>1, <2>1, HardwareTyped
  <2>3. \A c \in Callers : Listed(c)' /\ pc'[c] # "sem"
    BY <1>1, <2>2 DEF Listed
  <2>4. ASSUME ~ clash' PROVE Apart' /\ Ring(Differ)'
    <3>1. Apart /\ Ring(Differ)
      BY <1>1, <2>1, <2>4
    <3>2. Apart'
      BY <2>2, <3>1 DEF Apart, MainPrepares
    <3>3. Ring(Differ)'
      BY <1>1, <2>1, <3>1, HardwareInStep
    <3> QED
      BY <3>2, <3>3
  <2> QED
    BY <1>1, <2>1, <2>2, <2>3, <2>4 DEF BareInv
<1>7. CASE UNCHANGED bareVars
  <2>1. UNCHANGED <<txVars, clash>> /\ handed' = handed
    BY <1>7 DEF bareVars
  <2>2. handed' \in 0 .. MaxFrame
    BY <1>1, <2>1 DEF TxTypeOK
  <2> QED
    BY <1>4, <2>1, <2>2
<1> QED
  BY <1>2, <1>3, <1>5, <1>6, <1>7 DEF BareNext

(* BareInv holds in every state. *)
LEMMA BareInvAlways == ASSUME BareContexts PROVE BareSpec => []BareInv
<1>1. BareInit => BareInv
  BY BareInvInit
<1>2. BareInv /\ [BareNext]_bareVars => BareInv'
  BY BareInvStep
<1> QED
  BY <1>1, <1>2, PTL DEF BareSpec

(* Every variable keeps its type in the bare-metal firmware too, even when *)
(* the two contexts write to the same descriptors.                         *)
THEOREM BareTypeCorrect == ASSUME BareContexts PROVE BareSpec => []TxTypeOK
<1>1. BareInv => TxTypeOK
  BY DEF BareInv
<1>2. BareSpec => []BareInv
  BY BareInvAlways
<1> QED
  BY <1>1, <1>2, PTL

(* Until there is a clash, what the DMA puts on the wire are whole chains, *)
(* each once, although the interrupt may send at any other moment of a     *)
(* call that the main loop makes.                                          *)
THEOREM BareWireWhole == ASSUME BareContexts PROVE BareSpec => []BareFramesWhole
<1>1. BareInv => BareFramesWhole
  <2> SUFFICES ASSUME BareInv, ~ clash
               PROVE  /\ \A i \in DOMAIN wire : IsWhole(wire[i])
                      /\ \A i, j \in DOMAIN wire :
                           wire[i][1].frame = wire[j][1].frame => i = j
    BY DEF BareFramesWhole
  <2>1. PICK k \in 0 .. ETH_TX_DESC_CNT, r \in 0 .. ETH_TX_DESC_CNT :
          Contents(k, r, Differ)
    BY DEF BareInv, Ring
  <2>2. TxTypeOK /\ Sent(k, Differ) /\ Committed(k, Differ)
    BY <2>1 DEF BareInv, Contents
  <2>3. \A x \in DOMAIN wire : wire[x][1].frame \in Int /\ x \in Int
    <3>1. \A x \in DOMAIN wire : wire[x][1].frame \in Int
      BY <2>2, FrameNumbers
    <3>2. \A x \in DOMAIN wire : x \in Int
      BY <2>2 DEF TxTypeOK
    <3> QED
      BY <3>1, <3>2
  <2>4. ASSUME NEW i \in DOMAIN wire, NEW j \in DOMAIN wire,
               wire[i][1].frame = wire[j][1].frame
        PROVE  i = j
    <3>1. \A x, y \in DOMAIN wire : x < y => wire[x][1].frame # wire[y][1].frame
      BY <2>2, <2>3, DifferOrders DEF Sent
    <3>2. i \in Int /\ j \in Int /\ ~ (i < j) /\ ~ (j < i)
      BY <2>3, <2>4, <3>1
    <3> QED
      BY <3>2
  <2> QED
    BY <2>2, <2>4 DEF Sent
<1>2. BareSpec => []BareInv
  BY BareInvAlways
<1> QED
  BY <1>1, <1>2, PTL

(* Until there is a clash, the driver and the DMA agree on the ring when   *)
(* neither context is in low_level_output.                                 *)
THEOREM BareRingKept == ASSUME BareContexts PROVE BareSpec => []BareRingInStep
<1>1. BareInv => BareRingInStep
  <2> SUFFICES ASSUME BareInv, ~ clash, \A c \in Callers : pc[c] = "out"
               PROVE  BareRingInStep
    BY DEF BareRingInStep
  <2>1. TxTypeOK /\ Ring(Differ)
    BY DEF BareInv
  <2>2. \A c \in Callers : pc[c] \notin Preparing
    BY DEF Preparing
  <2> QED
    BY <2>1, <2>2, RingAgrees DEF BareRingInStep
<1>2. BareSpec => []BareInv
  BY BareInvAlways
<1> QED
  BY <1>1, <1>2, PTL

(* Until there is a clash, neither context frees the pbufs of a frame that *)
(* the DMA still has to read, unless it gave up waiting: the frames which  *)
(* the other context adds behind do not end the wait too soon.             *)
THEOREM BareBuffersKept == ASSUME BareContexts PROVE BareSpec => []BareBuffersLive
<1>1. BareInv => BareBuffersLive
  BY RingLive DEF BareInv, BareBuffersLive
<1>2. BareSpec => []BareInv
  BY BareInvAlways
<1> QED
  BY <1>1, <1>2, PTL
=============================================================================
