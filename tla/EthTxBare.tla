----------------------------- MODULE EthTxBare ------------------------------
(***************************************************************************)
(* The transmit path of the bare-metal firmware.  The stack runs in two    *)
(* contexts: the main loop (timers, connecting, the keys) and the Ethernet *)
(* interrupt (everything that a received frame leads to, replies           *)
(* included).  Both end in low_level_output, which takes no semaphore, and *)
(* the interrupt may come at any step of a call that the main loop makes.  *)
(***************************************************************************)
EXTENDS TxRing

(* The contexts that call HAL_ETH_Transmit. *)
BareContexts == Callers = {"main", "isr"}

VARIABLE
  clash    \* history: the interrupt has sent a frame while the main loop was
           \* between its write to TxConfig and the start of the DMA

bareVars == <<txVars, handed, clash>>

BareInit ==
  /\ TxInit
  /\ clash = FALSE

(* The interrupt runs to its end before the main loop goes on. *)
Runs(c) == c = "main" => pc["isr"] = "out"

MainPrepares == pc["main"] \notin {"out", "config", "poll", "done"}

(* The stack has a frame to send in c.  In the interrupt that may be at    *)
(* any time, when a frame has come in.                                     *)
HandOver(c) ==
  /\ Runs(c)
  /\ handed < MaxFrame
  /\ handed' = handed + 1

-----------------------------------------------------------------------------
(* low_level_output, called in c.                                          *)

BareOutput(c) ==
  /\ HandOver(c)
  /\ \E n \in 1 .. MaxChain :
       n <= ETH_TX_DESC_CNT /\ Call(c, handed + 1, n, "config")
  /\ clash' = (clash \/ (c = "isr" /\ MainPrepares))

(* The chain is longer than Txbuffer: ERR_IF. *)
BareChainTooLong(c) ==
  /\ HandOver(c)
  /\ MaxChain > ETH_TX_DESC_CNT
  /\ pc[c] = "out"
  /\ UNCHANGED <<txVars, clash>>

BareFinish(c) == Return(c, "done")

BareTransmit(c) ==
  /\ Runs(c)
  /\ SetTxConfig(c) \/ HAL_ETH_Transmit(c) \/ BareFinish(c)
  /\ UNCHANGED <<handed, clash>>

BareHardware == (TxDma \/ FaultIrq) /\ UNCHANGED <<handed, clash>>

BareNext ==
  \/ \E c \in Callers : BareOutput(c) \/ BareChainTooLong(c) \/ BareTransmit(c)
  \/ BareHardware

BareSpec == BareInit /\ [][BareNext]_bareVars

(* The processor and the DMA go on. *)
BareFairSpec ==
  BareSpec /\ WF_bareVars(\E c \in Callers : BareTransmit(c)) /\ WF_bareVars(BareHardware)

-----------------------------------------------------------------------------
(* Properties.                                                             *)

(* Until there is a clash, every frame on the wire is one chain, whole, and *)
(* none leaves twice: an interrupt that sends while the main loop waits for *)
(* the DMA, or has not begun, does no harm.                                 *)
BareFramesWhole ==
  ~ clash =>
    /\ \A i \in DOMAIN wire : IsWhole(wire[i])
    /\ \A i, j \in DOMAIN wire : wire[i][1].frame = wire[j][1].frame => i = j

(* Until there is a clash, between two calls the descriptors that the DMA  *)
(* owns are those between it and the next to use, where the tail pointer   *)
(* is.                                                                     *)
BareRingInStep ==
  (~ clash /\ \A c \in Callers : pc[c] = "out") =>
    /\ \E k \in 0 .. ETH_TX_DESC_CNT :
         /\ Owned = From(dmaDesc, k)
         /\ CurTxDesc = INCR_TX_DESC_INDEX(dmaDesc, k)
    /\ DMACTDTPR = CurTxDesc

(* Until there is a clash, the pbufs of a frame are freed, in either       *)
(* context, only when the DMA has read them all: a call that waits for its *)
(* last descriptor is not misled by the frames that the other context puts *)
(* behind its own.                                                         *)
BareBuffersLive == ~ clash => BuffersLive

(* Every call returns, in the interrupt and in the main loop, unless there *)
(* is a clash, or the interrupt's frame fills up the ring behind the frame *)
(* that the main loop waits for (the tail pointer is then level with the   *)
(* DMA, which stands still): the DMA closes the descriptor or reports a    *)
(* fault, although the timeout of HAL_ETH_Transmit never comes.            *)
ReturnsUnlessClash ==
  \A c \in Callers :
    pc[c] # "out" ~>
      (pc[c] = "out" \/ clash \/ \A d \in Desc : TxDesc[d].own)

=============================================================================
