------------------------------- MODULE TxRing -------------------------------
(***************************************************************************)
(* Transmission by the STM32H7 Ethernet HAL: the descriptor ring that the  *)
(* driver fills and the DMA engine empties, and HAL_ETH_Transmit, which    *)
(* waits until the DMA has given the last descriptor of the frame back.    *)
(* EthTx (FreeRTOS firmware) and EthTxBare (bare-metal firmware) extend    *)
(* it: they say which Callers there are and when they run.                 *)
(*                                                                         *)
(* A frame is a sequence of buffers, one for each pbuf of the chain; a     *)
(* buffer is the number of its frame, its place in it, and how many there  *)
(* are.  A step of HAL_ETH_Transmit is one access to what it shares with   *)
(* the DMA, the interrupt and other calls of itself.                       *)
(***************************************************************************)
EXTENDS Naturals, Sequences

CONSTANTS
  Callers,          \* the contexts that call HAL_ETH_Transmit
  ETH_TX_DESC_CNT,  \* descriptors of the ring, 4 in stm32h7xx_hal_conf.h
  MaxFrame,         \* bound: frames handed over in a behaviour
  MaxChain,         \* bound: pbufs in a chain
  CanTimeOut,       \* HAL_GetTick counts, and the DMA may take longer than
                    \* ETH_DMA_TRANSMIT_TIMEOUT
  CanFault          \* the DMA may meet a fatal bus error

ASSUME TxAssumption ==
  /\ ETH_TX_DESC_CNT \in Nat \ {0, 1}
  /\ MaxFrame \in Nat
  /\ MaxChain \in Nat \ {0}
  /\ CanTimeOut \in BOOLEAN
  /\ CanFault \in BOOLEAN

VARIABLES
  TxDesc,        \* the descriptors: OWN, FD, LD and the one or two buffers
  CurTxDesc,     \* TxDescList.CurTxDesc: next descriptor to use
  DMACTDTPR,     \* tail pointer: the DMA stops in front of this descriptor
  gState,        \* state of the HAL handle
  dma,           \* what the DMA does
  dmaDesc,       \* the descriptor it is at
  gather,        \* buffers of the frame that it has read so far
  wire,          \* history: the frames it has sent
  FBE,           \* DMACSR.FBE: a fatal bus error, never cleared
  irqEnabled,    \* DMACIER.NIE and AIE
  handed,        \* history: number of the last frame handed over
  frame,         \* history: the frame that each caller is sending, or 0
  TxConfig,      \* the chain TxConfig.TxBuffer points to
  abandoned,     \* history: frames whose caller stopped waiting for the DMA
  pc,            \* where each caller is in HAL_ETH_Transmit
  rest,          \* its Txbuffer list, from the buffer it has come to
  descidx,       \* local variable of ETH_Prepare_Tx_Descriptors
  firstdescidx,  \* the same
  descnbr,       \* the same
  dmatxdesc      \* the descriptor HAL_ETH_Transmit waits for

dmaVars   == <<dma, dmaDesc, gather, wire, FBE>>
localVars == <<rest, descidx, firstdescidx, descnbr, dmatxdesc>>
headVars  == <<CurTxDesc, DMACTDTPR, gState>>
quietVars == <<dmaVars, irqEnabled, TxConfig, frame, abandoned>>
txVars    == <<TxDesc, headVars, quietVars, pc, localVars>>

Desc   == 0 .. ETH_TX_DESC_CNT - 1
Buffer == [frame : 1 .. MaxFrame, part : 1 .. MaxChain, of : 1 .. MaxChain]

TxDescriptor == [own : BOOLEAN, FD : BOOLEAN, LD : BOOLEAN, bufs : Seq(Buffer)]

(* The pbuf chain of frame f, n pbufs long, as low_level_output lists it.  *)
Chain(f, n) == [i \in 1 .. n |-> [frame |-> f, part |-> i, of |-> n]]

TxTypeOK ==
  /\ TxDesc \in [Desc -> TxDescriptor]
  /\ CurTxDesc \in Desc
  /\ DMACTDTPR \in Desc
  /\ gState \in {"READY", "ERROR"}
  /\ dma \in {"suspended", "running", "reading", "stopped"}
  /\ dmaDesc \in Desc
  /\ gather \in Seq(Buffer)
  /\ wire \in Seq(Seq(Buffer))
  /\ FBE \in BOOLEAN
  /\ irqEnabled \in BOOLEAN
  /\ handed \in 0 .. MaxFrame
  /\ frame \in [Callers -> 0 .. MaxFrame]
  /\ TxConfig \in Seq(Buffer)
  /\ abandoned \in SUBSET (1 .. MaxFrame)
  /\ pc \in [Callers -> {"out", "sem", "config", "begin", "fill", "own",
                         "more", "rollback", "last", "advance", "start",
                         "poll", "done"}]
  /\ rest \in [Callers -> Seq(Buffer)]
  /\ descidx \in [Callers -> Desc]
  /\ firstdescidx \in [Callers -> Desc]
  /\ descnbr \in [Callers -> 0 .. ETH_TX_DESC_CNT]
  /\ dmatxdesc \in [Callers -> Desc]

(* ETH_DMATxDescListInit, and HAL_ETH_Start_IT. *)
TxInit ==
  /\ TxDesc = [d \in Desc |->
                 [own |-> FALSE, FD |-> FALSE, LD |-> FALSE, bufs |-> <<>>]]
  /\ CurTxDesc = 0
  /\ DMACTDTPR = 0
  /\ gState = "READY"
  /\ dma = "suspended"
  /\ dmaDesc = 0
  /\ gather = <<>>
  /\ wire = <<>>
  /\ FBE = FALSE
  /\ irqEnabled = TRUE
  /\ handed = 0
  /\ frame = [c \in Callers |-> 0]
  /\ TxConfig = <<>>
  /\ abandoned = {}
  /\ pc = [c \in Callers |-> "out"]
  /\ rest = [c \in Callers |-> <<>>]
  /\ descidx = [c \in Callers |-> 0]
  /\ firstdescidx = [c \in Callers |-> 0]
  /\ descnbr = [c \in Callers |-> 0]
  /\ dmatxdesc = [c \in Callers |-> 0]

INCR_TX_DESC_INDEX(inx, offset) ==
  IF inx + offset >= ETH_TX_DESC_CNT
  THEN inx + offset - ETH_TX_DESC_CNT
  ELSE inx + offset

Goto(c, from, to) == pc[c] = from /\ pc' = [pc EXCEPT ![c] = to]

-----------------------------------------------------------------------------
(* The DMA engine and the error interrupt.                                 *)

(* It goes to sleep at the tail pointer and at a descriptor not its own. *)
DmaSuspend ==
  /\ dma = "running"
  /\ dmaDesc = DMACTDTPR \/ ~ TxDesc[dmaDesc].own
  /\ dma' = "suspended"
  /\ UNCHANGED <<dmaDesc, gather, wire, FBE>>

(* FD starts a frame; without it the descriptor goes on with the frame     *)
(* begun before, and sends nothing if there is none.                       *)
DmaFetch ==
  /\ dma = "running"
  /\ dmaDesc # DMACTDTPR
  /\ TxDesc[dmaDesc].own
  /\ dma' = "reading"
  /\ gather' = IF TxDesc[dmaDesc].FD THEN TxDesc[dmaDesc].bufs
               ELSE IF gather = <<>> THEN <<>>
               ELSE gather \o TxDesc[dmaDesc].bufs
  /\ UNCHANGED <<dmaDesc, wire, FBE>>

(* Closes the descriptor; LD ends the frame, which is then on the wire. *)
DmaClose ==
  /\ dma = "reading"
  /\ dma' = "running"
  /\ TxDesc' = [TxDesc EXCEPT ![dmaDesc].own = FALSE]
  /\ dmaDesc' = INCR_TX_DESC_INDEX(dmaDesc, 1)
  /\ IF TxDesc[dmaDesc].LD /\ gather # <<>>
     THEN wire' = Append(wire, gather) /\ gather' = <<>>
     ELSE UNCHANGED <<wire, gather>>
  /\ UNCHANGED FBE

DmaFault ==
  /\ CanFault
  /\ dma = "reading"
  /\ dma' = "stopped"
  /\ FBE' = TRUE
  /\ UNCHANGED <<dmaDesc, gather, wire>>

TxDma ==
  /\ \/ DmaClose
     \/ (DmaSuspend \/ DmaFetch \/ DmaFault) /\ UNCHANGED TxDesc
  /\ UNCHANGED <<headVars, irqEnabled, TxConfig, frame, abandoned, pc, localVars>>

(* HAL_ETH_IRQHandler on a fatal bus error: no interrupt any more. *)
FaultIrq ==
  /\ FBE
  /\ irqEnabled
  /\ irqEnabled' = FALSE
  /\ gState' = "ERROR"
  /\ UNCHANGED <<TxDesc, CurTxDesc, DMACTDTPR, dmaVars, TxConfig, frame, abandoned,
                 pc, localVars>>

-----------------------------------------------------------------------------
(* low_level_output, the part that both firmwares share.                   *)

(* c sends frame f, a chain of n pbufs. *)
Call(c, f, n, to) ==
  /\ Goto(c, "out", to)
  /\ frame' = [frame EXCEPT ![c] = f]
  /\ rest' = [rest EXCEPT ![c] = Chain(f, n)]
  /\ UNCHANGED <<TxDesc, headVars, dmaVars, irqEnabled, TxConfig, abandoned,
                 descidx, firstdescidx, descnbr, dmatxdesc>>

(* TxConfig, a global, gets the address of c's Txbuffer. *)
SetTxConfig(c) ==
  /\ Goto(c, "config", "begin")
  /\ TxConfig' = rest[c]
  /\ UNCHANGED <<TxDesc, headVars, dmaVars, irqEnabled, frame, abandoned,
                 localVars>>

(* c returns, and its local variables with it; the caller frees the pbufs. *)
Return(c, from) ==
  /\ Goto(c, from, "out")
  /\ frame' = [frame EXCEPT ![c] = 0]
  /\ rest' = [rest EXCEPT ![c] = <<>>]
  /\ descidx' = [descidx EXCEPT ![c] = 0]
  /\ firstdescidx' = [firstdescidx EXCEPT ![c] = 0]
  /\ descnbr' = [descnbr EXCEPT ![c] = 0]
  /\ dmatxdesc' = [dmatxdesc EXCEPT ![c] = 0]
  /\ UNCHANGED <<TxDesc, headVars, dmaVars, irqEnabled, TxConfig, abandoned>>

-----------------------------------------------------------------------------
(* ETH_Prepare_Tx_Descriptors, called by c.                                *)

(* HAL_ETH_Transmit does nothing if the handle is in error, nor if the     *)
(* current descriptor is still the DMA's.                                  *)
Begin(c) ==
  /\ IF gState = "READY" /\ ~ TxDesc[CurTxDesc].own
     THEN /\ Goto(c, "begin", "fill")
          /\ descidx' = [descidx EXCEPT ![c] = CurTxDesc]
          /\ firstdescidx' = [firstdescidx EXCEPT ![c] = CurTxDesc]
          /\ descnbr' = [descnbr EXCEPT ![c] = 0]
          /\ rest' = [rest EXCEPT ![c] = TxConfig]
          /\ UNCHANGED dmatxdesc
     ELSE /\ Goto(c, "begin", "done")
          /\ UNCHANGED localVars
  /\ UNCHANGED <<TxDesc, headVars, quietVars>>

(* One or two buffers; FD is set in the first descriptor. *)
Fill(c) ==
  LET n == IF Len(rest[c]) > 1 THEN 2 ELSE 1 IN
  /\ Goto(c, "fill", "own")
  /\ TxDesc' = [TxDesc EXCEPT
                  ![descidx[c]].bufs = SubSeq(rest[c], 1, n),
                  ![descidx[c]].FD = descnbr[c] = 0 \/ @]
  /\ rest' = [rest EXCEPT ![c] = SubSeq(@, n + 1, Len(@))]
  /\ descnbr' = [descnbr EXCEPT ![c] = @ + 1]
  /\ UNCHANGED <<headVars, quietVars, descidx, firstdescidx, dmatxdesc>>

SetOwn(c) ==
  /\ Goto(c, "own", IF rest[c] = <<>> THEN "last" ELSE "more")
  /\ TxDesc' = [TxDesc EXCEPT ![descidx[c]].own = TRUE]
  /\ UNCHANGED <<headVars, quietVars, localVars>>

(* Mutant of More: LD keeps its old value in the descriptor before. *)
MoreStaleLD(c) ==
  LET next == INCR_TX_DESC_INDEX(descidx[c], 1) IN
  /\ IF TxDesc[next].own
     THEN /\ Goto(c, "more", "rollback")
          /\ descidx' = [descidx EXCEPT ![c] = firstdescidx[c]]
     ELSE /\ Goto(c, "more", "fill")
          /\ descidx' = [descidx EXCEPT ![c] = next]
  /\ TxDesc' = [TxDesc EXCEPT ![next].FD = FALSE]
  /\ UNCHANGED <<headVars, quietVars, rest, firstdescidx, descnbr, dmatxdesc>>

(* The frame goes on in the next descriptor, if it is not the DMA's. *)
More(c) ==
  LET next == INCR_TX_DESC_INDEX(descidx[c], 1) IN
  /\ IF TxDesc[next].own
     THEN /\ Goto(c, "more", "rollback")
          /\ descidx' = [descidx EXCEPT ![c] = firstdescidx[c]]
     ELSE /\ Goto(c, "more", "fill")
          /\ descidx' = [descidx EXCEPT ![c] = next]
  /\ TxDesc' = [TxDesc EXCEPT ![descidx[c]].LD = FALSE, ![next].FD = FALSE]
  /\ UNCHANGED <<headVars, quietVars, rest, firstdescidx, descnbr, dmatxdesc>>

(* Mutant of Rollback: the first descriptor stays marked. *)
RollbackSkipsFirst(c) ==
  /\ Goto(c, "rollback", IF descnbr[c] = 1 THEN "done" ELSE "rollback")
  /\ TxDesc' = [TxDesc EXCEPT ![descidx[c]].own =
                  @ /\ descidx[c] = firstdescidx[c]]
  /\ descidx' = [descidx EXCEPT ![c] = INCR_TX_DESC_INDEX(@, 1)]
  /\ descnbr' = [descnbr EXCEPT ![c] = @ - 1]
  /\ UNCHANGED <<headVars, quietVars, rest, firstdescidx, dmatxdesc>>

(* The ring is full: take back, one by one, the descriptors marked. *)
Rollback(c) ==
  /\ Goto(c, "rollback", IF descnbr[c] = 1 THEN "done" ELSE "rollback")
  /\ TxDesc' = [TxDesc EXCEPT ![descidx[c]].own = FALSE]
  /\ descidx' = [descidx EXCEPT ![c] = INCR_TX_DESC_INDEX(@, 1)]
  /\ descnbr' = [descnbr EXCEPT ![c] = @ - 1]
  /\ UNCHANGED <<headVars, quietVars, rest, firstdescidx, dmatxdesc>>

(* Mutant of SetLast: CurTxDesc keeps the frame's first descriptor. *)
SetLastKeepsCur(c) ==
  /\ Goto(c, "last", "advance")
  /\ TxDesc' = [TxDesc EXCEPT ![descidx[c]].LD = TRUE]
  /\ UNCHANGED <<headVars, quietVars, localVars>>

SetLast(c) ==
  /\ Goto(c, "last", "advance")
  /\ TxDesc' = [TxDesc EXCEPT ![descidx[c]].LD = TRUE]
  /\ CurTxDesc' = descidx[c]
  /\ UNCHANGED <<DMACTDTPR, gState, quietVars, localVars>>

-----------------------------------------------------------------------------
(* The rest of HAL_ETH_Transmit.                                           *)

Advance(c) ==
  /\ Goto(c, "advance", "start")
  /\ dmatxdesc' = [dmatxdesc EXCEPT ![c] = CurTxDesc]
  /\ CurTxDesc' = INCR_TX_DESC_INDEX(CurTxDesc, 1)
  /\ UNCHANGED <<TxDesc, DMACTDTPR, gState, quietVars, rest, descidx,
                 firstdescidx, descnbr>>

(* Mutant of Start: the tail pointer is the frame's last descriptor. *)
StartAtLast(c) ==
  /\ Goto(c, "start", "poll")
  /\ DMACTDTPR' = dmatxdesc[c]
  /\ dma' = IF dma = "suspended" THEN "running" ELSE dma
  /\ UNCHANGED <<TxDesc, CurTxDesc, gState, dmaDesc, gather, wire, FBE,
                 irqEnabled, TxConfig, frame, abandoned, localVars>>

(* The write of the tail pointer wakes the DMA. *)
Start(c) ==
  /\ Goto(c, "start", "poll")
  /\ DMACTDTPR' = CurTxDesc
  /\ dma' = IF dma = "suspended" THEN "running" ELSE dma
  /\ UNCHANGED <<TxDesc, CurTxDesc, gState, dmaDesc, gather, wire, FBE,
                 irqEnabled, TxConfig, frame, abandoned, localVars>>

PollDone(c) ==
  /\ ~ TxDesc[dmatxdesc[c]].own
  /\ Goto(c, "poll", "done")
  /\ gState' = "READY"
  /\ UNCHANGED <<TxDesc, CurTxDesc, DMACTDTPR, quietVars, localVars>>

(* HAL_ETH_Transmit gives up; the descriptors stay with the DMA. *)
Abandon(c) ==
  /\ Goto(c, "poll", "done")
  /\ abandoned' = abandoned \cup {frame[c]}
  /\ UNCHANGED <<TxDesc, CurTxDesc, DMACTDTPR, dmaVars, irqEnabled, TxConfig,
                 frame, localVars>>

PollFault(c) ==
  /\ TxDesc[dmatxdesc[c]].own
  /\ FBE
  /\ Abandon(c)
  /\ gState' = "ERROR"

PollTimeout(c) ==
  /\ CanTimeOut
  /\ TxDesc[dmatxdesc[c]].own
  /\ ~ FBE
  /\ Abandon(c)
  /\ gState' = "READY"

(* Mutant of Poll: HAL_ETH_Transmit returns without waiting. *)
PollNever(c) ==
  /\ Goto(c, "poll", "done")
  /\ gState' = "READY"
  /\ UNCHANGED <<TxDesc, CurTxDesc, DMACTDTPR, quietVars, localVars>>

Poll(c) == PollDone(c) \/ PollFault(c) \/ PollTimeout(c)

HAL_ETH_Transmit(c) ==
  \/ Begin(c) \/ Fill(c) \/ SetOwn(c) \/ More(c) \/ Rollback(c) \/ SetLast(c)
  \/ Advance(c) \/ Start(c) \/ Poll(c)

-----------------------------------------------------------------------------
(* Whether a frame on the wire is a chain from its first to its last pbuf. *)
IsWhole(w) == w # <<>> /\ w = Chain(w[1].frame, w[1].of)

(* The first n descriptors from d. *)
From(d, n) == {INCR_TX_DESC_INDEX(d, k) : k \in {i \in Desc : i < n}}

Owned == {d \in Desc : TxDesc[d].own}

(* The DMA reads no buffer whose pbuf has been freed, unless the caller    *)
(* gave up waiting for its frame.                                          *)
BuffersLive ==
  \A d \in Owned : \A i \in DOMAIN TxDesc[d].bufs :
    TxDesc[d].bufs[i].frame \in
      abandoned \cup {frame[c] : c \in Callers}
=============================================================================
