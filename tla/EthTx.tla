------------------------------- MODULE EthTx --------------------------------
(***************************************************************************)
(* The transmit path of the FreeRTOS firmware.  The stack calls            *)
(* low_level_output with its core lock held: from the tcpip thread, or     *)
(* from an application inside an API call.  low_level_output takes the     *)
(* semaphore ousem, lists the pbufs of the chain, calls HAL_ETH_Transmit,  *)
(* ignores what it returns, and gives the semaphore back.                  *)
(***************************************************************************)
EXTENDS TxRing

CONSTANT NoOne  \* nobody holds the core lock

ASSUME NoOneAssumption == NoOne \notin Callers

VARIABLES
  lock_tcpip_core,  \* holder of the stack's mutex
  ousem,            \* count of low_level_output's binary semaphore
  refused           \* history: frames for which ERR_IF was returned

senderVars == <<lock_tcpip_core, ousem>>
vars == <<txVars, handed, senderVars, refused>>

TypeOK ==
  /\ TxTypeOK
  /\ lock_tcpip_core \in Callers \cup {NoOne}
  /\ ousem \in {0, 1}
  /\ refused \in SUBSET (1 .. MaxFrame)

(* ousem has been created and signalled once. *)
Init ==
  /\ TxInit
  /\ lock_tcpip_core = NoOne
  /\ ousem = 1
  /\ refused = {}

-----------------------------------------------------------------------------
(* low_level_output, called by c.                                          *)

(* The caller locks the stack and has a frame of n pbufs to send. *)
Output(c) ==
  /\ lock_tcpip_core = NoOne
  /\ handed < MaxFrame
  /\ \E n \in 1 .. MaxChain : Call(c, handed + 1, n, "sem")
  /\ lock_tcpip_core' = c
  /\ handed' = handed + 1
  /\ UNCHANGED <<ousem, refused>>

(* sys_sem_wait. *)
TakeOusem(c) ==
  /\ pc[c] = "sem"
  /\ ousem = 1
  /\ ousem' = 0

(* Txbuffer has an entry for each pbuf. *)
ListChain(c) ==
  /\ TakeOusem(c)
  /\ Len(rest[c]) <= ETH_TX_DESC_CNT
  /\ Goto(c, "sem", "config")
  /\ UNCHANGED <<TxDesc, headVars, quietVars, localVars, lock_tcpip_core,
                 handed, refused>>

(* The chain is longer than Txbuffer: ERR_IF, and ousem is not signalled. *)
ChainTooLong(c) ==
  /\ TakeOusem(c)
  /\ Len(rest[c]) > ETH_TX_DESC_CNT
  /\ Return(c, "sem")
  /\ lock_tcpip_core' = NoOne
  /\ refused' = refused \cup {frame[c]}
  /\ UNCHANGED handed

Transmit(c) ==
  /\ SetTxConfig(c) \/ HAL_ETH_Transmit(c)
  /\ UNCHANGED <<senderVars, handed, refused>>

(* Mutant of Finish: ousem is signalled after a success only. *)
FinishIfSent(c) ==
  /\ Return(c, "done")
  /\ ousem' = IF frame[c] \in abandoned THEN ousem ELSE 1
  /\ lock_tcpip_core' = NoOne
  /\ UNCHANGED <<handed, refused>>

(* sys_sem_signal and ERR_OK, whatever HAL_ETH_Transmit returned. *)
Finish(c) ==
  /\ Return(c, "done")
  /\ ousem' = 1
  /\ lock_tcpip_core' = NoOne
  /\ UNCHANGED <<handed, refused>>

low_level_output(c) ==
  ListChain(c) \/ ChainTooLong(c) \/ Transmit(c) \/ Finish(c)

Hardware ==
  /\ TxDma \/ FaultIrq
  /\ UNCHANGED <<senderVars, handed, refused>>

Next == (\E c \in Callers : Output(c) \/ low_level_output(c)) \/ Hardware

Spec == Init /\ [][Next]_vars

(* A caller that can go on does, and so does the hardware: the thread that *)
(* holds the core lock inherits the priority of those that wait for it.    *)
Fairness ==
  /\ \A c \in Callers : WF_vars(low_level_output(c))
  /\ WF_vars(Hardware)

FairSpec == Spec /\ Fairness

-----------------------------------------------------------------------------
(* Properties.                                                             *)

(* Every frame that the DMA puts on the wire is one chain, whole, and the  *)
(* frames leave in the order in which they were handed over: no descriptor *)
(* of a frame given up, refused or rolled back gets mixed with another's.  *)
FramesWhole ==
  /\ \A i \in DOMAIN wire : IsWhole(wire[i])
  /\ \A i, j \in DOMAIN wire : i < j => wire[i][1].frame < wire[j][1].frame

Idle == \A c \in Callers : pc[c] \in {"out", "sem"}

(* Between two calls driver and DMA agree on the ring: the descriptors the *)
(* DMA still owns are those in front of it up to the next to use, where    *)
(* the tail pointer points.  No error path leaves a descriptor marked.     *)
RingInStep ==
  Idle =>
    /\ \E k \in 0 .. ETH_TX_DESC_CNT :
         /\ Owned = From(dmaDesc, k)
         /\ CurTxDesc = INCR_TX_DESC_INDEX(dmaDesc, k)
    /\ DMACTDTPR = CurTxDesc

(* With nobody in low_level_output ousem is up, unless a chain was longer  *)
(* than Txbuffer.                                                          *)
OusemReturned ==
  lock_tcpip_core = NoOne => ousem = (IF refused = {} THEN 1 ELSE 0)

(* Every call returns, whatever the DMA does, until a chain longer than    *)
(* Txbuffer has taken ousem away.                                          *)
OutputReturns ==
  \A c \in Callers : pc[c] = "sem" ~> (pc[c] = "out" \/ refused # {})

=============================================================================
