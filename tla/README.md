# TLA+ verification of stm32h7_lwip

The repository holds two firmwares for an STM32H743 board with a LAN8720A PHY
that run lwIP 2.1.2: one on FreeRTOS v9.0.0 (`User/fw_lwip_freertos`, netconn and
socket applications) and one without an operating system
(`User/fw_lwip_baremental`, raw API). About 5000 lines under `User/` are the
program's own; `Library/` is vendored (CMSIS, ST's HAL, FreeRTOS, lwIP) and
`Project/` is a Keil build. There are no tests.

This directory models what these firmwares get right or wrong over time: the
paths of a frame between the DMA engine, the interrupt and the stack; the bring-up of
the link with its delays; and the applications over lwIP's connections, whose life is
shared by tasks, interrupt and main loop. Modules are model-checked with TLC and, where noted, proved with TLAPS.

Contents: [1 Inventory](#1-inventory), [2 Modules](#2-modules-and-the-code),
[3 Runs](#3-runs), [4 Proofs](#4-proofs), [5 What the checks
show](#5-what-the-checks-show), [6 Limits](#6-assumptions-and-limits),
[7 Not modelled, and what could follow](#7-not-modelled-and-what-could-follow).

Paths below are relative to the repository; `HAL` stands for
`Library/STM32H7xx_HAL_Driver/Src/stm32h7xx_hal_eth.c` and other HAL files.
The first-party source files are in GB18030.

## 1 Inventory

| Component | State it keeps | Operations | Interacts with |
|---|---|---|---|
| Receive ring (`HAL`) | 4 descriptors (OWN, buffer), `CurRxDesc`, `FirstAppDesc`, `AppDescNbr`, `DMACSR.RI` | `HAL_ETH_IsRxDataAvailable`, `HAL_ETH_GetRxDataBuffer`, `HAL_ETH_BuildRxDescriptors`, `HAL_ETH_IRQHandler` | DMA (shared memory), interrupt, `ethernetif.c` |
| FreeRTOS receive path (`ethernetif.c`, `LAN8720a.c`, `tcpip.c`) | `s_xSemaphore`, the ETHIN task, `RX_POOL`, `tcpip_mbox`, receive mailboxes | `ETH_IRQHandler`, `ethernetif_input`, `low_level_input`, `pbuf_free_custom`, `tcpip_inpkt`, `tcpip_thread` | ring; interrupt gives the semaphore; mailbox to the tcpip thread; free callback |
| Semaphore between interrupt and task (`queue.c`) | count, `cTxLock`, event list | `xQueueGiveFromISR`, `xQueueGenericReceive` | the interrupt of priority 1 runs inside critical sections |
| Bare-metal receive path | the handler, `RX_POOL`, reassembly list | `ETH_IRQHandler` with `ethernetif_input` and the whole stack in it | ring; main loop's timers |
| Transmit ring (`HAL`) | 4 descriptors, `CurTxDesc`, `DMACTDTPR`, `gState`, `DMACSR.FBE` | `HAL_ETH_Transmit`, `ETH_Prepare_Tx_Descriptors`, error interrupt | DMA, callers |
| FreeRTOS transmit path | `ousem`, the core lock, `TxConfig` | `low_level_output` | tcpip thread and applications under the core lock |
| Bare-metal transmit path | `TxConfig` | `low_level_output` | main loop and interrupt, unprotected |
| Link bring-up and delays | PHY mode, MAC mode, netif flags, `SysTick->VAL` | `LAN8720_Init`, `LAN8720_GetLinkState`, `ethernet_link_check_state`, `Netif_Config`, `delay_us`, `delay_ms` | HAL start, netif, SysTick |
| FreeRTOS applications | one connection each, `Key_Value`, bit 4 of a status byte | TCP client, TCP server, UDP over netconn and over sockets; `key_task` | lwIP API; tcpip thread; key interrupt |
| lwIP netconns and sockets | pool of netconns, mailboxes, pending errors, netbufs | accept, connect, receive, write, close, delete; `err_tcp`, `recv_tcp`, `accept_function` | tcpip thread and applications |
| Bare-metal TCP client and server | `client_pcb`, `server_pcb`, a context and a status byte | `tcp_client_main`, `tcp_server_main` in the main loop, their callbacks | callbacks from interrupt and timers |
| lwIP connection blocks (pcbs) | pool, `tcp_active_pcbs`, `tcp_tw_pcbs`, states | `tcp_new`, `tcp_connect`, `tcp_close`, `tcp_abort`, `tcp_input`, `tcp_slowtmr` | bare-metal applications |
| Bare-metal UDP | one pcb | create, send, receive callback, remove | interrupt |
| lwIP OS layer (`sys_arch.c`) | none of its own | mailboxes, semaphores, mutexes, threads | kernel |
| LEDs, UART, I2C, PCF8574, clock, MPU | bit-banged bus, registers | register access | applications, PHY reset line |

What is hard in this code, and the property that each part owes:

- **Receive.** DMA, interrupt and task share the ring without a lock. Nothing may
  be lost, repeated or reordered; one semaphore stands for many frames, and no
  wake-up may be lost; payloads are zero-copy, so the buffer's lifetime matters;
  the pbuf pool and the mailbox can run out in the middle of the loop.
- **Semaphore.** `ETH_IRQn` has priority 1, the kernel masks 5 and below: the
  give runs inside the kernel's critical sections.
- **Bare metal.** The handler empties the ring first and clears the interrupt
  flag afterwards; the stack runs in two contexts.
- **Transmit.** Timeouts leave descriptors with the DMA, frames of several
  descriptors are rolled back when the ring is full, results are ignored,
  `ousem` can be kept for good. Frames must leave whole and in order, the ring
  must stay consistent, every call must return.
- **Start-up.** A polled negotiation, delays counted in looks at a wrapping counter, and
  a link that is looked at once. The interface must be up just when the MAC runs, in the
  mode the PHY has negotiated, and start-up must end.
- **FreeRTOS applications.** Three contexts share the key flag, connections die at any
  moment, pools are small. Every netconn must have one holder, a connection that is over
  must be given up, a key must be noticed, no message sent unasked.
- **Bare-metal applications.** lwIP frees a pcb by itself while `client_pcb` or
  `server_pcb` goes on pointing to it, and the callbacks interrupt the main loop
  anywhere. No pcb may be freed twice or be lost, no context or message used after it was
  freed, and the connection must be replaced or let go.

`PROJECT.json` lists each hazard with its line and the properties that would
catch it; those without a property say why. Where the code does go wrong, the property excuses
that case by a history variable or a predicate of its own (`abandoned`, `refused`, `cutoff`,
`raced`, `loose`, `Deaf`, ...) and says that there is no other: it confines the failure and
does not report it. The hazard's note says so.

## 2 Modules and the code

| Module | Models | Extends |
|---|---|---|
| `RxRing` | receive ring and DMA | |
| `EthRx` | FreeRTOS receive path | `RxRing` |
| `FrameChannel` | abstract specification: a lossless, ordered channel | |
| `EthRxBare` | bare-metal receive path | `RxRing` |
| `SemIsr` | queue code of the kernel, access by access | |
| `CountingSem` | abstract specification: a counting semaphore | |
| `TxRing` | transmit ring, DMA and `HAL_ETH_Transmit` | |
| `EthTx` | FreeRTOS transmit path | `TxRing` |
| `EthTxBare` | bare-metal transmit path | `TxRing` |
| `Startup` | PHY, link, interface at start-up; the delay loop | |
| `NetconnApps` | the six FreeRTOS applications, their netconns, the keys | |
| `TcpPcb` | pool and lists of lwIP's TCP pcbs, as operators | |
| `RawClient` | bare-metal TCP client | `TcpPcb` |
| `RawServer` | bare-metal TCP server and its messages | `TcpPcb` |
| `MC...` | instances for TLC (symmetry sets) | the module |
| `..._proofs` | theorems | the module and TLAPS |

**RxRing.** A frame is the number it has in the order of arrival. `own`,
`Rx_Buff` and `dmaDesc` are the descriptors and the DMA's place; `CurRxDesc`,
`FirstAppDesc`, `AppDescNbr` are `RxDescList`. `DmaReceive` closes a descriptor
and raises RI in one step, as the hardware does for a descriptor with IOC. A
frame that finds no descriptor is dropped by the hardware and leaves no trace.
A frame takes one descriptor: buffers have 1528 bytes, and the longest frame
has 1522. `HAL_ETH_GetRxDataBuffer` includes the scan by
`HAL_ETH_IsRxDataAvailable`.

**EthRx.** One step is a piece of code that no task switch can divide. The
scheduler is in the guards (`EthinRuns`, `TcpipRuns`, `AppRuns`): the interrupt
preempts everything, a critical section holds off other tasks, the ready task of
highest priority runs. `ETH_IRQHandler` calls `HAL_ETH_IRQHandler` twice, and a
call gives the semaphore before it clears RI, so there are four interrupt steps
between which the DMA may set RI again. The task's program counter `ethin`
follows `ethernetif_input`: take (a read and a write of the count, because the
interrupt may come between them), `LowLevelInput`, `BuildRx` (with the end of the
critical section), `PostOk` / `PostErr`, `TryNext`. Both error paths are there: no
pbuf (the code goes on with a NULL pointer, whose address is RAM on this part)
and a full mailbox or message pool. What the stack does with a pbuf is a choice:
free it, keep it (a receive mailbox, reassembly, refused data), or block for ever
if `CanWedge` (see `ousem` below).

**SemIsr.** `xQueueGenericReceive` is one step per access to `uxMessagesWaiting`
and `cTxLock`; a read and the write that belongs to it are two steps inside a
critical section. `IrqMasked` compares the interrupt's priority with the
kernel's. `queueUNLOCKED` is 0 here and -1 in the code.

**EthRxBare.** The handler is one process: `IsrEnter`, `LowLevelInput`,
`BuildRx`, `Input`, `ClearRI`, with the DMA between any two of them. The main
loop's only part in it is the reassembly timer.

**TxRing.** A frame is a chain of buffers, each of which knows its frame, its
place and how many there are. One step of `HAL_ETH_Transmit` is one access to
what it shares: `Begin` (state and OWN of the first descriptor), `Fill` (up to
two buffers, FD), `SetOwn`, `More` (clears LD of the last and FD of the next
descriptor, then looks at the next one's OWN bit), `Rollback`, `SetLast`,
`Advance`, `Start` (tail pointer), `Poll`. The DMA fetches a descriptor that it
owns and that is not the tail, gathers its buffers, and closes it; LD puts the
gathered frame on the wire. It may stop with a fatal bus error (`DmaFault`), after
which `FaultIrq` sets the handle to ERROR. A timeout or a fault leaves the
descriptors with the DMA (`Abandon`).

**EthTx.** The stack calls `low_level_output` under its core lock (`LWIP_TCPIP_CORE_LOCKING`
is 1), from the tcpip thread or from an application. `ListChain` takes `ousem`
and lists at most four pbufs; `ChainTooLong` returns `ERR_IF` with `ousem` still
taken, as the code does; `Finish` signals it and reports `ERR_OK` whatever
`HAL_ETH_Transmit` returned.

**EthTxBare.** Two callers, `"main"` and `"isr"`; the interrupt may come at any
step of the main loop's call and runs to its end. There is no semaphore. The
history variable `clash` records that the interrupt has sent a frame between the
main loop's write to `TxConfig` and its write to the tail pointer; `BareFramesWhole`,
`BareRingInStep` and `BareBuffersLive` are claimed until then. Definitions of this module
that have a counterpart in `EthTx` bear the prefix `Bare`, so that one module can prove
both. `TxConfig.TxBuffer` then points to a list of the interrupt's stack frame that is
no longer alive; the model takes the mildest outcome, the list unchanged.

**Startup.** `pc` goes through `HAL_ETH_Init`, `LAN8720_Init`, the poll of the
negotiation, `ethernet_link_check_state` and `Netif_Config`; each `PHY...` action is one
register access that may fail. `Look(d)` is one round of the loop of `delay_us`: `d` ticks
have passed since the last, possibly more than a period of the counter. `owed` counts down
the ticks that must pass, independently of what the loop counts. `PhyChanges` lets the
negotiation end or the cable be pulled at any time. Both builds have this code. The HAL tick
stands still (SysTick masked, or its handler without `HAL_IncTick`), so no time-out of the
HAL occurs.

**NetconnApps.** `Init` chooses one of the six applications. `pc` is the place of its
thread; a call that does not block is one step. `own` and `peer` are its connections, `conn`
the pool of netconns with mailbox, pending error and pcb state, `accepts` the accept mailbox.
The tcpip thread connects, accepts, delivers data and FIN, and lets a connection die at any
moment, in the accept mailbox too. What the applications make of the result of a receive is
`Releases`; what a dead connection returns is `RecvResult`. The key interrupt, the three
steps of the key task (test, set, clear) and the thread share `key` and `flag`; the key task
runs only while the thread is `Blocked`, since its priority is lower.

**TcpPcb.** A value of the stack is a record of the free list, the active and the TIME-WAIT
list, the states, the callback arguments. Each call of lwIP is an operator on it: `Take` and
`PcbFree` follow `memp.c` (the element returned last is handed out first), `Close` and
`Abandon` `tcp.c`, `Victims` the order in which `tcp_alloc` kills connections for a new one.
The variables that both applications have are there: the stack (`net`), where the main loop
is (`pc`) and the contexts (`ctx`). What `RawClient` and `RawServer` name alike has the prefix
`Server` in the latter, so that one module can extend both and prove about both.
A pcb that is linked into a list while it is in one makes the lists unsound (`sound`), and
the model stops there: nothing can be said of what follows.

**RawClient** and **RawServer.** The main loop runs step by step, `Segment(p)` is the
interrupt between any two of its steps, `Poll(p)` and `TimeOut(p)` are lwIP's timers, which
the main loop runs once a round. A bit of the status byte is cleared with a read and a write,
which are two steps. In the server, the life of a message is there: the pbuf, `temp->p`, and the
three steps of `transmit_data`, which tests `temp->p`, reads it again without a test, and
uses what it has read, with a callback possible before each. History variables name the situations in which the code is known
to go wrong (`cutoff`, `quits`, `raced`; `aborted`, `crowded`, `loose`): the properties say
that these are the only ones.

`PROJECT.json` ("map") gives the lines behind each definition. Definitions whose
comment says "Mutant of" are plausible bugs; each property of a passing run is
shown to fail when the mutant stands in for the original.

## 3 Runs

Run one with `tlc -config <name>.cfg <module>`.

| Run | Question | Result |
|---|---|---|
| `rx_core` | Is the FreeRTOS path a lossless channel that delivers every frame, while the stack keeps few pbufs? | holds |
| `rx_scarce` | With everything scarce: are pbufs conserved, wake-ups kept, payloads intact within a lap of the ring? | holds |
| `rx_overwritten` | Is a pbuf that the stack holds never overwritten? | violated |
| `sem_masked` | Does the queue code implement a counting semaphore when the interrupt is masked? | holds |
| `sem_lost_wakeup` | And with the firmware's priority 1? | violated |
| `bare_core` | Does the bare-metal handler keep order, and serve what an interrupt stands for? | holds |
| `tx_core` | With timeouts, faults, full rings, long chains: whole frames, consistent ring, live buffers, calls that return? | holds |
| `tx_bare_core` | Whole frames, each once, consistent ring, live buffers, calls that return, for main loop and interrupt as long as there is no clash? | holds |
| `raw_client` | Are pcbs freed once and none lost, contexts live, the status bit true, connections replaced? | holds, until lwIP frees the pcb behind `client_pcb` or the user quits |
| `raw_server` | Is `server_pcb` the connection, does each context have one owner, is every client let go? | holds for one client at a time; the use of freed messages is confined |
| `apps` | Is every netconn held by one, no message unasked, every dead connection released, every key noticed? | holds, but for applications deaf to a reset |
| `startup` | Are delays long enough, does the interface come up as negotiated, does start-up end? | holds, if the PHY supplies its clock |

**Bounds.** Frame counts (`MaxFrame`), gives (`MaxGives`), pbufs kept (`MaxHeld`),
and chain lengths (`MaxChain`) are bounds of the model; the rest are the code's
parameters at smaller values.

- Rings: `rx_core` has the firmware's 4 descriptors and 7 frames, so the ring wraps
  while frames are still queued. The other runs use 2 or 3 descriptors with at
  least two laps for receive, which is enough for an index to be behind, level
  with and ahead of the other across the wrap.
- Pools: 2 to 4 pbufs, so that `RX_POOL` runs empty in `rx_scarce`
  (where `MaxHeld` is at least the size of the pool) and never in `rx_core` (`MaxHeld + 2`
  elements, the least that suffices).
- Mailbox and message pool have 2 places and the semaphore counts to 2: both fill
  in `rx_scarce`, where the semaphore's limit is reached with frames queued.
- Transmit: 3 descriptors of two buffers each. A chain of 3 or 4 pbufs takes 2
  descriptors, so a second long chain meets a ring with one free descriptor and is
  rolled back, a third one a full ring. 4 is also one more pbuf than `Txbuffer` holds
  here, so `ChainTooLong` occurs.
- Raw TCP: two pcbs and two contexts, where the firmware has ten pcbs. Two suffice for
  what can go wrong between connections: the old one still in a list while the new one is
  opened, a pool that is empty so that a connection is killed for the next, an element that
  comes back in the other order, and a list whose tail is cut off. 223,000 and 91,000 states.
- Netconns: three of the firmware's four: the listening one, the accepted one, one
  waiting in the accept mailbox; leaks or a waiting connection exhaust them. Mailboxes of 2
  and 2 netbufs (the firmware's number) let the mailbox fill with all netbufs there are.
  Presses are counted to 2, which is enough to tell none from too few. 363,000 states.
- Start-up: a counter of 5 values with gaps of up to 7 ticks, so that a gap passes a whole
  period; delays of 3 and of 21 milliseconds, the latter cut into 10, 10 and 1 by
  `delay_ms`; 3 reads of the PHY instead of 65535.
- Symmetry (`PoolSymmetry`) is used only in a run without liveness.

**Deadlock.** It is checked in `apps` and `startup`, which never stop: keys go on being
pressed and the PHY goes on changing. In the runs about frames every behaviour
ends: the network delivers a bounded number of frames (or the stack hands over a bounded
number), and then everything waits, which is what the firmware does without traffic.
`raw_client` and `raw_server` stop where the lists are no longer lists, a message or
context that is gone has been used, or the user has quit the server.

**Fairness.** The network and the applications owe nothing.

- `EthRx`: weak fairness of the interrupt, of the ETHIN task, of the tcpip thread's
  fetching and finishing with a pbuf, and of the application's freeing. A guard
  contains the scheduler, so this only says that the processor runs the code that
  it has to run. `TcpipWedge` and `TimerFree` are not fair. That an application
  eventually frees what it received is what the loops of `app_ethernet.c` do.
- `EthRxBare`: the handler goes on once it has been entered and is entered when RI
  is set; the main loop cannot hold it off.
- `SemIsr`: the task goes on while it is not blocked.
- `EthTx`: a caller that can go on does (the mutex gives its holder the priority of
  those that wait), and the hardware does. In particular the DMA closes what it
  reads or reports a fault; a timeout is never forced.
- `EthTxBare`: the processor and the hardware go on. `CanTimeOut` is FALSE because
  `SysTick_Handler` of this firmware (`stm32h7xx_it.c:85`) does not call `HAL_IncTick`.
- `RawClient` and `RawServer`: weak fairness of the steps of the main loop that follow one
  another; strong fairness of the test of the connection (client), of the poll callback of
  each pcb, and (server) of the time-out of a last acknowledgement: each is done every so many
  rounds of a loop that has no other exit, so it happens if it is possible again and again,
  though a segment may come in between. Keys and segments are owed by nobody.
- `NetconnApps`: weak fairness of the application thread, which has the highest priority
  but for the tcpip thread; strong fairness of the key task's steps, which come to run if the
  thread blocks again and again. The peers and the tcpip thread's answers are not fair.
- `Startup`: the program goes on, and the delay loop sees the counter move again and again
  (a gap of exactly one period each time would stop it).

**Refinement.** In `rx_core`, `EthRx` implements `FrameChannel`: the channel's queue
is the pbuf in the ETHIN task's hands followed by the closed descriptors from
`CurRxDesc` on. In `sem_masked`, `SemIsr` implements `CountingSem`, with its liveness.

## 4 Proofs

Proved with `tlapm <module>.tla`, for every value of the constants that satisfies
the named assumptions (`RingAssumption`, `RxAssumption`, `NoPbufAssumption`,
`BareAssumption`, `SemAssumption`, `TxAssumption`, `NoOneAssumption`, `StartupAssumption`,
`AppsAssumption`, `PcbAssumption`; the theorems on `EthTxBare` assume `BareContexts`, that the
callers are the main loop and the interrupt): ring of at least two descriptors, pools and mailboxes of
any size, any number of pcbs and contexts.

**RxRing_proofs** holds the lemmas about the ring. `IndexInRing`,
`IndexDistinct`, `IndexShift` and `IndexNext` state the arithmetic of
`INCR_RX_DESC_INDEX`. `RingInOrder` says of every descriptor whether it is closed
and what it holds, counted from the oldest one; `RingInv` adds to it that the DMA
writes next where the driver looks next when nothing is closed, without which the
next frame might go anywhere, and is inductive.
`RingInvDma`, `RingInvGet`, `RingInvBuild` and `RingInvFrame` show that each way
of writing to the ring keeps it, independent of who does it. `Taken`, the number of the last
frame taken from the ring, is computed from the ring alone; `TakenDma`, `TakenGet` and
`TakenBuild` say that only taking a frame moves it, and by one; `BacklogInOrder` that the
closed descriptors hold the frames after it.

**EthRx_proofs**

- `TypeCorrect`: `Spec => []TypeOK`. `TypeOK` is not inductive: `PostOk` appends `p`
  to the mailbox, so `p` must not be NULL there, and `SemWrite` subtracts 1 from
  what was read. `TypeInv` adds both.
- `RingOrdered`: `Spec => []RingInOrder`, from the lemmas above and the frame
  conditions of each action.
- `WakeupsKept`: `Spec => []NoLostWakeup`. The handler gives before it clears
  (`GiveBeforeClear`: while it runs the count is positive), and `Covered` says where
  in its loop the task may be when a closed descriptor is not yet announced by RI or
  the count. That the interrupt's give between the task's read and write of the
  count can be overwritten does not lose a wake-up, because after that write the
  task always looks at the ring.
- `PayloadLifetime`: `Spec => []IntactWithinRing`: `Within(b)` relates the age of a
  pbuf's frame to the distance of its descriptor from the DMA, for every pbuf in use.
- `PoolKept`: `Spec => []PoolConserved`. Inductive with `TypeInv` and the fact that the task
  has a pbuf in hand just between taking it from the pool and posting or freeing it.
- `LoopCompleted`: `Spec => []NeverCutShort`. The reason is in `LeanInv`: while the tcpip
  thread outranks the ETHIN task and does not block, at most one pbuf is between
  `netif->input` and the end of its processing (`OneOnItsWay`), the receive mailboxes hold
  at most `MaxHeld` (`HeldBounded`), and with `PoolConserved` a pool of `MaxHeld + 2`
  therefore still has an element when the task asks for one (`PoolSuffices`).
- `ChannelLossless`: under the hypotheses of `NeverCutShort`, and `~ CanWedge`, the
  initial state is `FrameChannel`'s and every step is one of `FrameChannel` or leaves the
  queue alone. `QueueIsRun` shows that the mapped queue (the frame in hand, then the closed
  descriptors) is an interval of frame numbers, so each step is a step at one end of it;
  it needs `PayloadLifetime`'s invariant for the frame in hand. The hypotheses are those of
  the firmware: priorities 4 and 6, and a stack that leaves two of the 20 elements.

**SemIsr_proofs.** Under `IrqMasked`: `NoLostWakeupMasked`, and `SemaphoreSafety`,
that every step is a step of `CountingSem` or a stutter. `LockInv` says when the
queue is locked, `SleepInv` that a task on the event list has a give recorded
in `cTxLock` or an empty semaphore. `TypeCorrect` comes with them.

**EthRxBare_proofs** reuses the lemmas of `RxRing_proofs`. `BareInv` is `TypeOK`,
`RingInv`, `HandInv` (a pbuf is in hand just between `low_level_input` and the stack, and
each element of the pool is free, kept as a fragment or in hand) and `OrderInv` (until the
ring has starved, what the stack was given is what was taken from the ring less the pbuf in
hand, which holds the last frame taken). It gives `TypeCorrect`, `RingOrdered` and
`HandlerInOrder`.

**Startup_proofs**

- `DelaysLast`: `Spec => []DelayNeverShort`. `DelayInv` bounds `owed` by what the loop
  has yet to count: one look counts at most the ticks that have passed (`Elapsed` is
  never more than `d`, by the arithmetic of one wrap), for every `Load` and every gap.
- `InterfaceAgrees`: `Spec => []UpAsNegotiated`. `StageInv` says at each place of
  start-up which of the flags are set and what the PHY must still be if it has not moved.

**NetconnApps_proofs.** `AppsInv` is `TypeOK` with five parts that depend on one another:
`WhereInv` (what the thread has in hand at each place), `FreshInv` (a netconn is untouched
until it is set up), `KeyInv` (each message that may still be sent is a press not yet
answered), `NetbufInv` (the netbufs are in the pool or in the one mailbox that takes them),
`HolderInv` (`ConnsAccounted`, and no leaked netconn is handed out again). `Updated` is the
lemma about a step that changes one netconn; every action is shown to change at most one.

- `HoldersKnown`: `Spec => []ConnsAccounted`, for any number of netconns: in particular
  `err_tcp`, accept and close never delete the same netconn twice or forget one.
- `NoneUnasked`: `Spec => []NothingUnasked`. It needs that the key task runs only while the
  thread is blocked: between taking a message and clearing bit 4 the thread does not block.
- `FloodFaults`: `Spec => []FaultNeedsFlood`, from `NetbufInv`.
- `TypeCorrect`.

**EthTx_proofs**

- `TypeCorrect`. Types alone are not inductive: `Fill` reads from the caller's buffer
  list and counts a descriptor. `Listed` adds that buffers still to be filled and
  descriptors already filled are together at most `ETH_TX_DESC_CNT`, which `ListChain`
  establishes and which carries through `TxConfig`; that needs `Locked`, since
  `TxConfig` is a global that only the holder of the core lock writes. The result
  says that `ETH_Prepare_Tx_Descriptors` neither walks past the end of the list nor
  laps the ring.
- `OusemSafe`: `Spec => []OusemReturned`, from `Locked` (who is in `low_level_output`
  holds the core lock) and `Ousem` (what the semaphore is while somebody is inside).
- `WireWhole`, `RingKept`, `BuffersKept`: `Spec => []FramesWhole`, `[]RingInStep`,
  `[]BuffersLive`, from `RingInv`.
- `BareTypeCorrect`, `BareWireWhole`, `BareRingKept`, `BareBuffersKept`:
  `BareSpec => []TxTypeOK`, `[]BareFramesWhole`, `[]BareRingInStep`, `[]BareBuffersLive`, from
  `BareInv`.

Both firmwares share one argument, `Ring(R)`, about the module `TxRing`. It looks at the ring
from the descriptor the DMA is at (`Slots`), and says there are `k` (the descriptors the DMA
has been given) and `r` (those that `Rollback` has taken back so far) such that

- `Position`: OWN is set in the first `k` slots and in those the driver has marked, and
  `CurTxDesc`, the tail pointer and the driver's indices are where that says;
- `Committed`: the first `k` slots hold whole chains one after the other, two pbufs to a
  descriptor, LD just in the last descriptor of each, FD in none but the first; `Gathered`:
  what the DMA has read of a frame is what comes before the slot it is at; `Sent` and
  `Numbered`: any two frames of which one leaves before the other (on the wire, in the ring,
  or yet to be given to the DMA) are in the relation `R`;
- `Live`: every committed frame is abandoned, or its caller is polling for it, and
  `Awaited`: the descriptor the caller polls is not in front of the last that holds its frame,
  so that OWN coming back (`NothingLeft`) means that the DMA has read it all;
- `Chained`: what `ETH_Prepare_Tx_Descriptors` has made so far of the chain in hand
  (`Built`, one part of it), and what is left to do.

FD is only required to be false where it must be: `ETH_Prepare_Tx_Descriptors` clears it
in every descriptor but the first of a chain, while the descriptors of a chain
rolled back keep old flags and buffers, which the next chain overwrites.

Every action of `TxRing` has a lemma of its own (`FillInStep`, `RollbackInStep`,
`CloseInStep`, ...) that it keeps `Ring(R)` if it is the caller's turn, `Solo(c)`: every other
caller is outside, has not yet written to `TxConfig`, or polls or has polled. The two
firmwares differ in why that is so, and in `R`. In `EthTx` the core lock keeps all others out
(`Alone`), and `R` is `Before`: frames leave in the order of their numbers. In `EthTxBare`
nothing locks; until there is a clash, the interrupt comes only while the main loop has not
written to `TxConfig` or has started the DMA, and the main loop stands still until the
interrupt is done (`Apart`). A main loop that has its number but has not begun is overtaken,
so `R` is only `Differ`: each frame leaves once. `BareInv` also keeps the types after a
clash, when nothing else is claimed: the list in `TxConfig` is one of two that
`low_level_output` has found short enough, whichever it is.

**RawApps_proofs**, on the two applications of the raw API. Its first part is about `TcpPcb`
alone. `Proper(s)` is the type of a stack with, as long as it is sound, lists that are
disjoint and without repetition. Every call has a lemma that it keeps this and that it
*touches* one pcb: all other pcbs stay where they are, with their state and their callbacks
(`Touches`, `Returned`, `Allocated`, `Abandoned`, `Closed`, `Fronted`, `Wiped`, ...). `Touches`
composes (`TouchesAgain`), so an action that makes several calls about a pcb is
one step about that pcb. `NewPcb` is `tcp_alloc` with the connection it may give up for the
new one.

The client: `ClientInv` is `TypeOK`, the three properties `ContextLive`, `StatusTrue` and
`FreedOnce`, and three parts that these need.

- `Opening`: a pcb in SYN-SENT is `client_pcb`, without callbacks, at a place where the main
  loop still knows of it. Without it the answer to an abandoned attempt could give callbacks
  to a second pcb.
- `Cleared`: when the next connection is opened, or the pcb zeroed, no pcb has callbacks.
- `Kept`: until the user quits, where each pcb is and in what state. An element outside
  every list is `client_pcb` and in CLOSED, so that `tcp_close` frees it just once; one that
  lwIP freed behind `client_pcb` is in TIME-WAIT, which `tcp_close` leaves alone, unless
  `cutoff` says otherwise.

They give `ClientTypeCorrect`, `ClientFreesOnce`, `ClientLosesNoPcb`, `ClientStatusTrue` and
`ClientContextLive`.

The server: its specification is `ServerSpec`, on the same stack. `ServerInv` is
`ServerTypeOK`, `ServerFreedOnce`, `MessageSafe` and

- `Placed`: a pcb is free or has a connection, and none waits in TIME-WAIT: this server never
  closes first, but at its end;
- `Connections` and `Owned`: the state of a connection says whether it has callbacks and
  whether its context is closing, and contexts and connections with callbacks match one to
  one;
- `Lone`: why the stale `server_pcb` works for clients that come one at a time. It is the
  pcb of the only connection or, between two of them, the head of the free list. `tcp_listen`
  puts it there, every way in which a connection ends puts it back there, and an attempt
  that ends in the interrupt (no memory for the answer) does so too;
- `Message`: as long as nothing was `loose`, only `temp` has a message, its pbuf is allocated
  and its context too, from the test of `temp->p` to its use, and the second look at
  `temp->p` finds what the first has found.

They give `ServerTypeCorrect`, `ServerFreesOnce` (`ServerFreedOnce`), `ServerLoneClient`
(`LoneClientIsServerPcb`), `ServerContextOwned` (`ContextOwned`) and `ServerMessageSafe`
(`MessageSafe`).

Only model-checked: everything about liveness (`EveryFrameDelivered`, `PendingServed`,
`OutputReturns`, `ReturnsUnlessClash`, `DownIsRetried`, `ClosedIsReleased`, `OverIsReleased`,
`KeyNoticed`, `StartupEnds`, and the liveness in `LosslessChannel` and
`ImplementsSemaphore`), because fairness and ENABLED are outside the prover's reach. Every
invariant that a passing run checks is stated by a theorem.

## 5 What the checks show

What holds. The receive ring is right, in both firmwares and for any interleaving
with the DMA. The FreeRTOS path loses no wake-up as long as the kernel's semaphore
works as documented, and while RX_POOL has two elements more than the mailboxes
may hold it is a lossless channel: the critical sections of `ethernetif_input` and the
higher priority of the tcpip thread keep the error paths out of reach. The transmit
path keeps frames whole and the ring consistent through timeouts, refusals and
rollbacks. For bare metal the same holds unless the interrupt sends while the main
loop prepares a frame. The FreeRTOS applications never lose track of a netconn whenever
connections die, and never send unasked. The bare-metal client replaces its connection and
frees its pcb once as long as the main loop is the one to close it; the server's context
belongs to one connection. Delays last as long as the ticks asked for, and the interface
comes up as negotiated.

What does not, one run for each:

- `rx_overwritten`: the descriptor is rebuilt with the same buffer before the stack has
  seen the pbuf over it (`ethernetif.c:221`); the HAL says the function is to be called
  after processing. A pbuf in a receive mailbox is overwritten after
  `ETH_RX_DESC_CNT` further frames, never earlier (`IntactWithinRing`).
- `sem_lost_wakeup`: a give from priority 1 between the read and the write of `cTxLock`
  in `prvUnlockQueue` is forgotten; the task sleeps on a semaphore that is up, until the
  next give. `EthRx` assumes that this does not happen, so its liveness is that of the
  firmware with the interrupt at a priority the kernel masks.

Where the properties themselves name what goes wrong:

- An empty `RX_POOL` looks like an empty ring (`ethernetif.c:190`): the task goes to sleep
  with frames in the ring, and when the ring is full no interrupt comes. `rx_core` shows
  how large a pool avoids it.
- Bare metal: a frame that arrives between the handler's last look at the ring and its write to
  RI waits for the next one. `PendingServed` says that this is the only window.
- Transmit: the result of `HAL_ETH_Transmit` is ignored (`ethernetif.c:169`), so a frame
  dropped at a full ring is reported as sent.
- `ReturnsUnlessClash`: if the interrupt takes the descriptors the main loop has looked at, or
  brings the tail pointer level with the DMA, the main loop waits without a time-out.
- `FreedOnce` in the client: once lwIP has freed the pcb by itself (`cutoff`: a reset, a
  refusal, a time-out), the error callback or the next test of bit 1 frees it a second time
  (`app_ethernet.c:163`, `349`). After the key that quits, zeroing the pcb cuts the list it
  is in (`:184`).
- `StatusTrue`: the unprotected update of the status byte can undo the interrupt's (`raced`).
- `LoneClientIsServerPcb`: the server works only because `memp_free` returns an element to the
  head of the list; with two clients, `server_pcb` is one of them by accident. The key that
  sends without a client aborts a pcb that is in the pool (`:659`).
- `MessageSafe`: the orders in which the server uses a message or context that is gone. Freed:
  lwIP did not take the message (`:653`), the sent callback sent it after the test of `temp->p`
  (`:617`), the error callback freed the context (`:672`), or `server_pcb` died by an error and
  kept its old context (`:645`). NULL: the sent or the receive callback cleared `temp->p`
  between the test and the second look at it (`:619`); the latter also forgets the pbuf.
- `OverIsReleased`, `KeyNoticed`: after a reset the clients and the socket server
  (`app_ethernet.c:196`, `323`, `567`, `694`) neither give up the connection nor block, so the
  key task starves.
- `ConnsAccounted`: a failed bind or connect leaks a netconn (`:265`, `:398`, `:407`).
- `FaultNeedsFlood`: with both netbufs in the mailbox a key press follows a NULL pointer (`:421`).
- `StartupEnds`: without the PHY's clock start-up waits for ever, since the tick that
  should end it stands still.

Also visible in the models: a chain of more than four pbufs takes `ousem` away, and the
next caller waits for it with the core lock held, so the stack stops (`OutputReturns`
excludes this by its `refused`); after a bus error the HAL stays in ERROR.

## 6 Assumptions and limits

- **Hardware.** The DMA suspends at a descriptor it does not own and at the tail pointer,
  and a write to the tail pointer wakes it. A descriptor without FD and without an open
  frame sends nothing (the reference manual does not say). Accesses
  to the descriptors take effect in program order: the MPU makes their region device memory
  (`mpu_bsp.c`), although this version of the HAL has no barriers. The data cache is
  write-through and `low_level_input` invalidates it over the receive buffers, so the data
  the processor reads is what the DMA wrote.
- **Not in the data.** Length fields, checksums, VLAN tags, segmentation, context
  descriptors, time stamps.
- **Core lock.** The first sends of `start_task` (in `Netif_Config`) come before any other
  caller exists and are not distinguished from those under the lock.
- **Receive pbufs.** The protocols between the stack and an application are a choice
  (free or keep), so the properties hold for every use, TCP and UDP, netconn and socket.
- **Raw API.** A call from the main loop into lwIP is one step. In the firmware the interrupt
  may come in the middle of it (`SYS_LIGHTWEIGHT_PROT` is 0) and find half-linked lists; the
  properties hold of the applications as far as that does not happen. `Unset` stands for five
  calls (`app_ethernet.c:385`, `694`, and `355` in a callback): an interrupt after `tcp_arg` and
  before the call that clears its callback hands that callback a context at address NULL, which
  is RAM on this part. In the model the callback comes before or after all five, so
  `ContextLive` and `ContextOwned` speak of contexts that were allocated, not of that address.
  The poll callback is one step too, as it runs inside the timers of lwIP: a reset between its
  `tcp_close` and its `mem_free` (`:693`, `:700`) would free the context a second time. Keys and the counter
  that spaces the tests of the connection are inputs. A FIN that waits for memory
  (`TF_CLOSEPEND`) is left out. The contexts are as many as the pcbs.
- **Netconns.** Which element a pool hands out is a fixed choice (`CHOOSE`): elements differ
  in nothing. `netconn_listen` succeeds when bind has. A message is one unit, whatever its
  length; lwIP takes it or makes the thread wait. Several elements taken by one `lwip_recv`
  are taken one by one.
- **Start-up.** `delay_init` computes a tenth of the ticks a microsecond has
  (`core_delay.c:9`), so every delay is ten times shorter than its name says; `DelayNeverShort`
  is about the ticks that are counted. The branch of `ethernet_link_check_state` for a link
  that has gone down cannot be reached, as the function runs once.

## 7 Not modelled, and what could follow

Not modelled, with the reason:

- `sys_arch.c`: wrappers of one kernel call each; what they wrap is in `EthRx` (mailbox,
  semaphore) and `NetconnApps` (mailboxes).
- Bare-metal UDP: one pcb, created, used and removed by the main loop; the callback uses
  only its own arguments.
- LEDs, UART, I2C and PCF8574: input and output without a state that a property could be about.
- Clock, MPU, vectors: configuration written once.
- lwIP's protocols, the kernel, CMSIS and the HAL's other drivers, but for the functions
  named: vendored, and far the larger part of the repository, which is why the lines modelled
  here are a small share of it.
- The server after the user has quit (a `memset` past the end of a pool element), and
  whatever follows a pcb that was freed twice.

What could follow: interrupts inside the calls of `TcpPcb`, which would need lwIP's list
operations access by access.
