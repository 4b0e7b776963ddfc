------------------------------- MODULE TcpPcb -------------------------------
(***************************************************************************)
(* The connection control blocks (pcbs) of lwIP as the bare-metal raw API   *)
(* applications drive them: the memory pool they come from, the lists they  *)
(* are linked in, and what tcp_new, tcp_connect, tcp_close and tcp_abort do *)
(* to both.  Each call is an operator from one value of the stack to the    *)
(* next, so that an action of an application is the composition of the      *)
(* calls its function makes.                                                *)
(*                                                                          *)
(* A value of the stack is a record:                                        *)
(*   free, active, tw  the free list of the pool, tcp_active_pcbs and       *)
(*                     tcp_tw_pcbs, first element first;                    *)
(*   st[p]             pcb->state;                                          *)
(*   arg[p]            pcb->callback_arg; the applications set and clear    *)
(*                     all callbacks together with it, so it stands for the *)
(*                     callbacks too;                                       *)
(*   low               the pcbs with a priority lower than a new one has;   *)
(*   sound             the lists are still lists: it becomes FALSE when a   *)
(*                     pcb is linked into a list while it is in one (the    *)
(*                     links then form a cycle or two lists share a tail),  *)
(*                     and nothing is said of what happens after that.      *)
(***************************************************************************)
EXTENDS Integers, Sequences, SequencesExt

CONSTANTS
    Pcb,       \* the elements of the pool MEMP_TCP_PCB (10 in lwipopts.h)
    NoPcb,     \* the NULL pointer
    Ctx,       \* the contexts an application can allocate with mem_malloc
    NoCtx      \* callback_arg is NULL

VARIABLES
    net,       \* the stack: a value as above
    pc,        \* where the application's main loop is
    ctx        \* the contexts: free, or the state kept in one

ASSUME PcbAssumption ==
    /\ IsFiniteSet(Pcb) /\ Pcb # {}
    /\ NoPcb \notin Pcb /\ NoCtx \notin Ctx

(* The stack before an application runs: every element is in the pool.     *)
NewStacks ==
    {[free |-> order, active |-> <<>>, tw |-> <<>>, st |-> [p \in Pcb |-> "CLOSED"],
      arg |-> [p \in Pcb |-> NoCtx], low |-> {}, sound |-> TRUE] : order \in SetToSeqs(Pcb)}

(* A callback of the application is called only while the callbacks are set.*)
HasCallbacks(p) == net.arg[p] # NoCtx

Listed(s) == Range(s.free) \cup Range(s.active) \cup Range(s.tw)

(* TCP_RMV takes the first element that is p out of the list.               *)
Unlinked(list, p) == RemoveFirst(list, p)

(* Zeroing an element overwrites its link: the list ends there.             *)
Truncated(list, p) ==
    IF p \in Range(list)
    THEN SubSeq(list, 1, CHOOSE i \in 1..Len(list) : list[i] = p)
    ELSE list

(* Mutant of PcbFree: the element goes to the end of the free list.         *)
PcbFreeAtTail(s, p) == IF p \in Listed(s) THEN [s EXCEPT !.sound = FALSE]
                                          ELSE [s EXCEPT !.free = Append(@, p)]

(* memp_free: the element becomes the head of the free list, whatever list  *)
(* it may still be in.                                                      *)
PcbFree(s, p) ==
    IF p \in Listed(s) THEN [s EXCEPT !.sound = FALSE]
                       ELSE [s EXCEPT !.free = <<p>> \o @]

(* TCP_PCB_REMOVE_ACTIVE and tcp_pcb_remove on the TIME-WAIT list: a pcb    *)
(* that is in no list is left in none.                                      *)
PcbRemove(s, p) == [s EXCEPT !.active = Unlinked(@, p), !.tw = Unlinked(@, p),
                             !.st[p] = "CLOSED"]

(* tcp_input moves the pcb a segment belongs to to the front of the list.   *)
ToFront(s, p) == [s EXCEPT !.active = <<p>> \o Unlinked(@, p)]

(* Mutant of Close: a pcb in SYN-SENT is freed without being unlinked.      *)
CloseLinked(s, p) ==
    IF p = NoPcb THEN s
    ELSE CASE s.st[p] \in {"CLOSED", "SYN_SENT"} -> PcbFree(s, p)
           [] s.st[p] \in {"SYN_RCVD", "ESTABLISHED"} -> [s EXCEPT !.st[p] = "FIN_WAIT_1"]
           [] s.st[p] = "CLOSE_WAIT"  -> [s EXCEPT !.st[p] = "LAST_ACK"]
           [] OTHER                   -> s

(* tcp_close.  What a stale pointer is worth is not checked: the state in   *)
(* the element decides, and a pcb in CLOSED is freed.                       *)
Close(s, p) ==
    IF p = NoPcb THEN s
    ELSE CASE s.st[p] = "CLOSED"      -> PcbFree(s, p)
           [] s.st[p] = "SYN_SENT"    -> PcbFree(PcbRemove(s, p), p)
           [] s.st[p] \in {"SYN_RCVD", "ESTABLISHED"} -> [s EXCEPT !.st[p] = "FIN_WAIT_1"]
           [] s.st[p] = "CLOSE_WAIT"  -> [s EXCEPT !.st[p] = "LAST_ACK"]
           [] OTHER                   -> s

(* tcp_arg, tcp_recv, tcp_err, tcp_sent and tcp_poll with NULL, as one      *)
(* step.  From the main loop they are five calls, and an interrupt may come *)
(* between them: a callback is then called with a context at address NULL.  *)
(* Here each callback comes before or after all five.                       *)
Unset(s, p) == IF p = NoPcb THEN s ELSE [s EXCEPT !.arg[p] = NoCtx]

(* tcp_abandon, without the error callback, which the caller adds.          *)
Abandon(s, p) == IF s.st[p] = "CLOSED" THEN PcbFree(s, p)
                                       ELSE PcbFree(PcbRemove(s, p), p)

(* tcp_alloc: the head of the free list, zeroed; NULL with the list empty.  *)
Take(s) ==
    IF s.free = <<>> THEN [pcb |-> NoPcb, stack |-> s]
    ELSE LET p == Head(s.free) IN
         [pcb |-> p, stack |-> [s EXCEPT !.free = Tail(@), !.st[p] = "CLOSED",
                                         !.arg[p] = NoCtx, !.low = @ \ {p}]]

(* With the list empty tcp_alloc first gives up a connection in TIME-WAIT,  *)
(* else one in LAST-ACK, else one in CLOSING, else one of a lower priority; *)
(* which of them depends on their ages.                                     *)
ActiveIn(s, state) == {p \in Range(s.active) : s.st[p] = state}

Victims(s) == IF s.free # <<>> THEN {}
              ELSE IF s.tw # <<>> THEN Range(s.tw)
              ELSE IF ActiveIn(s, "LAST_ACK") # {} THEN ActiveIn(s, "LAST_ACK")
              ELSE IF ActiveIn(s, "CLOSING") # {} THEN ActiveIn(s, "CLOSING")
              ELSE Range(s.active) \cap s.low

Allocs(s) == IF Victims(s) = {} THEN {Take(s)}
                                ELSE {Take(Abandon(s, v)) : v \in Victims(s)}

(* tcp_connect on a new pcb.  It fails without a route or without memory    *)
(* for the SYN and leaves the pcb in no list.                               *)
Connect(s, p, ok) ==
    IF ok THEN [s EXCEPT !.st[p] = "SYN_SENT", !.active = <<p>> \o @] ELSE s

(* memset(pcb, 0, sizeof(struct tcp_pcb)).                                  *)
Wipe(s, p) ==
    IF p = NoPcb THEN s
    ELSE [s EXCEPT !.free = Truncated(@, p), !.active = Truncated(@, p),
                   !.tw = Truncated(@, p), !.st[p] = "CLOSED",
                   !.arg[p] = NoCtx]

(* A connection that has exchanged its FINs moves to the TIME-WAIT list.    *)
TimeWait(s, p) == [s EXCEPT !.active = Unlinked(@, p), !.tw = <<p>> \o @,
                            !.st[p] = "TIME_WAIT"]
=============================================================================
