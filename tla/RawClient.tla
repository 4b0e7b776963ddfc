------------------------------ MODULE RawClient ------------------------------
(***************************************************************************)
(* The raw TCP client of the bare-metal build: tcp_client_loop and          *)
(* tcp_client_main run in the main loop, together with the timers of lwIP;  *)
(* the callbacks run in the Ethernet interrupt, where lwIP processes a      *)
(* frame as soon as it is received, between any two steps of the main loop. *)
(* A call into lwIP from the main loop is one step.                         *)
(*                                                                          *)
(* client_pcb is written by the main loop only.  Nothing tells the main     *)
(* loop that lwIP has freed the pcb it points to: it looks at bit 1 of      *)
(* tcp_client_status and closes client_pcb again.                           *)
(*                                                                          *)
(* The keys and the counter i of the loop are inputs: at each test of       *)
(* Key_Value any key may be found, and 200 rounds may be over at each       *)
(* round.  What happens to the message of user_transmit is modelled with    *)
(* the server, whose transmit functions are the same (RawServer).           *)
(***************************************************************************)
EXTENDS TcpPcb

VARIABLES
    client,    \* client_pcb
    connected, \* bit 1 of tcp_client_status
    received,  \* bit 2 of tcp_client_status
    saw,       \* bit 1 as the main loop read it, while it clears another bit
    cutoff,    \* history: lwIP has freed the pcb since client_pcb was last set
    quits,     \* history: the user has quit
    raced      \* history: an update of bit 1 was lost since the last close

vars == <<net, pc, client, connected, received, saw, ctx, cutoff, quits, raced>>
status == <<connected, received, saw>>
history == <<cutoff, quits, raced>>

Init == /\ net \in NewStacks
        /\ pc = "idle" /\ client = NoPcb
        /\ connected = FALSE /\ received = FALSE /\ saw = FALSE
        /\ ctx = [c \in Ctx |-> "free"]
        /\ cutoff = FALSE /\ quits = FALSE /\ raced = FALSE

-----------------------------------------------------------------------------
(* The main loop.                                                           *)

(* tcp_new and tcp_connect.  A failed tcp_new leaves client_pcb NULL.       *)
NewConnection(next, failed) ==
    \E new \in Allocs(net), ok \in BOOLEAN :
        /\ client' = new.pcb
        /\ net' = IF new.pcb = NoPcb THEN new.stack
                  ELSE Connect(new.stack, new.pcb, ok)
        /\ pc' = IF new.pcb = NoPcb THEN failed ELSE next
        /\ cutoff' = FALSE

(* tcp_client_loop: the key that connects.  Without a pcb tcp_client_main   *)
(* falls through to its end.                                                *)
Start == /\ pc = "idle" /\ ~connected
         /\ NewConnection("run", "quit_close")
         /\ UNCHANGED <<status, ctx, quits, raced>>

(* The key that quits ends the loop.                                        *)
Quit == /\ pc = "run"
        /\ pc' = "quit_close" /\ quits' = TRUE
        /\ UNCHANGED <<net, client, status, ctx, cutoff, raced>>

(* tcp_client_status &= ~(1<<2): the main loop reads the byte ...           *)
ReadStatus == /\ pc = "run" /\ received
              /\ saw' = connected /\ pc' = "clear_data"
              /\ UNCHANGED <<net, client, connected, received, ctx, history>>

(* ... and writes it back; what an interrupt changed in between is undone.  *)
WriteBack == /\ connected' = saw /\ saw' = FALSE
             /\ raced' = (raced \/ saw # connected)
             /\ pc' = "run"

ClearData == /\ pc = "clear_data" /\ WriteBack
             /\ received' = FALSE
             /\ UNCHANGED <<net, client, ctx, cutoff, quits>>

(* Every 200 rounds: bit 1 is tested, ...                                   *)
CheckConnection == /\ pc = "run" /\ ~connected
                   /\ pc' = "re_close"
                   /\ UNCHANGED <<net, client, status, ctx, history>>

(* Mutant of CloseClient: the old pcb is not closed.                        *)
CloseNothing == /\ pc \in {"re_close", "quit_close"}
                /\ pc' = IF pc = "re_close" THEN "re_clear" ELSE "quit_clear"
                /\ UNCHANGED <<net, client, status, ctx, history>>

(* ... client_pcb is closed, whatever it points to by now, ...              *)
CloseClient == /\ pc \in {"re_close", "quit_close"}
               /\ net' = Close(net, client)
               /\ pc' = IF pc = "re_close" THEN "re_clear" ELSE "quit_clear"
               /\ UNCHANGED <<client, status, ctx, history>>

(* ... its callbacks and bit 1 are cleared (temp is NULL in both calls, so  *)
(* no context is freed), in one step: see Unset, ...                        *)
ClearClient == /\ pc \in {"re_clear", "quit_clear"}
               /\ net' = Unset(net, client)
               /\ connected' = FALSE /\ raced' = FALSE
               /\ pc' = IF pc = "re_clear" THEN "re_new" ELSE "wipe"
               /\ UNCHANGED <<client, received, saw, ctx, cutoff, quits>>

(* ... and a new connection is opened.                                      *)
Reconnect == /\ pc = "re_new" /\ NewConnection("run", "run")
             /\ UNCHANGED <<status, ctx, quits, raced>>

(* After the loop the pcb is zeroed.                                        *)
WipeClient == /\ pc = "wipe"
              /\ net' = Wipe(net, client)
              /\ pc' = "idle"
              /\ UNCHANGED <<client, status, ctx, history>>

(* The key that sends: user_transmit reads callback_arg of client_pcb.      *)
(* Without a context it aborts the pcb; with client_pcb NULL what it reads  *)
(* is not a context.                                                        *)
ClientArg == IF client = NoPcb THEN NoCtx ELSE net.arg[client]

TransmitAbort == /\ pc = "run" /\ ClientArg = NoCtx
                 /\ net' = IF client = NoPcb THEN [net EXCEPT !.sound = FALSE]
                           ELSE Abandon(net, client)
                 /\ cutoff' = TRUE
                 /\ UNCHANGED <<pc, client, status, ctx, quits, raced>>

(* With a context it sends a message and clears bit 4, reading the byte ... *)
Transmit == /\ pc = "run" /\ ClientArg # NoCtx
            /\ saw' = connected /\ pc' = "clear_tx"
            /\ UNCHANGED <<net, client, connected, received, ctx, history>>

(* ... and writing it back.                                                 *)
ClearTransmitting == /\ pc = "clear_tx" /\ WriteBack
                     /\ UNCHANGED <<net, client, received, ctx, cutoff, quits>>

-----------------------------------------------------------------------------
(* The Ethernet interrupt: a segment for pcb p is processed by tcp_input.   *)

(* tcp_client_error: client_pcb is closed, though lwIP has freed it or is   *)
(* about to.                                                                *)
OnError(s) == Unset(Close(s, client), client)

(* SYN and ACK: tcp_client_connect.  With no memory for a context it closes *)
(* client_pcb.                                                              *)
SynAck(p) ==
    /\ net.st[p] = "SYN_SENT"
    /\ LET up == [ToFront(net, p) EXCEPT !.st[p] = "ESTABLISHED"] IN
       \/ \E c \in Ctx :
            /\ ctx[c] = "free"
            /\ ctx' = [ctx EXCEPT ![c] = "connected"]
            /\ net' = [up EXCEPT !.arg[p] = c]
            /\ connected' = TRUE
       \/ /\ net' = Unset(Close(up, client), client)
          /\ connected' = FALSE /\ UNCHANGED ctx
    /\ UNCHANGED <<pc, client, received, saw, history>>

(* Data: tcp_client_receive copies it and sets bit 2.                       *)
Data(p) ==
    /\ net.st[p] = "ESTABLISHED" /\ HasCallbacks(p)
    /\ net' = ToFront(net, p) /\ received' = TRUE
    /\ UNCHANGED <<pc, client, connected, saw, ctx, history>>

(* Data for a connection that was closed here: lwIP sends a reset, frees    *)
(* the pcb, and then calls the error callback if it is still set.           *)
LateData(p) ==
    /\ net.st[p] \in {"FIN_WAIT_1", "FIN_WAIT_2"}
    /\ net' = IF HasCallbacks(p) THEN OnError(Abandon(net, p)) ELSE Abandon(net, p)
    /\ connected' = (connected /\ ~HasCallbacks(p))
    /\ cutoff' = (cutoff \/ p = client)
    /\ UNCHANGED <<pc, client, received, saw, ctx, quits, raced>>

(* The FIN of this side is acknowledged; in LAST-ACK the pcb is freed.      *)
FinAcked(p) ==
    /\ net.st[p] \in {"FIN_WAIT_1", "CLOSING", "LAST_ACK"}
    /\ net' = CASE net.st[p] = "FIN_WAIT_1" -> [ToFront(net, p) EXCEPT !.st[p] = "FIN_WAIT_2"]
                [] net.st[p] = "CLOSING"    -> TimeWait(net, p)
                [] net.st[p] = "LAST_ACK"   -> Abandon(net, p)
    /\ cutoff' = (cutoff \/ (p = client /\ net.st[p] = "LAST_ACK"))
    /\ UNCHANGED <<pc, client, status, ctx, quits, raced>>

(* Mutant of Fin: the receive callback does not mark the context.           *)
FinUnmarked(p) ==
    /\ net.st[p] \in {"ESTABLISHED", "FIN_WAIT_1", "FIN_WAIT_2"}
    /\ net' = CASE net.st[p] = "ESTABLISHED" -> [ToFront(net, p) EXCEPT !.st[p] = "CLOSE_WAIT"]
                [] net.st[p] = "FIN_WAIT_1"  -> [ToFront(net, p) EXCEPT !.st[p] = "CLOSING"]
                [] net.st[p] = "FIN_WAIT_2"  -> TimeWait(net, p)
    /\ UNCHANGED <<pc, client, status, ctx, history>>

(* The FIN of the peer: the receive callback is called with NULL and marks  *)
(* the context.                                                             *)
Fin(p) ==
    /\ net.st[p] \in {"ESTABLISHED", "FIN_WAIT_1", "FIN_WAIT_2"}
    /\ net' = CASE net.st[p] = "ESTABLISHED" -> [ToFront(net, p) EXCEPT !.st[p] = "CLOSE_WAIT"]
                [] net.st[p] = "FIN_WAIT_1"  -> [ToFront(net, p) EXCEPT !.st[p] = "CLOSING"]
                [] net.st[p] = "FIN_WAIT_2"  -> TimeWait(net, p)
    /\ ctx' = IF HasCallbacks(p) THEN [ctx EXCEPT ![net.arg[p]] = "closing"] ELSE ctx
    /\ UNCHANGED <<pc, client, status, history>>

(* A reset: the error callback if one is set, then the pcb is freed.  In    *)
(* SYN-SENT none is set: it is registered by tcp_client_connect.            *)
Reset(p) ==
    /\ net.st[p] # "CLOSED"
    /\ LET told == IF HasCallbacks(p) THEN OnError(net) ELSE net
       IN  net' = PcbFree(PcbRemove(told, p), p)
    /\ connected' = (connected /\ ~HasCallbacks(p))
    /\ cutoff' = (cutoff \/ p = client)
    /\ UNCHANGED <<pc, client, received, saw, ctx, quits, raced>>

Segment(p) == SynAck(p) \/ Data(p) \/ LateData(p) \/ FinAcked(p) \/ Fin(p) \/ Reset(p)

-----------------------------------------------------------------------------
(* The timers of lwIP, which the main loop runs once a round.               *)

Round == pc \in {"idle", "run"}

(* Mutants of Poll: bit 1 is not cleared; the callbacks stay set.           *)
PollKeepsStatus(p) ==
    /\ Round /\ HasCallbacks(p) /\ ctx[net.arg[p]] = "closing"
    /\ net' = Unset(Close(net, p), p)
    /\ ctx' = [ctx EXCEPT ![net.arg[p]] = "free"]
    /\ UNCHANGED <<pc, client, status, history>>

PollKeepsCallbacks(p) ==
    /\ Round /\ HasCallbacks(p) /\ ctx[net.arg[p]] = "closing"
    /\ net' = Close(net, p)
    /\ ctx' = [ctx EXCEPT ![net.arg[p]] = "free"]
    /\ connected' = FALSE
    /\ UNCHANGED <<pc, client, received, saw, history>>

(* tcp_client_poll: a context marked by the receive callback is closed and  *)
(* freed.                                                                   *)
Poll(p) == /\ Round /\ HasCallbacks(p) /\ ctx[net.arg[p]] = "closing"
           /\ net' = Unset(Close(net, p), p)
           /\ ctx' = [ctx EXCEPT ![net.arg[p]] = "free"]
           /\ connected' = FALSE
           /\ UNCHANGED <<pc, client, received, saw, history>>

(* Data that is not acknowledged, or a connection that is not closed by the *)
(* peer, for too long: the pcb is freed and then the error callback called. *)
(* An attempt to connect never lasts that long: it is closed after 200      *)
(* rounds.                                                                  *)
TimeOut(p) ==
    /\ Round /\ net.st[p] \notin {"CLOSED", "SYN_SENT"}
    /\ LET gone == PcbFree([net EXCEPT !.active = Unlinked(@, p)], p)
       IN  net' = IF HasCallbacks(p) THEN OnError(gone) ELSE gone
    /\ connected' = (connected /\ ~HasCallbacks(p))
    /\ cutoff' = (cutoff \/ p = client)
    /\ UNCHANGED <<pc, client, received, saw, ctx, quits, raced>>

(* The end of TIME-WAIT.                                                    *)
TimeWaitOver == /\ Round
                /\ \E p \in Range(net.tw) :
                      net' = PcbFree([net EXCEPT !.tw = Unlinked(@, p)], p)
                /\ UNCHANGED <<pc, client, status, ctx, history>>

-----------------------------------------------------------------------------
MainLoop == \/ Start \/ Quit \/ ReadStatus \/ ClearData \/ CheckConnection
            \/ CloseClient \/ ClearClient \/ Reconnect \/ WipeClient
            \/ TransmitAbort \/ Transmit \/ ClearTransmitting

Next == /\ net.sound
        /\ \/ MainLoop \/ TimeWaitOver
           \/ \E p \in Range(net.active) : Segment(p) \/ Poll(p) \/ TimeOut(p)

Spec == Init /\ [][Next]_vars

(* The main loop never stops: each round runs the timers and counts towards *)
(* the test of the connection, so both happen again and again.              *)
Between == ClearData \/ CloseClient \/ ClearClient \/ Reconnect \/ WipeClient
           \/ ClearTransmitting

Fairness == /\ WF_vars(net.sound /\ Between)
            /\ SF_vars(net.sound /\ CheckConnection)
            /\ \A p \in Pcb : SF_vars(net.sound /\ p \in Range(net.active) /\ Poll(p))

FairSpec == Spec /\ Fairness

-----------------------------------------------------------------------------
(* Properties.                                                              *)

(* No pcb is freed twice, and the lists stay lists, however many attempts   *)
(* and answers cross each other, as long as the main loop closes client_pcb *)
(* before lwIP frees it by itself, and the user has not quit; an earlier    *)
(* connection that ended badly without a double free leaves no trace        *)
(* (app_ethernet.c:163; tcp.c:384).                                         *)
FreedOnce == net.sound \/ cutoff \/ quits

(* As long as the user has not quit, every pcb is in a list of lwIP or is   *)
(* the one client_pcb points to, and none that lwIP still works on has been *)
(* zeroed: none is lost, whatever the peer does (app_ethernet.c:184).       *)
NoPcbLost ==
    net.sound /\ ~quits =>
        /\ Pcb \subseteq Listed(net) \cup {client}
        /\ \A p \in Range(net.active) : net.st[p] \notin {"CLOSED", "TIME_WAIT"}

(* Bit 1 tells the truth: outside the steps that close client_pcb it is set *)
(* just when client_pcb is an open connection with its callbacks, unless an *)
(* interrupt changed it while the main loop was writing another bit back    *)
(* (app_ethernet.c:147, 334).                                               *)
StatusTrue ==
    net.sound /\ pc \notin {"re_clear", "quit_clear"} /\ ~raced =>
        (connected <=> /\ ClientArg # NoCtx
                       /\ client \in Range(net.active)
                       /\ net.st[client] \in {"ESTABLISHED", "CLOSE_WAIT"})

(* A callback never gets a context that has been freed, and only client_pcb *)
(* has callbacks: the error callback, which looks at client_pcb and not at  *)
(* the pcb it is called for, always means the same one                      *)
(* (app_ethernet.c:349, 390).                                               *)
ContextLive == net.sound => \A p \in Pcb : net.arg[p] # NoCtx =>
                               ctx[net.arg[p]] # "free" /\ p = client

(* A connection that is down, or that the peer has closed, is replaced: the *)
(* main loop opens a new one unless the user quits.  It fails to when bit 1 *)
(* was corrupted, which "raced" tells, and when the lists are damaged.      *)
Up == client \in Range(net.active) /\ net.st[client] = "ESTABLISHED"

DownIsRetried == (pc = "run" /\ ~Up) ~> (pc \in {"re_new", "quit_close"} \/ Up
                                         \/ raced \/ ~net.sound)
=============================================================================
