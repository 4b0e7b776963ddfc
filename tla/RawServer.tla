------------------------------ MODULE RawServer ------------------------------
(***************************************************************************)
(* The raw TCP server of the bare-metal build: tcp_server_main runs in the  *)
(* main loop with the timers of lwIP, the callbacks run in the Ethernet     *)
(* interrupt, between any two of its steps.                                 *)
(*                                                                          *)
(* tcp_listen gives the pcb it is called with back to the pool, but         *)
(* tcp_server_main goes on using it as "the connection": server_pcb is the  *)
(* connection of a client only because the pool hands out the element that  *)
(* was returned last.  Each connection has its own context; the key that    *)
(* sends puts a message into the context of server_pcb, and the sent        *)
(* callback goes on with what was left of it.                               *)
(*                                                                          *)
(* The model ends where the user quits: tcp_server_main then zeroes a       *)
(* listening pcb with the size of a connection pcb, past the end of its     *)
(* pool.  The status bits are left out: nothing reads bit 1 while the       *)
(* server runs, and bit 2 only prints.                                      *)
(***************************************************************************)
EXTENDS TcpPcb

VARIABLES
    server,    \* server_pcb
    txp,       \* txp[c]: temp->p is not NULL
    buf,       \* the pbuf of the message is allocated
    temp,      \* the context user_transmit works on
    aborted,   \* history: the key that sends found no connection
    crowded,   \* history: two connections existed at the same time
    loose,     \* history: a message and its pbuf, or its context, got out of step
    clash      \* history: a NULL pbuf, or a pbuf or context that is free, was used

ServerVars == <<net, pc, server, ctx, txp, buf, temp, aborted, crowded, loose, clash>>
message == <<txp, buf, temp, loose, clash>>

ServerInit == /\ net \in NewStacks
              /\ pc = "idle" /\ server = NoPcb
              /\ ctx = [c \in Ctx |-> "free"] /\ txp = [c \in Ctx |-> FALSE]
              /\ buf = FALSE /\ temp = NoCtx
              /\ aborted = FALSE /\ crowded = FALSE /\ loose = FALSE /\ clash = FALSE

-----------------------------------------------------------------------------
(* The main loop.                                                           *)

(* tcp_new, tcp_bind and tcp_listen: the pcb goes back to the pool, and     *)
(* server_pcb keeps its address.                                            *)
ServerStart == /\ pc = "idle"
               /\ LET new == Take(net)
                  IN  /\ server' = new.pcb
                      /\ net' = PcbFree(new.stack, new.pcb)
               /\ pc' = "run"
               /\ UNCHANGED <<ctx, message, aborted, crowded>>

(* user_transmit without a context aborts server_pcb, ...                   *)
ServerTransmitAbort == /\ pc = "run" /\ net.arg[server] = NoCtx
                       /\ net' = Abandon(net, server)
                       /\ aborted' = TRUE
                       /\ UNCHANGED <<pc, server, ctx, message, crowded>>

(* ... with one it puts a new pbuf into it, or NULL.  A pcb that was freed  *)
(* after its error callback still holds the address of the context that the *)
(* callback has freed.                                                      *)
Freed(c) == ctx[c] = "free"

TransmitStart == /\ pc = "run" /\ net.arg[server] # NoCtx
                 /\ temp' = net.arg[server]
                 /\ buf' \in BOOLEAN
                 /\ txp' = [txp EXCEPT ![temp'] = buf']
                 /\ loose' = (loose \/ server \notin Range(net.active))
                 /\ clash' = (clash \/ Freed(temp'))
                 /\ pc' = "write"
                 /\ UNCHANGED <<net, server, ctx, aborted, crowded>>

(* transmit_data tests temp->p and the room in the send buffer ...          *)
TransmitTest == /\ pc = "write"
                /\ clash' = (clash \/ Freed(temp))
                /\ \/ txp[temp] /\ pc' = "read"
                   \/ pc' = "free"
                /\ UNCHANGED <<net, server, ctx, txp, buf, temp, loose, aborted, crowded>>

(* ... reads temp->p a second time, into q, without a test, ...             *)
TransmitRead == /\ pc = "read" /\ pc' = "send"
                /\ clash' = (clash \/ Freed(temp) \/ ~txp[temp])
                /\ UNCHANGED <<net, server, ctx, txp, buf, temp, loose, aborted, crowded>>

CanWrite(p) == net.st[p] \in {"SYN_RCVD", "ESTABLISHED", "CLOSE_WAIT"}

(* Mutant of TransmitSend: temp->p keeps the address of what was sent.      *)
SendKeepsPointer ==
    /\ pc = "send"
    /\ clash' = (clash \/ ~buf \/ Freed(temp))
    /\ buf' = (buf /\ ~CanWrite(server)) /\ pc' = "free"
    /\ UNCHANGED <<net, server, ctx, txp, temp, loose, aborted, crowded>>

(* ... and writes the data of q: with success temp->p is NULL and the pbuf  *)
(* is freed; short of memory temp->p is q again, and when the connection is *)
(* gone both stay.                                                          *)
TransmitSend == /\ pc = "send"
                /\ clash' = (clash \/ ~buf \/ Freed(temp))
                /\ \/ /\ CanWrite(server)
                      /\ txp' = [txp EXCEPT ![temp] = FALSE] /\ buf' = FALSE
                   \/ /\ CanWrite(server)
                      /\ txp' = [txp EXCEPT ![temp] = TRUE] /\ UNCHANGED buf
                   \/ ~CanWrite(server) /\ UNCHANGED <<txp, buf>>
                /\ pc' = "free"
                /\ UNCHANGED <<net, server, ctx, temp, loose, aborted, crowded>>

(* What transmit_data left in temp->p is freed, and temp->p keeps it.       *)
TransmitFree == /\ pc = "free"
                /\ clash' = (clash \/ Freed(temp) \/ (txp[temp] /\ ~buf))
                /\ buf' = (buf /\ ~txp[temp])
                /\ loose' = (loose \/ txp[temp])
                /\ temp' = NoCtx /\ pc' = "run"
                /\ UNCHANGED <<net, server, ctx, txp, aborted, crowded>>

(* The key that quits closes the listening pcb: no client is accepted from  *)
(* now on, those in SYN-RCVD are aborted when they answer.  Then server_pcb *)
(* is closed, whatever it is.                                               *)
ServerQuit == /\ pc = "run" /\ pc' = "quit"
              /\ UNCHANGED <<net, server, ctx, message, aborted, crowded>>

CloseServer == /\ pc = "quit" /\ pc' = "over"
               /\ net' = Unset(Close(net, server), server)
               /\ UNCHANGED <<server, ctx, message, aborted, crowded>>

-----------------------------------------------------------------------------
(* The Ethernet interrupt.                                                  *)

Listening == pc \in {"run", "write", "read", "send", "free"}

(* Mutant of ErrorFrees: the error callback does not free the context.      *)
ErrorForgets(p) == UNCHANGED ctx /\ loose' = (loose \/ (HasCallbacks(p) /\ net.arg[p] = temp))

(* tcp_server_error frees the context of the connection; if user_transmit   *)
(* is at work on it, it goes on with memory that is free.                   *)
ErrorFrees(p) ==
    /\ ctx' = IF HasCallbacks(p) THEN [ctx EXCEPT ![net.arg[p]] = "free"] ELSE ctx
    /\ loose' = (loose \/ (HasCallbacks(p) /\ net.arg[p] = temp))

(* A SYN: tcp_listen_input takes a pcb.  With the pool empty a connection   *)
(* is given up for it, at last an open one: tcp_server_accept has given     *)
(* them the lowest priority.  The SYN and ACK may fail for want of memory.  *)
Syn == /\ Listening
       /\ \E v \in Victims(net) \cup {NoPcb} :
             /\ v = NoPcb => Victims(net) = {} /\ net.free # <<>>
             /\ LET new == Take(IF v = NoPcb THEN net ELSE Abandon(net, v))
                    up == [new.stack EXCEPT !.st[new.pcb] = "SYN_RCVD",
                                            !.active = <<new.pcb>> \o @]
                IN  net' \in {up, Abandon(up, new.pcb)}
             /\ IF v = NoPcb THEN UNCHANGED <<ctx, loose>> ELSE ErrorFrees(v)
       /\ crowded' = (crowded \/ net.active # <<>>)
       /\ UNCHANGED <<pc, server, txp, buf, temp, clash, aborted>>

(* Its ACK: tcp_server_accept.  With no memory for a context, or when the   *)
(* server no longer listens, the connection is aborted.                     *)
SynAcked(p) ==
    /\ net.st[p] = "SYN_RCVD"
    /\ \/ /\ Listening
          /\ \E c \in Ctx : /\ Freed(c)
                            /\ ctx' = [ctx EXCEPT ![c] = "accepted"]
                            /\ txp' = [txp EXCEPT ![c] = FALSE]
                            /\ net' = [ToFront(net, p) EXCEPT !.st[p] = "ESTABLISHED",
                                          !.arg[p] = c, !.low = @ \cup {p}]
       \/ net' = Abandon(net, p) /\ UNCHANGED <<ctx, txp>>
    /\ UNCHANGED <<pc, server, buf, temp, loose, clash, aborted, crowded>>

(* An acknowledgement of data: tcp_server_transmit sends and frees what     *)
(* temp->p points to, if lwIP takes it; user_transmit, once past its test,  *)
(* does not notice.                                                         *)
Sent(p) ==
    /\ net.st[p] \in {"ESTABLISHED", "CLOSE_WAIT"} /\ HasCallbacks(p)
    /\ LET c == net.arg[p] IN
       /\ txp[c]
       /\ clash' = (clash \/ ~buf)
       /\ \/ /\ txp' = [txp EXCEPT ![c] = FALSE] /\ buf' = FALSE
             /\ loose' = (loose \/ (pc \in {"read", "send"} /\ c = temp))
          \/ UNCHANGED <<txp, buf, loose>>
    /\ net' = ToFront(net, p)
    /\ UNCHANGED <<pc, server, ctx, temp, aborted, crowded>>

(* The FIN of the client: the receive callback marks the context and        *)
(* forgets temp->p, also between the two times that user_transmit reads it. *)
ServerFin(p) ==
    /\ net.st[p] = "ESTABLISHED"
    /\ net' = [ToFront(net, p) EXCEPT !.st[p] = "CLOSE_WAIT"]
    /\ ctx' = [ctx EXCEPT ![net.arg[p]] = "closing"]
    /\ txp' = [txp EXCEPT ![net.arg[p]] = FALSE]
    /\ loose' = (loose \/ (pc = "read" /\ net.arg[p] = temp))
    /\ UNCHANGED <<pc, server, buf, temp, clash, aborted, crowded>>

(* The FIN of this side is acknowledged: the pcb is freed.                  *)
ServerFinAcked(p) == /\ net.st[p] = "LAST_ACK"
                     /\ net' = Abandon(net, p)
                     /\ UNCHANGED <<pc, server, ctx, message, aborted, crowded>>

(* A reset: the error callback, then the pcb is freed.                      *)
ServerReset(p) == /\ net' = PcbFree(PcbRemove(net, p), p)
                  /\ ErrorFrees(p)
                  /\ UNCHANGED <<pc, server, txp, buf, temp, clash, aborted, crowded>>

ServerSegment(p) == SynAcked(p) \/ Sent(p) \/ ServerFin(p) \/ ServerFinAcked(p) \/ ServerReset(p)

-----------------------------------------------------------------------------
(* The timers of lwIP, which the main loop runs once a round.               *)

(* Mutant of ServerPoll: the context is freed and the connection left open.       *)
PollFreesOnly(p) ==
    /\ pc = "run" /\ HasCallbacks(p) /\ ctx[net.arg[p]] = "closing"
    /\ net' = Unset(net, p)
    /\ ctx' = [ctx EXCEPT ![net.arg[p]] = "free"]
    /\ UNCHANGED <<pc, server, message, aborted, crowded>>

(* tcp_server_poll: a context marked by the receive callback is closed and  *)
(* freed.                                                                   *)
ServerPoll(p) == /\ pc = "run" /\ HasCallbacks(p) /\ ctx[net.arg[p]] = "closing"
                 /\ net' = Unset(Close(net, p), p)
                 /\ ctx' = [ctx EXCEPT ![net.arg[p]] = "free"]
                 /\ UNCHANGED <<pc, server, message, aborted, crowded>>

(* Mutant of ServerTimeOut: the pcb is freed without being unlinked.              *)
TimeOutLinked(p) == /\ pc = "run"
                    /\ net' = PcbFree(net, p)
                    /\ ErrorFrees(p)
                    /\ UNCHANGED <<pc, server, txp, buf, temp, clash, aborted, crowded>>

(* Too long without an answer: the pcb is freed, then the error callback is *)
(* called.  The element keeps its state and its callback_arg.               *)
ServerTimeOut(p) == /\ pc = "run"
                    /\ net' = PcbFree([net EXCEPT !.active = Unlinked(@, p)], p)
                    /\ ErrorFrees(p)
                    /\ UNCHANGED <<pc, server, txp, buf, temp, clash, aborted, crowded>>

-----------------------------------------------------------------------------
ServerMainLoop == \/ ServerStart \/ ServerTransmitAbort \/ TransmitStart \/ TransmitTest
                  \/ TransmitRead \/ TransmitSend \/ TransmitFree \/ ServerQuit \/ CloseServer

Sound == net.sound /\ ~clash /\ pc # "over"

ServerNext == /\ Sound
              /\ \/ ServerMainLoop \/ Syn
                 \/ \E p \in Range(net.active) : ServerSegment(p) \/ ServerPoll(p) \/ ServerTimeOut(p)

ServerSpec == ServerInit /\ [][ServerNext]_ServerVars

(* The main loop goes on, and each round runs the timers: a connection that *)
(* waits to be polled, or for a last answer, gets its turn.                 *)
ServerFairness ==
    /\ WF_ServerVars(Sound /\ (TransmitTest \/ TransmitRead \/ TransmitSend \/ TransmitFree
                               \/ CloseServer))
    /\ \A p \in Pcb : /\ SF_ServerVars(Sound /\ p \in Range(net.active) /\ ServerPoll(p))
                      /\ SF_ServerVars(Sound /\ p \in ActiveIn(net, "LAST_ACK") /\ ServerTimeOut(p))

ServerFairSpec == ServerSpec /\ ServerFairness

-----------------------------------------------------------------------------
(* Properties.                                                              *)

(* Whatever the clients do, and with server_pcb a stale address from the    *)
(* first, no pcb is freed twice until the key that sends is pressed with no *)
(* connection in server_pcb (app_ethernet.c:659) or the user quits (:493).  *)
ServerFreedOnce == net.sound \/ aborted \/ pc = "over"

(* Why the server works at all: while clients come one at a time, whatever  *)
(* way each of them leaves, the connection is in the element server_pcb was *)
(* left pointing to (app_ethernet.c:434, 463; tcp.c:906).                   *)
LoneClientIsServerPcb ==
    net.sound /\ ~crowded => Range(net.active) \subseteq {server}

(* A connection with callbacks has a context of its own, and every context  *)
(* that is allocated belongs to a connection lwIP still works on: the error *)
(* and the poll callback free each context once, and none is forgotten      *)
(* before the user quits (app_ethernet.c:672, 700).                         *)
ContextOwned ==
    net.sound /\ pc # "over" =>
        /\ \A p, q \in Range(net.active) :
              HasCallbacks(p) => /\ ~Freed(net.arg[p])
                                 /\ net.arg[p] = net.arg[q] => p = q
        /\ \A c \in Ctx : ~Freed(c) => \E p \in Range(net.active) : net.arg[p] = c

(* A message and its context are not used after they were freed, and no     *)
(* NULL pointer is taken for a message, unless lwIP did not take a message  *)
(* and temp->p was left dangling (:653), the sent callback sent it between  *)
(* the test of temp->p and its use (:617, :620), the receive callback       *)
(* forgot it between the test and the second look (:617, :619), the error   *)
(* callback freed the context during user_transmit (:672), or server_pcb is *)
(* a pcb that died by an error, with its old context (:645).                *)
MessageSafe == loose \/ ~clash

(* Every client that closes is let go: the poll callback closes its pcb,   *)
(* and by the acknowledgement of that or by its time-out the pcb leaves the *)
(* list, if only to serve another connection (app_ethernet.c:680).          *)
HalfClosed(p) == p \in ActiveIn(net, "CLOSE_WAIT") \cup ActiveIn(net, "LAST_ACK")

ClosedIsReleased ==
    \A p \in Pcb : HalfClosed(p) ~> (~HalfClosed(p) \/ ~Sound)
=============================================================================
