----------------------------- MODULE NetconnApps -----------------------------
(***************************************************************************)
(* The applications of the FreeRTOS build over netconns and sockets: one    *)
(* thread (priority 4), the netconns the tcpip thread (6) feeds, and the    *)
(* key task (2) and key interrupt that ask the thread for a message.        *)
(*                                                                          *)
(* The six applications differ in how they obtain a connection and in which *)
(* result of a receive makes them give it up; design_define.h compiles one  *)
(* of them, here Init chooses it.  A call of the netconn or socket layer    *)
(* that does not block is one step of the thread; a socket is the netconn   *)
(* it wraps.  lwip_recv may take several elements of a mailbox at once,     *)
(* which its caller cannot tell from taking them one by one.                *)
(***************************************************************************)
EXTENDS Integers, Sequences, FiniteSets, SequencesExt

CONSTANTS
    Conn,       \* the pool of netconns (MEMP_NUM_NETCONN, 4)
    NoConn,     \* the NULL pointer
    MboxSize,   \* the size of a receive or accept mailbox (10)
    NumNetbuf   \* the pool of netbufs (MEMP_NUM_NETBUF, 2)

Errors == {"RST", "ABRT"}     \* what err_tcp may be told

ASSUME AppsAssumption == /\ NoConn \notin Conn \cup Errors /\ Conn \cap Errors = {}
                         /\ MboxSize \in Nat \ {0} /\ NumNetbuf \in Nat \ {0}

VARIABLES
    app,        \* the application that is compiled
    pc,         \* where its thread is
    own,        \* client_netconn, server_netconn, udp_netconn or the socket
    peer,       \* the connection a server has accepted
    conn,       \* the netconns
    accepts,    \* the accept mailbox of the listening netconn
    netbufs,    \* netbufs left in the pool
    key,        \* Key_Value: 1 asks for a message; 4 stands for every other value
    ktask,      \* where key_task is in its loop function
    flag,       \* bit 4 of the status byte: a message is to be sent
    presses,    \* history: presses without a message yet, counted to 2
    leaked      \* history: netconns whose bind or connect failed

vars == <<app, pc, own, peer, conn, accepts, netbufs, key, ktask, flag,
          presses, leaked>>
keys == <<key, ktask, presses>>

Clients == {"client_netconn", "client_socket"}
Servers == {"server_netconn", "server_socket"}
Udps    == {"udp_netconn", "udp_socket"}
Sockets == {"client_socket", "server_socket", "udp_socket"}

(* A netconn: its pcb ("free": not allocated, "none": deleted by an error), *)
(* its receive mailbox and its pending error.                               *)
Fresh(pcb) == [pcb |-> pcb, mbox |-> <<>>, pending |-> "OK"]

FreeConns == {c \in Conn : conn[c].pcb = "free"}

(* Which element the pool hands out makes no difference.                    *)
Pooled == CHOOSE c \in FreeConns : TRUE

Init == /\ app \in Clients \cup Servers \cup Udps
        /\ pc = "delay" /\ own = NoConn /\ peer = NoConn
        /\ conn = [c \in Conn |-> Fresh("free")]
        /\ accepts = <<>> /\ netbufs = NumNetbuf
        /\ key = 4 /\ ktask = "test" /\ flag = FALSE
        /\ presses = 0 /\ leaked = {}

-----------------------------------------------------------------------------
(* The application thread: obtaining a connection.                          *)

cur == IF app \in Servers THEN peer ELSE own

Delete(c) == [conn EXCEPT ![c] = Fresh("free")]

Delay == /\ pc = "delay" /\ pc' = "create"
         /\ UNCHANGED <<app, own, peer, conn, accepts, netbufs, keys, flag, leaked>>

(* netconn_new or socket: NULL or -1 when a pool is empty.                  *)
Create == /\ pc = "create"
          /\ \/ /\ FreeConns # {} /\ own' = Pooled /\ pc' = "setup"
                /\ conn' = [conn EXCEPT ![Pooled] = Fresh("new")]
             \/ pc' = "delay" /\ UNCHANGED <<own, conn>>
          /\ UNCHANGED <<app, peer, accepts, netbufs, keys, flag, leaked>>

(* A server binds and listens, UDP binds and connects.                      *)
SetupOk == /\ pc = "setup" /\ app \notin Clients
           /\ conn' = [conn EXCEPT ![own].pcb = IF app \in Servers THEN "listen" ELSE "udp"]
           /\ pc' = IF app \in Servers THEN "accept" ELSE "loop"
           /\ UNCHANGED <<app, own, peer, accepts, netbufs, keys, flag, leaked>>

(* If that fails a socket is closed; a netconn is never deleted.            *)
SetupFails == /\ pc = "setup" /\ app \notin Clients
              /\ pc' = "delay" /\ own' = NoConn
              /\ IF app \in Sockets THEN conn' = Delete(own) /\ UNCHANGED leaked
                                    ELSE leaked' = leaked \cup {own} /\ UNCHANGED conn
              /\ UNCHANGED <<app, peer, accepts, netbufs, keys, flag>>

(* A client connects and waits; without a route or memory it fails at once. *)
ConnectStart == /\ pc = "setup" /\ app \in Clients
                /\ \/ conn' = [conn EXCEPT ![own].pcb = "syn"] /\ pc' = "connecting"
                   \/ pc' = "give_up" /\ UNCHANGED conn
                /\ UNCHANGED <<app, own, peer, accepts, netbufs, keys, flag, leaked>>

(* Mutant of GiveUp: the netconn is not deleted.                            *)
GiveUpKeeps == /\ pc = "give_up" /\ pc' = "delay" /\ own' = NoConn
               /\ UNCHANGED <<app, peer, conn, accepts, netbufs, keys, flag, leaked>>

GiveUp == /\ pc = "give_up" /\ pc' = "delay"
          /\ conn' = Delete(own) /\ own' = NoConn
          /\ UNCHANGED <<app, peer, accepts, netbufs, keys, flag, leaked>>

(* netconn_accept; lwip_accept also asks for the address of the peer, and   *)
(* deletes a connection that has died in the mailbox.                       *)
DeadOnArrival(m) == app \in Sockets /\ conn[m].pcb = "none"

Accept == /\ pc = "accept" /\ accepts # <<>>
          /\ accepts' = Tail(accepts)
          /\ LET m == Head(accepts) IN
             CASE m \in Errors -> UNCHANGED <<pc, peer, conn>>
               [] m \in Conn /\ DeadOnArrival(m) -> conn' = Delete(m) /\ UNCHANGED <<pc, peer>>
               [] OTHER -> peer' = m /\ pc' = "loop" /\ UNCHANGED conn
          /\ UNCHANGED <<app, own, netbufs, keys, flag, leaked>>

-----------------------------------------------------------------------------
(* The application thread: one round of its inner loop.                     *)

Sent == presses' = presses - 1

(* With bit 4 set, a write: TCP takes the message, or the thread waits for  *)
(* room; a connection that has died makes it fail.                          *)
WriteTcp == /\ pc = "loop" /\ flag /\ app \notin Udps
            /\ IF conn[cur].pcb = "none"
               THEN /\ pc' = "failed" /\ UNCHANGED presses
                    /\ conn' = [conn EXCEPT ![cur].pending = "OK"]
               ELSE /\ \/ pc' = "written" /\ Sent
                       \/ pc' = "writing" /\ UNCHANGED presses
                    /\ UNCHANGED conn
            /\ UNCHANGED <<app, own, peer, accepts, netbufs, key, ktask, flag, leaked>>

(* A datagram: udp_netconn takes a netbuf for it and does not test the      *)
(* result; a socket builds it on the stack.                                 *)
WriteUdp == /\ pc = "loop" /\ flag /\ app \in Udps
            /\ \/ app \notin Sockets /\ netbufs = 0 /\ pc' = "fault" /\ UNCHANGED presses
               \/ /\ app \in Sockets \/ netbufs > 0
                  /\ \/ pc' = "written" /\ Sent
                     \/ pc' = "failed" /\ UNCHANGED presses
            /\ UNCHANGED <<app, own, peer, conn, accepts, netbufs, key, ktask, flag, leaked>>

(* A netconn application clears bit 4 in any case, a socket application     *)
(* when the message was taken.                                              *)
WriteReturns == /\ pc \in {"written", "failed"}
                /\ flag' = (pc = "failed" /\ app \in Sockets)
                /\ pc' = "recv"
                /\ UNCHANGED <<app, own, peer, conn, accepts, netbufs, keys, leaked>>

NoWrite == /\ pc = "loop" /\ ~flag /\ pc' = "recv"
           /\ UNCHANGED <<app, own, peer, conn, accepts, netbufs, keys, flag, leaked>>

(* What a receive returns: the head of the mailbox, or without one the      *)
(* pending error once and ERR_CONN from then on.  A FIN on a connection     *)
(* that has died since is the error.                                        *)
DeadResult(c) == IF conn[c].pending # "OK" THEN conn[c].pending
                 ELSE IF conn[c].mbox # <<>> THEN "RST" ELSE "CONN"

RecvResult(c) ==
    IF conn[c].mbox # <<>> /\ Head(conn[c].mbox) # "fin" THEN Head(conn[c].mbox)
    ELSE IF conn[c].pcb = "none" THEN DeadResult(c)
    ELSE "CLSD"

Waits == pc = "recv" /\ conn[cur].mbox = <<>> /\ conn[cur].pcb # "none"

(* Mutant of Releases: every application looks for the end of data only.    *)
ReleasesAtEnd(result) == result = "CLSD"

(* Which results make the application close the connection: sockets see 0   *)
(* for ERR_CLSD and for an empty datagram, and -1 for the errors.           *)
Releases(result) == \/ result = "CLSD"
                    \/ app = "udp_socket" /\ result = "empty"
                    \/ app \in {"server_netconn", "udp_netconn"} /\ result \in {"CONN", "RST"}

(* Mutant of NetbufsAfterRecv: the netbuf is kept.                          *)
NetbufKept == netbufs

(* A UDP application deletes the netbuf it has received.                    *)
NetbufsAfterRecv == IF app \in Udps THEN netbufs + 1 ELSE netbufs

Recv == /\ pc = "recv" /\ ~Waits
        /\ LET old == conn[cur]
               box == IF old.mbox = <<>> THEN <<>> ELSE Tail(old.mbox)
               fromPending == old.mbox = <<>> \/ (Head(old.mbox) = "fin" /\ old.pcb = "none")
               pending == IF fromPending THEN "OK" ELSE old.pending
           IN  conn' = [conn EXCEPT ![cur] = [old EXCEPT !.mbox = box, !.pending = pending]]
        /\ netbufs' = NetbufsAfterRecv
        /\ pc' = IF Releases(RecvResult(cur)) THEN "close" ELSE "loop"
        /\ UNCHANGED <<app, own, peer, accepts, keys, flag, leaked>>

RecvTimeout == /\ Waits /\ pc' = "loop"
               /\ UNCHANGED <<app, own, peer, conn, accepts, netbufs, keys, flag, leaked>>

(* netconn_close and netconn_delete, or close, which drain the mailbox; a   *)
(* server accepts again.                                                    *)
Close == /\ pc = "close"
         /\ conn' = Delete(cur)
         /\ netbufs' = IF app \in Udps THEN netbufs + Len(conn[cur].mbox) ELSE netbufs
         /\ IF app \in Servers THEN peer' = NoConn /\ pc' = "accept" /\ UNCHANGED own
                               ELSE own' = NoConn /\ pc' = "create" /\ UNCHANGED peer
         /\ UNCHANGED <<app, accepts, keys, flag, leaked>>

-----------------------------------------------------------------------------
(* The tcpip thread.                                                        *)

Post(c, m) == IF Len(conn[c].mbox) < MboxSize THEN Append(conn[c].mbox, m) ELSE conn[c].mbox

(* The peer answers the SYN.                                                *)
Connected == /\ pc = "connecting" /\ conn[own].pcb = "syn"
             /\ conn' = [conn EXCEPT ![own].pcb = "open"] /\ pc' = "loop"
             /\ UNCHANGED <<app, own, peer, accepts, netbufs, keys, flag, leaked>>

(* accept_function: a netconn for the new connection goes into the accept   *)
(* mailbox; without one an error does.  A full mailbox refuses either.      *)
Incoming == /\ own # NoConn /\ conn[own].pcb = "listen" /\ Len(accepts) < MboxSize
            /\ \/ /\ FreeConns # {} /\ accepts' = Append(accepts, Pooled)
                  /\ conn' = [conn EXCEPT ![Pooled] = Fresh("open")]
               \/ /\ FreeConns = {} /\ accepts' = Append(accepts, "ABRT")
                  /\ UNCHANGED conn
            /\ UNCHANGED <<app, pc, own, peer, netbufs, keys, flag, leaked>>

(* recv_tcp: data, or the FIN; what does not fit is presented again.        *)
Arrives(c) == /\ conn[c].pcb = "open" /\ Len(conn[c].mbox) < MboxSize
              /\ \E m \in {"data", "fin"} :
                    conn' = [conn EXCEPT ![c].mbox = Append(@, m),
                                         ![c].pcb = IF m = "fin" THEN "half" ELSE @]
              /\ UNCHANGED <<app, pc, own, peer, accepts, netbufs, keys, flag, leaked>>

(* err_tcp: a reset, or lwIP gives up.  A connect or write that waits fails.*)
Dies(c) == /\ conn[c].pcb \in {"syn", "open", "half"}
           /\ \E e \in Errors :
                 conn' = [conn EXCEPT ![c] = [pcb |-> "none", pending |-> e, mbox |-> Post(c, e)]]
           /\ pc' = CASE c = cur /\ pc = "connecting" -> "give_up"
                      [] c = cur /\ pc = "writing"    -> "failed"
                      [] OTHER                        -> pc
           /\ UNCHANGED <<app, own, peer, accepts, netbufs, keys, flag, leaked>>

(* sent_tcp and poll_tcp: the rest of a message is taken.                   *)
WriteMore == /\ pc = "writing" /\ pc' = "written" /\ Sent
             /\ UNCHANGED <<app, own, peer, conn, accepts, netbufs, key, ktask, flag, leaked>>

(* recv_udp: a datagram needs a netbuf and room in the mailbox.             *)
Datagram == /\ own # NoConn /\ conn[own].pcb = "udp"
            /\ netbufs > 0 /\ Len(conn[own].mbox) < MboxSize
            /\ \E m \in {"data", "empty"} : conn' = [conn EXCEPT ![own].mbox = Append(@, m)]
            /\ netbufs' = netbufs - 1
            /\ UNCHANGED <<app, pc, own, peer, accepts, keys, flag, leaked>>

-----------------------------------------------------------------------------
(* The keys.  The interrupt may come at any time; the key task runs only    *)
(* while the application thread is blocked.                                 *)

Press == /\ key' \in {1, 4}
         /\ presses' = IF key' = 1 /\ presses < 2 THEN presses + 1 ELSE presses
         /\ UNCHANGED <<app, pc, own, peer, conn, accepts, netbufs, ktask, flag, leaked>>

(* Mutant of Blocked: a receive without data returns at once.               *)
BlockedElsewhere == \/ pc \in {"delay", "connecting", "writing"}
                    \/ pc = "accept" /\ accepts = <<>>

Blocked == \/ pc \in {"delay", "connecting", "writing"}
           \/ pc = "accept" /\ accepts = <<>>
           \/ Waits

KeyTest == /\ Blocked /\ ktask = "test" /\ key = 1 /\ ktask' = "set"
           /\ UNCHANGED <<app, pc, own, peer, conn, accepts, netbufs, key, flag, presses, leaked>>

KeySet == /\ Blocked /\ ktask = "set" /\ flag' = TRUE /\ ktask' = "clear"
          /\ UNCHANGED <<app, pc, own, peer, conn, accepts, netbufs, key, presses, leaked>>

(* Mutant of KeyClear: the key stays.                                       *)
KeyKept == /\ Blocked /\ ktask = "clear" /\ ktask' = "test"
           /\ UNCHANGED <<app, pc, own, peer, conn, accepts, netbufs, key, flag, presses, leaked>>

(* A press since the test is lost.                                          *)
KeyClear == /\ Blocked /\ ktask = "clear" /\ key' = 4 /\ ktask' = "test"
            /\ UNCHANGED <<app, pc, own, peer, conn, accepts, netbufs, flag, presses, leaked>>

-----------------------------------------------------------------------------
Thread == \/ Delay \/ Create \/ SetupOk \/ SetupFails \/ ConnectStart \/ GiveUp
          \/ Accept \/ WriteTcp \/ WriteUdp \/ WriteReturns \/ NoWrite
          \/ Recv \/ RecvTimeout \/ Close

Tcpip == \/ Connected \/ Incoming \/ WriteMore \/ Datagram
         \/ \E c \in Conn : Arrives(c) \/ Dies(c)

KeyTask == KeyTest \/ KeySet \/ KeyClear

Next == Thread \/ Tcpip \/ Press \/ KeyTask

Spec == Init /\ [][Next]_vars

(* The thread runs whenever it can; the key task, below it, gets on if it   *)
(* finds the thread blocked again and again.                                *)
Fairness == /\ WF_vars(Thread)
            /\ SF_vars(KeyTest) /\ SF_vars(KeySet) /\ SF_vars(KeyClear)

FairSpec == Spec /\ Fairness

-----------------------------------------------------------------------------
(* Properties.                                                              *)

(* Type correctness: no mailbox holds more than its size, and neither the   *)
(* key nor the status byte has a value no code gives it.                    *)
TypeOK ==
    /\ app \in Clients \cup Servers \cup Udps
    /\ pc \in {"delay", "create", "setup", "connecting", "give_up", "accept", "loop",
               "writing", "written", "failed", "recv", "close", "fault"}
    /\ own \in Conn \cup {NoConn} /\ peer \in Conn \cup {NoConn}
    /\ conn \in [Conn -> [pcb : {"free", "new", "syn", "open", "half", "listen", "udp", "none"},
                          mbox : Seq({"data", "empty", "fin"} \cup Errors),
                          pending : {"OK"} \cup Errors]]
    /\ \A c \in Conn : Len(conn[c].mbox) <= MboxSize
    /\ accepts \in Seq(Conn \cup Errors) /\ Len(accepts) <= MboxSize
    /\ netbufs \in 0..NumNetbuf
    /\ key \in {1, 4} /\ ktask \in {"test", "set", "clear"} /\ flag \in BOOLEAN
    /\ presses \in Int /\ leaked \subseteq Conn

(* Whatever connections do and whenever they die, in the accept mailbox     *)
(* too, every netconn that is allocated has one holder: the thread, the     *)
(* accept mailbox, or nobody if netconn_bind or netconn_connect failed      *)
(* after netconn_new (app_ethernet.c:265, 398, 407).                        *)
ConnsAccounted ==
    /\ Conn \ FreeConns = leaked \cup ({own, peer} \ {NoConn}) \cup (Range(accepts) \cap Conn)
    /\ own = peer => own = NoConn
    /\ {own, peer} \cap (leaked \cup Range(accepts)) = {}
    /\ \A i, j \in DOMAIN accepts :
          accepts[i] = accepts[j] /\ accepts[i] \in Conn => i = j

(* No message is sent that nobody asked for, though the interrupt, the key  *)
(* task and the application thread share Key_Value and bit 4 without        *)
(* protection: there are never more messages than presses                   *)
(* (app_ethernet.c:109, 170, 603, 684; key_bsp.c:64).                       *)
NothingUnasked == presses >= 0

(* netbuf_new finds the pool empty, and the thread follows a NULL pointer   *)
(* (app_ethernet.c:421-423), only when datagrams fill the mailbox with all  *)
(* netbufs there are between two receives: the task itself never keeps one. *)
FaultNeedsFlood == pc = "fault" => Len(conn[own].mbox) >= NumNetbuf

(* The thread is deaf: the connection has died by an error, and what it     *)
(* returns is not what the application waits for.                           *)
Deaf == /\ app \in Clients \cup {"server_socket"}
        /\ pc \in {"loop", "written", "failed", "recv"} /\ conn[cur].pcb = "none"

(* A connection that is over is given up by its application, whatever it    *)
(* was doing and whatever was in the mailbox, if the application is not one *)
(* of those that know the end of the peer's data only: these never leave a  *)
(* connection that was reset (app_ethernet.c:196, 323, 567, 694).           *)
Over == cur # NoConn /\ conn[cur].pcb \in {"half", "none"}

OverIsReleased == Over ~> (~Over \/ pc = "writing" \/ Deaf)

(* Key 1 is noticed or overwritten by another key, unless each receive or   *)
(* accept finds something to return, again and again: then the thread, and  *)
(* with it everything above the key task, never blocks.  A thread that is deaf      *)
(* never blocks either: after a reset no key is noticed any more            *)
(* (main.c:111; app_ethernet.c:106, 599).                                   *)
Flooded == \/ pc = "recv" /\ conn[cur].mbox # <<>>
           \/ pc = "accept" /\ accepts # <<>>

KeyNoticed == <>[]~Flooded => ((key = 1) ~> (key # 1 \/ Deaf \/ pc = "fault"))
=============================================================================
