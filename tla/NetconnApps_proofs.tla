-------------------------- MODULE NetconnApps_proofs --------------------------
(***************************************************************************)
(* Proofs about NetconnApps for every number of netconns and netbufs and    *)
(* every size of the mailboxes.                                             *)
(***************************************************************************)
EXTENDS NetconnApps, TLAPS

(* What is in a sequence after an element was appended, ...                 *)
LEMMA RangeAppend ==
  ASSUME NEW S, NEW s \in Seq(S), NEW e \in S
  PROVE  Range(Append(s, e)) = Range(s) \cup {e}
<1>1. DOMAIN Append(s, e) = 1 .. Len(s) + 1 /\ DOMAIN s = 1 .. Len(s) /\ Len(s) \in Nat
  OBVIOUS
<1>2. \A i \in 1 .. Len(s) : Append(s, e)[i] = s[i]
  OBVIOUS
<1>3. Append(s, e)[Len(s) + 1] = e
  OBVIOUS
<1> QED
  BY <1>1, <1>2, <1>3 DEF Range

(* ... and after the first was removed, which stays if it occurs again.     *)
LEMMA RangeTail ==
  ASSUME NEW S, NEW s \in Seq(S), s # <<>>
  PROVE  /\ Head(s) \in Range(s) /\ Tail(s) \in Seq(S) /\ Len(Tail(s)) = Len(s) - 1
         /\ Range(s) = Range(Tail(s)) \cup {Head(s)}
         /\ \A i \in DOMAIN Tail(s) : i + 1 \in DOMAIN s /\ Tail(s)[i] = s[i + 1]
<1>1. /\ DOMAIN s = 1 .. Len(s) /\ Len(s) \in Nat /\ Len(s) >= 1
      /\ Tail(s) \in Seq(S) /\ Len(Tail(s)) = Len(s) - 1
      /\ DOMAIN Tail(s) = 1 .. Len(s) - 1
  OBVIOUS
<1>2. \A i \in 1 .. Len(s) - 1 : Tail(s)[i] = s[i + 1]
  OBVIOUS
<1>3. Head(s) = s[1]
  OBVIOUS
<1>4. \A i \in 1 .. Len(s) : i = 1 \/ (i - 1 \in 1 .. Len(s) - 1 /\ s[i] = Tail(s)[i - 1])
  BY <1>1, <1>2
<1>5. Range(s) = Range(Tail(s)) \cup {Head(s)}
  <2>1. ASSUME NEW x \in Range(s) PROVE x \in Range(Tail(s)) \cup {Head(s)}
    <3>1. PICK i \in 1 .. Len(s) : x = s[i]
      BY <1>1 DEF Range
    <3> QED
      BY <1>1, <1>3, <1>4, <3>1 DEF Range
  <2>2. ASSUME NEW x \in Range(Tail(s)) PROVE x \in Range(s)
    <3>1. PICK i \in 1 .. Len(s) - 1 : x = Tail(s)[i]
      BY <1>1 DEF Range
    <3>2. i + 1 \in DOMAIN s /\ x = s[i + 1]
      BY <1>1, <1>2, <3>1
    <3> QED
      BY <3>2 DEF Range
  <2>3. Head(s) \in Range(s)
    BY <1>1, <1>3 DEF Range
  <2> QED
    BY <2>1, <2>2, <2>3
<1> QED
  BY <1>1, <1>2, <1>3, <1>5 DEF Range

-----------------------------------------------------------------------------
(* The type of a netconn, as TypeOK has it.                                 *)
Msg == {"data", "empty", "fin"} \cup Errors

Netconn == [pcb : {"free", "new", "syn", "open", "half", "listen", "udp", "none"},
            mbox : Seq(Msg), pending : {"OK"} \cup Errors]

LEMMA FreshNetconn ==
  ASSUME NEW x \in {"free", "new", "open"}
  PROVE  /\ Fresh(x) \in Netconn /\ Len(Fresh(x).mbox) = 0 /\ Fresh(x).pcb = x
BY DEF Fresh, Netconn

(* A step that changes one netconn.                                         *)
LEMMA Updated ==
  ASSUME TypeOK, NEW c \in Conn, NEW r \in Netconn, Len(r.mbox) <= MboxSize,
         conn' = [conn EXCEPT ![c] = r]
  PROVE  /\ conn' \in [Conn -> Netconn] /\ \A d \in Conn : Len(conn'[d].mbox) <= MboxSize
         /\ conn'[c] = r /\ \A d \in Conn \ {c} : conn'[d] = conn[d]
         /\ FreeConns' = IF r.pcb = "free" THEN FreeConns \cup {c} ELSE FreeConns \ {c}
<1>1. conn \in [Conn -> Netconn] /\ \A d \in Conn : Len(conn[d].mbox) <= MboxSize
  BY DEF TypeOK, Netconn, Msg
<1>2. conn' \in [Conn -> Netconn] /\ conn'[c] = r /\ \A d \in Conn \ {c} : conn'[d] = conn[d]
  BY <1>1
<1>3. \A d \in Conn : Len(conn'[d].mbox) <= MboxSize
  BY <1>1, <1>2
<1> QED
  BY <1>2, <1>3 DEF FreeConns

LEMMA PooledFree == FreeConns # {} => Pooled \in FreeConns
BY DEF Pooled

-----------------------------------------------------------------------------
(* The inductive invariant.                                                 *)
(* What the thread has in its hands at each point of its program.           *)
InLoop == {"loop", "writing", "written", "failed", "recv", "close", "fault"}

WhereInv ==
  /\ own = NoConn <=> pc \in {"delay", "create"}
  /\ peer # NoConn <=> app \in Servers /\ pc \in InLoop
  /\ pc \in {"connecting", "give_up"} => app \in Clients
  /\ pc = "accept" => app \in Servers
  /\ pc = "writing" => app \notin Udps
  /\ pc \in {"writing", "written", "failed"} => flag

(* The netconn is untouched until the thread sets it up.                    *)
FreshInv == pc = "setup" => conn[own] = Fresh("new")

(* A message that may still be sent: bit 4 is set, or the key task has yet  *)
(* to see key 1 or to act on it.  Each is a press that has not been         *)
(* answered.                                                                *)
FromFlag == IF flag /\ pc # "written" THEN 1 ELSE 0

FromKey == IF ktask = "set" \/ (ktask = "test" /\ key = 1) THEN 1 ELSE 0

KeyInv == presses <= 2 /\ FromFlag + FromKey <= presses

(* The netbufs are in the pool or in the mailbox of the UDP netconn, which  *)
(* no error ever deletes.                                                   *)
NetbufInv ==
  /\ app \notin Udps \/ own = NoConn => netbufs = NumNetbuf
  /\ app \in Udps /\ own # NoConn =>
       /\ conn[own].pcb = IF pc = "setup" THEN "new" ELSE "udp"
       /\ netbufs + Len(conn[own].mbox) = NumNetbuf
  /\ app \notin Udps => \A c \in Conn : conn[c].pcb # "udp"
  /\ pc = "fault" => app = "udp_netconn" /\ netbufs = 0

(* ConnsAccounted, and no netconn that was leaked is handed out again.      *)
HolderInv == ConnsAccounted /\ leaked \cap Range(accepts) = {}

AppsInv == TypeOK /\ WhereInv /\ FreshInv /\ KeyInv /\ NetbufInv /\ HolderInv


LEMMA InvInit == Init => AppsInv
<1> SUFFICES ASSUME Init PROVE AppsInv
  OBVIOUS
<1>1. conn \in [Conn -> Netconn] /\ \A c \in Conn : Len(conn[c].mbox) = 0 /\ conn[c].pcb = "free"
  BY FreshNetconn DEF Init
<1>2. TypeOK
  <2>1. accepts \in Seq(Conn \cup Errors) /\ Len(accepts) = 0
    BY DEF Init
  <2>2. NumNetbuf \in 0 .. NumNetbuf /\ 0 <= MboxSize /\ 0 \in Int
    BY AppsAssumption
  <2>3. \A c \in Conn : Len(conn[c].mbox) <= MboxSize
    BY <1>1, <2>2
  <2>4. /\ own \in Conn \cup {NoConn} /\ peer \in Conn \cup {NoConn}
        /\ app \in Clients \cup Servers \cup Udps /\ leaked \subseteq Conn
        /\ pc = "delay" /\ key = 4 /\ ktask = "test" /\ flag = FALSE /\ presses = 0
        /\ netbufs = NumNetbuf
    BY DEF Init
  <2> QED
    BY <1>1, <2>1, <2>2, <2>3, <2>4 DEF TypeOK, Netconn, Msg
<1>3. WhereInv /\ FreshInv /\ KeyInv /\ NetbufInv
  BY <1>1 DEF Init, WhereInv, FreshInv, KeyInv, NetbufInv, FromFlag, FromKey, InLoop, Clients, Servers, Udps
<1>4. HolderInv
  <2>1. FreeConns = Conn
    BY DEF Init, FreeConns, Fresh
  <2>2. Range(accepts) = {} /\ DOMAIN accepts = {}
    BY DEF Init, Range
  <2> QED
    BY <2>1, <2>2 DEF Init, HolderInv, ConnsAccounted
<1> QED
  BY <1>2, <1>3, <1>4 DEF AppsInv

(* The keys: every step keeps the count of presses above what may be sent.  *)
LEMMA KeyStep == AppsInv /\ [Next]_vars => KeyInv'
<1> SUFFICES ASSUME AppsInv, [Next]_vars PROVE KeyInv'
  OBVIOUS
<1> USE DEF AppsInv, KeyInv, FromFlag, FromKey
<1>1. presses \in Int /\ flag \in BOOLEAN /\ key \in {1, 4} /\ ktask \in {"test", "set", "clear"}
  BY DEF TypeOK
<1>2. CASE Press
  BY <1>1, <1>2 DEF Press
<1>3. CASE KeyTest
  BY <1>1, <1>3 DEF KeyTest
<1>4. CASE KeySet
  BY <1>1, <1>4 DEF KeySet, Blocked, Waits
<1>5. CASE KeyClear
  BY <1>1, <1>5 DEF KeyClear
<1>6. CASE WriteTcp
  BY <1>1, <1>6 DEF WriteTcp, Sent
<1>7. CASE WriteUdp
  BY <1>1, <1>7 DEF WriteUdp, Sent
<1>8. CASE WriteMore
  BY <1>1, <1>8 DEF WriteMore, Sent, WhereInv
<1>9. CASE WriteReturns
  <2>1. (flag' => pc = "failed") /\ pc' = "recv" /\ UNCHANGED <<key, ktask, presses>>
    BY <1>9 DEF WriteReturns, keys
  <2>2. pc = "failed" => flag
    BY DEF WhereInv
  <2> QED
    BY <1>1, <2>1, <2>2
<1>10. CASE UNCHANGED <<key, ktask, presses, flag>> /\ (pc' = pc \/ pc # "written")
  BY <1>1, <1>10
<1>11. CASE Delay \/ Create \/ SetupOk \/ SetupFails \/ ConnectStart \/ GiveUp \/ Accept
            \/ NoWrite \/ Recv \/ RecvTimeout \/ Close
  BY <1>10, <1>11
  DEF Delay, Create, SetupOk, SetupFails, ConnectStart, GiveUp, Accept, NoWrite, Recv,
      RecvTimeout, Close, Waits, keys
<1>12. CASE Connected \/ Incoming \/ Datagram
  BY <1>10, <1>12 DEF Connected, Incoming, Datagram, keys
<1>14. CASE \E c \in Conn : Arrives(c)
  BY <1>10, <1>14 DEF Arrives, keys
<1>15. CASE \E c \in Conn : Dies(c)
  <2>1. UNCHANGED <<key, ktask, presses, flag>>
    BY <1>15 DEF Dies, keys
  <2>2. pc' = pc \/ pc # "written"
    BY <1>15 DEF Dies
  <2> QED
    BY <1>10, <2>1, <2>2
<1>13. CASE UNCHANGED vars
  BY <1>10, <1>13 DEF vars
<1> QED
  BY <1>2, <1>3, <1>4, <1>5, <1>6, <1>7, <1>8, <1>9, <1>11, <1>12, <1>13, <1>14,
     <1>15
  DEF Next, Thread, Tcpip, KeyTask

-----------------------------------------------------------------------------
(* Every step leaves the netconns alone or gives one of them a new value    *)
(* that has the type, and makes a UDP pcb of it in a UDP application only.  *)
NewValue(c, r) == /\ c \in Conn /\ r \in Netconn /\ Len(r.mbox) <= MboxSize
                  /\ r.pcb = "udp" => app \in Udps \/ conn[c].pcb = "udp"
                  /\ conn' = [conn EXCEPT ![c] = r]

LEMMA Values ==
  ASSUME TypeOK, NEW c \in Conn
  PROVE  /\ conn[c] \in Netconn /\ Len(conn[c].mbox) <= MboxSize /\ Len(conn[c].mbox) \in Nat
         /\ \A x \in {"new", "syn", "open", "half", "listen", "udp", "none"} :
               /\ [conn[c] EXCEPT !.pcb = x] \in Netconn
               /\ [conn[c] EXCEPT !.pcb = x].mbox = conn[c].mbox
               /\ [conn[c] EXCEPT !.pcb = x].pcb = x
         /\ [conn[c] EXCEPT !.pending = "OK"] \in Netconn
         /\ [conn[c] EXCEPT !.pending = "OK"].mbox = conn[c].mbox
         /\ [conn[c] EXCEPT !.pending = "OK"].pcb = conn[c].pcb
         /\ Fresh("free") \in Netconn /\ Len(Fresh("free").mbox) <= MboxSize
         /\ Fresh("free").pcb = "free"
<1>1. conn[c] \in Netconn /\ Len(conn[c].mbox) <= MboxSize
  BY DEF TypeOK, Netconn, Msg
<1>2. Len(conn[c].mbox) \in Nat
  BY <1>1 DEF Netconn
<1>3. 0 <= MboxSize
  BY AppsAssumption
<1> QED
  BY <1>1, <1>2, <1>3, FreshNetconn DEF Netconn

LEMMA CurConn ==
  ASSUME TypeOK, WhereInv, pc \in InLoop
  PROVE  cur \in Conn
BY DEF TypeOK, WhereInv, InLoop, cur, Clients, Servers, Udps

LEMMA OwnConn ==
  ASSUME TypeOK, WhereInv, pc \notin {"delay", "create"}
  PROVE  own \in Conn
BY DEF TypeOK, WhereInv

(* The action of the thread and of the tcpip thread that change a netconn.  *)
LEMMA ByThread ==
  ASSUME TypeOK, WhereInv, Create \/ SetupOk \/ SetupFails \/ ConnectStart \/ GiveUp
  PROVE  conn' = conn \/ \E c, r : NewValue(c, r)
<1>1. CASE Create
  <2>1. CASE conn' = conn
    BY <2>1
  <2>2. CASE FreeConns # {} /\ conn' = [conn EXCEPT ![Pooled] = Fresh("new")]
    <3>1. Pooled \in Conn
      BY <2>2, PooledFree DEF FreeConns
    <3>2. /\ Fresh("new") \in Netconn /\ Len(Fresh("new").mbox) <= MboxSize
          /\ Fresh("new").pcb = "new"
      BY FreshNetconn, AppsAssumption
    <3> QED
      BY <2>2, <3>1, <3>2 DEF NewValue
  <2> QED
    BY <1>1, <2>1, <2>2 DEF Create
<1>2. CASE SetupOk
  <2>1. own \in Conn
    BY <1>2, OwnConn DEF SetupOk
  <2>2. \/ conn' = [conn EXCEPT ![own] = [conn[own] EXCEPT !.pcb = "listen"]]
        \/ /\ conn' = [conn EXCEPT ![own] = [conn[own] EXCEPT !.pcb = "udp"]]
           /\ app \in Udps
    BY <1>2 DEF SetupOk, TypeOK
  <2>3. \/ NewValue(own, [conn[own] EXCEPT !.pcb = "listen"])
        \/ NewValue(own, [conn[own] EXCEPT !.pcb = "udp"])
    BY <2>1, <2>2, Values DEF NewValue
  <2> QED
    BY <2>3
<1>3. CASE SetupFails
  <2>1. own \in Conn
    BY <1>3, OwnConn DEF SetupFails
  <2>2. conn' = conn \/ NewValue(own, Fresh("free"))
    BY <1>3, <2>1, Values DEF NewValue, SetupFails, Delete
  <2> QED
    BY <2>2
<1>4. CASE ConnectStart
  <2>1. own \in Conn
    BY <1>4, OwnConn DEF ConnectStart
  <2>2. conn' = conn \/ conn' = [conn EXCEPT ![own] = [conn[own] EXCEPT !.pcb = "syn"]]
    BY <1>4 DEF ConnectStart
  <2>3. conn' = conn \/ NewValue(own, [conn[own] EXCEPT !.pcb = "syn"])
    BY <2>1, <2>2, Values DEF NewValue
  <2> QED
    BY <2>3
<1>5. CASE GiveUp
  <2>1. own \in Conn
    BY <1>5, OwnConn DEF GiveUp
  <2>2. NewValue(own, Fresh("free"))
    BY <1>5, <2>1, Values DEF NewValue, GiveUp, Delete
  <2> QED
    BY <2>2
<1> QED
  BY <1>1, <1>2, <1>3, <1>4, <1>5

LEMMA InTheLoop ==
  ASSUME TypeOK, WhereInv, Accept \/ WriteTcp \/ Recv \/ Close
  PROVE  conn' = conn \/ \E c, r : NewValue(c, r)
<1>1. CASE Accept
  <2>1. CASE conn' = conn
    BY <2>1
  <2>2. CASE Head(accepts) \in Conn /\ conn' = Delete(Head(accepts))
    <3>1. NewValue(Head(accepts), Fresh("free"))
      BY <2>2, Values DEF NewValue, Delete
    <3> QED
      BY <3>1
  <2>3. Head(accepts) \in Conn \cup Errors
    BY <1>1, RangeTail DEF Accept, TypeOK
  <2> QED
    BY <1>1, <2>1, <2>2 DEF Accept
<1>2. CASE WriteTcp
  <2>1. cur \in Conn
    BY <1>2, CurConn DEF WriteTcp, InLoop
  <2>2. conn' = conn \/ conn' = [conn EXCEPT ![cur] = [conn[cur] EXCEPT !.pending = "OK"]]
    BY <1>2 DEF WriteTcp
  <2>3. conn' = conn \/ NewValue(cur, [conn[cur] EXCEPT !.pending = "OK"])
    BY <2>1, <2>2, Values DEF NewValue
  <2> QED
    BY <2>3
<1>3. CASE Recv
  <2>1. cur \in Conn
    BY <1>3, CurConn DEF Recv, InLoop
  <2> DEFINE old == conn[cur]
             box == IF old.mbox = <<>> THEN <<>> ELSE Tail(old.mbox)
             p == IF old.mbox = <<>> \/ (Head(old.mbox) = "fin" /\ old.pcb = "none")
                  THEN "OK" ELSE old.pending
             r == [old EXCEPT !.mbox = box, !.pending = p]
  <2>2. conn' = [conn EXCEPT ![cur] = r]
    BY <1>3 DEF Recv
  <2>3. old \in Netconn /\ Len(old.mbox) <= MboxSize
    BY <2>1, Values
  <2>4. box \in Seq(Msg) /\ Len(box) <= Len(old.mbox) /\ p \in {"OK"} \cup Errors
    <3>1. old.mbox \in Seq(Msg) /\ old.pending \in {"OK"} \cup Errors
      BY <2>3 DEF Netconn
    <3>2. CASE old.mbox = <<>>
      BY <3>1, <3>2
    <3>3. CASE old.mbox # <<>>
      <4>1. Tail(old.mbox) \in Seq(Msg) /\ Len(Tail(old.mbox)) = Len(old.mbox) - 1
        BY <3>1, <3>3, RangeTail
      <4>2. Len(old.mbox) \in Nat
        BY <3>1
      <4> QED
        BY <3>1, <3>3, <4>1, <4>2
    <3> QED
      BY <3>2, <3>3
  <2>5. old.mbox \in Seq(Msg) /\ Len(old.mbox) \in Nat /\ Len(box) \in Nat /\ MboxSize \in Nat
    BY <2>3, <2>4, AppsAssumption DEF Netconn
  <2>6. r \in Netconn /\ r.mbox = box /\ r.pcb = old.pcb
    BY <2>3, <2>4 DEF Netconn
  <2>7. Len(r.mbox) <= MboxSize
    BY <2>3, <2>4, <2>5, <2>6
  <2>8. NewValue(cur, r)
    BY <2>1, <2>2, <2>6, <2>7 DEF NewValue
  <2> QED
    BY <2>8
<1>4. CASE Close
  <2>1. cur \in Conn
    BY <1>4, CurConn DEF Close, InLoop
  <2>2. NewValue(cur, Fresh("free"))
    BY <1>4, <2>1, Values DEF NewValue, Close, Delete
  <2> QED
    BY <2>2
<1> QED
  BY <1>1, <1>2, <1>3, <1>4

(* A message is posted to a mailbox that has room.                          *)
LEMMA Posted ==
  ASSUME TypeOK, NEW c \in Conn, NEW m \in Msg, Len(conn[c].mbox) < MboxSize
  PROVE  /\ Append(conn[c].mbox, m) \in Seq(Msg)
         /\ Len(Append(conn[c].mbox, m)) = Len(conn[c].mbox) + 1
         /\ Len(Append(conn[c].mbox, m)) <= MboxSize
<1>1. conn[c].mbox \in Seq(Msg)
  BY Values DEF Netconn
<1> QED
  BY <1>1, AppsAssumption

LEMMA ByTcpip ==
  ASSUME TypeOK, WhereInv, Connected \/ Incoming \/ Datagram
  PROVE  conn' = conn \/ \E c, r : NewValue(c, r)
<1>1. CASE Connected
  <2>1. own \in Conn
    BY <1>1, OwnConn DEF Connected
  <2>2. NewValue(own, [conn[own] EXCEPT !.pcb = "open"])
    BY <1>1, <2>1, Values DEF NewValue, Connected
  <2> QED
    BY <2>2
<1>2. CASE Incoming
  <2>1. CASE conn' = conn
    BY <2>1
  <2>2. CASE FreeConns # {} /\ conn' = [conn EXCEPT ![Pooled] = Fresh("open")]
    <3>1. Pooled \in Conn
      BY <2>2, PooledFree DEF FreeConns
    <3>2. /\ Fresh("open") \in Netconn /\ Len(Fresh("open").mbox) <= MboxSize
          /\ Fresh("open").pcb = "open"
      BY FreshNetconn, AppsAssumption
    <3> QED
      BY <2>2, <3>1, <3>2 DEF NewValue
  <2> QED
    BY <1>2, <2>1, <2>2 DEF Incoming
<1>3. CASE Datagram
  <2>1. own \in Conn
    BY <1>3 DEF Datagram, TypeOK
  <2>2. PICK m \in {"data", "empty"} :
           conn' = [conn EXCEPT ![own] = [conn[own] EXCEPT !.mbox = Append(conn[own].mbox, m)]]
    BY <1>3 DEF Datagram
  <2>3. m \in Msg
    BY DEF Msg
  <2> DEFINE box == Append(conn[own].mbox, m)
  <2>4. box \in Seq(Msg) /\ Len(box) <= MboxSize
    BY <1>3, <2>1, <2>3, Posted DEF Datagram
  <2> HIDE DEF box
  <2>5. /\ [conn[own] EXCEPT !.mbox = box] \in Netconn
        /\ [conn[own] EXCEPT !.mbox = box].mbox = box
        /\ [conn[own] EXCEPT !.mbox = box].pcb = conn[own].pcb
    BY ZenonT(40), <2>1, <2>4, Values DEF Netconn
  <2>6. NewValue(own, [conn[own] EXCEPT !.mbox = box])
    BY <2>1, <2>2, <2>4, <2>5 DEF NewValue, box
  <2> QED
    BY <2>6
<1> QED
  BY <1>1, <1>2, <1>3

(* What data, a FIN and an error make of a connection.                      *)
LEMMA Arrival ==
  ASSUME TypeOK, NEW c \in Conn, Arrives(c)
  PROVE  \E r : NewValue(c, r) /\ r.pcb \in {"open", "half"}
<1>1. PICK m \in {"data", "fin"} :
         conn' = [conn EXCEPT ![c].mbox = Append(@, m), ![c].pcb = IF m = "fin" THEN "half" ELSE @]
  BY DEF Arrives
<1>2. m \in Msg
  BY DEF Msg
<1> DEFINE box == Append(conn[c].mbox, m)
           x   == IF m = "fin" THEN "half" ELSE conn[c].pcb
           r   == [conn[c] EXCEPT !.mbox = box, !.pcb = x]
<1>3. box \in Seq(Msg) /\ Len(box) <= MboxSize
  BY <1>2, Posted DEF Arrives
<1>4. x \in {"open", "half"}
  BY DEF Arrives
<1>5. conn[c] \in Netconn /\ conn \in [Conn -> Netconn]
  BY DEF TypeOK, Netconn, Msg
<1>6. conn' = [conn EXCEPT ![c] = r]
  BY <1>1, <1>5 DEF Netconn
<1> HIDE DEF box, x
<1>7. r \in Netconn /\ r.mbox = box /\ r.pcb = x
  BY <1>3, <1>4, <1>5 DEF Netconn
<1>8. NewValue(c, r)
  BY <1>3, <1>4, <1>6, <1>7 DEF NewValue
<1> QED
  BY <1>4, <1>7, <1>8

LEMMA Death ==
  ASSUME TypeOK, NEW c \in Conn, Dies(c)
  PROVE  \E r : NewValue(c, r) /\ r.pcb = "none"
<1>1. PICK e \in Errors :
         conn' = [conn EXCEPT ![c] = [pcb |-> "none", pending |-> e, mbox |-> Post(c, e)]]
  BY DEF Dies
<1>2. e \in Msg
  BY DEF Msg
<1>3. Post(c, e) \in Seq(Msg) /\ Len(Post(c, e)) <= MboxSize
  <2>1. CASE Len(conn[c].mbox) < MboxSize
    BY <1>2, <2>1, Posted DEF Post
  <2>2. CASE ~(Len(conn[c].mbox) < MboxSize)
    BY <2>2, Values DEF Post, Netconn
  <2> QED
    BY <2>1, <2>2
<1> DEFINE r == [pcb |-> "none", pending |-> e, mbox |-> Post(c, e)]
<1>4. r \in Netconn
  BY <1>3 DEF Netconn
<1>5. NewValue(c, r) /\ r.pcb = "none"
  BY <1>1, <1>3, <1>4 DEF NewValue
<1> QED
  BY <1>5

-----------------------------------------------------------------------------
(* Type correctness.                                                        *)
LEMMA ConnStep ==
  ASSUME TypeOK, WhereInv, [Next]_vars
  PROVE  conn' = conn \/ \E c, r : NewValue(c, r)
<1>1. CASE \E c \in Conn : Arrives(c) \/ Dies(c)
  BY <1>1, Arrival, Death
<1>2. CASE Delay \/ WriteUdp \/ WriteReturns \/ NoWrite \/ RecvTimeout
  BY <1>2 DEF Delay, WriteUdp, WriteReturns, NoWrite, RecvTimeout
<1>3. CASE WriteMore \/ Press \/ KeyTest \/ KeySet \/ KeyClear \/ UNCHANGED vars
  BY <1>3 DEF WriteMore, Press, KeyTest, KeySet, KeyClear, vars
<1> QED
  BY <1>1, <1>2, <1>3, ByThread, InTheLoop, ByTcpip DEF Next, Thread, Tcpip, KeyTask

LEMMA ConnType ==
  ASSUME TypeOK, conn' = conn \/ \E c, r : NewValue(c, r)
  PROVE  conn' \in [Conn -> Netconn] /\ \A c \in Conn : Len(conn'[c].mbox) <= MboxSize
<1>1. CASE conn' = conn
  BY <1>1 DEF TypeOK, Netconn, Msg
<1>2. CASE \E c, r : NewValue(c, r)
  BY <1>2, Updated DEF NewValue
<1> QED
  BY <1>1, <1>2

PCs == {"delay", "create", "setup", "connecting", "give_up", "accept", "loop",
        "writing", "written", "failed", "recv", "close", "fault"}

(* The variables that hold a word or a number.                              *)
LEMMA ScalarStep ==
  ASSUME TypeOK, [Next]_vars
  PROVE  /\ app' = app /\ pc' \in PCs
         /\ key' \in {1, 4} /\ ktask' \in {"test", "set", "clear"} /\ flag' \in BOOLEAN
         /\ presses' \in Int
<1> USE DEF keys
<1>0. /\ pc \in PCs /\ key \in {1, 4} /\ ktask \in {"test", "set", "clear"}
      /\ flag \in BOOLEAN /\ presses \in Int
  BY DEF TypeOK, PCs
<1>1. CASE Delay \/ Create \/ SetupOk \/ SetupFails \/ ConnectStart \/ GiveUp \/ Accept
  BY <1>0, <1>1 DEF Delay, Create, SetupOk, SetupFails, ConnectStart, GiveUp, Accept, PCs
<1>2. CASE WriteTcp \/ WriteUdp \/ NoWrite \/ Recv \/ RecvTimeout \/ Close
  BY <1>0, <1>2 DEF WriteTcp, WriteUdp, NoWrite, Recv, RecvTimeout, Close, Sent, PCs
<1>3. CASE WriteReturns
  <2>1. flag' \in BOOLEAN
    BY <1>3 DEF WriteReturns
  <2> QED
    BY <1>0, <1>3, <2>1 DEF WriteReturns, PCs
<1>4. CASE Connected \/ Incoming \/ WriteMore \/ Datagram
  BY <1>0, <1>4 DEF Connected, Incoming, WriteMore, Datagram, Sent, PCs
<1>5. CASE \E c \in Conn : Arrives(c)
  BY <1>0, <1>5 DEF Arrives
<1>6. CASE \E c \in Conn : Dies(c)
  <2>1. pc' \in PCs
    BY <1>0, <1>6 DEF Dies, PCs
  <2>2. UNCHANGED <<app, key, ktask, flag, presses>>
    BY <1>6 DEF Dies
  <2> QED
    BY <1>0, <2>1, <2>2
<1>7. CASE Press \/ KeyTest \/ KeyClear \/ UNCHANGED vars
  BY <1>0, <1>7 DEF Press, KeyTest, KeyClear, vars
<1>8. CASE KeySet
  BY <1>0, <1>8 DEF KeySet
<1> QED
  BY <1>1, <1>2, <1>3, <1>4, <1>5, <1>6, <1>7, <1>8 DEF Next, Thread, Tcpip, KeyTask

(* What hands a netconn on.                                                 *)
HandsOn == Create \/ SetupFails \/ GiveUp \/ Accept \/ Close \/ Incoming

LEMMA Holds ==
  ASSUME [Next]_vars, ~HandsOn
  PROVE  UNCHANGED <<own, peer, accepts, leaked>>
<1>1. CASE Delay \/ SetupOk \/ ConnectStart \/ WriteTcp \/ WriteUdp \/ NoWrite
  BY <1>1 DEF Delay, SetupOk, ConnectStart, WriteTcp, WriteUdp, NoWrite
<1>2. CASE WriteReturns \/ Recv \/ RecvTimeout \/ Connected \/ WriteMore \/ Datagram
  BY <1>2 DEF WriteReturns, Recv, RecvTimeout, Connected, WriteMore, Datagram
<1>3. CASE \E c \in Conn : Arrives(c) \/ Dies(c)
  BY <1>3 DEF Arrives, Dies
<1>4. CASE Press \/ KeyTest \/ KeySet \/ KeyClear \/ UNCHANGED vars
  BY <1>4 DEF Press, KeyTest, KeySet, KeyClear, vars
<1> QED
  BY <1>1, <1>2, <1>3, <1>4 DEF Next, Thread, Tcpip, KeyTask, HandsOn

LEMMA HolderType ==
  ASSUME TypeOK, WhereInv, [Next]_vars
  PROVE  /\ own' \in Conn \cup {NoConn} /\ peer' \in Conn \cup {NoConn}
         /\ accepts' \in Seq(Conn \cup Errors) /\ Len(accepts') <= MboxSize
         /\ leaked' \subseteq Conn
<1>0. /\ own \in Conn \cup {NoConn} /\ peer \in Conn \cup {NoConn}
      /\ accepts \in Seq(Conn \cup Errors) /\ Len(accepts) <= MboxSize /\ leaked \subseteq Conn
      /\ Len(accepts) \in Nat /\ MboxSize \in Nat
  BY AppsAssumption DEF TypeOK
<1>1. CASE ~HandsOn
  BY <1>0, <1>1, Holds
<1>2. CASE Create
  BY <1>0, <1>2, PooledFree DEF Create, FreeConns
<1>3. CASE SetupFails
  BY <1>0, <1>3, OwnConn DEF SetupFails
<1>4. CASE GiveUp
  BY <1>0, <1>4 DEF GiveUp
<1>5. CASE Accept
  <2>1. /\ Head(accepts) \in Conn \cup Errors /\ Tail(accepts) \in Seq(Conn \cup Errors)
        /\ Len(Tail(accepts)) = Len(accepts) - 1
    <3>1. accepts # <<>>
      BY <1>5 DEF Accept
    <3>2. Head(accepts) \in Conn \cup Errors
      BY <1>0, <3>1
    <3> QED
      BY <1>0, <3>1, <3>2, RangeTail
  <2>2. peer' = peer \/ (peer' = Head(accepts) /\ Head(accepts) \notin Errors)
    BY <1>5 DEF Accept
  <2>3. UNCHANGED <<own, leaked>> /\ accepts' = Tail(accepts)
    BY <1>5 DEF Accept
  <2> QED
    BY <1>0, <2>1, <2>2, <2>3
<1>6. CASE Close
  BY <1>0, <1>6 DEF Close
<1>7. CASE Incoming
  <2>1. PICK m \in Conn \cup Errors : accepts' = Append(accepts, m)
    BY <1>7, PooledFree DEF Incoming, FreeConns, Errors
  <2>2. UNCHANGED <<own, peer, leaked>> /\ Len(accepts) < MboxSize
    BY <1>7 DEF Incoming
  <2> QED
    BY <1>0, <2>1, <2>2
<1> QED
  BY <1>1, <1>2, <1>3, <1>4, <1>5, <1>6, <1>7 DEF HandsOn

LEMMA WhereStep ==
  ASSUME AppsInv, [Next]_vars
  PROVE  WhereInv'
<1> USE DEF keys
<1>0. /\ TypeOK /\ WhereInv /\ NoConn \notin Conn /\ own \in Conn \cup {NoConn}
      /\ peer \in Conn \cup {NoConn} /\ app' = app /\ flag \in BOOLEAN
  BY AppsAssumption, ScalarStep DEF AppsInv, TypeOK
<1> USE <1>0 DEF WhereInv, InLoop, Clients, Servers, Udps
<1>1. CASE Delay \/ SetupOk \/ SetupFails \/ ConnectStart \/ GiveUp
  BY <1>1 DEF Delay, SetupOk, SetupFails, ConnectStart, GiveUp
<1>2. CASE Create
  BY <1>2, PooledFree DEF Create, FreeConns
<1>3. CASE Accept
  <2>1. Head(accepts) \in Conn \cup Errors
    BY <1>3, RangeTail DEF Accept, TypeOK
  <2>2. \/ UNCHANGED <<pc, peer>>
        \/ peer' \in Conn /\ pc' = "loop"
    BY <1>3, <2>1 DEF Accept
  <2>3. UNCHANGED <<own, flag>> /\ pc = "accept"
    BY <1>3 DEF Accept
  <2> QED
    BY <2>2, <2>3
<1>4. CASE WriteTcp \/ WriteUdp \/ NoWrite \/ Recv \/ RecvTimeout \/ Close
  BY <1>4 DEF WriteTcp, WriteUdp, NoWrite, Recv, RecvTimeout, Close, Waits
<1>5. CASE WriteReturns
  <2>1. UNCHANGED <<own, peer>> /\ pc' = "recv" /\ pc \in {"written", "failed"}
    BY <1>5 DEF WriteReturns
  <2> QED
    BY <2>1
<1>6. CASE Connected \/ Incoming \/ WriteMore \/ Datagram
  BY <1>6 DEF Connected, Incoming, WriteMore, Datagram
<1>7. CASE \E c \in Conn : Arrives(c)
  BY <1>7 DEF Arrives
<1>8. CASE \E c \in Conn : Dies(c)
  <2>1. UNCHANGED <<own, peer, flag>>
    BY <1>8 DEF Dies
  <2>2. \/ pc' = pc \/ (pc = "connecting" /\ pc' = "give_up")
        \/ (pc = "writing" /\ pc' = "failed")
    BY <1>8 DEF Dies
  <2> QED
    BY <2>1, <2>2
<1>9. CASE Press \/ KeyTest \/ KeyClear \/ UNCHANGED vars
  BY <1>9 DEF Press, KeyTest, KeyClear, vars
<1>10. CASE KeySet
  BY <1>10 DEF KeySet
<1> QED
  BY <1>1, <1>2, <1>3, <1>4, <1>5, <1>6, <1>7, <1>8, <1>9, <1>10
  DEF Next, Thread, Tcpip, KeyTask

LEMMA FreshStep ==
  ASSUME AppsInv, [Next]_vars
  PROVE  FreshInv'
<1>0. /\ TypeOK /\ WhereInv /\ FreshInv /\ conn \in [Conn -> Netconn]
      /\ (pc # "delay" /\ pc # "create" => own \in Conn)
  BY OwnConn DEF AppsInv, TypeOK, Netconn, Msg
<1>1. CASE Create
  <2>1. pc' = "setup" => /\ FreeConns # {} /\ own' = Pooled
                         /\ conn' = [conn EXCEPT ![Pooled] = Fresh("new")]
    BY <1>1 DEF Create
  <2>2. pc' = "setup" => Pooled \in Conn
    BY <2>1, PooledFree DEF FreeConns
  <2> QED
    BY <1>0, <2>1, <2>2 DEF FreshInv
<1>2. CASE pc' = "setup" => pc = "setup" /\ own' = own /\ conn'[own] = conn[own]
  BY <1>0, <1>2 DEF FreshInv
<1>3. CASE Delay \/ SetupOk \/ SetupFails \/ ConnectStart \/ GiveUp \/ Accept
  BY <1>2, <1>3 DEF Delay, SetupOk, SetupFails, ConnectStart, GiveUp, Accept
<1>4. CASE WriteTcp \/ WriteUdp \/ NoWrite \/ Recv \/ RecvTimeout \/ Close \/ WriteReturns
  BY <1>2, <1>4 DEF WriteTcp, WriteUdp, NoWrite, Recv, RecvTimeout, Close, Waits, WriteReturns
<1>5. CASE Connected \/ WriteMore
  BY <1>2, <1>5 DEF Connected, WriteMore
<1>6. CASE Incoming \/ Datagram
  <2>1. conn[own].pcb \in {"listen", "udp"} /\ pc' = pc
    BY <1>6 DEF Incoming, Datagram
  <2>2. pc # "setup"
    BY <1>0, <2>1, FreshNetconn DEF FreshInv
  <2> QED
    BY <1>2, <2>1, <2>2
<1>7. CASE \E c \in Conn : Arrives(c) \/ Dies(c)
  <2>1. PICK c \in Conn : Arrives(c) \/ Dies(c)
    BY <1>7
  <2>2. /\ conn[c].pcb \in {"syn", "open", "half"} /\ own' = own
        /\ (pc' = "setup" => pc = "setup")
    BY <2>1 DEF Arrives, Dies
  <2>3. \A d \in Conn \ {c} : conn'[d] = conn[d]
    BY <1>0, <2>1, Arrival, Death DEF NewValue
  <2>4. pc = "setup" => own # c
    BY <1>0, <2>2, FreshNetconn DEF FreshInv
  <2> QED
    BY <1>0, <1>2, <2>2, <2>3, <2>4
<1>8. CASE Press \/ KeyTest \/ KeySet \/ KeyClear \/ UNCHANGED vars
  BY <1>2, <1>8 DEF Press, KeyTest, KeySet, KeyClear, vars
<1> QED
  BY <1>1, <1>3, <1>4, <1>5, <1>6, <1>7, <1>8 DEF Next, Thread, Tcpip, KeyTask

LEMMA NetbufStep ==
  ASSUME AppsInv, [Next]_vars
  PROVE  NetbufInv'
<1>0. /\ TypeOK /\ WhereInv /\ FreshInv /\ NetbufInv /\ NoConn \notin Conn /\ app' = app
      /\ conn \in [Conn -> Netconn] /\ own \in Conn \cup {NoConn} /\ WhereInv'
      /\ NumNetbuf \in Nat /\ netbufs \in Nat
      /\ (own # NoConn => own \in Conn /\ Len(conn[own].mbox) \in Nat)
  <2>1. TypeOK /\ WhereInv /\ FreshInv /\ NetbufInv
    BY DEF AppsInv
  <2>2. NoConn \notin Conn /\ NumNetbuf \in Nat
    BY AppsAssumption
  <2>3. /\ conn \in [Conn -> Netconn] /\ own \in Conn \cup {NoConn} /\ netbufs \in Nat
    BY <2>1, <2>2 DEF TypeOK, Netconn, Msg
  <2>4. own # NoConn => own \in Conn /\ Len(conn[own].mbox) \in Nat
    BY <2>1, <2>3, Values
  <2> QED
    BY <2>1, <2>2, <2>3, <2>4, ScalarStep, WhereStep
<1>1. app \notin Udps => \A d \in Conn : conn'[d].pcb # "udp"
  <2>1. CASE conn' = conn
    BY <1>0, <2>1 DEF NetbufInv
  <2>2. CASE \E c, r : NewValue(c, r)
    <3>1. PICK c, r : NewValue(c, r)
      BY <2>2
    <3>2. conn'[c] = r /\ \A d \in Conn \ {c} : conn'[d] = conn[d]
      BY <1>0, <3>1 DEF NewValue
    <3> QED
      BY <1>0, <3>1, <3>2 DEF NewValue, NetbufInv
  <2> QED
    BY <1>0, <2>1, <2>2, ConnStep
(* Nothing about the UDP netconn changes.                                   *)
<1>2. ASSUME own' = own, netbufs' = netbufs,
             app \in Udps /\ own # NoConn =>
               conn'[own] = conn[own] /\ (pc = "setup" <=> pc' = "setup"),
             pc' = "fault" => pc = "fault"
      PROVE  NetbufInv'
  BY <1>0, <1>1, <1>2 DEF NetbufInv
<1>3. CASE UNCHANGED <<own, netbufs, conn>> /\ (pc = "setup" <=> pc' = "setup")
           /\ (pc' = "fault" => pc = "fault")
  BY <1>2, <1>3
<1>4. CASE Delay \/ NoWrite \/ RecvTimeout \/ WriteMore \/ Press \/ KeyTest \/ KeySet \/ KeyClear
  BY <1>3, <1>4
  DEF Delay, NoWrite, RecvTimeout, WriteMore, Press, KeyTest, KeySet, KeyClear, Waits
<1>5. CASE WriteReturns
  <2>1. UNCHANGED <<own, netbufs, conn>> /\ pc # "setup" /\ pc' = "recv"
    BY <1>5 DEF WriteReturns
  <2> QED
    BY <1>3, <2>1
<1>6. CASE UNCHANGED vars
  BY <1>3, <1>6 DEF vars
<1>7. CASE ConnectStart \/ Connected \/ WriteTcp \/ GiveUp \/ Accept
  <2>1. app \notin Udps
    BY <1>0, <1>7
    DEF ConnectStart, Connected, WriteTcp, GiveUp, Accept, WhereInv, Clients, Servers, Udps
  <2>2. netbufs' = netbufs /\ pc' # "fault"
    BY <1>0, <1>7 DEF ConnectStart, Connected, WriteTcp, GiveUp, Accept
  <2> QED
    BY <1>0, <1>1, <2>1, <2>2 DEF NetbufInv
<1>8. CASE Create
  <2>1. own = NoConn /\ netbufs' = netbufs /\ netbufs = NumNetbuf /\ pc' \in {"setup", "delay"}
    BY <1>0, <1>8 DEF Create, WhereInv, NetbufInv
  <2>2. own' # NoConn => pc' = "setup" /\ conn'[own'] = Fresh("new") /\ own' \in Conn
    BY <1>0, <1>8, <2>1, PooledFree DEF Create, FreeConns
  <2> QED
    BY <1>0, <1>1, <2>1, <2>2, FreshNetconn DEF NetbufInv
<1>9. CASE SetupOk
  <2>1. /\ own' = own /\ own \in Conn /\ netbufs' = netbufs /\ pc' \in {"accept", "loop"}
        /\ conn[own] = Fresh("new")
    BY <1>0, <1>9, OwnConn DEF SetupOk, FreshInv
  <2>2. app \in Udps => conn'[own] = [conn[own] EXCEPT !.pcb = "udp"]
    BY <1>0, <1>9, <2>1 DEF SetupOk, Servers, Udps
  <2>3. app \in Udps => conn'[own].pcb = "udp" /\ conn'[own].mbox = conn[own].mbox
    BY <1>0, <2>1, <2>2 DEF Netconn
  <2> QED
    BY <1>0, <1>1, <2>1, <2>3 DEF NetbufInv
<1>10. CASE SetupFails
  <2>1. /\ own' = NoConn /\ own \in Conn /\ netbufs' = netbufs /\ pc' = "delay"
        /\ conn[own] = Fresh("new")
    BY <1>0, <1>10, OwnConn DEF SetupFails, FreshInv
  <2>2. netbufs = NumNetbuf
    BY <1>0, <2>1, FreshNetconn DEF NetbufInv
  <2> QED
    BY <1>0, <1>1, <2>1, <2>2 DEF NetbufInv
<1>11. CASE WriteUdp
  <2>1. /\ UNCHANGED <<own, conn, netbufs>> /\ pc = "loop" /\ pc' \in {"fault", "written", "failed"}
        /\ pc' = "fault" => app = "udp_netconn" /\ netbufs = 0
    BY <1>11 DEF WriteUdp, Udps, Sockets
  <2> QED
    BY <1>0, <1>1, <2>1 DEF NetbufInv
<1>12. CASE Recv
  <2>1. cur \in Conn /\ own' = own /\ pc' \in {"close", "loop"} /\ pc = "recv"
    BY <1>0, <1>12, CurConn DEF Recv, InLoop
  <2>2. CASE app \notin Udps
    BY <1>0, <1>1, <1>12, <2>1, <2>2 DEF Recv, NetbufsAfterRecv, NetbufInv
  <2>3. CASE app \in Udps
    <3>1. cur = own /\ own \in Conn /\ conn[own].pcb = "udp"
      BY <1>0, <2>1, <2>3 DEF cur, Servers, Udps, NetbufInv
    <3>2. conn[own].mbox # <<>>
      BY <1>12, <2>1, <3>1 DEF Recv, Waits
    <3>3. conn'[own].pcb = "udp" /\ conn'[own].mbox = Tail(conn[own].mbox)
      BY <1>0, <1>12, <3>1, <3>2 DEF Recv, Netconn
    <3>4. Len(Tail(conn[own].mbox)) = Len(conn[own].mbox) - 1
      BY <1>0, <3>1, <3>2, RangeTail DEF Netconn
    <3>5. netbufs' = netbufs + 1
      BY <1>12, <2>3 DEF Recv, NetbufsAfterRecv
    <3>6. netbufs + Len(conn[own].mbox) = NumNetbuf
      BY <1>0, <2>3, <3>1 DEF NetbufInv
    <3>7. Len(conn[own].mbox) \in Nat /\ netbufs \in Nat
      BY <1>0, <3>1
    <3>8. Len(conn'[own].mbox) = Len(conn[own].mbox) - 1
      BY <3>3, <3>4
    <3> DEFINE n == Len(conn[own].mbox)
               m == Len(conn'[own].mbox)
    <3> HIDE DEF n, m
    <3>9. n \in Nat /\ netbufs \in Nat /\ m = n - 1 /\ netbufs' = netbufs + 1
           /\ netbufs + n = NumNetbuf
      BY <3>5, <3>6, <3>7, <3>8 DEF n, m
    <3>10. netbufs' + m = NumNetbuf
      BY <3>9
    <3>11. netbufs' + Len(conn'[own].mbox) = NumNetbuf
      BY <3>10 DEF m
    <3> QED
      BY <1>0, <1>1, <2>1, <2>3, <3>1, <3>3, <3>11 DEF NetbufInv
  <2> QED
    BY <2>2, <2>3
<1>13. CASE Close
  <2>1. app \in Udps => cur = own /\ own' = NoConn
    BY <1>13 DEF Close, cur, Servers, Udps
  <2>2. pc' # "fault" /\ pc = "close"
    BY <1>13 DEF Close
  <2>3. app \in Udps => own # NoConn
    BY <1>0, <2>2 DEF WhereInv
  <2>4. app \in Udps => netbufs' = netbufs + Len(conn[own].mbox)
    BY <1>13, <2>1 DEF Close
  <2>5. app \notin Udps => netbufs' = netbufs
    BY <1>13 DEF Close
  <2> QED
    BY <1>0, <1>1, <2>1, <2>2, <2>3, <2>4, <2>5 DEF NetbufInv
<1>14. CASE Incoming
  <2>1. own # NoConn /\ conn[own].pcb = "listen" /\ UNCHANGED <<own, netbufs, pc>>
    BY <1>14 DEF Incoming
  <2>2. app \notin Udps
    BY <1>0, <2>1 DEF NetbufInv
  <2> QED
    BY <1>2, <2>1, <2>2
<1>15. CASE Datagram
  <2>1. /\ own \in Conn /\ conn[own].pcb = "udp" /\ netbufs > 0 /\ netbufs' = netbufs - 1
        /\ UNCHANGED <<own, pc>> /\ Len(conn[own].mbox) < MboxSize
    BY <1>0, <1>15 DEF Datagram
  <2>2. app \in Udps /\ pc # "setup" /\ pc # "fault"
    BY <1>0, <2>1 DEF NetbufInv
  <2>3. PICK m \in {"data", "empty"} :
           conn' = [conn EXCEPT ![own] = [conn[own] EXCEPT !.mbox = Append(conn[own].mbox, m)]]
    BY <1>15 DEF Datagram
  <2>4. Len(Append(conn[own].mbox, m)) = Len(conn[own].mbox) + 1
    BY <1>0, <2>1, Posted DEF Msg
  <2>5. conn'[own].pcb = "udp" /\ conn'[own].mbox = Append(conn[own].mbox, m)
    BY <1>0, <2>1, <2>3 DEF Netconn
  <2>6. netbufs + Len(conn[own].mbox) = NumNetbuf
    BY <1>0, <2>1, <2>2 DEF NetbufInv
  <2>7. Len(conn[own].mbox) \in Nat /\ netbufs \in Nat /\ netbufs' = netbufs - 1
    BY <1>0, <2>1
  <2>8. Len(conn'[own].mbox) = Len(conn[own].mbox) + 1
    BY <2>4, <2>5
  <2>9. netbufs' + Len(conn'[own].mbox) = NumNetbuf
    BY <2>6, <2>7, <2>8
  <2> QED
    BY <1>0, <1>1, <2>1, <2>2, <2>5, <2>9 DEF NetbufInv
<1>16. CASE \E c \in Conn : Arrives(c) \/ Dies(c)
  <2>1. PICK c \in Conn : Arrives(c) \/ Dies(c)
    BY <1>16
  <2>2. conn[c].pcb \in {"syn", "open", "half"} /\ UNCHANGED <<own, netbufs>>
    BY <2>1 DEF Arrives, Dies
  <2>3. \A d \in Conn \ {c} : conn'[d] = conn[d]
    BY <1>0, <2>1, Arrival, Death DEF NewValue
  <2>4. app \in Udps /\ own # NoConn => own # c
    BY <1>0, <2>2 DEF NetbufInv
  <2>5. /\ (pc' = "fault" => pc = "fault")
        /\ (app \in Udps => (pc = "setup" <=> pc' = "setup"))
    BY <1>0, <2>1 DEF Arrives, Dies, WhereInv, Clients, Udps
  <2> QED
    BY <1>0, <1>2, <2>2, <2>3, <2>4, <2>5
<1> QED
  BY <1>4, <1>5, <1>6, <1>7, <1>8, <1>9, <1>10, <1>11, <1>12, <1>13, <1>14, <1>15, <1>16
  DEF Next, Thread, Tcpip, KeyTask

LEMMA NetbufType ==
  ASSUME AppsInv, [Next]_vars
  PROVE  netbufs' \in Nat
<1>0. /\ TypeOK /\ WhereInv /\ netbufs \in Nat
      /\ (pc \in InLoop => cur \in Conn /\ Len(conn[cur].mbox) \in Nat)
  <2>1. TypeOK /\ WhereInv
    BY DEF AppsInv
  <2>2. netbufs \in Nat
    BY <2>1, AppsAssumption DEF TypeOK
  <2> QED
    BY <2>1, <2>2, CurConn, Values
<1>1. CASE netbufs' = netbufs
  BY <1>0, <1>1
<1>2. CASE Recv
  BY <1>0, <1>2 DEF Recv, NetbufsAfterRecv
<1>3. CASE Close
  BY <1>0, <1>3 DEF Close, InLoop
<1>4. CASE Datagram
  BY <1>0, <1>4 DEF Datagram
<1>5. CASE Delay \/ Create \/ SetupOk \/ SetupFails \/ ConnectStart \/ GiveUp \/ Accept
  BY <1>1, <1>5 DEF Delay, Create, SetupOk, SetupFails, ConnectStart, GiveUp, Accept
<1>6. CASE WriteTcp \/ WriteUdp \/ WriteReturns \/ NoWrite \/ RecvTimeout \/ WriteMore
  BY <1>1, <1>6 DEF WriteTcp, WriteUdp, WriteReturns, NoWrite, RecvTimeout, WriteMore
<1>7. CASE Connected \/ Incoming \/ \E c \in Conn : Arrives(c) \/ Dies(c)
  BY <1>1, <1>7 DEF Connected, Incoming, Arrives, Dies
<1>8. CASE Press \/ KeyTest \/ KeySet \/ KeyClear \/ UNCHANGED vars
  BY <1>1, <1>8 DEF Press, KeyTest, KeySet, KeyClear, vars
<1> QED
  BY <1>2, <1>3, <1>4, <1>5, <1>6, <1>7, <1>8 DEF Next, Thread, Tcpip, KeyTask

LEMMA TypeStep ==
  ASSUME AppsInv, [Next]_vars
  PROVE  TypeOK'
<1>1. TypeOK /\ WhereInv
  BY DEF AppsInv
<1>2. conn' \in [Conn -> Netconn] /\ \A c \in Conn : Len(conn'[c].mbox) <= MboxSize
  BY <1>1, ConnStep, ConnType
<1>3. netbufs' \in 0 .. NumNetbuf
  <2>1. netbufs' \in Nat /\ NumNetbuf \in Nat
    BY NetbufType, AppsAssumption
  <2>2. own' # NoConn => Len(conn'[own'].mbox) \in Nat
    <3>1. own' # NoConn => own' \in Conn
      BY <1>1, HolderType
    <3> QED
      BY <1>2, <3>1 DEF Netconn
  <2>3. CASE app' \in Udps /\ own' # NoConn
    <3>1. netbufs' + Len(conn'[own'].mbox) = NumNetbuf
      BY <2>3, NetbufStep DEF NetbufInv
    <3> QED
      BY <2>1, <2>2, <2>3, <3>1
  <2>4. CASE app' \notin Udps \/ own' = NoConn
    BY <2>1, <2>4, NetbufStep DEF NetbufInv
  <2> QED
    BY <2>3, <2>4
<1>4. app' \in Clients \cup Servers \cup Udps
  BY <1>1, ScalarStep DEF TypeOK
<1> QED
  BY <1>1, <1>2, <1>3, <1>4, ScalarStep, HolderType DEF TypeOK, PCs, Netconn, Msg

-----------------------------------------------------------------------------
(* Who holds which netconn.                                                 *)
LEMMA FreeSame ==
  ASSUME AppsInv, [Next]_vars, ~HandsOn
  PROVE  FreeConns' = FreeConns
<1>0. /\ TypeOK /\ WhereInv /\ conn \in [Conn -> Netconn] /\ NoConn \notin Conn
      /\ own \in Conn \cup {NoConn} /\ peer \in Conn \cup {NoConn}
      /\ (own # NoConn => conn[own].pcb # "free") /\ (peer # NoConn => conn[peer].pcb # "free")
  <2>1. TypeOK /\ WhereInv /\ ConnsAccounted /\ NoConn \notin Conn
    BY AppsAssumption DEF AppsInv, HolderInv
  <2> QED
    BY <2>1 DEF TypeOK, ConnsAccounted, FreeConns, Netconn, Msg
<1>1. ASSUME NEW c \in Conn, conn[c].pcb # "free", conn'[c].pcb # "free",
             \A d \in Conn \ {c} : conn'[d] = conn[d]
      PROVE  FreeConns' = FreeConns
  BY <1>1 DEF FreeConns
<1>2. CASE conn' = conn
  BY <1>2 DEF FreeConns
<1>3. CASE Delay \/ WriteUdp \/ WriteReturns \/ NoWrite \/ RecvTimeout
  BY <1>2, <1>3 DEF Delay, WriteUdp, WriteReturns, NoWrite, RecvTimeout
<1>4. CASE WriteMore \/ Press \/ KeyTest \/ KeySet \/ KeyClear \/ UNCHANGED vars
  BY <1>2, <1>4 DEF WriteMore, Press, KeyTest, KeySet, KeyClear, vars
<1>5. CASE SetupOk \/ ConnectStart
  <2>1. own \in Conn
    BY <1>0, <1>5, OwnConn DEF SetupOk, ConnectStart
  <2>2. conn' = conn \/ \E x \in {"listen", "udp", "syn"} :
                           conn' = [conn EXCEPT ![own] = [conn[own] EXCEPT !.pcb = x]]
    BY <1>5 DEF SetupOk, ConnectStart
  <2>3. conn' = conn \/ (conn'[own].pcb # "free" /\ \A d \in Conn \ {own} : conn'[d] = conn[d])
    BY <1>0, <2>1, <2>2 DEF Netconn
  <2> QED
    BY <1>0, <1>1, <1>2, <2>1, <2>3
<1>6. CASE WriteTcp \/ Recv
  <2>1. cur \in Conn
    BY <1>0, <1>6, CurConn DEF WriteTcp, Recv, InLoop
  <2>2. conn[cur].pcb # "free"
    BY <1>0, <2>1 DEF cur
  <2>3. CASE WriteTcp
    BY <1>0, <1>1, <1>2, <2>1, <2>2, <2>3 DEF WriteTcp, Netconn
  <2>4. CASE Recv
    BY <1>0, <1>1, <2>1, <2>2, <2>4 DEF Recv, Netconn
  <2> QED
    BY <1>6, <2>3, <2>4
<1>7. CASE Connected \/ Datagram
  <2>1. own \in Conn
    BY <1>0, <1>7, OwnConn DEF Connected, Datagram
  <2>2. conn'[own].pcb # "free" /\ \A d \in Conn \ {own} : conn'[d] = conn[d]
    BY <1>0, <1>7, <2>1 DEF Connected, Datagram, Netconn
  <2> QED
    BY <1>0, <1>1, <2>1, <2>2
<1>8. CASE \E c \in Conn : Arrives(c) \/ Dies(c)
  <2>1. PICK c \in Conn : Arrives(c) \/ Dies(c)
    BY <1>8
  <2>2. conn[c].pcb # "free"
    BY <2>1 DEF Arrives, Dies
  <2>3. conn'[c].pcb # "free" /\ \A d \in Conn \ {c} : conn'[d] = conn[d]
    BY <1>0, <2>1, Arrival, Death DEF NewValue
  <2> QED
    BY <1>1, <2>2, <2>3
<1> QED
  BY <1>3, <1>4, <1>5, <1>6, <1>7, <1>8 DEF Next, Thread, Tcpip, KeyTask, HandsOn

(* A netconn the thread held is returned to the pool.                       *)
LEMMA Deleted ==
  ASSUME TypeOK, NEW c \in Conn, conn' = Delete(c)
  PROVE  FreeConns' = FreeConns \cup {c}
<1>1. Fresh("free") \in Netconn /\ Len(Fresh("free").mbox) <= MboxSize /\ Fresh("free").pcb = "free"
  BY Values
<1> QED
  BY <1>1, Updated DEF Delete

(* A free netconn is allocated.                                             *)
LEMMA Allocated ==
  ASSUME TypeOK, FreeConns # {}, NEW x \in {"new", "open"},
         conn' = [conn EXCEPT ![Pooled] = Fresh(x)]
  PROVE  FreeConns' = FreeConns \ {Pooled}
<1>1. Pooled \in Conn
  BY PooledFree DEF FreeConns
<1>2. Fresh(x) \in Netconn /\ Len(Fresh(x).mbox) <= MboxSize /\ Fresh(x).pcb # "free"
  BY FreshNetconn, AppsAssumption
<1> QED
  BY <1>1, <1>2, Updated

LEMMA HolderStep ==
  ASSUME AppsInv, [Next]_vars
  PROVE  HolderInv'
<1>0. /\ TypeOK /\ WhereInv /\ HolderInv /\ NoConn \notin Conn \cup Errors
      /\ Conn \cap Errors = {} /\ own \in Conn \cup {NoConn} /\ peer \in Conn \cup {NoConn}
      /\ accepts \in Seq(Conn \cup Errors) /\ leaked \subseteq Conn /\ FreeConns \subseteq Conn
  BY AppsAssumption DEF AppsInv, TypeOK, FreeConns
<1>1. Range(accepts) \subseteq Conn \cup Errors
  BY <1>0 DEF Range
<1>2. FreeConns \cap (leaked \cup {own, peer} \cup Range(accepts)) = {}
  BY <1>0, <1>1 DEF HolderInv, ConnsAccounted, FreeConns
<1>3. CASE ~HandsOn
  <2>1. UNCHANGED <<own, peer, accepts, leaked>> /\ FreeConns' = FreeConns
    BY <1>3, Holds, FreeSame
  <2> QED
    BY <1>0, <2>1 DEF HolderInv, ConnsAccounted, Range
<1>4. CASE Create
  <2>1. own = NoConn /\ peer = NoConn /\ UNCHANGED <<peer, accepts, leaked>>
    BY <1>0, <1>4 DEF Create, WhereInv, InLoop
  <2>2. CASE UNCHANGED <<own, conn>>
    BY <1>0, <2>1, <2>2 DEF HolderInv, ConnsAccounted, FreeConns, Range
  <2>3. CASE FreeConns # {} /\ own' = Pooled /\ conn' = [conn EXCEPT ![Pooled] = Fresh("new")]
    <3>1. FreeConns' = FreeConns \ {Pooled} /\ Pooled \in FreeConns
      BY <1>0, <2>3, Allocated, PooledFree
    <3> QED
      BY <1>0, <1>1, <1>2, <2>1, <2>3, <3>1 DEF HolderInv, ConnsAccounted, Range
  <2> QED
    BY <1>4, <2>2, <2>3 DEF Create
<1>5. CASE SetupFails
  <2>1. /\ own \in Conn /\ peer = NoConn /\ own' = NoConn /\ UNCHANGED <<peer, accepts>>
        /\ own \notin leaked \cup Range(accepts)
    BY <1>0, <1>5, OwnConn DEF SetupFails, WhereInv, InLoop, HolderInv, ConnsAccounted
  <2>2. CASE conn' = Delete(own) /\ UNCHANGED leaked
    <3>1. FreeConns' = FreeConns \cup {own}
      BY <1>0, <2>1, <2>2, Deleted
    <3> QED
      BY <1>0, <1>1, <2>1, <2>2, <3>1 DEF HolderInv, ConnsAccounted, Range
  <2>3. CASE leaked' = leaked \cup {own} /\ UNCHANGED conn
    <3>1. FreeConns' = FreeConns
      BY <2>3 DEF FreeConns
    <3> QED
      BY <1>0, <1>1, <2>1, <2>3, <3>1 DEF HolderInv, ConnsAccounted, Range
  <2> QED
    BY <1>5, <2>2, <2>3 DEF SetupFails
<1>6. CASE GiveUp
  <2>1. /\ own \in Conn /\ peer = NoConn /\ own' = NoConn /\ UNCHANGED <<peer, accepts, leaked>>
        /\ own \notin leaked \cup Range(accepts) /\ conn' = Delete(own)
    BY <1>0, <1>6, OwnConn DEF GiveUp, WhereInv, InLoop, HolderInv, ConnsAccounted
  <2>2. FreeConns' = FreeConns \cup {own}
    BY <1>0, <2>1, Deleted
  <2> QED
    BY <1>0, <1>1, <2>1, <2>2 DEF HolderInv, ConnsAccounted, Range
<1>7. CASE Close
  <2>1. cur \in Conn /\ conn' = Delete(cur) /\ UNCHANGED <<accepts, leaked>>
    BY <1>0, <1>7, CurConn DEF Close, InLoop
  <2>2. FreeConns' = FreeConns \cup {cur}
    BY <1>0, <2>1, Deleted
  <2>3. CASE cur = peer /\ peer' = NoConn /\ own' = own
    BY <1>0, <1>1, <2>1, <2>2, <2>3 DEF HolderInv, ConnsAccounted, Range
  <2>4. CASE cur = own /\ own' = NoConn /\ peer' = peer
    <3>1. own \in Conn /\ own # peer /\ own \notin leaked \cup Range(accepts)
      BY <1>0, <2>1, <2>4 DEF HolderInv, ConnsAccounted
    <3>2. FreeConns' = FreeConns \cup {own} /\ UNCHANGED <<peer, accepts, leaked>> /\ own' = NoConn
      BY <2>1, <2>2, <2>4
    <3> QED
      BY <1>0, <1>1, <3>1, <3>2 DEF HolderInv, ConnsAccounted, Range
  <2> QED
    BY <1>7, <2>3, <2>4 DEF Close, cur
<1>8. CASE Accept
  <2> DEFINE m == Head(accepts)
             R == Range(Tail(accepts))
  <2>1. /\ accepts # <<>> /\ accepts' = Tail(accepts) /\ UNCHANGED <<own, leaked>>
        /\ peer = NoConn
    BY <1>0, <1>8 DEF Accept, WhereInv, InLoop
  <2>2. /\ m \in Conn \cup Errors /\ Range(accepts) = R \cup {m}
        /\ \A i \in DOMAIN Tail(accepts) : i + 1 \in DOMAIN accepts /\ Tail(accepts)[i] = accepts[i + 1]
    BY <1>0, <1>1, <2>1, RangeTail
  <2>3. /\ \A i \in DOMAIN Tail(accepts) : i \in Nat \ {0}
        /\ 1 \in DOMAIN accepts /\ accepts[1] = m
    BY <1>0, <2>1
  <2>4. m \in Conn => m \notin R
    <3>1. SUFFICES ASSUME m \in Conn, m \in R PROVE FALSE
      OBVIOUS
    <3>2. PICK i \in DOMAIN Tail(accepts) : Tail(accepts)[i] = m
      BY <3>1 DEF Range
    <3>3. i + 1 = 1
      BY <1>0, <2>2, <2>3, <3>1, <3>2 DEF HolderInv, ConnsAccounted
    <3> QED
      BY <2>3, <3>3
  <2>5. \A i, j \in DOMAIN accepts' : accepts'[i] = accepts'[j] /\ accepts'[i] \in Conn => i = j
    <3>1. SUFFICES ASSUME NEW i \in DOMAIN Tail(accepts), NEW j \in DOMAIN Tail(accepts),
                          Tail(accepts)[i] = Tail(accepts)[j], Tail(accepts)[i] \in Conn
                   PROVE  i = j
      BY <2>1
    <3>2. i + 1 = j + 1
      BY <1>0, <2>2, <3>1 DEF HolderInv, ConnsAccounted
    <3> QED
      BY <2>3, <3>2
  <2>6. Range(accepts)' = R
    BY <2>1 DEF Range
  <2>7. CASE m \in Errors
    <3>1. UNCHANGED <<peer, conn>>
      BY <1>0, <1>8, <2>7 DEF Accept
    <3>2. FreeConns' = FreeConns
      BY <3>1 DEF FreeConns
    <3>3. R \cap Conn = Range(accepts) \cap Conn
      BY <1>0, <2>2, <2>7
    <3> HIDE DEF m, R
    <3> QED
      BY <1>0, <2>1, <2>2, <2>5, <2>6, <3>1, <3>2, <3>3 DEF HolderInv, ConnsAccounted
  <2>8. CASE m \in Conn /\ DeadOnArrival(m)
    <3>1. UNCHANGED peer /\ conn' = Delete(m)
      BY <1>0, <1>8, <2>8 DEF Accept
    <3>2. FreeConns' = FreeConns \cup {m}
      BY <1>0, <2>8, <3>1, Deleted
    <3> HIDE DEF m, R
    <3> QED
      BY <1>0, <2>1, <2>2, <2>4, <2>5, <2>6, <2>8, <3>1, <3>2 DEF HolderInv, ConnsAccounted
  <2>9. CASE m \in Conn /\ ~DeadOnArrival(m)
    <3>1. UNCHANGED conn /\ peer' = m
      BY <1>0, <1>8, <2>9 DEF Accept
    <3>2. FreeConns' = FreeConns
      BY <3>1 DEF FreeConns
    <3> HIDE DEF m, R
    <3> QED
      BY <1>0, <2>1, <2>2, <2>4, <2>5, <2>6, <2>9, <3>1, <3>2 DEF HolderInv, ConnsAccounted
  <2> QED
    BY <2>2, <2>7, <2>8, <2>9
<1>9. CASE Incoming
  <2>1. UNCHANGED <<own, peer, leaked>>
    BY <1>9 DEF Incoming
  <2>2. ASSUME NEW m \in Conn \cup Errors, accepts' = Append(accepts, m),
               m \in Conn => m \in FreeConns,
               FreeConns' = IF m \in Conn THEN FreeConns \ {m} ELSE FreeConns
        PROVE  HolderInv'
    <3>1. Range(accepts)' = Range(accepts) \cup {m}
      BY <1>0, <2>2, RangeAppend DEF Range
    <3>2. /\ DOMAIN accepts = 1 .. Len(accepts) /\ Len(accepts) \in Nat
          /\ DOMAIN accepts' = 1 .. Len(accepts) + 1
          /\ \A i \in 1 .. Len(accepts) : accepts'[i] = accepts[i]
          /\ accepts'[Len(accepts) + 1] = m
      BY <1>0, <2>2
    <3>3. \A i \in DOMAIN accepts : accepts[i] \in Range(accepts)
      BY DEF Range
    <3>4. \A i, j \in DOMAIN accepts' : accepts'[i] = accepts'[j] /\ accepts'[i] \in Conn => i = j
      <4>1. m \in Conn => \A i \in DOMAIN accepts : accepts[i] # m
        BY <1>2, <2>2, <3>3
      <4>2. \A i \in DOMAIN accepts' : i \in DOMAIN accepts \/ i = Len(accepts) + 1
        BY <3>2
      <4> QED
        BY <1>0, <3>2, <4>1, <4>2 DEF HolderInv, ConnsAccounted
    <3> QED
      BY <1>0, <1>1, <1>2, <2>1, <2>2, <3>1, <3>4 DEF HolderInv, ConnsAccounted
  <2>3. CASE /\ FreeConns # {} /\ accepts' = Append(accepts, Pooled)
             /\ conn' = [conn EXCEPT ![Pooled] = Fresh("open")]
    <3>1. FreeConns' = FreeConns \ {Pooled} /\ Pooled \in FreeConns
      BY <1>0, <2>3, Allocated, PooledFree
    <3> QED
      BY <1>0, <2>2, <2>3, <3>1
  <2>4. CASE FreeConns = {} /\ accepts' = Append(accepts, "ABRT") /\ UNCHANGED conn
    <3>1. FreeConns' = FreeConns /\ "ABRT" \in Errors
      BY <2>4 DEF FreeConns, Errors
    <3> QED
      BY <1>0, <2>2, <2>4, <3>1
  <2> QED
    BY <1>9, <2>3, <2>4 DEF Incoming
<1> QED
  BY <1>3, <1>4, <1>5, <1>6, <1>7, <1>8, <1>9 DEF HandsOn

-----------------------------------------------------------------------------
(* The invariant holds at every step.                                       *)
LEMMA InvAlways == Spec => []AppsInv
<1>1. AppsInv /\ [Next]_vars => AppsInv'
  BY TypeStep, WhereStep, FreshStep, KeyStep, NetbufStep, HolderStep DEF AppsInv
<1> QED
  BY <1>1, InvInit, PTL DEF Spec

(* Type correctness: no mailbox and no pool is ever overrun, by any number  *)
(* of connections, datagrams and keys.                                      *)
THEOREM TypeCorrect == Spec => []TypeOK
<1>1. AppsInv => TypeOK
  BY DEF AppsInv
<1> QED
  BY <1>1, InvAlways, PTL

(* Every netconn that is allocated has one holder, the thread, the accept   *)
(* mailbox or nobody after a failed bind, whenever connections come and     *)
(* die (app_ethernet.c:265, 398, 407).                                      *)
THEOREM HoldersKnown == Spec => []ConnsAccounted
<1>1. AppsInv => ConnsAccounted
  BY DEF AppsInv, HolderInv
<1> QED
  BY <1>1, InvAlways, PTL

(* No message is sent that no key asked for, in whatever order interrupt,   *)
(* key task and thread come to Key_Value and bit 4.                         *)
THEOREM NoneUnasked == Spec => []NothingUnasked
<1>1. AppsInv => NothingUnasked
  BY DEF AppsInv, TypeOK, KeyInv, FromFlag, FromKey, NothingUnasked
<1> QED
  BY <1>1, InvAlways, PTL

(* The NULL pointer of an empty netbuf pool is followed only when the       *)
(* mailbox of the connection holds every netbuf there is.                   *)
THEOREM FloodFaults == Spec => []FaultNeedsFlood
<1>1. AppsInv => FaultNeedsFlood
  <2>1. SUFFICES ASSUME AppsInv, pc = "fault" PROVE Len(conn[own].mbox) >= NumNetbuf
    BY DEF FaultNeedsFlood
  <2>2. TypeOK /\ WhereInv /\ NetbufInv /\ NumNetbuf \in Nat
    BY <2>1, AppsAssumption DEF AppsInv
  <2>3. own \in Conn
    BY <2>1, <2>2, OwnConn
  <2>4. Len(conn[own].mbox) \in Nat
    BY <2>2, <2>3, Values
  <2>5. app \in Udps /\ netbufs = 0 /\ own # NoConn
    BY <2>1, <2>2 DEF NetbufInv, WhereInv, Udps
  <2>6. netbufs + Len(conn[own].mbox) = NumNetbuf
    BY <2>2, <2>5 DEF NetbufInv
  <2> QED
    BY <2>2, <2>4, <2>5, <2>6
<1> QED
  BY <1>1, InvAlways, PTL
=============================================================================
