---------------------------- MODULE FrameChannel ----------------------------
(***************************************************************************)
(* What a receive path promises the TCP/IP stack: frames go in at one end  *)
(* and come out at the other, each once, in order, none lost on the way.   *)
(* EthRx implements it while the stack holds few enough pbufs.             *)
(***************************************************************************)
EXTENDS Naturals, Sequences

CONSTANTS
  Capacity,  \* frames the channel can hold
  MaxFrame   \* bound: frames accepted in a behaviour

VARIABLES
  queue,     \* the frames on their way
  accepted,  \* number of the last frame that went in
  given      \* number of the last frame that came out

vars == <<queue, accepted, given>>

Init ==
  /\ queue = <<>>
  /\ accepted = 0
  /\ given = 0

Accept ==
  /\ accepted < MaxFrame
  /\ Len(queue) < Capacity
  /\ accepted' = accepted + 1
  /\ queue' = Append(queue, accepted + 1)
  /\ UNCHANGED given

Give ==
  /\ queue # <<>>
  /\ given' = Head(queue)
  /\ queue' = Tail(queue)
  /\ UNCHANGED accepted

Next == Accept \/ Give

Spec == Init /\ [][Next]_vars /\ WF_vars(Give)
=============================================================================
