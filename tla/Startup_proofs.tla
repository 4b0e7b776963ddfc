--------------------------- MODULE Startup_proofs ----------------------------
(***************************************************************************)
(* Proofs about Startup for every period of the counter, every length of    *)
(* the delays, every gap between two looks and every number of reads.       *)
(***************************************************************************)
EXTENDS Startup, TLAPS

(* Division with a remainder.                                              *)
LEMMA Remainder ==
  ASSUME NEW a \in Int, NEW n \in Nat, n > 0
  PROVE  a % n \in 0 .. n - 1 /\ a \div n \in Int /\ a = n * (a \div n) + (a % n)
<1>1. a % n \in 0 .. n - 1 /\ a \div n \in Int
  OBVIOUS
<1>2. a = n * (a \div n) + (a % n)
  OBVIOUS
<1> QED
  BY <1>1, <1>2

(* The counter d ticks later is in its range, and the ticks that the loop   *)
(* makes of the two readings are never more than d.                         *)
LEMMA ElapsedBound ==
  ASSUME NEW v \in 0 .. Load, NEW d \in Nat
  PROVE  LET w == (v - d) % (Load + 1)
         IN  w \in 0 .. Load /\ Elapsed(v, w) \in 0 .. d
<1> DEFINE n == Load + 1
           w == (v - d) % n
           q == (v - d) \div n
<1>1. n \in Nat /\ n > 0 /\ v - d \in Int
  BY StartupAssumption
<1>2. w \in 0 .. n - 1 /\ q \in Int /\ v - d = n * q + w
  BY <1>1, Remainder
<1> HIDE DEF w, q
<1>3. n * q <= v - d
  BY <1>1, <1>2
<1>4. q <= 0
  BY <1>1, <1>2, StartupAssumption
<1>5. CASE q = 0
  BY <1>1, <1>2, <1>5, StartupAssumption DEF Elapsed
<1>6. CASE q <= -1
  <2>1. n * q <= -n
    BY <1>1, <1>2, <1>6
  <2>2. d >= v + n - w
    BY <1>1, <1>2, <2>1
  <2> QED
    BY <1>1, <1>2, <2>2, StartupAssumption DEF Elapsed
<1> QED
  BY <1>2, <1>4, <1>5, <1>6 DEF w

(* A chunk of the milliseconds that are left is one of them at least, and   *)
(* what is owed for all of them is what is owed for it and for the rest.    *)
LEMMA ChunkOfLeft ==
  ASSUME left \in Nat, left > 0
  PROVE  /\ Chunk \in 1 .. left
         /\ left - Chunk \in Nat
         /\ left * TicksPerMs \in Nat /\ Chunk * TicksPerMs \in Nat
         /\ (left - Chunk) * TicksPerMs = left * TicksPerMs - Chunk * TicksPerMs
         /\ (left - Chunk) * TicksPerMs \in Nat
         /\ left - Chunk = 0 => (left - Chunk) * TicksPerMs = 0
<1>1. Chunk \in 1 .. left /\ left - Chunk \in Nat
  BY DEF Chunk
<1> HIDE DEF Chunk
<1>2. (left - Chunk) * TicksPerMs = left * TicksPerMs - Chunk * TicksPerMs
  BY <1>1, StartupAssumption
<1>3. /\ left * TicksPerMs \in Nat /\ Chunk * TicksPerMs \in Nat
      /\ (left - Chunk) * TicksPerMs \in Nat
  BY <1>1, StartupAssumption
<1>4. left - Chunk = 0 => (left - Chunk) * TicksPerMs = 0
  BY StartupAssumption
<1> QED
  BY <1>1, <1>2, <1>3, <1>4

-----------------------------------------------------------------------------
(* The inductive invariant: what is still owed for a delay is covered by    *)
(* what the loop has still to count, ...                                    *)
DelayInv ==
  /\ pc \in Waiting => left > 0 /\ owed <= left * TicksPerMs - tcnt
  /\ pc \notin Waiting => owed = 0

(* ... and what each stage of start-up leaves behind.                       *)
Asleep == ~ started /\ ~ up /\ ~ link /\ announced = 0

Agreed == ~ moved => phy # "none" /\ mac = phy

StageInv ==
  /\ pc \in Waiting \cup {"hal_init", "reset", "autoneg"} => Asleep /\ polls = 0
  /\ pc = "poll" => Asleep /\ polls <= ReadTo /\ (polls > 0 /\ ~ moved => phy = "none")
  /\ pc = "check" => Asleep /\ (~ moved => phy # "none")
  /\ pc = "start" => Asleep /\ Agreed
  /\ pc = "set_up" => started /\ ~ up /\ ~ link /\ announced = 0 /\ Agreed
  /\ pc = "set_link" => started /\ up /\ ~ link /\ announced = 0 /\ Agreed
  /\ pc \in {"config", "running"} =>
        \/ started /\ up /\ link /\ announced = 1 /\ Agreed
        \/ Asleep /\ (polls > 0 /\ ~ moved => phy = "none")

StartupInv == TypeOK /\ DelayInv /\ StageInv

LEMMA InvInit == Init => StartupInv
<1> SUFFICES ASSUME Init PROVE StartupInv
  OBVIOUS
<1>1. 0 \in 0 .. Load /\ 0 \in 0 .. ReadTo + 1 /\ 0 \in 0 .. 2 /\ 0 \in Nat
  BY StartupAssumption
<1>2. TypeOK
  BY <1>1 DEF Init, TypeOK, PcLabels
<1>3. DelayInv /\ StageInv
  BY DEF Init, DelayInv, StageInv, Asleep, Waiting
<1> QED
  BY <1>2, <1>3 DEF StartupInv

(* A look at the counter: it never counts more than has passed.             *)
LEMMA LookKeeps ==
  ASSUME StartupInv, NEW d \in 0 .. MaxGap, Look(d)
  PROVE  StartupInv'
<1> DEFINE counted == tcnt + Elapsed(val, val')
           enough == counted >= Chunk * TicksPerMs
<1>1. /\ pc \in Waiting /\ d \in Nat
      /\ val \in 0 .. Load /\ tcnt \in Nat /\ left \in Nat /\ left > 0 /\ owed \in Nat
      /\ owed <= left * TicksPerMs - tcnt
      /\ Asleep /\ polls = 0
  BY StartupAssumption DEF Look, StartupInv, TypeOK, DelayInv, StageInv
<1>2. val' \in 0 .. Load /\ Elapsed(val, val') \in 0 .. d
  BY <1>1, ElapsedBound DEF Look
<1>3. owed' \in Nat /\ owed' = IF d < owed THEN owed - d ELSE 0
  BY <1>1 DEF Look
<1>4. counted \in Nat /\ counted <= tcnt + d
  BY <1>1, <1>2
<1>5. UNCHANGED <<clock, phy, polls, mac, started, up, link, announced>>
  BY DEF Look, netif
<1>6. /\ Chunk \in 1 .. left
      /\ left - Chunk \in Nat
      /\ left * TicksPerMs \in Nat /\ Chunk * TicksPerMs \in Nat
      /\ (left - Chunk) * TicksPerMs = left * TicksPerMs - Chunk * TicksPerMs
      /\ (left - Chunk) * TicksPerMs \in Nat
      /\ left - Chunk = 0 => (left - Chunk) * TicksPerMs = 0
  BY <1>1, ChunkOfLeft
<1>7. CASE ~ enough
  <2>1. tcnt' = counted /\ left' = left /\ pc' = pc /\ moved' = moved
    <3>1. tcnt' = counted /\ left' = left /\ pc' = pc
      BY <1>7 DEF Look
    <3>2. pc' # "poll"
      BY <1>1, <3>1 DEF Waiting
    <3>3. moved' = (moved /\ pc' # "poll") /\ moved \in BOOLEAN
      BY DEF Look, StartupInv, TypeOK
    <3> QED
      BY <3>1, <3>2, <3>3
  <2>2. owed' <= left' * TicksPerMs - tcnt'
    <3>1. Chunk * TicksPerMs <= left * TicksPerMs
      BY <1>6
    <3> HIDE DEF counted
    <3> QED
      BY <1>1, <1>3, <1>4, <1>6, <1>7, <2>1, <3>1
  <2>3. TypeOK'
    BY <1>1, <1>2, <1>3, <1>4, <1>5, <2>1 DEF StartupInv, TypeOK
  <2>4. StageInv' /\ DelayInv'
    BY <1>1, <1>5, <2>1, <2>2 DEF StageInv, DelayInv, Asleep, Waiting
  <2> QED
    BY <2>3, <2>4 DEF StartupInv
<1>8. CASE enough
  <2>1. /\ tcnt' = 0 /\ left' = left - Chunk
        /\ pc' = IF left' > 0 THEN pc
                 ELSE IF pc = "reset_wait" THEN "autoneg" ELSE "poll"
        /\ moved' = (moved /\ pc' # "poll")
    BY <1>8 DEF Look
  <2>2. owed' <= left' * TicksPerMs
    <3> HIDE DEF counted
    <3> QED
      BY <1>1, <1>3, <1>4, <1>6, <1>8, <2>1
  <2>3. left' = 0 => owed' = 0
    BY <1>3, <1>6, <2>1, <2>2
  <2>4. /\ left' \in Nat
        /\ \/ left' > 0 /\ pc' = pc
           \/ left' = 0 /\ pc' \in {"autoneg", "poll"}
    BY <1>1, <1>6, <2>1 DEF Waiting
  <2>5. TypeOK'
    BY <1>1, <1>2, <1>3, <1>5, <2>1, <2>4 DEF StartupInv, TypeOK, PcLabels
  <2>6. DelayInv'
    <3>1. left' * TicksPerMs \in Nat /\ left' * TicksPerMs - tcnt' = left' * TicksPerMs
      BY <1>6, <2>1
    <3>2. owed' <= left' * TicksPerMs - tcnt'
      BY <2>2, <3>1
    <3> QED
      BY <1>1, <2>3, <2>4, <3>2 DEF DelayInv, Waiting
  <2>7. StageInv'
    BY <1>1, <1>5, <2>4, StartupAssumption DEF StageInv, Asleep, Waiting
  <2> QED
    BY <2>5, <2>6, <2>7 DEF StartupInv
<1> QED
  BY <1>7, <1>8

(* The other steps of start-up: none is in a delay, two begin one.          *)
LEMMA StepKeeps ==
  ASSUME StartupInv, Step
  PROVE  StartupInv'
<1> USE StartupAssumption
    DEF StartupInv, TypeOK, DelayInv, StageInv, Asleep, Agreed, PcLabels,
        Waiting, wait, netif
<1>1. CASE HalInit
  BY <1>1 DEF HalInit
<1>2. CASE PhyReset
  BY <1>2 DEF PhyReset, StartDelay
<1>3. CASE PhyNegotiate
  BY <1>3 DEF PhyNegotiate, StartDelay
<1>4. CASE PhyFails
  BY <1>4 DEF PhyFails
<1>5. CASE Poll
  BY <1>5 DEF Poll
<1>6. CASE CheckLink
  BY <1>6 DEF CheckLink
<1>7. CASE StartMac
  BY <1>7 DEF StartMac
<1>8. CASE SetUp
  BY <1>8 DEF SetUp, NetifSetUp, Report
<1>9. CASE SetLinkUp
  BY <1>9 DEF SetLinkUp, Report
<1>10. CASE Configure
  BY <1>10 DEF Configure, NetifSetUp, Report
<1> QED
  BY <1>1, <1>2, <1>3, <1>4, <1>5, <1>6, <1>7, <1>8, <1>9, <1>10 DEF Step

LEMMA InvStep == StartupInv /\ [Next]_vars => StartupInv'
<1> SUFFICES ASSUME StartupInv, [Next]_vars PROVE StartupInv'
  OBVIOUS
<1>1. CASE Step
  BY <1>1, StepKeeps
<1>2. CASE PhyChanges
  BY <1>2
  DEF PhyChanges, StartupInv, TypeOK, DelayInv, StageInv, Asleep, Agreed, wait, netif
<1>3. CASE \E d \in 0 .. MaxGap : Look(d)
  BY <1>3, LookKeeps
<1>4. CASE UNCHANGED vars
  BY <1>4
  DEF vars, wait, netif, StartupInv, TypeOK, DelayInv, StageInv, Asleep, Agreed
<1> QED
  BY <1>1, <1>2, <1>3, <1>4 DEF Next

LEMMA InvAlways == Spec => []StartupInv
BY InvInit, InvStep, PTL DEF Spec

(* The counters of the delay stay natural numbers in their ranges and the   *)
(* negotiation is read once more than PHY_READ_TO times at most.            *)
THEOREM TypeCorrect == Spec => []TypeOK
<1>1. StartupInv => TypeOK
  BY DEF StartupInv
<1> QED
  BY <1>1, InvAlways, PTL

(* No delay ends early, for any period of the counter and any gaps between  *)
(* two looks at it, be they many periods long.                              *)
THEOREM DelaysLast == Spec => []DelayNeverShort
<1>1. StartupInv => DelayNeverShort
  BY DEF StartupInv, DelayInv, DelayNeverShort
<1> QED
  BY <1>1, InvAlways, PTL

(* When start-up is over the interface, the MAC and the PHY agree, and the  *)
(* address has been announced once, if at all.                              *)
THEOREM InterfaceAgrees == Spec => []UpAsNegotiated
<1>1. StartupInv => UpAsNegotiated
  BY DEF StartupInv, TypeOK, StageInv, Asleep, Agreed, UpAsNegotiated, PcLabels, Waiting
<1> QED
  BY <1>1, InvAlways, PTL
=============================================================================
