--------------------------- MODULE RawApps_proofs ---------------------------
(***************************************************************************)
(* Proofs about the raw API applications of the bare-metal build, for      *)
(* pools and sets of contexts of any size: first the lists and the calls   *)
(* of lwIP that TcpPcb defines, then the client, then the server.          *)
(*                                                                         *)
(* The applications share the variables net, pc and ctx of TcpPcb; what is *)
(* said of one of them has Spec, of the other ServerSpec, for hypothesis.  *)
(***************************************************************************)
EXTENDS RawClient, RawServer, SequenceTheorems, FiniteSetTheorems, WellFoundedInduction, TLAPS

-----------------------------------------------------------------------------
(* Sequences without repetitions.                                          *)
LEMMA InRange ==
  ASSUME NEW f, NEW x
  PROVE  /\ x \in Range(f) => \E i \in DOMAIN f : f[i] = x
         /\ \A i \in DOMAIN f : f[i] \in Range(f)
BY DEF Range

(* A list with one more element at its front.                              *)
LEMMA Prepended ==
  ASSUME NEW S, NEW list \in Seq(S), NEW p \in S
  PROVE  /\ <<p>> \o list \in Seq(S)
         /\ Range(<<p>> \o list) = Range(list) \cup {p}
         /\ <<p>> \o list # <<>> /\ Head(<<p>> \o list) = p
         /\ IsInjective(list) /\ p \notin Range(list) => IsInjective(<<p>> \o list)
<1> DEFINE l == <<p>> \o list
<1>1. /\ l \in Seq(S) /\ Len(l) = Len(list) + 1 /\ Len(list) \in Nat
      /\ l[1] = p /\ \A i \in 1 .. Len(list) : l[i + 1] = list[i]
  OBVIOUS
<1>2. DOMAIN l = 1 .. Len(list) + 1 /\ DOMAIN list = 1 .. Len(list)
  BY <1>1
<1>3. \A i \in DOMAIN l : i = 1 \/ (i - 1 \in DOMAIN list /\ l[i] = list[i - 1])
  <2> SUFFICES ASSUME NEW i \in DOMAIN l, i # 1
               PROVE  i - 1 \in DOMAIN list /\ l[i] = list[i - 1]
    OBVIOUS
  <2>1. i - 1 \in 1 .. Len(list) /\ i - 1 + 1 = i
    BY <1>1, <1>2
  <2> QED
    BY <1>1, <1>2, <2>1
<1>4. \A i \in DOMAIN list : i + 1 \in DOMAIN l /\ l[i + 1] = list[i]
  BY <1>1, <1>2
<1>5. 1 \in DOMAIN l /\ l # <<>> /\ Head(l) = p
  BY <1>1, <1>2
<1> HIDE DEF l
<1>6. Range(l) = Range(list) \cup {p}
  <2>1. ASSUME NEW x \in Range(l) PROVE x \in Range(list) \cup {p}
    <3>1. PICK i \in DOMAIN l : l[i] = x
      BY InRange
    <3>2. CASE i = 1
      BY <1>1, <3>1, <3>2
    <3>3. CASE i - 1 \in DOMAIN list /\ l[i] = list[i - 1]
      BY <3>1, <3>3, InRange
    <3> QED
      BY <1>3, <3>2, <3>3
  <2>2. ASSUME NEW x \in Range(list) PROVE x \in Range(l)
    <3>1. PICK i \in DOMAIN list : list[i] = x
      BY InRange
    <3> QED
      BY <1>4, <3>1, InRange
  <2>3. p \in Range(l)
    BY <1>1, <1>5, InRange
  <2> QED
    BY <2>1, <2>2, <2>3
<1>7. ASSUME IsInjective(list), p \notin Range(list) PROVE IsInjective(l)
  <2>1. \A i \in DOMAIN list : list[i] # p
    BY <1>7 DEF Range
  <2>2. \A i, j \in DOMAIN l : i - 1 = j - 1 => i = j
    BY <1>1, <1>2
  <2> QED
    BY <1>1, <1>3, <1>7, <2>1, <2>2 DEF IsInjective
<1> QED
  BY <1>1, <1>5, <1>6, <1>7 DEF l

(* A list without its head.                                                *)
LEMMA TailTaken ==
  ASSUME NEW S, NEW list \in Seq(S), list # <<>>
  PROVE  /\ Head(list) \in Range(list) /\ Head(list) \in S
         /\ Tail(list) \in Seq(S)
         /\ Range(list) = Range(Tail(list)) \cup {Head(list)}
         /\ IsInjective(list) =>
              IsInjective(Tail(list)) /\ Range(Tail(list)) = Range(list) \ {Head(list)}
<1> DEFINE l == Tail(list)
<1>1. /\ Len(list) \in Nat \ {0} /\ l \in Seq(S) /\ Len(l) = Len(list) - 1
      /\ Head(list) = list[1] /\ \A i \in 1 .. Len(l) : l[i] = list[i + 1]
      /\ list[1] \in S
  BY EmptySeq
<1>2. DOMAIN l = 1 .. Len(list) - 1 /\ DOMAIN list = 1 .. Len(list)
  BY <1>1
<1>3. \A i \in DOMAIN list : i = 1 \/ (i - 1 \in DOMAIN l /\ list[i] = l[i - 1])
  <2> SUFFICES ASSUME NEW i \in DOMAIN list, i # 1
               PROVE  i - 1 \in DOMAIN l /\ list[i] = l[i - 1]
    OBVIOUS
  <2>1. i - 1 \in 1 .. Len(l) /\ i - 1 + 1 = i
    BY <1>1, <1>2
  <2> QED
    BY <1>1, <1>2, <2>1
<1>4. \A i \in DOMAIN l : i + 1 \in DOMAIN list /\ i + 1 # 1 /\ l[i] = list[i + 1]
  BY <1>1, <1>2
<1>5. 1 \in DOMAIN list
  BY <1>1, <1>2
<1> HIDE DEF l
<1>6. Range(list) = Range(l) \cup {Head(list)}
  <2>1. ASSUME NEW x \in Range(list) PROVE x \in Range(l) \cup {Head(list)}
    <3>1. PICK i \in DOMAIN list : list[i] = x
      BY InRange
    <3>2. CASE i = 1
      BY <1>1, <3>1, <3>2
    <3>3. CASE i - 1 \in DOMAIN l /\ list[i] = l[i - 1]
      BY <3>1, <3>3, InRange
    <3> QED
      BY <1>3, <3>2, <3>3
  <2>2. ASSUME NEW x \in Range(l) PROVE x \in Range(list)
    <3>1. PICK i \in DOMAIN l : l[i] = x
      BY InRange
    <3> QED
      BY <1>4, <3>1, InRange
  <2>3. Head(list) \in Range(list)
    BY <1>1, <1>5, InRange
  <2> QED
    BY <2>1, <2>2, <2>3
<1>7. ASSUME IsInjective(list)
      PROVE  IsInjective(l) /\ Range(l) = Range(list) \ {Head(list)}
  <2>1. \A i, j \in DOMAIN l : i + 1 = j + 1 => i = j
    BY <1>1, <1>2
  <2>2. IsInjective(l)
    BY <1>4, <1>7, <2>1 DEF IsInjective
  <2>3. Head(list) \notin Range(l)
    BY SMTT(30), ZenonT(60), <1>1, <1>4, <1>5, <1>7 DEF IsInjective, Range
  <2> QED
    BY <1>6, <2>2, <2>3
<1> QED
  BY <1>1, <1>5, <1>6, <1>7 DEF l, Range

(* A set of indices that is not empty has a least one.                     *)
LEMMA LeastIndex ==
  ASSUME NEW I, I \subseteq Nat, I # {}
  PROVE  Min(I) \in I
<1> DEFINE R == {ss \in Nat \X Nat : ss[1] < ss[2]}
<1>1. PICK i \in I : \A j \in I : ~ (<<j, i>> \in R)
  <2>1. IsWellFoundedOn(R, Nat)
    BY NatLessThanWellFounded DEF OpToRel
  <2> HIDE DEF R
  <2> QED
    BY <2>1, WFMin
<1>2. \A j \in I : i <= j
  <2> SUFFICES ASSUME NEW j \in I, ~ (i <= j) PROVE FALSE
    OBVIOUS
  <2>1. i \in Nat /\ j \in Nat /\ j < i
    OBVIOUS
  <2> QED
    BY <1>1, <2>1
<1> QED
  BY <1>2 DEF Min

(* TCP_RMV: the others stay, and in a list without repetition p is gone.   *)
LEMMA FirstRemoved ==
  ASSUME NEW S, NEW list \in Seq(S), NEW p
  PROVE  /\ Unlinked(list, p) \in Seq(S)
         /\ p \notin Range(list) => Unlinked(list, p) = list
         /\ IsInjective(list) =>
              /\ IsInjective(Unlinked(list, p))
              /\ Range(Unlinked(list, p)) = Range(list) \ {p}
<1> DEFINE l == Unlinked(list, p)
<1>1. CASE ~ \E i \in 1 .. Len(list) : list[i] = p
  <2>1. l = list
    BY <1>1 DEF Unlinked, RemoveFirst
  <2>2. p \notin Range(list)
    BY <1>1, InRange
  <2> QED
    BY <2>1, <2>2
<1>2. CASE \E i \in 1 .. Len(list) : list[i] = p
  <2> DEFINE I == {i \in 1 .. Len(list) : list[i] = p}
             m == Min(I)
  <2>1. m \in 1 .. Len(list) /\ list[m] = p
    <3>1. I \subseteq Nat /\ I # {}
      BY <1>2
    <3> HIDE DEF I
    <3>2. m \in I
      BY <3>1, LeastIndex
    <3> QED
      BY <3>2 DEF I
  <2> DEFINE a == SubSeq(list, 1, m - 1)
             b == SubSeq(list, m + 1, Len(list))
  <2>2. l = a \o b
    <3>1. l = RemoveAt(list, SelectInSeq(list, LAMBDA v : v = p))
      BY <1>2 DEF Unlinked, RemoveFirst
    <3>2. SelectInSeq(list, LAMBDA v : v = p) = m
      BY <1>2 DEF SelectInSeq
    <3> QED
      BY <3>1, <3>2 DEF RemoveAt
  <2> HIDE DEF m, l
  <2>3. /\ a \in Seq(S) /\ Len(a) = m - 1
        /\ \A i \in 1 .. m - 1 : a[i] = list[i]
    BY <2>1, SubSeqProperties
  <2>4. /\ b \in Seq(S) /\ Len(b) = Len(list) - m
        /\ \A i \in 1 .. Len(list) - m : b[i] = list[m + i]
    BY <2>1, SubSeqProperties
  <2> HIDE DEF a, b
  <2>5. Len(list) \in Nat /\ m \in Nat /\ m >= 1 /\ m <= Len(list)
    BY <2>1
  <2>6. /\ l \in Seq(S) /\ Len(l) = Len(list) - 1
        /\ \A i \in 1 .. m - 1 : l[i] = list[i]
        /\ \A i \in 1 .. Len(list) - 1 : i > m - 1 => l[i] = b[i - (m - 1)]
    <3>1. l \in Seq(S) /\ Len(l) = Len(a) + Len(b)
      BY <2>2, <2>3, <2>4, ConcatProperties
    <3>2. Len(l) = Len(list) - 1
      BY <2>3, <2>4, <2>5, <3>1
    <3>3. \A i \in 1 .. Len(list) - 1 : l[i] = IF i <= m - 1 THEN a[i] ELSE b[i - (m - 1)]
      BY <2>2, <2>3, <2>4, <3>2, ConcatProperties
    <3> QED
      BY <2>3, <2>5, <3>1, <3>2, <3>3
  <2>7. DOMAIN l = 1 .. Len(list) - 1 /\ DOMAIN list = 1 .. Len(list)
    BY <2>6
  <2>8. \A i \in DOMAIN l : i < m => l[i] = list[i] /\ i \in DOMAIN list
    BY <2>5, <2>6, <2>7
  <2>9. \A i \in DOMAIN l : ~ (i < m) => l[i] = list[i + 1] /\ i + 1 \in DOMAIN list
    <3> SUFFICES ASSUME NEW i \in DOMAIN l, ~ (i < m)
                 PROVE  l[i] = list[i + 1] /\ i + 1 \in DOMAIN list
      OBVIOUS
    <3>1. i - (m - 1) \in 1 .. Len(list) - m /\ m + (i - (m - 1)) = i + 1
          /\ i > m - 1 /\ i + 1 \in DOMAIN list
      BY <2>5, <2>7
    <3>2. l[i] = b[i - (m - 1)]
      BY <2>6, <2>7, <3>1
    <3> QED
      BY <2>4, <3>1, <3>2
  <2>10. \A i \in DOMAIN list : i < m => i \in DOMAIN l
    BY <2>5, <2>7
  <2>11. \A i \in DOMAIN list : i > m => i - 1 \in DOMAIN l /\ l[i - 1] = list[i]
    <3> SUFFICES ASSUME NEW i \in DOMAIN list, i > m
                 PROVE  i - 1 \in DOMAIN l /\ l[i - 1] = list[i]
      OBVIOUS
    <3>1. i - 1 \in DOMAIN l /\ ~ (i - 1 < m) /\ i - 1 + 1 = i
      BY <2>5, <2>7
    <3> QED
      BY <2>9, <3>1
  <2>12. p \in Range(list)
    BY <2>1, <2>7, InRange
  <2>13. ASSUME IsInjective(list) PROVE IsInjective(l)
    <3> SUFFICES ASSUME NEW i \in DOMAIN l, NEW j \in DOMAIN l, l[i] = l[j]
                 PROVE  i = j
      BY DEF IsInjective
    <3>1. i \in Nat /\ j \in Nat
      BY <2>5, <2>7
    <3>2. \A x, y \in DOMAIN list : list[x] = list[y] => x = y
      BY <2>13 DEF IsInjective
    <3>3. CASE i < m /\ j < m
      BY <2>8, <3>2, <3>3
    <3>4. CASE ~ (i < m) /\ ~ (j < m)
      <4>1. i + 1 = j + 1
        BY <2>9, <3>2, <3>4
      <4> QED
        BY <3>1, <4>1
    <3>5. CASE i < m /\ ~ (j < m)
      <4>1. i = j + 1
        BY <2>8, <2>9, <3>2, <3>5
      <4> QED
        BY <2>5, <3>1, <3>5, <4>1
    <3>6. CASE ~ (i < m) /\ j < m
      <4>1. j = i + 1
        BY <2>8, <2>9, <3>2, <3>6
      <4> QED
        BY <2>5, <3>1, <3>6, <4>1
    <3> QED
      BY <3>3, <3>4, <3>5, <3>6
  <2>14. ASSUME IsInjective(list) PROVE Range(l) = Range(list) \ {p}
    <3>1. \A x \in DOMAIN list : list[x] = p => x = m
      BY <2>1, <2>7, <2>14 DEF IsInjective
    <3>2. ASSUME NEW x \in Range(l) PROVE x \in Range(list) \ {p}
      <4>1. PICK i \in DOMAIN l : l[i] = x
        BY InRange
      <4>2. PICK j \in DOMAIN list : list[j] = x /\ j # m
        <5>1. CASE i < m
          BY <2>5, <2>8, <4>1, <5>1
        <5>2. CASE ~ (i < m)
          <6>1. i + 1 # m /\ i + 1 \in DOMAIN list /\ list[i + 1] = x
            BY <2>5, <2>7, <2>9, <4>1, <5>2
          <6> QED
            BY <6>1
        <5> QED
          BY <5>1, <5>2
      <4> QED
        BY <3>1, <4>2, InRange
    <3>3. ASSUME NEW x \in Range(list), x # p PROVE x \in Range(l)
      <4>1. PICK i \in DOMAIN list : list[i] = x
        BY InRange
      <4>2. i < m \/ i > m
        BY <2>1, <2>5, <2>7, <3>3, <4>1
      <4>3. CASE i < m
        BY <2>8, <2>10, <4>1, <4>3, InRange
      <4>4. CASE i > m
        <5>1. i - 1 \in DOMAIN l /\ l[i - 1] = x
          BY <2>11, <4>1, <4>4
        <5> QED
          BY <5>1, InRange
      <4> QED
        BY <4>2, <4>3, <4>4
    <3> QED
      BY <3>2, <3>3
  <2> QED
    BY <2>6, <2>12, <2>13, <2>14 DEF l
<1> QED
  BY <1>1, <1>2

(* What a zeroed element leaves of its list.                               *)
LEMMA PrefixKept ==
  ASSUME NEW S, NEW list \in Seq(S), NEW p
  PROVE  /\ Truncated(list, p) \in Seq(S)
         /\ Range(Truncated(list, p)) \subseteq Range(list)
         /\ IsInjective(list) => IsInjective(Truncated(list, p))
<1> DEFINE l == Truncated(list, p)
<1>1. CASE p \notin Range(list)
  BY <1>1 DEF Truncated
<1>2. CASE p \in Range(list)
  <2> DEFINE m == CHOOSE i \in 1 .. Len(list) : list[i] = p
  <2>1. m \in 1 .. Len(list)
    <3>1. \E i \in 1 .. Len(list) : list[i] = p
      BY <1>2, InRange
    <3> QED
      BY <3>1
  <2>2. l = SubSeq(list, 1, m)
    BY <1>2 DEF Truncated
  <2> HIDE DEF m, l
  <2>3. /\ l \in Seq(S) /\ DOMAIN l = 1 .. m
        /\ \A i \in 1 .. m : l[i] = list[i] /\ i \in DOMAIN list
    BY <2>1, <2>2, SubSeqProperties
  <2>4. Range(l) \subseteq Range(list)
    <3> SUFFICES ASSUME NEW x \in Range(l) PROVE x \in Range(list)
      OBVIOUS
    <3>1. PICK i \in DOMAIN l : l[i] = x
      BY InRange
    <3> QED
      BY <2>3, <3>1, InRange
  <2>5. IsInjective(list) => IsInjective(l)
    BY <2>3 DEF IsInjective
  <2> QED
    BY <2>3, <2>4, <2>5 DEF l
<1> QED
  BY <1>1, <1>2

(* A list of S holds elements of S, and the empty list none.               *)
LEMMA NoneInRange ==
  ASSUME NEW S, NEW list \in Seq(S)
  PROVE  /\ Range(list) \subseteq S
         /\ Range(list) = {} <=> list = <<>>
<1>1. list = <<>> => Range(list) = {}
  BY DEF Range
<1>2. list # <<>> => Head(list) \in Range(list)
  BY TailTaken
<1>3. Range(list) \subseteq S
  BY InRange
<1> QED
  BY <1>1, <1>2, <1>3

-----------------------------------------------------------------------------
(* The stack: its type, what makes its lists lists, and what a call that   *)
(* is about one pcb leaves alone.                                          *)
PcbStates == {"CLOSED", "SYN_SENT", "SYN_RCVD", "ESTABLISHED", "FIN_WAIT_1",
              "FIN_WAIT_2", "CLOSING", "CLOSE_WAIT", "LAST_ACK", "TIME_WAIT"}

Stack == [free : Seq(Pcb), active : Seq(Pcb), tw : Seq(Pcb),
          st : [Pcb -> PcbStates], arg : [Pcb -> Ctx \cup {NoCtx}],
          low : SUBSET Pcb, sound : BOOLEAN]

Free(s) == Range(s.free)
Active(s) == Range(s.active)
Waiting(s) == Range(s.tw)

Lists(s) ==
  /\ IsInjective(s.free) /\ IsInjective(s.active) /\ IsInjective(s.tw)
  /\ \A q \in Pcb : /\ ~ (q \in Free(s) /\ q \in Active(s))
                    /\ ~ (q \in Free(s) /\ q \in Waiting(s))
                    /\ ~ (q \in Active(s) /\ q \in Waiting(s))

Proper(s) == s \in Stack /\ (s.sound => Lists(s))

Apart(s, t, p) ==
  \A q \in Pcb \ {p} : /\ t.st[q] = s.st[q] /\ t.arg[q] = s.arg[q]
                       /\ q \in Free(t) <=> q \in Free(s)
                       /\ q \in Active(t) <=> q \in Active(s)
                       /\ q \in Waiting(t) <=> q \in Waiting(s)

Touches(s, t, p) == Proper(t) /\ (t.sound => s.sound /\ Apart(s, t, p))

(* Two calls about p are a call about p.                                   *)
LEMMA TouchesAgain ==
  ASSUME NEW s, NEW t, NEW u, NEW p, Touches(s, t, p), Touches(t, u, p)
  PROVE  Touches(s, u, p)
BY DEF Touches, Apart

(* The types of the fields of a stack, and who is listed.                  *)
LEMMA StackFields ==
  ASSUME NEW s \in Stack
  PROVE  /\ s.free \in Seq(Pcb) /\ s.active \in Seq(Pcb) /\ s.tw \in Seq(Pcb)
         /\ s.st \in [Pcb -> PcbStates] /\ s.arg \in [Pcb -> Ctx \cup {NoCtx}]
         /\ s.low \in SUBSET Pcb /\ s.sound \in BOOLEAN
         /\ Free(s) \subseteq Pcb /\ Active(s) \subseteq Pcb /\ Waiting(s) \subseteq Pcb
         /\ \A q : q \in Listed(s) <=> q \in Free(s) \/ q \in Active(s) \/ q \in Waiting(s)
BY NoneInRange DEF Stack, Free, Active, Waiting, Listed

(* memp_free.                                                              *)
LEMMA Returned ==
  ASSUME NEW s, Proper(s), NEW p \in Pcb, NEW t, t = PcbFree(s, p)
  PROVE  /\ Touches(s, t, p)
         /\ t.st = s.st /\ t.arg = s.arg /\ t.low = s.low
         /\ t.active = s.active /\ t.tw = s.tw
         /\ p \in Listed(s) => ~ t.sound
         /\ p \notin Listed(s) =>
              /\ t.sound <=> s.sound
              /\ p \in Free(t) /\ t.free # <<>> /\ Head(t.free) = p
<1>1. s \in Stack /\ s.free \in Seq(Pcb)
  BY StackFields DEF Proper
<1>2. CASE p \in Listed(s)
  <2>1. t = [s EXCEPT !.sound = FALSE]
    BY <1>2 DEF PcbFree
  <2>2. t \in Stack /\ ~ t.sound
    BY <1>1, <2>1 DEF Stack
  <2>3. /\ t.st = s.st /\ t.arg = s.arg /\ t.low = s.low
        /\ t.active = s.active /\ t.tw = s.tw
    BY <1>1, <2>1 DEF Stack
  <2> QED
    BY <1>2, <2>2, <2>3 DEF Touches, Proper
<1>3. CASE p \notin Listed(s)
  <2>1. t = [s EXCEPT !.free = <<p>> \o s.free]
    BY <1>3 DEF PcbFree
  <2>2. /\ <<p>> \o s.free \in Seq(Pcb) /\ Range(<<p>> \o s.free) = Free(s) \cup {p}
        /\ <<p>> \o s.free # <<>> /\ Head(<<p>> \o s.free) = p
        /\ IsInjective(s.free) /\ p \notin Free(s) => IsInjective(<<p>> \o s.free)
    BY <1>1, Prepended DEF Free
  <2> DEFINE f == <<p>> \o s.free
  <2> HIDE DEF f
  <2>3. t \in Stack /\ t.free = f
    BY <1>1, <2>1, <2>2 DEF Stack, f
  <2>4. /\ t.st = s.st /\ t.arg = s.arg /\ t.low = s.low
        /\ t.active = s.active /\ t.tw = s.tw /\ t.sound = s.sound
    BY <1>1, <2>1 DEF Stack
  <2>5. Free(t) = Free(s) \cup {p} /\ Active(t) = Active(s) /\ Waiting(t) = Waiting(s)
    BY <2>2, <2>3, <2>4 DEF Free, Active, Waiting, f
  <2>6. Apart(s, t, p)
    BY <2>4, <2>5 DEF Apart
  <2>7. p \notin Free(s) /\ p \notin Active(s) /\ p \notin Waiting(s)
    BY <1>3 DEF Listed, Free, Active, Waiting
  <2>8. Lists(s) => Lists(t)
    BY <2>2, <2>3, <2>4, <2>5, <2>7 DEF Lists, f
  <2>9. Touches(s, t, p)
    BY <2>3, <2>4, <2>6, <2>8 DEF Touches, Proper
  <2> QED
    BY <1>3, <2>2, <2>3, <2>4, <2>5, <2>9 DEF f
<1> QED
  BY <1>2, <1>3

(* TCP_PCB_REMOVE and memp_free.                                           *)
LEMMA Dropped ==
  ASSUME NEW s, Proper(s), NEW p \in Pcb, NEW t, t = PcbFree(PcbRemove(s, p), p)
  PROVE  /\ Touches(s, t, p)
         /\ t.st[p] = "CLOSED" /\ t.arg = s.arg /\ t.low = s.low
         /\ s.sound => (t.sound <=> p \notin Free(s))
         /\ t.sound => /\ p \in Free(t) /\ p \notin Active(t) /\ p \notin Waiting(t)
                       /\ t.free # <<>> /\ Head(t.free) = p
                       /\ Active(t) = Active(s) \ {p}
<1> DEFINE u == PcbRemove(s, p)
<1>1. /\ s \in Stack /\ s.active \in Seq(Pcb) /\ s.tw \in Seq(Pcb)
      /\ s.st \in [Pcb -> PcbStates]
  BY StackFields DEF Proper
<1>2. u = [s EXCEPT !.active = Unlinked(s.active, p), !.tw = Unlinked(s.tw, p),
                    !.st = [s.st EXCEPT ![p] = "CLOSED"]]
  BY <1>1 DEF PcbRemove, Stack
<1>3. /\ Unlinked(s.active, p) \in Seq(Pcb) /\ Unlinked(s.tw, p) \in Seq(Pcb)
      /\ IsInjective(s.active) =>
           /\ IsInjective(Unlinked(s.active, p))
           /\ Range(Unlinked(s.active, p)) = Active(s) \ {p}
      /\ IsInjective(s.tw) =>
           /\ IsInjective(Unlinked(s.tw, p))
           /\ Range(Unlinked(s.tw, p)) = Waiting(s) \ {p}
  BY <1>1, FirstRemoved DEF Active, Waiting
<1>4. /\ u \in Stack /\ u.active = Unlinked(s.active, p) /\ u.tw = Unlinked(s.tw, p)
      /\ u.st = [s.st EXCEPT ![p] = "CLOSED"]
  <2> DEFINE a == Unlinked(s.active, p)
             b == Unlinked(s.tw, p)
             c == [s.st EXCEPT ![p] = "CLOSED"]
  <2>1. a \in Seq(Pcb) /\ b \in Seq(Pcb) /\ u = [s EXCEPT !.active = a, !.tw = b, !.st = c]
    BY <1>2, <1>3
  <2>2. c \in [Pcb -> PcbStates]
    BY <1>1 DEF PcbStates
  <2> HIDE DEF a, b, c, u
  <2>3. u \in Stack /\ u.active = a /\ u.tw = b /\ u.st = c
    BY <1>1, <2>1, <2>2 DEF Stack
  <2> QED
    BY <2>3 DEF a, b, c
<1>5. u.free = s.free /\ u.arg = s.arg /\ u.low = s.low /\ u.sound = s.sound
  BY <1>1, <1>2 DEF Stack
<1>6. u.st[p] = "CLOSED" /\ \A q \in Pcb \ {p} : u.st[q] = s.st[q]
  BY <1>1, <1>4
<1> HIDE DEF u
<1>7. Lists(s) => /\ Active(u) = Active(s) \ {p} /\ Waiting(u) = Waiting(s) \ {p}
                  /\ Free(u) = Free(s) /\ Lists(u)
  BY <1>3, <1>4, <1>5 DEF Lists, Free, Active, Waiting
<1>8. Touches(s, u, p) /\ Proper(u)
  BY <1>4, <1>5, <1>6, <1>7 DEF Touches, Proper, Apart
<1>9. t = PcbFree(u, p)
  BY DEF u
<1>10. /\ Touches(u, t, p)
       /\ t.st = u.st /\ t.arg = u.arg /\ t.low = u.low
       /\ t.active = u.active /\ t.tw = u.tw
       /\ p \in Listed(u) => ~ t.sound
       /\ p \notin Listed(u) =>
            /\ t.sound <=> u.sound
            /\ p \in Free(t) /\ t.free # <<>> /\ Head(t.free) = p
  BY <1>8, <1>9, Returned
<1>11. Touches(s, t, p)
  BY <1>8, <1>10, TouchesAgain
<1>12. s.sound => (p \in Listed(u) <=> p \in Free(s))
  BY <1>4, <1>7, StackFields DEF Proper
<1>13. t.sound => s.sound
  BY <1>11 DEF Touches
<1>14. Active(t) = Active(u) /\ Waiting(t) = Waiting(u)
  BY <1>10 DEF Active, Waiting
<1>15. t.sound => /\ p \in Free(t) /\ p \notin Active(t) /\ p \notin Waiting(t)
                  /\ t.free # <<>> /\ Head(t.free) = p
                  /\ Active(t) = Active(s) \ {p}
  BY <1>7, <1>10, <1>13, <1>14 DEF Proper
<1>16. s.sound => (t.sound <=> p \notin Free(s))
  BY <1>5, <1>10, <1>12
<1> QED
  BY <1>5, <1>6, <1>10, <1>11, <1>15, <1>16

(* The state or the callbacks of p change, and nothing else.               *)
SetState(s, p, x) == [s EXCEPT !.st[p] = x]

SetArg(s, p, c) == [s EXCEPT !.arg[p] = c]

(* The state of p is set.                                                  *)
LEMMA Relabelled ==
  ASSUME NEW s, Proper(s), NEW p \in Pcb, NEW x \in PcbStates,
         NEW t, t = SetState(s, p, x)
  PROVE  /\ Touches(s, t, p)
         /\ t.st[p] = x /\ t.arg = s.arg /\ t.low = s.low /\ t.sound = s.sound
         /\ t.free = s.free /\ t.active = s.active /\ t.tw = s.tw
<1>1. s \in Stack /\ s.st \in [Pcb -> PcbStates]
  BY StackFields DEF Proper
<1> DEFINE c == [s.st EXCEPT ![p] = x]
<1>2. t = [s EXCEPT !.st = c]
  BY <1>1 DEF Stack, SetState
<1>3. c \in [Pcb -> PcbStates] /\ c[p] = x /\ \A q \in Pcb \ {p} : c[q] = s.st[q]
  BY <1>1
<1> HIDE DEF c
<1>4. t \in Stack /\ t.st = c
  BY <1>1, <1>2, <1>3 DEF Stack
<1>5. /\ t.arg = s.arg /\ t.low = s.low /\ t.sound = s.sound
      /\ t.free = s.free /\ t.active = s.active /\ t.tw = s.tw
  BY <1>1, <1>2 DEF Stack
<1>6. Touches(s, t, p)
  BY <1>3, <1>4, <1>5 DEF Touches, Proper, Apart, Lists, Free, Active, Waiting
<1> QED
  BY <1>3, <1>4, <1>5, <1>6

(* The callbacks of p are set or cleared.                                  *)
LEMMA Bound ==
  ASSUME NEW s, Proper(s), NEW p \in Pcb, NEW c \in Ctx \cup {NoCtx},
         NEW t, t = SetArg(s, p, c)
  PROVE  /\ Touches(s, t, p)
         /\ t.arg[p] = c /\ t.st = s.st /\ t.low = s.low /\ t.sound = s.sound
         /\ t.free = s.free /\ t.active = s.active /\ t.tw = s.tw
<1>1. s \in Stack /\ s.arg \in [Pcb -> Ctx \cup {NoCtx}]
  BY StackFields DEF Proper
<1> DEFINE a == [s.arg EXCEPT ![p] = c]
<1>2. t = [s EXCEPT !.arg = a]
  BY <1>1 DEF Stack, SetArg
<1>3. a \in [Pcb -> Ctx \cup {NoCtx}] /\ a[p] = c /\ \A q \in Pcb \ {p} : a[q] = s.arg[q]
  BY <1>1
<1> HIDE DEF a
<1>4. t \in Stack /\ t.arg = a
  BY <1>1, <1>2, <1>3 DEF Stack
<1>5. /\ t.st = s.st /\ t.low = s.low /\ t.sound = s.sound
      /\ t.free = s.free /\ t.active = s.active /\ t.tw = s.tw
  BY <1>1, <1>2 DEF Stack
<1>6. Touches(s, t, p)
  BY <1>3, <1>4, <1>5 DEF Touches, Proper, Apart, Lists, Free, Active, Waiting
<1> QED
  BY <1>3, <1>4, <1>5, <1>6

(* The callbacks of p are cleared.                                         *)
LEMMA Unbound ==
  ASSUME NEW s, Proper(s), NEW p \in Pcb, NEW t, t = Unset(s, p)
  PROVE  /\ Touches(s, t, p)
         /\ t.arg[p] = NoCtx /\ t.st = s.st /\ t.low = s.low /\ t.sound = s.sound
         /\ t.free = s.free /\ t.active = s.active /\ t.tw = s.tw
<1>1. t = SetArg(s, p, NoCtx)
  BY PcbAssumption DEF Unset, SetArg
<1>2. NoCtx \in Ctx \cup {NoCtx}
  OBVIOUS
<1> QED
  BY <1>1, <1>2, Bound

(* tcp_close.                                                              *)
LEMMA Closed ==
  ASSUME NEW s, Proper(s), NEW p \in Pcb, NEW t, t = Close(s, p)
  PROVE  /\ Touches(s, t, p) /\ t.arg = s.arg /\ t.low = s.low
         /\ s.st[p] = "CLOSED" => t = PcbFree(s, p)
         /\ s.st[p] = "SYN_SENT" => t = PcbFree(PcbRemove(s, p), p)
         /\ s.st[p] \notin {"CLOSED", "SYN_SENT"} =>
              t.free = s.free /\ t.active = s.active /\ t.tw = s.tw /\ t.sound = s.sound
         /\ s.st[p] \in {"SYN_RCVD", "ESTABLISHED"} => t.st[p] = "FIN_WAIT_1"
         /\ s.st[p] = "CLOSE_WAIT" => t.st[p] = "LAST_ACK"
         /\ s.st[p] \in {"FIN_WAIT_1", "FIN_WAIT_2", "CLOSING", "LAST_ACK", "TIME_WAIT"} =>
              t = s
<1>0. p # NoPcb
  BY PcbAssumption
<1>1. s.st[p] \in PcbStates
  BY StackFields DEF Proper
<1>2. CASE s.st[p] = "CLOSED"
  <2>1. t = PcbFree(s, p)
    BY <1>0, <1>2 DEF Close
  <2> QED
    BY <1>2, <2>1, Returned
<1>3. CASE s.st[p] = "SYN_SENT"
  <2>1. t = PcbFree(PcbRemove(s, p), p)
    BY <1>0, <1>3 DEF Close
  <2> QED
    BY <1>3, <2>1, Dropped
<1>4. CASE s.st[p] \in {"SYN_RCVD", "ESTABLISHED"}
  <2>1. t = SetState(s, p, "FIN_WAIT_1") /\ "FIN_WAIT_1" \in PcbStates
    BY <1>0, <1>4 DEF Close, PcbStates, SetState
  <2> QED
    BY <1>4, <2>1, Relabelled
<1>5. CASE s.st[p] = "CLOSE_WAIT"
  <2>1. t = SetState(s, p, "LAST_ACK") /\ "LAST_ACK" \in PcbStates
    BY <1>0, <1>5 DEF Close, PcbStates, SetState
  <2> QED
    BY <1>5, <2>1, Relabelled
<1>6. CASE s.st[p] \in {"FIN_WAIT_1", "FIN_WAIT_2", "CLOSING", "LAST_ACK", "TIME_WAIT"}
  <2>1. t = s
    BY <1>0, <1>6 DEF Close
  <2>2. Touches(s, s, p)
    BY DEF Touches, Apart
  <2> QED
    BY <1>6, <2>1, <2>2
<1> QED
  BY <1>1, <1>2, <1>3, <1>4, <1>5, <1>6 DEF PcbStates

(* tcp_abandon.                                                            *)
LEMMA Abandoned ==
  ASSUME NEW s, Proper(s), NEW p \in Pcb, NEW t, t = Abandon(s, p)
  PROVE  /\ Touches(s, t, p)
         /\ t.st[p] = "CLOSED" /\ t.arg = s.arg /\ t.low = s.low
         /\ s.st[p] = "CLOSED" => (t.sound <=> s.sound /\ p \notin Listed(s))
         /\ s.st[p] # "CLOSED" /\ s.sound => (t.sound <=> p \notin Free(s))
         /\ t.sound => /\ p \in Free(t) /\ p \notin Active(t) /\ p \notin Waiting(t)
                       /\ t.free # <<>> /\ Head(t.free) = p
                       /\ Active(t) = Active(s) \ {p}
<1>1. CASE s.st[p] = "CLOSED"
  <2>1. t = PcbFree(s, p)
    BY <1>1 DEF Abandon
  <2>2. t.sound => Lists(t) /\ s \in Stack
    BY <2>1, Returned DEF Touches, Proper
  <2>3. t.sound => p \notin Listed(s)
    BY <2>1, Returned
  <2>4. t.sound => p \in Free(t) /\ p \notin Active(t) /\ p \notin Waiting(t)
    BY <2>1, <2>2, <2>3, Returned DEF Lists
  <2>5. t.sound => Active(t) = Active(s) \ {p}
    BY <2>1, <2>3, Returned DEF Listed, Active
  <2> QED
    BY <1>1, <2>1, <2>3, <2>4, <2>5, Returned
<1>2. CASE s.st[p] # "CLOSED"
  <2>1. t = PcbFree(PcbRemove(s, p), p)
    BY <1>2 DEF Abandon
  <2> QED
    BY <1>2, <2>1, Dropped
<1> QED
  BY <1>1, <1>2

(* The active list becomes l.                                              *)
SetActive(s, l) == [s EXCEPT !.active = l]

(* A segment for p has come.                                               *)
LEMMA Fronted ==
  ASSUME NEW s, Proper(s), s.sound, NEW p \in Active(s), NEW t, t = ToFront(s, p)
  PROVE  /\ Touches(s, t, p) /\ t.sound
         /\ Active(t) = Active(s) /\ t.free = s.free /\ t.tw = s.tw
         /\ t.st = s.st /\ t.arg = s.arg /\ t.low = s.low
<1>1. s \in Stack /\ s.active \in Seq(Pcb) /\ p \in Pcb
  BY StackFields DEF Proper
<1> DEFINE u == Unlinked(s.active, p)
           l == <<p>> \o u
<1>2. u \in Seq(Pcb) /\ IsInjective(u) /\ Range(u) = Active(s) \ {p}
  BY <1>1, FirstRemoved DEF Proper, Lists, Active
<1> HIDE DEF u
<1>3. l \in Seq(Pcb) /\ IsInjective(l) /\ Range(l) = Active(s)
  <2>1. p \notin Range(u)
    BY <1>2
  <2>2. l \in Seq(Pcb) /\ IsInjective(l) /\ Range(l) = Range(u) \cup {p}
    BY <1>1, <1>2, <2>1, Prepended
  <2> QED
    BY <1>2, <2>2
<1>4. t = SetActive(s, l)
  BY DEF ToFront, SetActive, u
<1> HIDE DEF l
<1>5. /\ t \in Stack /\ t.active = l /\ t.st = s.st /\ t.arg = s.arg
      /\ t.low = s.low /\ t.sound = s.sound /\ t.free = s.free /\ t.tw = s.tw
  BY <1>1, <1>3, <1>4 DEF Stack, SetActive
<1>6. Active(t) = Active(s) /\ Free(t) = Free(s) /\ Waiting(t) = Waiting(s)
  BY <1>3, <1>5 DEF Active, Free, Waiting
<1>7. Lists(t)
  BY <1>3, <1>5, <1>6 DEF Proper, Lists
<1> QED
  BY <1>5, <1>6, <1>7 DEF Touches, Proper, Apart

(* tcp_slowtmr unlinks p and frees it; its state stays.                    *)
LEMMA Expired ==
  ASSUME NEW s, Proper(s), s.sound, NEW p \in Active(s),
         NEW t, t = PcbFree([s EXCEPT !.active = Unlinked(@, p)], p)
  PROVE  /\ Touches(s, t, p) /\ t.sound
         /\ Active(t) = Active(s) \ {p} /\ p \in Free(t) /\ p \notin Waiting(t)
         /\ t.free # <<>> /\ Head(t.free) = p
         /\ t.st = s.st /\ t.arg = s.arg /\ t.low = s.low
<1>1. s \in Stack /\ s.active \in Seq(Pcb) /\ p \in Pcb
  BY StackFields DEF Proper
<1> DEFINE l == Unlinked(s.active, p)
           u == SetActive(s, l)
<1>2. l \in Seq(Pcb) /\ IsInjective(l) /\ Range(l) = Active(s) \ {p}
  BY <1>1, FirstRemoved DEF Proper, Lists, Active
<1>3. t = PcbFree(u, p)
  BY DEF SetActive
<1> HIDE DEF l
<1>4. /\ u \in Stack /\ u.active = l /\ u.st = s.st /\ u.arg = s.arg
      /\ u.low = s.low /\ u.sound = s.sound /\ u.free = s.free /\ u.tw = s.tw
  BY <1>1, <1>2 DEF Stack, SetActive
<1> HIDE DEF u
<1>5. Active(u) = Active(s) \ {p} /\ Free(u) = Free(s) /\ Waiting(u) = Waiting(s)
  BY <1>2, <1>4 DEF Active, Free, Waiting
<1>6. Lists(u) /\ Proper(u)
  BY <1>2, <1>4, <1>5 DEF Proper, Lists
<1>7. Touches(s, u, p)
  BY <1>4, <1>5, <1>6 DEF Touches, Apart
<1>8. p \notin Free(s) /\ p \notin Waiting(s)
  BY <1>1 DEF Proper, Lists
<1>9. p \notin Listed(u)
  BY <1>5, <1>8 DEF Listed, Free, Active, Waiting
<1>10. /\ Touches(u, t, p)
       /\ t.st = u.st /\ t.arg = u.arg /\ t.low = u.low
       /\ t.active = u.active /\ t.tw = u.tw
       /\ t.sound <=> u.sound
       /\ p \in Free(t) /\ t.free # <<>> /\ Head(t.free) = p
  BY <1>1, <1>3, <1>6, <1>9, Returned
<1>11. Touches(s, t, p)
  BY <1>7, <1>10, TouchesAgain
<1>12. Active(t) = Active(s) \ {p} /\ p \notin Waiting(t)
  BY <1>5, <1>8, <1>10 DEF Active, Waiting
<1> QED
  BY <1>4, <1>10, <1>11, <1>12

(* The end of TIME-WAIT.                                                   *)
LEMMA WaitOver ==
  ASSUME NEW s, Proper(s), s.sound, NEW p \in Waiting(s),
         NEW t, t = PcbFree([s EXCEPT !.tw = Unlinked(@, p)], p)
  PROVE  /\ Touches(s, t, p) /\ t.sound
         /\ p \in Free(t) /\ p \notin Waiting(t) /\ p \notin Active(t)
         /\ Active(t) = Active(s)
         /\ t.st = s.st /\ t.arg = s.arg
<1>1. s \in Stack /\ s.tw \in Seq(Pcb) /\ p \in Pcb
  BY StackFields DEF Proper
<1> DEFINE l == Unlinked(s.tw, p)
           u == [s EXCEPT !.tw = l]
<1>2. l \in Seq(Pcb) /\ IsInjective(l) /\ Range(l) = Waiting(s) \ {p}
  BY <1>1, FirstRemoved DEF Proper, Lists, Waiting
<1>3. t = PcbFree(u, p)
  OBVIOUS
<1> HIDE DEF l
<1>4. /\ u \in Stack /\ u.tw = l /\ u.st = s.st /\ u.arg = s.arg
      /\ u.low = s.low /\ u.sound = s.sound /\ u.free = s.free /\ u.active = s.active
  BY <1>1, <1>2 DEF Stack
<1> HIDE DEF u
<1>5. Active(u) = Active(s) /\ Free(u) = Free(s) /\ Waiting(u) = Waiting(s) \ {p}
  BY <1>2, <1>4 DEF Active, Free, Waiting
<1>6. Lists(u) /\ Proper(u)
  BY <1>2, <1>4, <1>5 DEF Proper, Lists
<1>7. Touches(s, u, p)
  BY <1>4, <1>5, <1>6 DEF Touches, Apart
<1>8. p \notin Free(s) /\ p \notin Active(s)
  BY <1>1 DEF Proper, Lists
<1>9. p \notin Listed(u)
  BY <1>5, <1>8 DEF Listed, Free, Active, Waiting
<1>10. /\ Touches(u, t, p)
       /\ t.st = u.st /\ t.arg = u.arg
       /\ t.active = u.active /\ t.tw = u.tw
       /\ t.sound <=> u.sound
       /\ p \in Free(t)
  BY <1>1, <1>3, <1>6, <1>9, Returned
<1>11. Touches(s, t, p)
  BY <1>7, <1>10, TouchesAgain
<1>12. Active(t) = Active(s) /\ p \notin Active(t) /\ p \notin Waiting(t)
  BY <1>5, <1>8, <1>10 DEF Active, Waiting
<1> QED
  BY <1>4, <1>10, <1>11, <1>12

(* A connection that is over on both sides.                                *)
LEMMA Parked ==
  ASSUME NEW s, Proper(s), s.sound, NEW p \in Active(s), NEW t, t = TimeWait(s, p)
  PROVE  /\ Touches(s, t, p) /\ t.sound
         /\ p \in Waiting(t) /\ p \notin Active(t) /\ p \notin Free(t)
         /\ t.st[p] = "TIME_WAIT" /\ t.arg = s.arg
<1>1. /\ s \in Stack /\ s.active \in Seq(Pcb) /\ s.tw \in Seq(Pcb) /\ p \in Pcb
      /\ s.st \in [Pcb -> PcbStates]
  BY StackFields DEF Proper
<1>2. p \notin Free(s) /\ p \notin Waiting(s)
  BY <1>1 DEF Proper, Lists
<1> DEFINE a == Unlinked(s.active, p)
           w == <<p>> \o s.tw
           c == [s.st EXCEPT ![p] = "TIME_WAIT"]
<1>3. a \in Seq(Pcb) /\ IsInjective(a) /\ Range(a) = Active(s) \ {p}
  BY <1>1, FirstRemoved DEF Proper, Lists, Active
<1>4. w \in Seq(Pcb) /\ IsInjective(w) /\ Range(w) = Waiting(s) \cup {p}
  BY <1>1, <1>2, Prepended DEF Proper, Lists, Waiting
<1>5. c \in [Pcb -> PcbStates] /\ c[p] = "TIME_WAIT" /\ \A q \in Pcb \ {p} : c[q] = s.st[q]
  BY <1>1 DEF PcbStates
<1>6. t = [s EXCEPT !.active = a, !.tw = w, !.st = c]
  BY <1>1 DEF TimeWait, Stack
<1> HIDE DEF a, w, c
<1>7. t \in Stack /\ t.active = a /\ t.tw = w /\ t.st = c
  BY <1>1, <1>3, <1>4, <1>5, <1>6 DEF Stack
<1>8. t.free = s.free /\ t.arg = s.arg /\ t.sound = s.sound
  BY <1>1, <1>6 DEF Stack
<1>9. /\ Active(t) = Active(s) \ {p} /\ Waiting(t) = Waiting(s) \cup {p}
      /\ Free(t) = Free(s)
  BY <1>3, <1>4, <1>7, <1>8 DEF Active, Waiting, Free
<1>10. Lists(t)
  BY <1>2, <1>3, <1>4, <1>7, <1>8, <1>9 DEF Proper, Lists
<1>11. Touches(s, t, p)
  BY <1>5, <1>7, <1>8, <1>9, <1>10 DEF Touches, Proper, Apart
<1> QED
  BY <1>1, <1>2, <1>5, <1>7, <1>8, <1>9, <1>11

(* tcp_alloc with an element in the pool.                                  *)
LEMMA Allocated ==
  ASSUME NEW s, Proper(s), s.free # <<>>, NEW new, new = Take(s)
  PROVE  /\ new.pcb = Head(s.free) /\ new.pcb \in Free(s) /\ new.pcb \in Pcb
         /\ Touches(s, new.stack, new.pcb) /\ new.stack.sound = s.sound
         /\ new.stack.st[new.pcb] = "CLOSED" /\ new.stack.arg[new.pcb] = NoCtx
         /\ new.stack.active = s.active /\ new.stack.tw = s.tw
         /\ s.sound => new.pcb \notin Listed(new.stack)
<1> DEFINE p == Head(s.free)
           f == Tail(s.free)
           c == [s.st EXCEPT ![p] = "CLOSED"]
           a == [s.arg EXCEPT ![p] = NoCtx]
           w == s.low \ {p}
           t == [s EXCEPT !.free = f, !.st = c, !.arg = a, !.low = w]
<1>1. /\ s \in Stack /\ s.free \in Seq(Pcb) /\ s.st \in [Pcb -> PcbStates]
      /\ s.arg \in [Pcb -> Ctx \cup {NoCtx}] /\ s.low \in SUBSET Pcb
  BY StackFields DEF Proper
<1>2. /\ p \in Free(s) /\ p \in Pcb /\ f \in Seq(Pcb) /\ Free(s) = Range(f) \cup {p}
      /\ IsInjective(s.free) => IsInjective(f) /\ Range(f) = Free(s) \ {p}
  BY <1>1, TailTaken DEF Free
<1>3. new.pcb = p /\ new.stack = t
  BY <1>1 DEF Take, Stack
<1> HIDE DEF p, f
<1>4. c \in [Pcb -> PcbStates] /\ c[p] = "CLOSED" /\ \A q \in Pcb \ {p} : c[q] = s.st[q]
  BY <1>1, <1>2 DEF PcbStates
<1>5. a \in [Pcb -> Ctx \cup {NoCtx}] /\ a[p] = NoCtx /\ \A q \in Pcb \ {p} : a[q] = s.arg[q]
  BY <1>1, <1>2
<1>6. w \in SUBSET Pcb
  BY <1>1
<1> HIDE DEF c, a, w
<1>7. t \in Stack /\ t.free = f /\ t.st = c /\ t.arg = a
  BY <1>1, <1>2, <1>4, <1>5, <1>6 DEF Stack
<1>8. t.active = s.active /\ t.tw = s.tw /\ t.sound = s.sound
  BY <1>1 DEF Stack
<1> HIDE DEF t
<1>9. /\ Active(t) = Active(s) /\ Waiting(t) = Waiting(s) /\ Free(t) = Range(f)
      /\ \A q \in Pcb \ {p} : q \in Free(t) <=> q \in Free(s)
  BY <1>2, <1>7, <1>8 DEF Active, Waiting, Free
<1>10. Lists(s) => Lists(t) /\ p \notin Listed(t)
  <2> SUFFICES ASSUME Lists(s) PROVE Lists(t) /\ p \notin Listed(t)
    OBVIOUS
  <2>1. IsInjective(f) /\ Free(t) = Free(s) \ {p}
    BY <1>2, <1>9 DEF Lists
  <2>2. Lists(t)
    BY <1>7, <1>8, <1>9, <2>1 DEF Lists
  <2>3. p \notin Free(t) /\ p \notin Active(t) /\ p \notin Waiting(t)
    BY <1>2, <1>9, <2>1 DEF Lists
  <2> QED
    BY <2>2, <2>3 DEF Listed, Free, Active, Waiting
<1>11. Proper(t)
  BY <1>7, <1>8, <1>10 DEF Proper
<1>12. Touches(s, t, p)
  BY <1>4, <1>5, <1>7, <1>8, <1>9, <1>11 DEF Touches, Apart
<1>13. s.sound => p \notin Listed(t)
  BY <1>10 DEF Proper
<1> QED
  BY <1>2, <1>3, <1>4, <1>5, <1>7, <1>8, <1>12, <1>13 DEF p

(* tcp_alloc: a pcb of which nothing is left in the lists, the same one    *)
(* whether it came from the pool or was taken from a connection.           *)
LEMMA NewPcb ==
  ASSUME NEW s, Proper(s), s.sound, NEW new \in Allocs(s)
  PROVE  /\ Proper(new.stack) /\ new.pcb \in Pcb \cup {NoPcb}
         /\ new.pcb = NoPcb /\ new.stack.sound => new.stack = s
         /\ new.pcb # NoPcb /\ new.stack.sound =>
              /\ Touches(s, new.stack, new.pcb)
              /\ new.pcb \in Listed(s) /\ new.pcb \notin Listed(new.stack)
              /\ new.stack.st[new.pcb] = "CLOSED" /\ new.stack.arg[new.pcb] = NoCtx
         /\ (\A q \in Pcb : q \in Active(s) \/ q \in Waiting(s) => s.st[q] # "CLOSED") =>
              new.stack.sound
<1>1. /\ s \in Stack /\ NoPcb \notin Pcb
      /\ Free(s) \subseteq Pcb /\ Active(s) \subseteq Pcb /\ Waiting(s) \subseteq Pcb
  BY StackFields, PcbAssumption DEF Proper
<1>2. CASE Victims(s) = {}
  <2>1. new = Take(s)
    BY <1>2 DEF Allocs
  <2>2. CASE s.free = <<>>
    <3>1. new.pcb = NoPcb /\ new.stack = s
      BY <2>1, <2>2 DEF Take
    <3> QED
      BY <3>1
  <2>3. CASE s.free # <<>>
    <3>1. /\ new.pcb \in Free(s) /\ new.pcb \in Pcb
          /\ Touches(s, new.stack, new.pcb) /\ new.stack.sound
          /\ new.stack.st[new.pcb] = "CLOSED" /\ new.stack.arg[new.pcb] = NoCtx
          /\ new.pcb \notin Listed(new.stack)
      BY <2>1, <2>3, Allocated
    <3> QED
      BY <1>1, <3>1 DEF Touches, Listed, Free
  <2> QED
    BY <2>2, <2>3
<1>3. CASE Victims(s) # {}
  <2>1. PICK v \in Victims(s) : new = Take(Abandon(s, v))
    BY <1>3 DEF Allocs
  <2>2. s.free = <<>> /\ (v \in Active(s) \/ v \in Waiting(s))
    BY <2>1 DEF Victims, ActiveIn, Active, Waiting
  <2>3. v \in Pcb /\ Free(s) = {}
    BY <1>1, <2>2 DEF Free, Range
  <2> DEFINE u == Abandon(s, v)
  <2>4. /\ Touches(s, u, v)
        /\ s.st[v] # "CLOSED" => (u.sound <=> v \notin Free(s))
        /\ u.sound => v \in Free(u) /\ u.free # <<>> /\ Head(u.free) = v
    BY <2>3, Abandoned
  <2>5. new = Take(u)
    BY <2>1
  <2> HIDE DEF u
  <2>6. Proper(u)
    BY <2>4 DEF Touches
  <2>7. CASE u.free = <<>>
    <3>1. new.pcb = NoPcb /\ new.stack = u /\ ~ u.sound
      BY <2>4, <2>5, <2>7 DEF Take
    <3> QED
      BY <2>2, <2>3, <2>4, <2>6, <3>1
  <2>8. CASE u.free # <<>>
    <3>1. /\ new.pcb = Head(u.free) /\ new.pcb \in Pcb
          /\ Touches(u, new.stack, new.pcb) /\ new.stack.sound = u.sound
          /\ new.stack.st[new.pcb] = "CLOSED" /\ new.stack.arg[new.pcb] = NoCtx
          /\ u.sound => new.pcb \notin Listed(new.stack)
      BY <2>5, <2>6, <2>8, Allocated
    <3>2. ASSUME u.sound
          PROVE  new.pcb = v /\ Touches(s, new.stack, v)
      BY <2>4, <3>1, <3>2, TouchesAgain
    <3>3. v \in Listed(s)
      BY <2>2 DEF Listed, Active, Waiting
    <3>4. Proper(new.stack)
      BY <3>1 DEF Touches
    <3> QED
      BY <1>1, <2>2, <2>3, <2>4, <3>1, <3>2, <3>3, <3>4
  <2> QED
    BY <2>7, <2>8
<1> QED
  BY <1>2, <1>3

(* A pcb becomes active: tcp_connect that sends its SYN, tcp_listen_input. *)
Linked(s, p, x) == [s EXCEPT !.st[p] = x, !.active = <<p>> \o @]

(* A pcb that is in no list becomes active.                                *)
LEMMA Connected ==
  ASSUME NEW s, Proper(s), NEW p \in Pcb, p \notin Listed(s), NEW x \in PcbStates,
         NEW t, t = Linked(s, p, x)
  PROVE  /\ Touches(s, t, p) /\ (t.sound <=> s.sound)
         /\ p \in Active(t) /\ p \notin Free(t) /\ p \notin Waiting(t)
         /\ t.st[p] = x /\ t.arg = s.arg
<1>1. s \in Stack /\ s.active \in Seq(Pcb) /\ s.st \in [Pcb -> PcbStates]
  BY StackFields DEF Proper
<1> DEFINE l == <<p>> \o s.active
           c == [s.st EXCEPT ![p] = x]
<1>2. p \notin Free(s) /\ p \notin Active(s) /\ p \notin Waiting(s)
  BY DEF Listed, Free, Active, Waiting
<1>3. /\ l \in Seq(Pcb) /\ Range(l) = Active(s) \cup {p}
      /\ IsInjective(s.active) => IsInjective(l)
  BY <1>1, <1>2, Prepended DEF Active
<1>4. c \in [Pcb -> PcbStates] /\ c[p] = x /\ \A q \in Pcb \ {p} : c[q] = s.st[q]
  BY <1>1
<1>5. t = [s EXCEPT !.active = l, !.st = c]
  BY <1>1 DEF Linked, Stack
<1> HIDE DEF l, c
<1>6. t \in Stack /\ t.active = l /\ t.st = c
  BY <1>1, <1>3, <1>4, <1>5 DEF Stack
<1>7. t.free = s.free /\ t.tw = s.tw /\ t.arg = s.arg /\ t.sound = s.sound
  BY <1>1, <1>5 DEF Stack
<1>8. Active(t) = Active(s) \cup {p} /\ Free(t) = Free(s) /\ Waiting(t) = Waiting(s)
  BY <1>3, <1>6, <1>7 DEF Active, Free, Waiting
<1>9. Lists(s) => Lists(t)
  BY <1>2, <1>3, <1>6, <1>7, <1>8 DEF Lists
<1>10. Touches(s, t, p)
  BY <1>4, <1>6, <1>7, <1>8, <1>9 DEF Touches, Proper, Apart
<1> QED
  BY <1>2, <1>4, <1>6, <1>7, <1>8, <1>10

(* memset of a pcb: lists may lose their tails.                            *)
LEMMA Wiped ==
  ASSUME NEW s, Proper(s), NEW p \in Pcb, NEW t, t = Wipe(s, p)
  PROVE  /\ Proper(t) /\ t.sound = s.sound
         /\ t.st[p] = "CLOSED" /\ t.arg[p] = NoCtx
         /\ \A q \in Pcb \ {p} : t.st[q] = s.st[q] /\ t.arg[q] = s.arg[q]
         /\ Active(t) \subseteq Active(s)
<1>1. /\ s \in Stack /\ s.free \in Seq(Pcb) /\ s.active \in Seq(Pcb) /\ s.tw \in Seq(Pcb)
      /\ s.st \in [Pcb -> PcbStates] /\ s.arg \in [Pcb -> Ctx \cup {NoCtx}] /\ p # NoPcb
  BY StackFields, PcbAssumption DEF Proper
<1> DEFINE f == Truncated(s.free, p)
           l == Truncated(s.active, p)
           w == Truncated(s.tw, p)
           c == [s.st EXCEPT ![p] = "CLOSED"]
           a == [s.arg EXCEPT ![p] = NoCtx]
<1>2. t = [s EXCEPT !.free = f, !.active = l, !.tw = w, !.st = c, !.arg = a]
  BY <1>1 DEF Wipe, Stack
<1>3. f \in Seq(Pcb) /\ Range(f) \subseteq Free(s) /\ (IsInjective(s.free) => IsInjective(f))
  BY <1>1, PrefixKept DEF Free
<1>4. l \in Seq(Pcb) /\ Range(l) \subseteq Active(s)
      /\ (IsInjective(s.active) => IsInjective(l))
  BY <1>1, PrefixKept DEF Active
<1>5. w \in Seq(Pcb) /\ Range(w) \subseteq Waiting(s) /\ (IsInjective(s.tw) => IsInjective(w))
  BY <1>1, PrefixKept DEF Waiting
<1>6. c \in [Pcb -> PcbStates] /\ c[p] = "CLOSED" /\ \A q \in Pcb \ {p} : c[q] = s.st[q]
  BY <1>1 DEF PcbStates
<1>7. a \in [Pcb -> Ctx \cup {NoCtx}] /\ a[p] = NoCtx /\ \A q \in Pcb \ {p} : a[q] = s.arg[q]
  BY <1>1
<1> HIDE DEF f, l, w, c, a
<1>8. t \in Stack /\ t.free = f /\ t.active = l /\ t.tw = w
  BY <1>1, <1>2, <1>3, <1>4, <1>5, <1>6, <1>7 DEF Stack
<1>9. t.st = c /\ t.arg = a /\ t.sound = s.sound
  BY <1>1, <1>2 DEF Stack
<1>10. /\ Free(t) \subseteq Free(s) /\ Active(t) \subseteq Active(s)
       /\ Waiting(t) \subseteq Waiting(s)
  BY <1>3, <1>4, <1>5, <1>8 DEF Free, Active, Waiting
<1>11. Lists(s) => Lists(t)
  BY <1>3, <1>4, <1>5, <1>8, <1>10 DEF Lists
<1> QED
  BY <1>6, <1>7, <1>8, <1>9, <1>10, <1>11 DEF Proper

-----------------------------------------------------------------------------
(* The client.                                                             *)
TypeOK ==
  /\ Proper(net)
  /\ pc \in {"idle", "run", "clear_data", "clear_tx", "re_close", "re_clear",
             "re_new", "quit_close", "quit_clear", "wipe"}
  /\ client \in Pcb \cup {NoPcb}
  /\ connected \in BOOLEAN /\ received \in BOOLEAN /\ saw \in BOOLEAN
  /\ ctx \in [Ctx -> {"free", "connected", "closing"}]
  /\ cutoff \in BOOLEAN /\ quits \in BOOLEAN /\ raced \in BOOLEAN

(* Where the main loop is while client_pcb may be one that it has opened.  *)
Open == {"run", "clear_data", "clear_tx", "re_close", "quit_close"}

(* An attempt to connect is the one of client_pcb, and has no callbacks.   *)
Opening ==
  net.sound => \A p \in Pcb : p \in Active(net) /\ net.st[p] = "SYN_SENT" =>
                 p = client /\ pc \in Open /\ net.arg[p] = NoCtx

(* Before the next connection is opened the callbacks have been cleared.   *)
Cleared ==
  net.sound /\ pc \in {"re_new", "wipe", "idle"} =>
    \A p \in Pcb : net.arg[p] = NoCtx

(* Where a pcb may be, and in what state, until the user quits.            *)
Kept ==
  net.sound /\ ~ quits =>
    /\ \A p \in Pcb : p \in Active(net) => net.st[p] \notin {"CLOSED", "TIME_WAIT"}
    /\ \A p \in Pcb : p \in Waiting(net) => net.st[p] = "TIME_WAIT"
    /\ \A p \in Pcb : p \in Free(net) \/ p \in Active(net) \/ p \in Waiting(net)
                      \/ p = client
    /\ pc \in {"quit_close", "quit_clear", "wipe", "idle"} => client = NoPcb
    /\ client \in Pcb =>
         /\ client \notin Free(net) /\ client \notin Active(net)
            /\ client \notin Waiting(net) =>
              pc \in Open /\ net.st[client] = "CLOSED"
         /\ ~ cutoff /\ pc \in Open /\ client \in Free(net) =>
              net.st[client] = "TIME_WAIT"

ClientInv ==
  /\ TypeOK
  /\ Opening
  /\ ContextLive
  /\ Cleared
  /\ StatusTrue
  /\ Kept
  /\ FreedOnce

(* A step about a pcb p that is not client_pcb.                            *)
LEMMA OtherMoves ==
  ASSUME ClientInv, net.sound, NEW p \in Pcb, p # client, Touches(net, net', p),
         UNCHANGED <<pc, client, connected, ctx, cutoff, quits, raced>>,
         received' \in BOOLEAN, saw' \in BOOLEAN,
         net'.sound =>
           /\ net'.arg[p] = net.arg[p]
           /\ p \in Active(net') =>
                net'.st[p] \notin {"CLOSED", "TIME_WAIT", "SYN_SENT"}
           /\ p \in Waiting(net') => net'.st[p] = "TIME_WAIT"
           /\ p \in Free(net') \/ p \in Active(net') \/ p \in Waiting(net'),
         net'.sound \/ cutoff \/ quits
  PROVE  ClientInv'
<1>1. Proper(net') /\ (net'.sound => Apart(net, net', p))
  BY DEF Touches
<1>2. TypeOK'
  BY <1>1 DEF ClientInv, TypeOK
<1>3. Opening'
  BY <1>1 DEF ClientInv, Opening, Apart
<1>4. ContextLive'
  BY <1>1 DEF ClientInv, ContextLive, Apart
<1>5. Cleared'
  BY <1>1 DEF ClientInv, Cleared, Apart
<1>6. StatusTrue'
  <2> SUFFICES ASSUME net'.sound, pc \notin {"re_clear", "quit_clear"}, ~ raced
               PROVE  connected <=>
                        /\ ClientArg' # NoCtx
                        /\ client \in Active(net')
                        /\ net'.st[client] \in {"ESTABLISHED", "CLOSE_WAIT"}
    BY DEF StatusTrue, Active
  <2>1. connected <=> /\ ClientArg # NoCtx
                      /\ client \in Active(net)
                      /\ net.st[client] \in {"ESTABLISHED", "CLOSE_WAIT"}
    BY DEF ClientInv, StatusTrue, Active
  <2>2. CASE client = NoPcb
    BY <2>1, <2>2 DEF ClientArg
  <2>3. CASE client # NoPcb
    <3>1. client \in Pcb \ {p}
      BY <2>3 DEF ClientInv, TypeOK
    <3>2. /\ net'.arg[client] = net.arg[client] /\ net'.st[client] = net.st[client]
          /\ client \in Active(net') <=> client \in Active(net)
      BY <1>1, <3>1 DEF Apart
    <3> QED
      BY <2>1, <2>3, <3>2 DEF ClientArg
  <2> QED
    BY <2>2, <2>3
<1>7. Kept'
  <2> SUFFICES ASSUME net'.sound, ~ quits PROVE Kept'
    BY DEF Kept
  <2>1. Apart(net, net', p) /\ Kept
    BY <1>1 DEF ClientInv
  <2> QED
    BY <2>1 DEF Kept, Apart
<1>8. FreedOnce'
  BY DEF FreedOnce
<1> QED
  BY <1>2, <1>3, <1>4, <1>5, <1>6, <1>7, <1>8 DEF ClientInv

(* A step about client_pcb.                                                *)
LEMMA ClientMoves ==
  ASSUME ClientInv, net.sound, client \in Pcb, Touches(net, net', client),
         UNCHANGED <<pc, client, quits, raced>>,
         connected' \in BOOLEAN, received' \in BOOLEAN, saw' \in BOOLEAN,
         ctx' \in [Ctx -> {"free", "connected", "closing"}], cutoff' \in BOOLEAN,
         net'.sound =>
           /\ client \in Active(net') /\ net'.st[client] = "SYN_SENT" =>
                pc \in Open /\ net'.arg[client] = NoCtx
           /\ net'.arg[client] # NoCtx =>
                ctx'[net'.arg[client]] # "free" /\ pc \notin {"re_new", "wipe", "idle"}
           /\ pc \notin {"re_clear", "quit_clear"} /\ ~ raced =>
                (connected' <=> /\ net'.arg[client] # NoCtx
                                /\ client \in Active(net')
                                /\ net'.st[client] \in {"ESTABLISHED", "CLOSE_WAIT"}),
         net'.sound /\ ~ quits =>
           /\ client \in Active(net') => net'.st[client] \notin {"CLOSED", "TIME_WAIT"}
           /\ client \in Waiting(net') => net'.st[client] = "TIME_WAIT"
           /\ client \notin Free(net') /\ client \notin Active(net')
              /\ client \notin Waiting(net') => pc \in Open /\ net'.st[client] = "CLOSED"
           /\ ~ cutoff' /\ pc \in Open /\ client \in Free(net') =>
                net'.st[client] = "TIME_WAIT",
         net'.sound \/ cutoff' \/ quits
  PROVE  ClientInv'
<1>1. Proper(net') /\ (net'.sound => Apart(net, net', client)) /\ NoPcb \notin Pcb
  BY PcbAssumption DEF Touches
<1>2. TypeOK'
  BY <1>1 DEF ClientInv, TypeOK
<1>3. Opening'
  BY <1>1 DEF ClientInv, Opening, Apart
<1>4. ContextLive'
  BY <1>1 DEF ClientInv, ContextLive, Apart
<1>5. Cleared'
  BY <1>1 DEF ClientInv, Cleared, Apart
<1>6. StatusTrue'
  BY <1>1 DEF StatusTrue, Active, ClientArg
<1>7. Kept'
  <2> SUFFICES ASSUME net'.sound, ~ quits PROVE Kept'
    BY DEF Kept
  <2>1. Apart(net, net', client) /\ Kept
    BY <1>1 DEF ClientInv
  <2> QED
    BY <2>1 DEF Kept, Apart
<1>8. FreedOnce'
  BY DEF FreedOnce
<1> QED
  BY <1>2, <1>3, <1>4, <1>5, <1>6, <1>7, <1>8 DEF ClientInv

(* What the invariant says of a pcb that a segment or a timer is for.      *)
LEMMA Shown ==
  ASSUME ClientInv, net.sound, NEW p \in Range(net.active)
  PROVE  /\ Proper(net) /\ p \in Pcb /\ p \in Active(net)
         /\ p \notin Free(net) /\ p \notin Waiting(net)
         /\ NoPcb \notin Pcb /\ NoCtx \notin Ctx
         /\ net.st[p] \in PcbStates /\ net.arg[p] \in Ctx \cup {NoCtx}
         /\ ~ quits => net.st[p] \notin {"CLOSED", "TIME_WAIT"}
         /\ net.st[p] = "SYN_SENT" => p = client /\ pc \in Open /\ net.arg[p] = NoCtx
         /\ net.arg[p] # NoCtx => /\ p = client /\ ctx[net.arg[p]] # "free"
                                  /\ pc \notin {"re_new", "wipe", "idle"}
         /\ p = client /\ pc \notin {"re_clear", "quit_clear"} /\ ~ raced =>
              (connected <=> /\ net.arg[p] # NoCtx
                             /\ net.st[p] \in {"ESTABLISHED", "CLOSE_WAIT"})
<1>1. /\ Proper(net) /\ NoPcb \notin Pcb /\ NoCtx \notin Ctx /\ p \in Active(net)
  BY PcbAssumption DEF ClientInv, TypeOK, Active
<1>2. net \in Stack /\ Lists(net)
  BY <1>1 DEF Proper
<1>3. /\ p \in Pcb /\ net.st[p] \in PcbStates /\ net.arg[p] \in Ctx \cup {NoCtx}
  BY <1>1, <1>2, StackFields
<1>4. p \notin Free(net) /\ p \notin Waiting(net)
  BY <1>1, <1>2, <1>3 DEF Lists
<1>5. ~ quits => net.st[p] \notin {"CLOSED", "TIME_WAIT"}
  BY <1>1, <1>3 DEF ClientInv, Kept
<1>6. net.st[p] = "SYN_SENT" => p = client /\ pc \in Open /\ net.arg[p] = NoCtx
  BY <1>1, <1>3 DEF ClientInv, Opening
<1>7. net.arg[p] # NoCtx => /\ p = client /\ ctx[net.arg[p]] # "free"
                            /\ pc \notin {"re_new", "wipe", "idle"}
  BY <1>1, <1>3 DEF ClientInv, ContextLive, Cleared
<1>8. p = client /\ pc \notin {"re_clear", "quit_clear"} /\ ~ raced =>
        (connected <=> /\ net.arg[p] # NoCtx
                       /\ net.st[p] \in {"ESTABLISHED", "CLOSE_WAIT"})
  BY <1>1, <1>3 DEF ClientInv, StatusTrue, ClientArg
<1> QED
  BY <1>1, <1>3, <1>4, <1>5, <1>6, <1>7, <1>8

(* SYN and ACK answer the attempt of client_pcb.                           *)
LEMMA SynAckKeeps ==
  ASSUME ClientInv, net.sound, NEW p \in Range(net.active), SynAck(p)
  PROVE  ClientInv'
<1> DEFINE front == ToFront(net, p)
           up == SetState(front, p, "ESTABLISHED")
<1>1. /\ Proper(net) /\ p \in Pcb /\ p \in Active(net) /\ p = client /\ pc \in Open
      /\ NoCtx \notin Ctx
  BY Shown DEF SynAck
<1>2. /\ Touches(net, front, p) /\ front.sound /\ Active(front) = Active(net)
      /\ front.arg = net.arg
  BY <1>1, Fronted
<1>3. Proper(front)
  BY <1>2 DEF Touches
<1>4. up = [front EXCEPT !.st[p] = "ESTABLISHED"]
  BY DEF SetState
<1>5. /\ Touches(front, up, p) /\ up.sound /\ up.st[p] = "ESTABLISHED"
      /\ up.active = front.active /\ up.arg = net.arg
  <2> HIDE DEF front, up
  <2>1. up = SetState(front, p, "ESTABLISHED") /\ "ESTABLISHED" \in PcbStates
    BY DEF up, PcbStates
  <2> QED
    BY <1>1, <1>2, <1>3, <2>1, Relabelled
<1>6. Touches(net, up, p) /\ Proper(up)
  BY <1>2, <1>5, TouchesAgain DEF Touches
<1> HIDE DEF front
<1>7. CASE \E c \in Ctx : /\ ctx[c] = "free"
                          /\ ctx' = [ctx EXCEPT ![c] = "connected"]
                          /\ net' = [up EXCEPT !.arg[p] = c]
                          /\ connected' = TRUE
  <2>1. PICK c \in Ctx : /\ ctx' = [ctx EXCEPT ![c] = "connected"]
                         /\ net' = SetArg(up, p, c)
                         /\ connected' = TRUE
    BY <1>7 DEF SetArg
  <2> HIDE DEF up
  <2>2. /\ Touches(up, net', p) /\ net'.arg[p] = c /\ net'.st = up.st
        /\ net'.sound = up.sound /\ net'.active = up.active
    <3> DEFINE t == net'
    <3>1. t = SetArg(up, p, c) /\ c \in Ctx \cup {NoCtx}
      BY <2>1
    <3> HIDE DEF t
    <3>2. /\ Touches(up, t, p) /\ t.arg[p] = c /\ t.st = up.st
          /\ t.sound = up.sound /\ t.active = up.active
      BY <1>1, <1>6, <3>1, Bound
    <3> QED
      BY <3>2 DEF t
  <2>3. Touches(net, net', client)
    BY <1>1, <1>6, <2>2, TouchesAgain
  <2>4. client \in Active(net') /\ net'.st[client] = "ESTABLISHED" /\ net'.sound
    BY <1>1, <1>2, <1>5, <2>2 DEF Active
  <2>5. ctx' \in [Ctx -> {"free", "connected", "closing"}] /\ ctx'[c] = "connected"
    BY <2>1 DEF ClientInv, TypeOK
  <2>6. client \notin Free(net') /\ client \notin Waiting(net')
    BY <1>1, <2>3, <2>4 DEF Touches, Proper, Lists
  <2>7. net'.arg[client] = c /\ c # NoCtx
    BY <1>1, <2>1, <2>2
  <2>8. UNCHANGED <<pc, client, quits, raced, cutoff, received, saw>>
    BY DEF SynAck, history
  <2>9. /\ cutoff' \in BOOLEAN /\ received' \in BOOLEAN /\ saw' \in BOOLEAN
        /\ connected' <=> TRUE
    BY <2>1, <2>8 DEF ClientInv, TypeOK
  <2> QED
    BY <1>1, <2>3, <2>4, <2>5, <2>6, <2>7, <2>8, <2>9, <2>1, ClientMoves DEF Open
<1>8. CASE net' = Unset(Close(up, client), client) /\ connected' = FALSE /\ UNCHANGED ctx
  <2> DEFINE shut == Close(up, p)
  <2> HIDE DEF up
  <2>1. /\ Touches(up, shut, p) /\ shut.st[p] = "FIN_WAIT_1"
        /\ shut.active = up.active /\ shut.sound
    BY <1>1, <1>5, <1>6, Closed
  <2>2. Proper(shut)
    BY <2>1 DEF Touches
  <2>3. /\ Touches(shut, net', p) /\ net'.arg[p] = NoCtx /\ net'.st = shut.st
        /\ net'.sound /\ net'.active = shut.active
    <3> DEFINE t == net'
    <3>1. t = Unset(shut, p)
      BY <1>1, <1>8
    <3> HIDE DEF t, shut
    <3>2. /\ Touches(shut, t, p) /\ t.arg[p] = NoCtx /\ t.st = shut.st
          /\ t.sound = shut.sound /\ t.active = shut.active
      BY <1>1, <2>2, <3>1, Unbound
    <3> QED
      BY <2>1, <3>2 DEF t
  <2> HIDE DEF shut
  <2>4. Touches(net, shut, p)
    BY <1>6, <2>1, TouchesAgain
  <2>5. Touches(net, net', client)
    BY <1>1, <2>3, <2>4, TouchesAgain
  <2>6. client \in Active(net') /\ net'.st[client] = "FIN_WAIT_1" /\ net'.sound
    BY <1>1, <1>2, <1>5, <2>1, <2>3 DEF Active
  <2>7. client \notin Free(net') /\ client \notin Waiting(net')
    BY <1>1, <2>5, <2>6 DEF Touches, Proper, Lists
  <2>8. UNCHANGED <<pc, client, quits, raced, cutoff, received, saw>>
    BY DEF SynAck, history
  <2>9. /\ cutoff' \in BOOLEAN /\ received' \in BOOLEAN /\ saw' \in BOOLEAN
        /\ connected' <=> FALSE
        /\ ctx' \in [Ctx -> {"free", "connected", "closing"}]
    BY <1>8, <2>8 DEF ClientInv, TypeOK
  <2>10. net'.arg[client] = NoCtx
    BY <1>1, <2>3
  <2> QED
    BY <1>1, <2>5, <2>6, <2>7, <2>8, <2>9, <2>10, <1>8, ClientMoves
<1> QED
  BY <1>4, <1>7, <1>8 DEF SynAck, front

(* Data comes for the open connection of client_pcb.                       *)
LEMMA DataKeeps ==
  ASSUME ClientInv, net.sound, NEW p \in Range(net.active), Data(p)
  PROVE  ClientInv'
<1>1. /\ Proper(net) /\ p \in Pcb /\ p \in Active(net) /\ p = client
      /\ p \notin Free(net) /\ p \notin Waiting(net)
      /\ ctx[net.arg[p]] # "free" /\ pc \notin {"re_new", "wipe", "idle"}
  BY Shown DEF Data, HasCallbacks
<1>2. /\ Touches(net, net', p) /\ net'.sound /\ Active(net') = Active(net)
      /\ net'.st = net.st /\ net'.arg = net.arg
      /\ net'.free = net.free /\ net'.tw = net.tw
  <2> DEFINE t == net'
  <2>1. t = ToFront(net, p)
    BY DEF Data
  <2> HIDE DEF t
  <2>2. /\ Touches(net, t, p) /\ t.sound /\ Active(t) = Active(net)
        /\ t.st = net.st /\ t.arg = net.arg
        /\ t.free = net.free /\ t.tw = net.tw
    BY <1>1, <2>1, Fronted
  <2> QED
    BY <2>2 DEF t
<1>3. UNCHANGED <<pc, client, connected, ctx, quits, raced, cutoff, saw>>
  BY DEF Data, history
<1>4. /\ cutoff' \in BOOLEAN /\ received' \in BOOLEAN /\ saw' \in BOOLEAN
      /\ connected' \in BOOLEAN /\ ctx' \in [Ctx -> {"free", "connected", "closing"}]
      /\ net.st[p] = "ESTABLISHED"
  BY <1>3 DEF ClientInv, TypeOK, Data
<1>5. client \in Active(net') /\ client \notin Free(net') /\ client \notin Waiting(net')
  BY <1>1, <1>2 DEF Free, Waiting
<1>6. pc \notin {"re_clear", "quit_clear"} /\ ~ raced =>
        (connected' <=> /\ net'.arg[client] # NoCtx
                        /\ client \in Active(net')
                        /\ net'.st[client] \in {"ESTABLISHED", "CLOSE_WAIT"})
  BY <1>1, <1>2, <1>3, <1>5, Shown
<1>7. net'.arg[client] # NoCtx => ctx'[net'.arg[client]] # "free"
  BY <1>1, <1>2, <1>3
<1> QED
  BY <1>1, <1>2, <1>3, <1>4, <1>5, <1>6, <1>7, ClientMoves

(* A step after which p is back in the pool, while the main loop does not  *)
(* know it.                                                                *)
LEMMA Dies ==
  ASSUME ClientInv, net.sound, NEW p \in Pcb, Touches(net, net', p),
         UNCHANGED <<pc, client, received, saw, ctx, quits, raced>>,
         connected' \in BOOLEAN, cutoff' = (cutoff \/ p = client),
         p # client => net'.sound /\ (connected' <=> connected),
         p = client /\ pc \notin {"re_clear", "quit_clear"} /\ ~ raced => ~ connected',
         net'.sound => /\ net'.arg[p] = NoCtx \/ net'.arg[p] = net.arg[p]
                       /\ p \in Free(net') /\ p \notin Active(net') /\ p \notin Waiting(net')
  PROVE  ClientInv'
<1>1. /\ cutoff \in BOOLEAN /\ received \in BOOLEAN /\ saw \in BOOLEAN
      /\ connected \in BOOLEAN /\ ctx \in [Ctx -> {"free", "connected", "closing"}]
  BY DEF ClientInv, TypeOK
<1>2. CASE p # client
  <2>1. net.arg[p] = NoCtx
    BY <1>2 DEF ClientInv, ContextLive
  <2>2. cutoff' = cutoff /\ connected' = connected
    BY <1>1, <1>2
  <2> QED
    BY <1>1, <1>2, <2>1, <2>2, OtherMoves
<1>3. CASE p = client
  <2>1. cutoff' <=> TRUE
    BY <1>3
  <2>2. net'.arg[client] # NoCtx /\ net'.sound =>
          ctx'[net'.arg[client]] # "free" /\ pc \notin {"re_new", "wipe", "idle"}
    BY <1>3 DEF ClientInv, ContextLive, Cleared
  <2>3. /\ cutoff' \in BOOLEAN /\ received' \in BOOLEAN /\ saw' \in BOOLEAN
        /\ ctx' \in [Ctx -> {"free", "connected", "closing"}]
    BY <1>1, <2>1
  <2>4. UNCHANGED <<pc, client, quits, raced>> /\ client \in Pcb
        /\ Touches(net, net', client)
    BY <1>3
  <2>5. net'.sound =>
           /\ client \in Free(net') /\ client \notin Active(net')
           /\ client \notin Waiting(net')
    BY <1>3
  <2>6. pc \notin {"re_clear", "quit_clear"} /\ ~ raced => ~ connected'
    BY <1>3
  <2> QED
    BY <2>1, <2>2, <2>3, <2>4, <2>5, <2>6, ClientMoves
<1> QED
  BY <1>2, <1>3

(* What the error callback does to client_pcb.                             *)
LEMMA Told ==
  ASSUME NEW s, Proper(s), client \in Pcb, NEW t, t = OnError(s)
  PROVE  /\ Touches(s, t, client) /\ t.arg[client] = NoCtx
         /\ s.st[client] \notin {"CLOSED", "SYN_SENT"} =>
              t.sound = s.sound /\ t.free = s.free /\ t.active = s.active /\ t.tw = s.tw
         /\ s.st[client] = "CLOSED" /\ client \in Listed(s) => ~ t.sound
<1> DEFINE u == Close(s, client)
<1>1. t = Unset(u, client)
  BY DEF OnError
<1>2. /\ Touches(s, u, client) /\ u.arg = s.arg
      /\ s.st[client] = "CLOSED" => u = PcbFree(s, client)
      /\ s.st[client] \notin {"CLOSED", "SYN_SENT"} =>
           u.free = s.free /\ u.active = s.active /\ u.tw = s.tw /\ u.sound = s.sound
  BY Closed
<1>3. s.st[client] = "CLOSED" /\ client \in Listed(s) => ~ u.sound
  BY <1>2, Returned
<1> HIDE DEF u
<1>4. Proper(u)
  BY <1>2 DEF Touches
<1>5. /\ Touches(u, t, client) /\ t.arg[client] = NoCtx /\ t.sound = u.sound
      /\ t.free = u.free /\ t.active = u.active /\ t.tw = u.tw
  BY <1>1, <1>4, Unbound
<1>6. Touches(s, t, client)
  BY <1>2, <1>5, TouchesAgain
<1> QED
  BY <1>2, <1>3, <1>5, <1>6

(* Data comes for a connection that was closed here.                       *)
LEMMA LateDataKeeps ==
  ASSUME ClientInv, net.sound, NEW p \in Range(net.active), LateData(p)
  PROVE  ClientInv'
<1> DEFINE t == Abandon(net, p)
           u == net'
<1>1. /\ Proper(net) /\ p \in Pcb /\ p \in Active(net) /\ p \notin Free(net)
      /\ net.st[p] \in {"FIN_WAIT_1", "FIN_WAIT_2"}
      /\ HasCallbacks(p) => p = client
  BY Shown DEF LateData, HasCallbacks
<1>2. /\ Touches(net, t, p) /\ t.st[p] = "CLOSED" /\ t.arg = net.arg /\ t.sound
      /\ p \in Free(t) /\ p \notin Active(t) /\ p \notin Waiting(t)
  BY <1>1, Abandoned
<1>3. u = IF HasCallbacks(p) THEN OnError(t) ELSE t
  BY DEF LateData
<1> HIDE DEF t, u
<1>4. Proper(t) /\ p \in Listed(t)
  BY <1>2 DEF Touches, Listed, Free
<1>6. /\ Touches(net, u, p) /\ (p # client => u.sound)
      /\ u.sound => u.arg = net.arg /\ p \in Free(u)
                    /\ p \notin Active(u) /\ p \notin Waiting(u)
  <2>1. CASE HasCallbacks(p)
    <3>1. Touches(t, u, p) /\ ~ u.sound
      BY <1>1, <1>2, <1>3, <1>4, <2>1, Told
    <3> QED
      BY <1>1, <1>2, <2>1, <3>1, TouchesAgain
  <2>2. CASE ~ HasCallbacks(p)
    BY <1>2, <1>3, <2>2
  <2> QED
    BY <2>1, <2>2
<1>7. /\ UNCHANGED <<pc, client, received, saw, ctx, quits, raced>>
      /\ cutoff' = (cutoff \/ p = client) /\ connected' \in BOOLEAN
      /\ connected' <=> connected /\ ~ HasCallbacks(p)
  BY DEF LateData
<1>8. p = client /\ pc \notin {"re_clear", "quit_clear"} /\ ~ raced => ~ connected'
  BY <1>1, <1>7, Shown
<1>9. /\ Touches(net, net', p) /\ (p # client => net'.sound)
      /\ net'.sound => net'.arg = net.arg /\ p \in Free(net')
                    /\ p \notin Active(net') /\ p \notin Waiting(net')
  BY <1>6 DEF u
<1> QED
  BY <1>1, <1>7, <1>8, <1>9, Dies

(* A reset ends the connection of p.                                       *)
LEMMA ResetKeeps ==
  ASSUME ClientInv, net.sound, NEW p \in Range(net.active), Reset(p)
  PROVE  ClientInv'
<1> DEFINE t == IF HasCallbacks(p) THEN OnError(net) ELSE net
           u == net'
<1>1. /\ Proper(net) /\ p \in Pcb /\ p \in Active(net) /\ p \notin Free(net)
      /\ HasCallbacks(p) => p = client /\ net.st[p] # "SYN_SENT"
      /\ net.st[p] # "CLOSED"
  BY Shown DEF Reset, HasCallbacks
<1>2. /\ Touches(net, t, p) /\ t.sound /\ t.arg[p] = NoCtx /\ p \notin Free(t)
  <2>1. CASE HasCallbacks(p)
    <3>1. t = OnError(net)
      BY <2>1
    <3> HIDE DEF t
    <3> QED
      BY <1>1, <2>1, <3>1, Told DEF Free
  <2>2. CASE ~ HasCallbacks(p)
    BY <1>1, <2>2 DEF HasCallbacks, Touches, Apart
  <2> QED
    BY <2>1, <2>2
<1>3. u = PcbFree(PcbRemove(t, p), p)
  BY DEF Reset
<1> HIDE DEF t, u
<1>4. Proper(t)
  BY <1>2 DEF Touches
<1>5. /\ Touches(t, u, p) /\ u.sound /\ u.arg = t.arg
      /\ p \in Free(u) /\ p \notin Active(u) /\ p \notin Waiting(u)
  BY <1>1, <1>2, <1>3, <1>4, Dropped
<1>6. Touches(net, u, p) /\ u.arg[p] = NoCtx
  BY <1>2, <1>5, TouchesAgain
<1>7. /\ UNCHANGED <<pc, client, received, saw, ctx, quits, raced>>
      /\ cutoff' = (cutoff \/ p = client) /\ connected' \in BOOLEAN
      /\ connected' <=> connected /\ ~ HasCallbacks(p)
  BY DEF Reset
<1>8. p = client /\ pc \notin {"re_clear", "quit_clear"} /\ ~ raced => ~ connected'
  BY <1>7, Shown DEF HasCallbacks
<1>9. /\ Touches(net, net', p) /\ net'.sound /\ net'.arg[p] = NoCtx
      /\ p \in Free(net') /\ p \notin Active(net') /\ p \notin Waiting(net')
  BY <1>5, <1>6 DEF u
<1> QED
  BY <1>1, <1>7, <1>8, <1>9, Dies

(* lwIP gives the connection of p up.                                      *)
LEMMA TimeOutKeeps ==
  ASSUME ClientInv, net.sound, NEW p \in Range(net.active), TimeOut(p)
  PROVE  ClientInv'
<1> DEFINE t == PcbFree([net EXCEPT !.active = Unlinked(@, p)], p)
           u == net'
<1>1. /\ Proper(net) /\ p \in Pcb /\ p \in Active(net) /\ p \notin Free(net)
      /\ HasCallbacks(p) => p = client
      /\ net.st[p] \notin {"CLOSED", "SYN_SENT"}
  BY Shown DEF TimeOut, HasCallbacks
<1>2. u = IF HasCallbacks(p) THEN OnError(t) ELSE t
  BY DEF TimeOut
<1>3. /\ Touches(net, t, p) /\ t.sound /\ t.st = net.st /\ t.arg = net.arg
      /\ p \in Free(t) /\ p \notin Active(t) /\ p \notin Waiting(t)
  BY <1>1, Expired
<1> HIDE DEF t, u
<1>4. Proper(t)
  BY <1>3 DEF Touches
<1>5. /\ Touches(net, u, p) /\ u.sound /\ u.arg[p] = NoCtx
      /\ p \in Free(u) /\ p \notin Active(u) /\ p \notin Waiting(u)
  <2>1. CASE HasCallbacks(p)
    <3>1. /\ Touches(t, u, p) /\ u.arg[p] = NoCtx /\ u.sound
          /\ u.free = t.free /\ u.active = t.active /\ u.tw = t.tw
      BY <1>1, <1>2, <1>3, <1>4, <2>1, Told
    <3> QED
      BY <1>3, <3>1, TouchesAgain DEF Free, Active, Waiting
  <2>2. CASE ~ HasCallbacks(p)
    BY <1>2, <1>3, <2>2 DEF HasCallbacks
  <2> QED
    BY <2>1, <2>2
<1>6. /\ UNCHANGED <<pc, client, received, saw, ctx, quits, raced>>
      /\ cutoff' = (cutoff \/ p = client) /\ connected' \in BOOLEAN
      /\ connected' <=> connected /\ ~ HasCallbacks(p)
  BY DEF TimeOut
<1>7. p = client /\ pc \notin {"re_clear", "quit_clear"} /\ ~ raced => ~ connected'
  BY <1>6, Shown DEF HasCallbacks
<1>8. /\ Touches(net, net', p) /\ net'.sound /\ net'.arg[p] = NoCtx
      /\ p \in Free(net') /\ p \notin Active(net') /\ p \notin Waiting(net')
  BY <1>5 DEF u
<1> QED
  BY <1>1, <1>6, <1>7, <1>8, Dies

(* The key that sends finds no context and aborts client_pcb.              *)
LEMMA TransmitAbortKeeps ==
  ASSUME ClientInv, net.sound, TransmitAbort
  PROVE  ClientInv'
<1>1. /\ Proper(net) /\ client \in Pcb \cup {NoPcb} /\ NoPcb \notin Pcb
      /\ cutoff \in BOOLEAN /\ connected \in BOOLEAN
      /\ UNCHANGED <<pc, client, connected, received, saw, ctx, quits, raced>>
      /\ cutoff' <=> TRUE
      /\ pc = "run" /\ ClientArg = NoCtx
  BY PcbAssumption DEF ClientInv, TypeOK, TransmitAbort, status
<1>2. CASE client = NoPcb
  <2>1. net' = [net EXCEPT !.sound = FALSE]
    BY <1>2 DEF TransmitAbort
  <2>2. Proper(net') /\ ~ net'.sound
    BY <1>1, <2>1 DEF Proper, Stack
  <2>3. TypeOK'
    BY <1>1, <2>2 DEF ClientInv, TypeOK
  <2> QED
    BY <1>1, <2>2, <2>3
       DEF ClientInv, Opening, ContextLive, Cleared, StatusTrue, Kept, FreedOnce
<1>3. CASE client # NoPcb
  <2> DEFINE t == net'
  <2>1. t = Abandon(net, client) /\ client \in Pcb /\ net.arg[client] = NoCtx
    BY <1>1, <1>3 DEF TransmitAbort, ClientArg
  <2> HIDE DEF t
  <2>2. /\ Touches(net, t, client) /\ t.arg = net.arg
        /\ t.sound => /\ client \in Free(t) /\ client \notin Active(t)
                      /\ client \notin Waiting(t)
    BY <1>1, <2>1, Abandoned
  <2>3. /\ Touches(net, net', client) /\ net'.arg = net.arg
        /\ net'.sound => /\ client \in Free(net') /\ client \notin Active(net')
                         /\ client \notin Waiting(net')
    BY <2>2 DEF t
  <2>4. ~ raced => ~ connected'
    BY <1>1 DEF ClientInv, StatusTrue
  <2>5. cutoff' = (cutoff \/ client = client) /\ connected' \in BOOLEAN
    BY <1>1
  <2> QED
    BY <1>1, <2>1, <2>3, <2>4, <2>5, Dies
<1> QED
  BY <1>2, <1>3

(* A step of the closing handshake: p goes on to another state.            *)
LEMMA Settles ==
  ASSUME ClientInv, net.sound, NEW p \in Range(net.active),
         Touches(net, net', p), net'.sound, net'.arg[p] = net.arg[p],
         UNCHANGED <<pc, client, connected, received, saw, cutoff, quits, raced>>,
         ctx' \in [Ctx -> {"free", "connected", "closing"}],
         p # client => ctx' = ctx,
         net.arg[p] # NoCtx => ctx'[net.arg[p]] # "free",
         p \notin Free(net'),
         \/ p \in Active(net') /\ p \notin Waiting(net')
            /\ net'.st[p] \in {"FIN_WAIT_2", "CLOSING", "CLOSE_WAIT"}
         \/ p \in Waiting(net') /\ p \notin Active(net') /\ net'.st[p] = "TIME_WAIT",
         net.st[p] \in {"ESTABLISHED", "CLOSE_WAIT"} <=>
           net'.st[p] \in {"ESTABLISHED", "CLOSE_WAIT"}
  PROVE  ClientInv'
<1>1. /\ cutoff' \in BOOLEAN /\ received' \in BOOLEAN /\ saw' \in BOOLEAN
      /\ connected' \in BOOLEAN /\ p \in Pcb /\ p \in Active(net)
  BY Shown DEF ClientInv, TypeOK
<1>2. CASE p # client
  BY <1>1, <1>2, OtherMoves
<1>3. CASE p = client
  <2>1. net.arg[p] # NoCtx => pc \notin {"re_new", "wipe", "idle"}
    BY Shown
  <2>2. pc \notin {"re_clear", "quit_clear"} /\ ~ raced =>
          (connected' <=> /\ net'.arg[client] # NoCtx
                          /\ client \in Active(net')
                          /\ net'.st[client] \in {"ESTABLISHED", "CLOSE_WAIT"})
    BY <1>3, Shown
  <2>3. /\ client \in Active(net') =>
             net'.st[client] \notin {"CLOSED", "TIME_WAIT", "SYN_SENT"}
        /\ client \in Waiting(net') => net'.st[client] = "TIME_WAIT"
        /\ client \in Active(net') \/ client \in Waiting(net')
        /\ client \notin Free(net')
    BY <1>3
  <2>4. net'.arg[client] # NoCtx =>
          ctx'[net'.arg[client]] # "free" /\ pc \notin {"re_new", "wipe", "idle"}
    BY <1>3, <2>1
  <2>5. UNCHANGED <<pc, client, quits, raced>> /\ client \in Pcb
        /\ Touches(net, net', client)
    BY <1>1, <1>3
  <2> QED
    BY <1>1, <2>2, <2>3, <2>4, <2>5, ClientMoves
<1> QED
  BY <1>2, <1>3

(* A segment for p brings it to the front and into another state.          *)
LEMMA FrontedAs ==
  ASSUME NEW s, Proper(s), s.sound, NEW p \in Pcb, p \in Active(s), NEW x \in PcbStates,
         NEW t, t = SetState(ToFront(s, p), p, x)
  PROVE  /\ Touches(s, t, p) /\ t.sound /\ t.st[p] = x /\ t.arg = s.arg /\ t.low = s.low
         /\ Active(t) = Active(s) /\ t.free = s.free /\ t.tw = s.tw
<1> DEFINE front == ToFront(s, p)
<1>1. t = SetState(front, p, x)
  OBVIOUS
<1>2. /\ Touches(s, front, p) /\ front.sound
      /\ Active(front) = Active(s) /\ front.free = s.free /\ front.tw = s.tw
      /\ front.arg = s.arg /\ front.low = s.low
  BY Fronted
<1> HIDE DEF front
<1>3. Proper(front)
  BY <1>2 DEF Touches
<1>4. /\ Touches(front, t, p)
      /\ t.st[p] = x /\ t.arg = front.arg /\ t.low = front.low /\ t.sound = front.sound
      /\ t.free = front.free /\ t.active = front.active /\ t.tw = front.tw
  BY <1>1, <1>3, Relabelled
<1> QED
  BY <1>2, <1>4, TouchesAgain DEF Active

(* Where a step of the closing handshake leaves p.                         *)
Handed(s, t, p, x) ==
  /\ Touches(s, t, p) /\ t.sound /\ t.arg = s.arg /\ t.st[p] = x
  /\ p \notin Free(t)
  /\ p \in Active(t) <=> x # "TIME_WAIT"
  /\ p \in Waiting(t) <=> x = "TIME_WAIT"

(* The steps of the closing handshake.                                     *)
LEMMA HandedOn ==
  ASSUME NEW s, Proper(s), s.sound, NEW p \in Pcb, p \in Active(s), NEW t,
         NEW x \in {"FIN_WAIT_2", "CLOSING", "CLOSE_WAIT", "TIME_WAIT"},
         t = IF x = "TIME_WAIT" THEN TimeWait(s, p) ELSE SetState(ToFront(s, p), p, x)
  PROVE  Handed(s, t, p, x)
<1>1. p \notin Free(s) /\ p \notin Waiting(s) /\ x \in PcbStates
  BY DEF Proper, Lists, PcbStates
<1>2. CASE x = "TIME_WAIT"
  <2>1. t = TimeWait(s, p)
    BY <1>2
  <2> QED
    BY <1>2, <2>1, Parked DEF Handed
<1>3. CASE x # "TIME_WAIT"
  <2>1. t = SetState(ToFront(s, p), p, x)
    BY <1>3
  <2>2. /\ Touches(s, t, p) /\ t.sound /\ t.st[p] = x /\ t.arg = s.arg
        /\ Active(t) = Active(s) /\ t.free = s.free /\ t.tw = s.tw
    BY <1>1, <2>1, FrontedAs
  <2> QED
    BY <1>1, <1>3, <2>2 DEF Handed, Free, Waiting
<1> QED
  BY <1>2, <1>3

(* The FIN of this side is acknowledged.                                   *)
LEMMA FinAckedKeeps ==
  ASSUME ClientInv, net.sound, NEW p \in Range(net.active), FinAcked(p)
  PROVE  ClientInv'
<1> DEFINE t == net'
<1>1. /\ Proper(net) /\ p \in Pcb /\ p \in Active(net) /\ p \notin Free(net)
      /\ net.st[p] \in {"FIN_WAIT_1", "CLOSING", "LAST_ACK"}
  BY Shown DEF FinAcked
<1>2. /\ UNCHANGED <<pc, client, connected, received, saw, ctx, quits, raced>>
      /\ cutoff' = (cutoff \/ (p = client /\ net.st[p] = "LAST_ACK"))
      /\ connected' \in BOOLEAN /\ cutoff \in BOOLEAN
      /\ ctx' \in [Ctx -> {"free", "connected", "closing"}]
  BY DEF FinAcked, status, ClientInv, TypeOK
<1>3. CASE net.st[p] = "LAST_ACK"
  <2>1. t = Abandon(net, p)
    BY <1>3 DEF FinAcked
  <2> HIDE DEF t
  <2>2. /\ Touches(net, t, p) /\ t.sound /\ t.arg = net.arg
        /\ p \in Free(t) /\ p \notin Active(t) /\ p \notin Waiting(t)
    BY <1>1, <1>3, <2>1, Abandoned
  <2>3. /\ Touches(net, net', p) /\ net'.sound /\ net'.arg = net.arg
        /\ p \in Free(net') /\ p \notin Active(net') /\ p \notin Waiting(net')
    BY <2>2 DEF t
  <2>4. cutoff' = (cutoff \/ p = client)
    BY <1>2, <1>3
  <2>5. p = client /\ pc \notin {"re_clear", "quit_clear"} /\ ~ raced => ~ connected'
    BY <1>2, <1>3, Shown
  <2> QED
    BY <1>1, <1>2, <2>3, <2>4, <2>5, Dies
<1>4. CASE net.st[p] # "LAST_ACK"
  <2> DEFINE x == IF net.st[p] = "CLOSING" THEN "TIME_WAIT" ELSE "FIN_WAIT_2"
  <2>1. t = IF x = "TIME_WAIT" THEN TimeWait(net, p)
            ELSE SetState(ToFront(net, p), p, x)
    BY <1>1, <1>4 DEF FinAcked, SetState
  <2>2. x \in {"FIN_WAIT_2", "TIME_WAIT"}
    OBVIOUS
  <2> HIDE DEF t, x
  <2>3. Handed(net, t, p, x)
    BY <1>1, <2>1, <2>2, HandedOn
  <2>4. Handed(net, net', p, x)
    BY <2>3 DEF t
  <2>5. /\ Touches(net, net', p) /\ net'.sound /\ net'.arg = net.arg
        /\ net'.st[p] \in {"FIN_WAIT_2", "TIME_WAIT"}
        /\ p \notin Free(net')
        /\ \/ p \in Active(net') /\ p \notin Waiting(net') /\ net'.st[p] = "FIN_WAIT_2"
           \/ p \in Waiting(net') /\ p \notin Active(net') /\ net'.st[p] = "TIME_WAIT"
    BY <2>2, <2>4 DEF Handed
  <2>6. cutoff' = cutoff
    BY <1>2, <1>4
  <2>7. net.arg[p] # NoCtx => ctx'[net.arg[p]] # "free"
    BY <1>2, Shown
  <2>8. ~ (net.st[p] \in {"ESTABLISHED", "CLOSE_WAIT"})
        /\ ~ (net'.st[p] \in {"ESTABLISHED", "CLOSE_WAIT"})
    BY <1>1, <2>5
  <2> QED
    BY <1>2, <2>5, <2>6, <2>7, <2>8, Settles
<1> QED
  BY <1>3, <1>4

(* The FIN of the peer.                                                    *)
LEMMA FinKeeps ==
  ASSUME ClientInv, net.sound, NEW p \in Range(net.active), Fin(p)
  PROVE  ClientInv'
<1> DEFINE t == net'
           x == CASE net.st[p] = "ESTABLISHED" -> "CLOSE_WAIT"
                  [] net.st[p] = "FIN_WAIT_1" -> "CLOSING"
                  [] net.st[p] = "FIN_WAIT_2" -> "TIME_WAIT"
<1>1. /\ Proper(net) /\ p \in Pcb /\ p \in Active(net) /\ p \notin Free(net)
      /\ net.st[p] \in {"ESTABLISHED", "FIN_WAIT_1", "FIN_WAIT_2"}
      /\ net.arg[p] \in Ctx \cup {NoCtx} /\ NoCtx \notin Ctx
      /\ net.arg[p] # NoCtx => p = client
  BY Shown DEF Fin
<1>2. /\ UNCHANGED <<pc, client, connected, received, saw, cutoff, quits, raced>>
      /\ ctx' = IF HasCallbacks(p) THEN [ctx EXCEPT ![net.arg[p]] = "closing"] ELSE ctx
      /\ ctx \in [Ctx -> {"free", "connected", "closing"}]
  BY DEF Fin, status, history, ClientInv, TypeOK
<1>3. t = IF x = "TIME_WAIT" THEN TimeWait(net, p) ELSE SetState(ToFront(net, p), p, x)
  BY <1>1 DEF Fin, SetState
<1>4. /\ x \in {"CLOSING", "CLOSE_WAIT", "TIME_WAIT"}
      /\ x = "CLOSE_WAIT" <=> net.st[p] = "ESTABLISHED"
  BY <1>1
<1> HIDE DEF t, x
<1>5. Handed(net, t, p, x)
  BY <1>1, <1>3, <1>4, HandedOn
<1>6. Handed(net, net', p, x)
  BY <1>5 DEF t
<1>7. /\ Touches(net, net', p) /\ net'.sound /\ net'.arg = net.arg
      /\ p \notin Free(net') /\ net'.st[p] = x
      /\ \/ p \in Active(net') /\ p \notin Waiting(net')
            /\ net'.st[p] \in {"CLOSING", "CLOSE_WAIT"}
         \/ p \in Waiting(net') /\ p \notin Active(net') /\ net'.st[p] = "TIME_WAIT"
  BY <1>4, <1>6 DEF Handed
<1>8. ctx' \in [Ctx -> {"free", "connected", "closing"}]
  BY <1>1, <1>2 DEF HasCallbacks
<1>9. net.arg[p] # NoCtx => ctx'[net.arg[p]] # "free"
  BY <1>1, <1>2 DEF HasCallbacks
<1>10. p # client => ctx' = ctx
  BY <1>1, <1>2 DEF HasCallbacks
<1>11. net.st[p] \in {"ESTABLISHED", "CLOSE_WAIT"} <=>
         net'.st[p] \in {"ESTABLISHED", "CLOSE_WAIT"}
  BY <1>1, <1>4, <1>7
<1> QED
  BY <1>2, <1>7, <1>8, <1>9, <1>10, <1>11, Settles

(* tcp_close of a pcb of the active list that has been connected.          *)
LEMMA Shut ==
  ASSUME NEW s, Proper(s), NEW p \in Pcb, p \in Active(s), s.st[p] # "SYN_SENT",
         NEW t, t = Close(s, p)
  PROVE  /\ Touches(s, t, p) /\ t.arg = s.arg /\ t.low = s.low
         /\ s.st[p] = "CLOSED" => ~ t.sound
         /\ s.st[p] # "CLOSED" =>
              /\ t.free = s.free /\ t.active = s.active
              /\ t.tw = s.tw /\ t.sound = s.sound
              /\ t.st[p] \notin {"CLOSED", "SYN_SENT"}
              /\ s.st[p] # "TIME_WAIT" => t.st[p] # "TIME_WAIT"
<1>1. s.st[p] \in PcbStates /\ p \in Listed(s)
  BY StackFields DEF Proper, Listed, Active
<1>2. Touches(s, t, p) /\ t.arg = s.arg /\ t.low = s.low
  BY Closed
<1>3. CASE s.st[p] = "CLOSED"
  <2>1. t = PcbFree(s, p)
    BY <1>3, Closed
  <2> QED
    BY <1>1, <1>2, <1>3, <2>1, Returned
<1>4. CASE s.st[p] # "CLOSED"
  <2>1. /\ t.free = s.free /\ t.active = s.active
        /\ t.tw = s.tw /\ t.sound = s.sound
    BY <1>4, Closed
  <2>2. CASE s.st[p] \in {"SYN_RCVD", "ESTABLISHED"}
    <3>1. t.st[p] = "FIN_WAIT_1"
      BY <2>2, Closed
    <3> QED
      BY <1>2, <1>4, <2>1, <3>1
  <2>3. CASE s.st[p] = "CLOSE_WAIT"
    <3>1. t.st[p] = "LAST_ACK"
      BY <2>3, Closed
    <3> QED
      BY <1>2, <1>4, <2>1, <3>1
  <2>4. CASE s.st[p] \notin {"SYN_RCVD", "ESTABLISHED", "CLOSE_WAIT"}
    <3>1. s.st[p] \in {"FIN_WAIT_1", "FIN_WAIT_2", "CLOSING", "LAST_ACK", "TIME_WAIT"}
      BY <1>1, <1>4, <2>4 DEF PcbStates
    <3>2. t = s
      BY <3>1, Closed
    <3> QED
      BY <1>2, <1>4, <2>1, <3>1, <3>2
  <2> QED
    BY <2>2, <2>3, <2>4
<1> QED
  BY <1>3, <1>4

(* The poll callback closes a connection that the peer has closed.         *)
LEMMA PollKeeps ==
  ASSUME ClientInv, net.sound, NEW p \in Range(net.active), Poll(p)
  PROVE  ClientInv'
<1> DEFINE t == Close(net, p)
           u == net'
<1>1. /\ Proper(net) /\ p \in Pcb /\ p \in Active(net) /\ p \notin Free(net)
      /\ p \notin Waiting(net) /\ p = client /\ pc = "run"
      /\ net.arg[p] \in Ctx /\ net.st[p] # "SYN_SENT" /\ net.st[p] \in PcbStates
      /\ ~ quits => net.st[p] \notin {"CLOSED", "TIME_WAIT"}
  BY Shown DEF Poll, HasCallbacks, Round
<1>2. /\ UNCHANGED <<pc, client, received, saw, cutoff, quits, raced>>
      /\ ctx' = [ctx EXCEPT ![net.arg[p]] = "free"] /\ connected' = FALSE
      /\ ctx \in [Ctx -> {"free", "connected", "closing"}]
      /\ cutoff' \in BOOLEAN /\ received' \in BOOLEAN /\ saw' \in BOOLEAN
      /\ connected' \in BOOLEAN
  BY DEF Poll, status, history, ClientInv, TypeOK
<1>3. u = Unset(t, p)
  BY DEF Poll
<1>4. t = Close(net, p)
  OBVIOUS
<1> HIDE DEF t, u
<1>5. /\ Touches(net, t, p)
      /\ net.st[p] = "CLOSED" => ~ t.sound
      /\ net.st[p] # "CLOSED" =>
           /\ t.free = net.free /\ t.active = net.active
           /\ t.tw = net.tw /\ t.sound = net.sound
           /\ t.st[p] \notin {"CLOSED", "SYN_SENT"}
           /\ net.st[p] # "TIME_WAIT" => t.st[p] # "TIME_WAIT"
  <2>1. Proper(net) /\ p \in Pcb /\ p \in Active(net) /\ net.st[p] # "SYN_SENT"
    BY <1>1
  <2>2. Touches(net, t, p)
    BY <1>4, <2>1, Shut
  <2>3. net.st[p] = "CLOSED" => ~ t.sound
    BY <1>4, <2>1, Shut
  <2>4. net.st[p] # "CLOSED" =>
           /\ t.free = net.free /\ t.active = net.active
           /\ t.tw = net.tw /\ t.sound = net.sound
    BY <1>4, <2>1, Shut
  <2>5. net.st[p] # "CLOSED" =>
           t.st[p] \notin {"CLOSED", "SYN_SENT"}
    BY <1>4, <2>1, Shut
  <2>6. net.st[p] # "CLOSED" /\ net.st[p] # "TIME_WAIT" => t.st[p] # "TIME_WAIT"
    BY <1>4, <2>1, Shut
  <2> QED
    BY <2>2, <2>3, <2>4, <2>5, <2>6
<1>8. Proper(t)
  BY <1>5 DEF Touches
<1>9. /\ Touches(t, u, p) /\ u.arg[p] = NoCtx /\ u.st = t.st /\ u.sound = t.sound
      /\ u.free = t.free /\ u.active = t.active /\ u.tw = t.tw
  BY <1>1, <1>3, <1>8, Unbound
<1>10. Touches(net, u, p)
  BY <1>5, <1>9, TouchesAgain
<1>11. u.sound => /\ p \in Active(u) /\ p \notin Free(u) /\ p \notin Waiting(u)
                  /\ u.st[p] # "SYN_SENT"
                  /\ ~ quits => u.st[p] \notin {"CLOSED", "TIME_WAIT"}
  BY <1>1, <1>5, <1>9 DEF Active, Free, Waiting
<1>12. u.sound \/ quits
  BY <1>1, <1>5, <1>9
<1>13. /\ Touches(net, net', client) /\ net'.arg[client] = NoCtx
       /\ net'.sound => /\ client \in Active(net') /\ client \notin Free(net')
                        /\ client \notin Waiting(net') /\ net'.st[client] # "SYN_SENT"
                        /\ ~ quits => net'.st[client] \notin {"CLOSED", "TIME_WAIT"}
       /\ net'.sound \/ quits
  BY <1>1, <1>9, <1>10, <1>11, <1>12 DEF u
<1>14. ctx' \in [Ctx -> {"free", "connected", "closing"}]
  BY <1>1, <1>2
<1> QED
  BY <1>1, <1>2, <1>13, <1>14, ClientMoves

(* A connection in TIME-WAIT is over.                                      *)
LEMMA TimeWaitOverKeeps ==
  ASSUME ClientInv, net.sound, TimeWaitOver
  PROVE  ClientInv'
<1> DEFINE t == net'
<1>1. PICK p \in Range(net.tw) : t = PcbFree([net EXCEPT !.tw = Unlinked(@, p)], p)
  BY DEF TimeWaitOver
<1>2. Proper(net) /\ net \in Stack /\ Lists(net) /\ p \in Waiting(net)
  BY DEF ClientInv, TypeOK, Proper, Waiting
<1>3. p \in Pcb /\ p \notin Active(net)
  BY <1>2, StackFields DEF Lists
<1> HIDE DEF t
<1>4. /\ Touches(net, t, p) /\ t.sound /\ p \in Free(t)
      /\ p \notin Waiting(t) /\ p \notin Active(t)
      /\ t.st = net.st /\ t.arg = net.arg
  BY <1>1, <1>2, WaitOver
<1>5. /\ Touches(net, net', p) /\ net'.sound /\ p \in Free(net')
      /\ p \notin Waiting(net') /\ p \notin Active(net')
      /\ net'.st = net.st /\ net'.arg = net.arg
  BY <1>4 DEF t
<1>6. /\ UNCHANGED <<pc, client, connected, received, saw, ctx, cutoff, quits, raced>>
      /\ cutoff' \in BOOLEAN /\ received' \in BOOLEAN /\ saw' \in BOOLEAN
      /\ connected' \in BOOLEAN /\ ctx' \in [Ctx -> {"free", "connected", "closing"}]
  BY DEF TimeWaitOver, status, history, ClientInv, TypeOK
<1>7. CASE p # client
  BY <1>3, <1>5, <1>6, <1>7, OtherMoves
<1>8. CASE p = client
  <2>1. net'.arg[client] # NoCtx =>
          ctx'[net'.arg[client]] # "free" /\ pc \notin {"re_new", "wipe", "idle"}
    BY <1>3, <1>5, <1>6, <1>8 DEF ClientInv, ContextLive, Cleared
  <2>2. pc \notin {"re_clear", "quit_clear"} /\ ~ raced => ~ connected'
    BY <1>3, <1>6, <1>8 DEF ClientInv, StatusTrue, Active
  <2>3. ~ quits => net'.st[client] = "TIME_WAIT"
    BY <1>2, <1>3, <1>5, <1>8 DEF ClientInv, Kept
  <2>4. UNCHANGED <<pc, client, quits, raced>> /\ client \in Pcb
        /\ Touches(net, net', client) /\ net'.sound
        /\ client \in Free(net') /\ client \notin Waiting(net')
        /\ client \notin Active(net')
    BY <1>3, <1>5, <1>6, <1>8
  <2> QED
    BY <1>6, <2>1, <2>2, <2>3, <2>4, ClientMoves
<1> QED
  BY <1>7, <1>8

(* A step of the main loop that does not touch the stack.                  *)
LEMMA IdleStepsKeep ==
  ASSUME ClientInv, net.sound,
         Quit \/ ReadStatus \/ ClearData \/ CheckConnection \/ Transmit \/ ClearTransmitting
  PROVE  ClientInv'
<1>1. /\ TypeOK /\ Opening /\ ContextLive /\ Cleared /\ StatusTrue /\ Kept /\ FreedOnce
  BY DEF ClientInv
<1>2. UNCHANGED <<net, client, ctx, cutoff>>
  BY DEF Quit, ReadStatus, ClearData, CheckConnection, Transmit, ClearTransmitting,
         status, history
<1>3. CASE Quit
  <2>1. /\ pc = "run" /\ pc' = "quit_close" /\ quits' = TRUE
        /\ UNCHANGED <<connected, received, saw, raced>>
    BY <1>3 DEF Quit, status
  <2>2. TypeOK'
    BY <1>1, <1>2, <2>1 DEF TypeOK
  <2>3. Opening' /\ ContextLive' /\ Cleared' /\ Kept' /\ FreedOnce'
    BY <1>1, <1>2, <2>1 DEF Opening, ContextLive, Cleared, Kept, FreedOnce, Open
  <2>4. StatusTrue'
    BY <1>1, <1>2, <2>1 DEF StatusTrue, ClientArg
  <2> QED
    BY <2>2, <2>3, <2>4 DEF ClientInv
<1>4. CASE ReadStatus \/ Transmit \/ CheckConnection
  <2>1. /\ pc = "run" /\ pc' \in {"clear_data", "clear_tx", "re_close"}
        /\ saw' \in BOOLEAN /\ UNCHANGED <<connected, received, quits, raced>>
    BY <1>1, <1>4 DEF ReadStatus, Transmit, CheckConnection, status, history, TypeOK
  <2>2. TypeOK'
    BY <1>1, <1>2, <2>1 DEF TypeOK
  <2>3. Opening' /\ ContextLive' /\ Cleared' /\ Kept' /\ FreedOnce'
    BY <1>1, <1>2, <2>1 DEF Opening, ContextLive, Cleared, Kept, FreedOnce, Open
  <2>4. StatusTrue'
    BY <1>1, <1>2, <2>1 DEF StatusTrue, ClientArg
  <2> QED
    BY <2>2, <2>3, <2>4 DEF ClientInv
<1>5. CASE ClearData \/ ClearTransmitting
  <2>1. /\ pc \in {"clear_data", "clear_tx"} /\ pc' = "run"
        /\ connected' = saw /\ saw' = FALSE /\ received' \in BOOLEAN
        /\ raced' = (raced \/ saw # connected) /\ quits' = quits
    BY <1>1, <1>5 DEF ClearData, ClearTransmitting, WriteBack, TypeOK, history
  <2>2. connected \in BOOLEAN /\ saw \in BOOLEAN /\ raced \in BOOLEAN
    BY <1>1 DEF TypeOK
  <2>3. TypeOK'
    BY <1>1, <1>2, <2>1, <2>2 DEF TypeOK
  <2>4. Opening' /\ ContextLive' /\ Cleared' /\ Kept' /\ FreedOnce'
    BY <1>1, <1>2, <2>1 DEF Opening, ContextLive, Cleared, Kept, FreedOnce, Open
  <2>5. StatusTrue'
    <3>1. CASE raced'
      BY <3>1 DEF StatusTrue
    <3>2. CASE ~ raced'
      <4>1. ~ raced /\ connected' = connected
        BY <2>1, <2>2, <3>2
      <4> QED
        BY <1>1, <1>2, <2>1, <4>1 DEF StatusTrue, ClientArg
    <3> QED
      BY <3>1, <3>2
  <2> QED
    BY <2>3, <2>4, <2>5 DEF ClientInv
<1> QED
  BY <1>3, <1>4, <1>5

(* Once client_pcb is closed it is in a list, or it was not to be closed.  *)
LEMMA ClientShut ==
  ASSUME ClientInv, net.sound, client \in Pcb, Touches(net, net', client),
         net'.arg = net.arg,
         UNCHANGED <<client, connected, received, saw, ctx, cutoff, quits, raced>>,
         \/ pc = "re_close" /\ pc' = "re_clear"
         \/ pc = "quit_close" /\ pc' = "quit_clear",
         net'.sound \/ cutoff \/ quits,
         net'.sound /\ client \in Active(net') => net'.st[client] # "SYN_SENT",
         net'.sound /\ ~ quits =>
           /\ client \in Active(net') => net'.st[client] \notin {"CLOSED", "TIME_WAIT"}
           /\ client \in Waiting(net') => net'.st[client] = "TIME_WAIT"
           /\ client \in Free(net') \/ client \in Active(net') \/ client \in Waiting(net')
  PROVE  ClientInv'
<1>1. /\ TypeOK /\ Opening /\ ContextLive /\ Kept /\ NoPcb \notin Pcb
      /\ Proper(net') /\ (net'.sound => Apart(net, net', client))
  BY PcbAssumption DEF ClientInv, Touches
<1>2. TypeOK'
  BY <1>1 DEF TypeOK
<1>3. Opening'
  BY <1>1 DEF Opening, Apart
<1>4. ContextLive'
  BY <1>1 DEF ContextLive
<1>5. Cleared' /\ StatusTrue' /\ FreedOnce'
  BY DEF Cleared, StatusTrue, FreedOnce
<1>6. Kept'
  <2> SUFFICES ASSUME net'.sound, ~ quits PROVE Kept'
    BY DEF Kept
  <2>1. Apart(net, net', client) /\ Kept
    BY <1>1
  <2> QED
    BY <1>1, <2>1 DEF Kept, Apart, Open
<1> QED
  BY <1>2, <1>3, <1>4, <1>5, <1>6 DEF ClientInv

(* tcp_close of the pcb client_pcb points to, whatever has become of it.   *)
LEMMA CloseClientKeeps ==
  ASSUME ClientInv, net.sound, CloseClient
  PROVE  ClientInv'
<1>1. /\ TypeOK /\ Opening /\ ContextLive /\ Cleared /\ StatusTrue /\ Kept /\ FreedOnce
      /\ Proper(net) /\ client \in Pcb \cup {NoPcb} /\ NoPcb \notin Pcb
  BY PcbAssumption DEF ClientInv, TypeOK
<1>2. /\ UNCHANGED <<client, connected, received, saw, ctx, cutoff, quits, raced>>
      /\ \/ pc = "re_close" /\ pc' = "re_clear"
         \/ pc = "quit_close" /\ pc' = "quit_clear"
  BY DEF CloseClient, status, history
<1>3. StatusTrue'
  BY <1>2 DEF StatusTrue
<1>4. CASE client = NoPcb
  <2>1. net' = net
    BY <1>4 DEF CloseClient, Close
  <2>2. TypeOK'
    BY <1>1, <1>2, <2>1 DEF TypeOK
  <2>3. Opening' /\ ContextLive' /\ Cleared' /\ Kept' /\ FreedOnce'
    BY <1>1, <1>2, <1>4, <2>1 DEF Opening, ContextLive, Cleared, Kept, FreedOnce, Open
  <2> QED
    BY <1>3, <2>2, <2>3 DEF ClientInv
<1>5. CASE client # NoPcb
  <2> DEFINE t == net'
             p == client
  <2>1. t = Close(net, p) /\ p \in Pcb
    BY <1>1, <1>5 DEF CloseClient
  <2>2. net.st[p] \in PcbStates /\ Lists(net)
    BY <1>1, <2>1, StackFields DEF Proper
  <2> HIDE DEF t
  <2>3. Touches(net, t, p) /\ t.arg = net.arg
    BY <1>1, <2>1, Closed
  <2>4. CASE net.st[p] = "CLOSED"
    <3>1. t = PcbFree(net, p)
      BY <1>1, <2>1, <2>4, Closed
    <3>2. /\ t.active = net.active /\ t.tw = net.tw /\ t.st = net.st
          /\ p \in Listed(net) => ~ t.sound
          /\ p \notin Listed(net) => t.sound /\ p \in Free(t)
      BY <1>1, <2>1, <3>1, Returned
    <3>3. t.sound \/ cutoff \/ quits
      <4>1. SUFFICES ASSUME ~ quits, ~ cutoff PROVE p \notin Listed(net)
        BY <3>2
      <4>2. p \notin Active(net) /\ p \notin Waiting(net)
        BY <1>1, <2>1, <2>4, <4>1 DEF Kept
      <4>3. p \notin Free(net)
        BY <1>1, <1>2, <2>1, <2>4, <4>1 DEF Kept, Open
      <4> QED
        BY <4>2, <4>3 DEF Listed, Free, Active, Waiting
    <3>4. t.sound => /\ p \in Free(t) /\ p \notin Active(t) /\ p \notin Waiting(t)
      BY <3>2 DEF Listed, Active, Waiting
    <3> QED
      BY <3>3, <3>4, <2>1, <2>3, <1>1, <1>2, <1>3, ClientShut DEF t
  <2>5. CASE net.st[p] = "SYN_SENT"
    <3>1. t = PcbFree(PcbRemove(net, p), p)
      BY <1>1, <2>1, <2>5, Closed
    <3>2. /\ t.sound <=> p \notin Free(net)
          /\ t.sound => /\ p \in Free(t) /\ p \notin Active(t) /\ p \notin Waiting(t)
      BY <1>1, <2>1, <3>1, Dropped
    <3>3. t.sound \/ cutoff \/ quits
      BY <1>1, <1>2, <2>1, <2>5, <3>2 DEF Kept, Open
    <3> QED
      BY <3>2, <3>3, <2>1, <2>3, <1>1, <1>2, <1>3, ClientShut DEF t
  <2>6. CASE net.st[p] \notin {"CLOSED", "SYN_SENT"}
    <3>1. /\ t.free = net.free /\ t.active = net.active /\ t.tw = net.tw
          /\ t.sound = net.sound
      <4>1. Proper(net)
        BY <1>1
      <4>2. t.free = net.free /\ t.active = net.active
        BY <2>1, <2>6, <4>1, Closed
      <4>3. t.tw = net.tw
        BY <2>1, <2>6, <4>1, Closed
      <4>4. t.sound = net.sound
        BY ZenonT(60), <2>1, <2>6, <4>1, Closed
      <4> QED
        BY <4>2, <4>3, <4>4
    <3>2. /\ t.st[p] \notin {"CLOSED", "SYN_SENT"}
          /\ net.st[p] = "TIME_WAIT" <=> t.st[p] = "TIME_WAIT"
      <4>1. CASE net.st[p] \in {"SYN_RCVD", "ESTABLISHED"}
        <5>1. t.st[p] = "FIN_WAIT_1"
          BY <1>1, <2>1, <4>1, Closed
        <5> QED
          BY <4>1, <5>1
      <4>2. CASE net.st[p] = "CLOSE_WAIT"
        <5>1. t.st[p] = "LAST_ACK"
          BY <1>1, <2>1, <4>2, Closed
        <5> QED
          BY <4>2, <5>1
      <4>3. CASE net.st[p] \notin {"SYN_RCVD", "ESTABLISHED", "CLOSE_WAIT"}
        <5>1. net.st[p] \in {"FIN_WAIT_1", "FIN_WAIT_2", "CLOSING", "LAST_ACK", "TIME_WAIT"}
          BY <2>2, <2>6, <4>3 DEF PcbStates
        <5>2. t = net
          BY <1>1, <2>1, <5>1, Closed
        <5> QED
          BY <5>1, <5>2
      <4> QED
        BY <4>1, <4>2, <4>3
    <3>3. /\ ~ quits /\ p \in Active(t) => t.st[p] # "TIME_WAIT"
          /\ ~ quits /\ p \in Waiting(t) => t.st[p] = "TIME_WAIT"
          /\ ~ quits => p \in Free(t) \/ p \in Active(t) \/ p \in Waiting(t)
          /\ t.sound \/ cutoff \/ quits
      <4>1. ~ quits /\ p \in Active(net) => net.st[p] # "TIME_WAIT"
        BY <1>1, <2>1 DEF Kept
      <4>2. ~ quits /\ p \in Waiting(net) => net.st[p] = "TIME_WAIT"
        BY <1>1, <2>1 DEF Kept
      <4>3. ~ quits => p \in Free(net) \/ p \in Active(net) \/ p \in Waiting(net)
        BY <1>1, <2>1, <2>6 DEF Kept
      <4>4. t.sound
        BY <3>1
      <4> QED
        BY <3>1, <3>2, <4>1, <4>2, <4>3, <4>4 DEF Free, Active, Waiting
    <3> QED
      BY <3>2, <3>3, <2>1, <2>3, <1>1, <1>2, <1>3, ClientShut DEF t
  <2> QED
    BY <2>4, <2>5, <2>6
<1> QED
  BY <1>4, <1>5

(* The callbacks of client_pcb and bit 1 are cleared.                      *)
LEMMA ClearClientKeeps ==
  ASSUME ClientInv, net.sound, ClearClient
  PROVE  ClientInv'
<1>1. /\ TypeOK /\ Opening /\ ContextLive /\ Kept /\ FreedOnce
      /\ Proper(net) /\ client \in Pcb \cup {NoPcb} /\ NoPcb \notin Pcb
  BY PcbAssumption DEF ClientInv, TypeOK
<1>2. /\ UNCHANGED <<client, received, saw, ctx, cutoff, quits>>
      /\ connected' = FALSE /\ raced' = FALSE
      /\ \/ pc = "re_clear" /\ pc' = "re_new"
         \/ pc = "quit_clear" /\ pc' = "wipe"
  BY DEF ClearClient
<1>3. /\ Proper(net') /\ net'.sound /\ net'.st = net.st
      /\ net'.free = net.free /\ net'.active = net.active /\ net'.tw = net.tw
      /\ \A q \in Pcb : net'.arg[q] = NoCtx
  <2>1. CASE client = NoPcb
    <3>1. net' = net
      BY <2>1 DEF ClearClient, Unset
    <3> QED
      BY <1>1, <2>1, <3>1 DEF ContextLive
  <2>2. CASE client # NoPcb
    <3> DEFINE t == net'
    <3>1. t = Unset(net, client) /\ client \in Pcb
      BY <1>1, <2>2 DEF ClearClient
    <3> HIDE DEF t
    <3>2. /\ Touches(net, t, client)
          /\ t.arg[client] = NoCtx /\ t.st = net.st /\ t.sound
          /\ t.free = net.free /\ t.active = net.active /\ t.tw = net.tw
      <4>1. Proper(net) /\ client \in Pcb
        BY <1>1, <3>1
      <4>2. Touches(net, t, client)
        BY <3>1, <4>1, Unbound
      <4>3. t.arg[client] = NoCtx /\ t.st = net.st /\ t.sound
        BY <3>1, <4>1, Unbound
      <4>4. t.free = net.free /\ t.active = net.active /\ t.tw = net.tw
        BY <3>1, <4>1, Unbound
      <4> QED
        BY <4>2, <4>3, <4>4
    <3>3. \A q \in Pcb : t.arg[q] = NoCtx
      BY <1>1, <3>2 DEF ContextLive, Touches, Apart
    <3>4. Proper(t)
      BY <3>2 DEF Touches
    <3> QED
      BY <3>2, <3>3, <3>4 DEF t
  <2> QED
    BY <2>1, <2>2
<1>4. TypeOK'
  BY <1>1, <1>2, <1>3 DEF TypeOK
<1>5. Opening'
  BY <1>1, <1>2, <1>3 DEF Opening, Open, Active
<1>6. ContextLive' /\ Cleared'
  BY <1>3 DEF ContextLive, Cleared
<1>7. StatusTrue'
  BY <1>1, <1>2, <1>3 DEF StatusTrue, ClientArg
<1>8. Kept'
  BY <1>1, <1>2, <1>3 DEF Kept, Open, Free, Active, Waiting
<1>9. FreedOnce'
  BY <1>3 DEF FreedOnce
<1> QED
  BY <1>4, <1>5, <1>6, <1>7, <1>8, <1>9 DEF ClientInv

(* client_pcb is zeroed, after the user has quit.                          *)
LEMMA WipeClientKeeps ==
  ASSUME ClientInv, net.sound, WipeClient
  PROVE  ClientInv'
<1>1. /\ TypeOK /\ Opening /\ ContextLive /\ Cleared /\ StatusTrue /\ Kept /\ FreedOnce
      /\ Proper(net) /\ client \in Pcb \cup {NoPcb} /\ NoPcb \notin Pcb
  BY PcbAssumption DEF ClientInv, TypeOK
<1>2. /\ UNCHANGED <<client, connected, received, saw, ctx, cutoff, quits, raced>>
      /\ pc = "wipe" /\ pc' = "idle"
  BY DEF WipeClient, status, history
<1>3. ClientArg = NoCtx
  BY <1>1, <1>2 DEF ClientArg, Cleared
<1>4. ~ raced => ~ connected
  BY <1>1, <1>2, <1>3 DEF StatusTrue
<1>5. CASE client = NoPcb
  <2>1. net' = net
    BY <1>5 DEF WipeClient, Wipe
  <2>2. TypeOK'
    BY <1>1, <1>2, <2>1 DEF TypeOK
  <2>3. Opening' /\ ContextLive' /\ Cleared' /\ FreedOnce'
    BY <1>1, <1>2, <2>1 DEF Opening, ContextLive, Cleared, FreedOnce, Open
  <2>4. StatusTrue'
    BY <1>2, <1>3, <1>4, <2>1 DEF StatusTrue, ClientArg
  <2>5. Kept'
    BY <1>1, <1>2, <1>5, <2>1 DEF Kept, Open
  <2> QED
    BY <2>2, <2>3, <2>4, <2>5 DEF ClientInv
<1>6. CASE client # NoPcb
  <2> DEFINE t == net'
  <2>1. t = Wipe(net, client) /\ client \in Pcb
    BY <1>1, <1>6 DEF WipeClient
  <2> HIDE DEF t
  <2>2. /\ Proper(t) /\ t.sound
        /\ t.arg[client] = NoCtx /\ t.st[client] = "CLOSED"
        /\ \A q \in Pcb \ {client} : t.st[q] = net.st[q] /\ t.arg[q] = net.arg[q]
        /\ Active(t) \subseteq Active(net)
    BY <1>1, <2>1, Wiped
  <2>3. /\ Proper(net') /\ net'.sound
        /\ \A q \in Pcb : net'.arg[q] = NoCtx
        /\ \A q \in Pcb : q \in Active(net') => net'.st[q] # "SYN_SENT"
    <3>1. \A q \in Pcb : t.arg[q] = NoCtx
      BY <1>1, <1>2, <2>2 DEF Cleared
    <3>2. \A q \in Pcb : q \in Active(t) => t.st[q] # "SYN_SENT"
      <4> SUFFICES ASSUME NEW q \in Pcb, q \in Active(t), t.st[q] = "SYN_SENT"
                   PROVE  FALSE
        OBVIOUS
      <4>1. q # client
        BY <2>2
      <4>2. net.st[q] = "SYN_SENT" /\ q \in Active(net)
        BY <2>2, <4>1
      <4> QED
        BY <1>1, <4>1, <4>2 DEF Opening
    <3>3. Proper(t) /\ t.sound
      BY <2>2
    <3> QED
      BY <3>1, <3>2, <3>3 DEF t
  <2>4. quits
    BY <1>1, <1>2, <1>6 DEF Kept
  <2>5. TypeOK'
    BY <1>1, <1>2, <2>3 DEF TypeOK
  <2>6. Opening' /\ ContextLive' /\ Cleared'
    BY <2>3 DEF Opening, ContextLive, Cleared
  <2>7. StatusTrue'
    BY <1>1, <1>2, <1>4, <2>3 DEF StatusTrue, ClientArg
  <2>8. Kept' /\ FreedOnce'
    BY <1>2, <2>4 DEF Kept, FreedOnce
  <2> QED
    BY <2>5, <2>6, <2>7, <2>8 DEF ClientInv
<1> QED
  BY <1>5, <1>6

(* tcp_new and tcp_connect.                                                *)
LEMMA Opened ==
  ASSUME NEW s, Proper(s), s.sound, NEW new \in Allocs(s), NEW ok \in BOOLEAN,
         new.pcb # NoPcb, NEW t, t = Connect(new.stack, new.pcb, ok)
  PROVE  /\ new.pcb \in Pcb /\ Proper(t) /\ (t.sound <=> new.stack.sound)
         /\ t.sound =>
              /\ Apart(s, t, new.pcb) /\ t.arg[new.pcb] = NoCtx
              /\ new.pcb \notin Free(t) /\ new.pcb \notin Waiting(t)
              /\ new.pcb \in Active(t) => t.st[new.pcb] = "SYN_SENT"
              /\ new.pcb \notin Active(t) => t.st[new.pcb] = "CLOSED"
<1> DEFINE u == new.stack
           p == new.pcb
<1>1. /\ Proper(u) /\ p \in Pcb
      /\ u.sound => /\ Touches(s, u, p) /\ p \notin Listed(u)
                    /\ u.st[p] = "CLOSED" /\ u.arg[p] = NoCtx
  BY NewPcb
<1>2. t = Connect(u, p, ok)
  OBVIOUS
<1> HIDE DEF u, p
<1>3. CASE ~ ok
  <2>1. t = u
    BY <1>2, <1>3 DEF Connect
  <2>2. u.sound => p \notin Free(u) /\ p \notin Active(u) /\ p \notin Waiting(u)
    BY <1>1 DEF Listed, Free, Active, Waiting
  <2>3. u.sound => Apart(s, u, p)
    BY <1>1 DEF Touches
  <2>4. /\ p \in Pcb /\ Proper(t) /\ (t.sound <=> u.sound)
        /\ t.sound =>
              /\ Apart(s, t, p) /\ t.arg[p] = NoCtx
              /\ p \notin Free(t) /\ p \notin Waiting(t)
              /\ p \in Active(t) => t.st[p] = "SYN_SENT"
              /\ p \notin Active(t) => t.st[p] = "CLOSED"
    BY <1>1, <2>1, <2>2, <2>3
  <2> QED
    BY <2>4 DEF p, u
<1>4. CASE ok /\ ~ u.sound
  <2> DEFINE l == <<p>> \o u.active
             c == [u.st EXCEPT ![p] = "SYN_SENT"]
  <2>1. u \in Stack /\ u.active \in Seq(Pcb) /\ u.st \in [Pcb -> PcbStates]
    BY <1>1, StackFields DEF Proper
  <2>2. l \in Seq(Pcb) /\ c \in [Pcb -> PcbStates]
    BY <1>1, <2>1, Prepended DEF PcbStates
  <2>3. t = [u EXCEPT !.st = c, !.active = l]
    BY <1>2, <1>4, <2>1 DEF Connect, Stack
  <2> HIDE DEF l, c
  <2>4. t \in Stack /\ ~ t.sound
    BY <1>4, <2>1, <2>2, <2>3 DEF Stack
  <2>5. p \in Pcb /\ Proper(t) /\ ~ t.sound /\ (t.sound <=> u.sound)
    <3>1. (t.sound <=> u.sound)
      BY <2>1, <2>3 DEF Stack
    <3> QED
      BY <1>1, <2>4, <3>1 DEF Proper
  <2> QED
    BY <2>5 DEF p, u
<1>5. CASE ok /\ u.sound
  <2>1. t = Linked(u, p, "SYN_SENT") /\ "SYN_SENT" \in PcbStates
    BY <1>2, <1>5 DEF Connect, Linked, PcbStates
  <2>2. /\ Touches(u, t, p) /\ t.sound
        /\ p \in Active(t) /\ p \notin Free(t) /\ p \notin Waiting(t)
        /\ t.st[p] = "SYN_SENT" /\ t.arg = u.arg
    <3>1. Proper(u) /\ p \in Pcb /\ p \notin Listed(u)
      BY <1>1, <1>5
    <3>2. Touches(u, t, p)
      BY <2>1, <3>1, Connected
    <3>3. t.sound
      BY ZenonT(60), <1>5, <2>1, <3>1, Connected
    <3>4. p \in Active(t) /\ p \notin Free(t) /\ p \notin Waiting(t)
      BY <2>1, <3>1, Connected
    <3>5. t.st[p] = "SYN_SENT"
      BY <2>1, <3>1, Connected
    <3>6. t.arg = u.arg
      BY <2>1, <3>1, Connected
    <3> QED
      BY <3>2, <3>3, <3>4, <3>5, <3>6
  <2>3. Touches(s, t, p)
    BY <1>1, <1>5, <2>2, TouchesAgain
  <2>4. Proper(t) /\ (t.sound => Apart(s, t, p))
    BY <2>3 DEF Touches
  <2>5. t.arg[p] = NoCtx
    BY <1>1, <1>5, <2>2
  <2> QED
    BY <1>1, <1>5, <2>2, <2>4, <2>5 DEF p, u
<1> QED
  BY <1>3, <1>4, <1>5

(* A new connection, at the start or in place of one that was closed.      *)
LEMMA NewConnectionKeeps ==
  ASSUME ClientInv, net.sound,
         \/ Start \/ Reconnect
  PROVE  ClientInv'
<1>1. /\ TypeOK /\ Opening /\ ContextLive /\ Cleared /\ StatusTrue /\ Kept /\ FreedOnce
      /\ Proper(net) /\ client \in Pcb \cup {NoPcb} /\ NoPcb \notin Pcb
  BY PcbAssumption DEF ClientInv, TypeOK
<1>2. /\ pc \in {"idle", "re_new"}
      /\ UNCHANGED <<connected, received, saw, ctx, quits, raced>>
      /\ \E new \in Allocs(net), ok \in BOOLEAN :
            /\ client' = new.pcb
            /\ net' = IF new.pcb = NoPcb THEN new.stack
                      ELSE Connect(new.stack, new.pcb, ok)
            /\ pc' \in IF new.pcb = NoPcb THEN {"run", "quit_close"} ELSE {"run"}
            /\ cutoff' = FALSE
  BY DEF Start, Reconnect, NewConnection, status
<1>3. PICK new \in Allocs(net), ok \in BOOLEAN :
            /\ client' = new.pcb
            /\ net' = IF new.pcb = NoPcb THEN new.stack
                      ELSE Connect(new.stack, new.pcb, ok)
            /\ pc' \in IF new.pcb = NoPcb THEN {"run", "quit_close"} ELSE {"run"}
            /\ cutoff' = FALSE
  BY <1>2
<1>4. /\ \A q \in Pcb : net.arg[q] = NoCtx
      /\ \A q \in Pcb : q \in Active(net) => net.st[q] # "SYN_SENT"
  BY <1>1, <1>2 DEF Cleared, Opening, Open
<1>5. ~ raced => ~ connected
  BY <1>1, <1>2, <1>4 DEF StatusTrue, ClientArg
<1>6. ~ quits =>
        /\ \A q \in Pcb : q \in Active(net) => net.st[q] \notin {"CLOSED", "TIME_WAIT"}
        /\ \A q \in Pcb : q \in Waiting(net) => net.st[q] = "TIME_WAIT"
        /\ \A q \in Pcb : q \in Free(net) \/ q \in Active(net) \/ q \in Waiting(net)
  BY <1>1, <1>2 DEF Kept, Open
<1>7. ~ quits => new.stack.sound
  BY <1>1, <1>3, <1>6, NewPcb
<1>10. cutoff' \in BOOLEAN
  BY <1>3
<1>8. CASE new.pcb = NoPcb
  <2>1. net' = new.stack /\ client' = NoPcb /\ pc' \in {"run", "quit_close"}
    BY <1>3, <1>8
  <2>2. Proper(new.stack) /\ (new.stack.sound => new.stack = net)
    BY <1>1, <1>3, <1>8, NewPcb
  <2>3. Proper(net') /\ (net'.sound => net' = net) /\ (net'.sound \/ quits)
    BY <1>7, <2>1, <2>2
  <2>4. TypeOK'
    <3>1. /\ received' \in BOOLEAN /\ connected' \in BOOLEAN /\ saw' \in BOOLEAN
          /\ ctx' \in [Ctx -> {"free", "connected", "closing"}]
          /\ quits' \in BOOLEAN /\ raced' \in BOOLEAN
      BY <1>1, <1>2 DEF TypeOK
    <3>2. client' \in Pcb \cup {NoPcb} /\ Proper(net')
      BY <2>1, <2>3
    <3>3. pc' \in {"run", "quit_close"}
      BY <2>1
    <3> QED
      BY <1>10, <3>1, <3>2, <3>3 DEF TypeOK
  <2>5. /\ net'.sound => /\ \A q \in Pcb : net'.arg[q] = NoCtx
                         /\ \A q \in Pcb : q \in Active(net') => net'.st[q] # "SYN_SENT"
        /\ net'.sound \/ quits'
    BY <1>2, <1>4, <2>3
  <2>8. Opening' /\ ContextLive' /\ Cleared' /\ FreedOnce'
    BY <2>5 DEF Opening, ContextLive, Cleared, FreedOnce
  <2>6. StatusTrue'
    BY <1>2, <1>5, <2>1 DEF StatusTrue, ClientArg
  <2>7. Kept'
    BY <1>1, <1>2, <1>6, <2>1, <2>3 DEF Kept
  <2> QED
    BY <2>4, <2>6, <2>7, <2>8 DEF ClientInv
<1>9. CASE new.pcb # NoPcb
  <2> DEFINE t == net'
  <2>1. t = Connect(new.stack, new.pcb, ok) /\ client' = new.pcb /\ pc' = "run"
    BY <1>3, <1>9
  <2>2. new.pcb \in Pcb /\ Proper(t)
    <3> HIDE DEF t
    <3> QED
      BY <1>1, <1>9, <2>1, Opened
  <2>3. t.sound <=> new.stack.sound
    <3> HIDE DEF t
    <3> QED
      BY <1>1, <1>9, <2>1, Opened
  <2>4. t.sound =>
              /\ Apart(net, t, new.pcb) /\ t.arg[new.pcb] = NoCtx
              /\ new.pcb \notin Free(t) /\ new.pcb \notin Waiting(t)
              /\ new.pcb \in Active(t) => t.st[new.pcb] = "SYN_SENT"
              /\ new.pcb \notin Active(t) => t.st[new.pcb] = "CLOSED"
    <3> HIDE DEF t
    <3> QED
      BY <1>1, <1>9, <2>1, Opened
  <2>5. PICK p : p = new.pcb
    OBVIOUS
  <2>6. p \in Pcb /\ client' = p /\ Proper(net') /\ (net'.sound \/ quits)
    BY <1>7, <2>1, <2>2, <2>3, <2>5
  <2>7. net'.sound =>
              /\ Apart(net, net', p) /\ net'.arg[p] = NoCtx
              /\ p \notin Free(net') /\ p \notin Waiting(net')
              /\ p \in Active(net') => net'.st[p] = "SYN_SENT"
              /\ p \notin Active(net') => net'.st[p] = "CLOSED"
    BY <2>4, <2>5
  <2>8. TypeOK'
    BY <1>1, <1>2, <1>10, <2>1, <2>6 DEF TypeOK
  <2>9. net'.sound => \A q \in Pcb : net'.arg[q] = NoCtx
    BY <1>4, <2>6, <2>7 DEF Apart
  <2>10. Opening'
    BY <1>4, <2>1, <2>6, <2>7, <2>9 DEF Opening, Apart, Open
  <2>11. ContextLive' /\ Cleared' /\ FreedOnce'
    BY <1>2, <2>6, <2>9 DEF ContextLive, Cleared, FreedOnce
  <2>12. StatusTrue'
    BY <1>2, <1>5, <2>6, <2>9 DEF StatusTrue, ClientArg
  <2>13. Kept'
    <3> SUFFICES ASSUME net'.sound, ~ quits PROVE Kept'
      BY <1>2 DEF Kept
    <3>1. Apart(net, net', p)
      BY <2>7
    <3>2. \A q \in Pcb : q \in Active(net') => net'.st[q] \notin {"CLOSED", "TIME_WAIT"}
      BY <1>6, <2>7, <3>1 DEF Apart
    <3>3. \A q \in Pcb : q \in Waiting(net') => net'.st[q] = "TIME_WAIT"
      BY <1>6, <2>7, <3>1 DEF Apart
    <3>4. \A q \in Pcb : q \in Free(net') \/ q \in Active(net') \/ q \in Waiting(net')
                         \/ q = p
      BY <1>6, <3>1 DEF Apart
    <3> QED
      BY <2>1, <2>6, <2>7, <3>2, <3>3, <3>4 DEF Kept, Open
  <2> QED
    BY <2>8, <2>10, <2>11, <2>12, <2>13 DEF ClientInv
<1> QED
  BY <1>8, <1>9

(* A free list that holds every pcb once.                                  *)
LEMMA FullPool ==
  ASSUME NEW order \in SetToSeqs(Pcb)
  PROVE  order \in Seq(Pcb) /\ IsInjective(order) /\ Range(order) = Pcb
<1> DEFINE n == Cardinality(Pcb)
<1>1. IsFiniteSet(Pcb) /\ n \in Nat
  BY PcbAssumption, FS_CardinalityType
<1>2. order \in [1 .. n -> Pcb] /\ \A i, j \in 1 .. n : i # j => order[i] # order[j]
  BY DEF SetToSeqs
<1> HIDE DEF n
<1>3. order \in Seq(Pcb)
  BY <1>1, <1>2
<1>4. IsInjective(order) /\ order \in Injection(1 .. n, Pcb)
  BY <1>2 DEF IsInjective, Injection
<1>5. Cardinality(1 .. n) = n
  <2>1. Cardinality(1 .. n) = IF 1 > n THEN 0 ELSE n - 1 + 1
    BY <1>1, FS_Interval
  <2> QED
    BY <1>1, <2>1
<1>6. order \in Surjection(1 .. n, Pcb)
  BY <1>1, <1>4, <1>5, FS_Injection DEF n
<1>7. \A p \in Pcb : \E i \in 1 .. n : order[i] = p
  BY <1>6 DEF Surjection
<1>8. Range(order) = Pcb
  BY <1>2, <1>7 DEF Range
<1> QED
  BY <1>3, <1>4, <1>8

(* The stack before anything was connected.                                *)
LEMMA FreshStack ==
  ASSUME NEW s \in NewStacks
  PROVE  /\ Proper(s) /\ s.sound
         /\ Free(s) = Pcb /\ Active(s) = {} /\ Waiting(s) = {}
         /\ \A p \in Pcb : s.st[p] = "CLOSED" /\ s.arg[p] = NoCtx
<1> PICK order \in SetToSeqs(Pcb) :
      s = [free |-> order, active |-> <<>>, tw |-> <<>>,
           st |-> [p \in Pcb |-> "CLOSED"],
           arg |-> [p \in Pcb |-> NoCtx], low |-> {}, sound |-> TRUE]
  BY DEF NewStacks
<1>1. order \in Seq(Pcb) /\ IsInjective(order) /\ Range(order) = Pcb
  BY FullPool
<1>2. /\ s.free = order /\ s.active = <<>> /\ s.tw = <<>> /\ s.sound
      /\ s.st = [p \in Pcb |-> "CLOSED"] /\ s.arg = [p \in Pcb |-> NoCtx]
  OBVIOUS
<1>3. <<>> \in Seq(Pcb) /\ IsInjective(<<>>) /\ Range(<<>>) = {}
  BY DEF IsInjective, Range
<1>4. s \in Stack
  <2>1. /\ [p \in Pcb |-> "CLOSED"] \in [Pcb -> PcbStates]
        /\ [p \in Pcb |-> NoCtx] \in [Pcb -> Ctx \cup {NoCtx}]
    BY DEF PcbStates
  <2> QED
    BY <1>1, <1>3, <2>1 DEF Stack
<1>5. Free(s) = Pcb /\ Active(s) = {} /\ Waiting(s) = {}
  BY <1>1, <1>2, <1>3 DEF Free, Active, Waiting
<1>6. Lists(s)
  BY <1>1, <1>2, <1>3, <1>5 DEF Lists
<1> QED
  BY <1>2, <1>4, <1>5, <1>6 DEF Proper

(* The invariant holds before anything was connected.                      *)
LEMMA ClientInit == Init => ClientInv
<1> SUFFICES ASSUME Init PROVE ClientInv
  OBVIOUS
<1>1. /\ Proper(net) /\ net.sound
      /\ Free(net) = Pcb /\ Active(net) = {} /\ Waiting(net) = {}
      /\ \A p \in Pcb : net.st[p] = "CLOSED" /\ net.arg[p] = NoCtx
  BY FreshStack DEF Init
<1>2. /\ pc = "idle" /\ client = NoPcb
      /\ connected = FALSE /\ received = FALSE /\ saw = FALSE
      /\ ctx = [c \in Ctx |-> "free"]
      /\ cutoff = FALSE /\ quits = FALSE /\ raced = FALSE
      /\ NoPcb \notin Pcb
  BY PcbAssumption DEF Init
<1>3. TypeOK
  BY <1>1, <1>2 DEF TypeOK
<1>4. Opening /\ ContextLive /\ Cleared /\ FreedOnce
  BY <1>1, <1>2 DEF Opening, ContextLive, Cleared, FreedOnce
<1>5. StatusTrue
  BY <1>2 DEF StatusTrue, ClientArg
<1>6. Kept
  BY <1>1, <1>2 DEF Kept
<1> QED
  BY <1>3, <1>4, <1>5, <1>6 DEF ClientInv

(* Every step of the client, of lwIP and of the peer keeps the invariant.  *)
LEMMA ClientStep == ClientInv /\ [Next]_vars => ClientInv'
<1> SUFFICES ASSUME ClientInv, [Next]_vars PROVE ClientInv'
  OBVIOUS
<1>1. CASE UNCHANGED vars
  BY <1>1 DEF vars, ClientInv, TypeOK, Opening, ContextLive, Cleared, StatusTrue, Kept,
              FreedOnce, ClientArg
<1>2. CASE Next
  <2>1. net.sound
    BY <1>2 DEF Next
  <2>2. CASE MainLoop
    <3>1. CASE Start \/ Reconnect
      BY <2>1, <3>1, NewConnectionKeeps
    <3>2. CASE Quit \/ ReadStatus \/ ClearData \/ CheckConnection \/ Transmit
               \/ ClearTransmitting
      BY <2>1, <3>2, IdleStepsKeep
    <3>3. CASE CloseClient
      BY <2>1, <3>3, CloseClientKeeps
    <3>4. CASE ClearClient
      BY <2>1, <3>4, ClearClientKeeps
    <3>5. CASE WipeClient
      BY <2>1, <3>5, WipeClientKeeps
    <3>6. CASE TransmitAbort
      BY <2>1, <3>6, TransmitAbortKeeps
    <3> QED
      BY <2>2, <3>1, <3>2, <3>3, <3>4, <3>5, <3>6 DEF MainLoop
  <2>3. CASE TimeWaitOver
    BY <2>1, <2>3, TimeWaitOverKeeps
  <2>4. CASE \E p \in Range(net.active) : Segment(p) \/ Poll(p) \/ TimeOut(p)
    <3>1. PICK p \in Range(net.active) : Segment(p) \/ Poll(p) \/ TimeOut(p)
      BY <2>4
    <3>2. CASE SynAck(p)
      BY <2>1, <3>2, SynAckKeeps
    <3>3. CASE Data(p)
      BY <2>1, <3>3, DataKeeps
    <3>4. CASE LateData(p)
      BY <2>1, <3>4, LateDataKeeps
    <3>5. CASE FinAcked(p)
      BY <2>1, <3>5, FinAckedKeeps
    <3>6. CASE Fin(p)
      BY <2>1, <3>6, FinKeeps
    <3>7. CASE Reset(p)
      BY <2>1, <3>7, ResetKeeps
    <3>8. CASE Poll(p)
      BY <2>1, <3>8, PollKeeps
    <3>9. CASE TimeOut(p)
      BY <2>1, <3>9, TimeOutKeeps
    <3> QED
      BY <3>1, <3>2, <3>3, <3>4, <3>5, <3>6, <3>7, <3>8, <3>9 DEF Segment
  <2> QED
    BY <1>2, <2>2, <2>3, <2>4 DEF Next
<1> QED
  BY <1>1, <1>2

(* The invariant holds in every state that the client can reach.           *)
LEMMA ClientInvariant == Spec => []ClientInv
BY ClientInit, ClientStep, PTL DEF Spec

(* The stack, the main loop's place and the contexts keep their types, and *)
(* as long as the stack is sound its lists are disjoint and without        *)
(* repetition.                                                             *)
THEOREM ClientTypeCorrect == Spec => []TypeOK
<1>1. ClientInv => TypeOK
  BY DEF ClientInv
<1> QED
  BY <1>1, ClientInvariant, PTL

(* No pcb is freed twice while client_pcb is closed before lwIP frees it.  *)
THEOREM ClientFreesOnce == Spec => []FreedOnce
<1>1. ClientInv => FreedOnce
  BY DEF ClientInv
<1> QED
  BY <1>1, ClientInvariant, PTL

(* No pcb is lost and none in use is zeroed, until the user quits.         *)
THEOREM ClientLosesNoPcb == Spec => []NoPcbLost
<1>1. ClientInv => NoPcbLost
  <2> SUFFICES ASSUME ClientInv, net.sound, ~ quits
               PROVE  /\ Pcb \subseteq Listed(net) \cup {client}
                      /\ \A p \in Range(net.active) : net.st[p] \notin {"CLOSED", "TIME_WAIT"}
    BY DEF NoPcbLost
  <2>1. \A p \in Pcb : p \in Free(net) \/ p \in Active(net) \/ p \in Waiting(net) \/ p = client
    BY DEF ClientInv, Kept
  <2>2. \A p \in Range(net.active) : net.st[p] \notin {"CLOSED", "TIME_WAIT"}
    BY Shown
  <2> QED
    BY <2>1, <2>2 DEF Listed, Free, Active, Waiting
<1> QED
  BY <1>1, ClientInvariant, PTL

(* Bit 1 of tcp_client_status tells the truth about client_pcb.            *)
THEOREM ClientStatusTrue == Spec => []StatusTrue
<1>1. ClientInv => StatusTrue
  BY DEF ClientInv
<1> QED
  BY <1>1, ClientInvariant, PTL

(* A callback never gets a context that was freed, and only client_pcb has *)
(* callbacks.                                                              *)
THEOREM ClientContextLive == Spec => []ContextLive
<1>1. ClientInv => ContextLive
  BY DEF ClientInv
<1> QED
  BY <1>1, ClientInvariant, PTL

-----------------------------------------------------------------------------
(* The server.                                                             *)
(* The types of its variables.  With the main loop started server_pcb is   *)
(* an element of the pool.                                                 *)
ServerTypeOK ==
  /\ Proper(net)
  /\ pc \in {"idle", "run", "write", "read", "send", "free", "quit", "over"}
  /\ server \in Pcb \cup {NoPcb}
  /\ ctx \in [Ctx -> {"free", "accepted", "closing"}]
  /\ txp \in [Ctx -> BOOLEAN] /\ buf \in BOOLEAN /\ temp \in Ctx \cup {NoCtx}
  /\ aborted \in BOOLEAN /\ crowded \in BOOLEAN /\ loose \in BOOLEAN /\ clash \in BOOLEAN
  /\ pc # "idle" => server \in Pcb

(* A pcb is free or has a connection.                                      *)
Placed ==
  net.sound /\ pc # "over" =>
    \A p \in Pcb : /\ p \notin Waiting(net)
                   /\ p \in Free(net) \/ p \in Active(net)
                   /\ pc = "idle" => p \notin Active(net)

(* The state of a connection, its callbacks and its context agree.         *)
Agrees(p) ==
  /\ net.st[p] \in {"SYN_RCVD", "ESTABLISHED", "CLOSE_WAIT", "LAST_ACK"}
  /\ net.arg[p] # NoCtx <=> net.st[p] \in {"ESTABLISHED", "CLOSE_WAIT"}
  /\ net.arg[p] # NoCtx =>
       /\ ctx[net.arg[p]] # "free"
       /\ ctx[net.arg[p]] = "closing" <=> net.st[p] = "CLOSE_WAIT"

Connections ==
  net.sound /\ pc # "over" => \A p \in Pcb : p \in Active(net) => Agrees(p)

(* No context is shared and none is without its connection.                *)
Owned ==
  net.sound /\ pc # "over" =>
    /\ \A p, q \in Pcb : p \in Active(net) /\ q \in Active(net) /\ net.arg[p] # NoCtx
                         /\ net.arg[p] = net.arg[q] => p = q
    /\ \A c \in Ctx : ctx[c] # "free" =>
         \E p \in Pcb : p \in Active(net) /\ net.arg[p] = c

(* A single client is in the pcb that tcp_listen gave back, or that is the *)
(* next to be taken.                                                       *)
Lone ==
  net.sound /\ ~ crowded =>
    /\ \A p \in Pcb : p \in Active(net) => p = server
    /\ pc \notin {"idle", "over"} /\ (\A p \in Pcb : p \notin Active(net)) =>
         net.free # <<>> /\ Head(net.free) = server

(* Where the main loop is in the middle of user_transmit.                  *)
Sending == {"write", "read", "send", "free"}

(* The message and its context are there while user_transmit needs them.   *)
Message ==
  net.sound /\ pc # "over" /\ ~ loose =>
    /\ \A c \in Ctx : txp[c] => c = temp /\ buf /\ pc \in Sending
    /\ pc \in Sending => temp \in Ctx /\ ctx[temp] # "free"
    /\ pc = "read" => txp[temp]
    /\ pc = "send" => buf

(* The inductive invariant.                                                *)
ServerInv ==
  /\ ServerTypeOK
  /\ Placed
  /\ Connections
  /\ Owned
  /\ Lone
  /\ Message
  /\ MessageSafe
  /\ ServerFreedOnce

(* What the invariant says of a pcb that a segment or a timer is for.      *)
LEMMA ServerShown ==
  ASSUME ServerInv, Sound, NEW p \in Range(net.active)
  PROVE  /\ Proper(net) /\ net.sound /\ p \in Pcb /\ p \in Active(net)
         /\ p \notin Free(net) /\ p \notin Waiting(net)
         /\ p # NoPcb /\ NoCtx \notin Ctx /\ ~ clash
         /\ pc \notin {"idle", "over"} /\ server \in Pcb
         /\ net.st[p] \in PcbStates /\ net.arg[p] \in Ctx \cup {NoCtx}
         /\ Agrees(p)
<1>1. /\ Proper(net) /\ net.sound /\ ~ clash /\ pc # "over" /\ p \in Active(net)
      /\ NoPcb \notin Pcb /\ NoCtx \notin Ctx /\ Placed /\ Connections
      /\ pc # "idle" => server \in Pcb
  BY PcbAssumption DEF ServerInv, ServerTypeOK, Active, Sound
<1>2. net \in Stack /\ Lists(net)
  BY <1>1 DEF Proper
<1>3. p \in Pcb /\ net.st[p] \in PcbStates /\ net.arg[p] \in Ctx \cup {NoCtx}
  BY <1>1, <1>2, StackFields
<1>4. p \notin Free(net) /\ p \notin Waiting(net)
  BY <1>1, <1>2, <1>3 DEF Lists
<1>5. pc # "idle" /\ Agrees(p)
  BY <1>1, <1>3 DEF Placed, Connections
<1> QED
  BY <1>1, <1>3, <1>4, <1>5

(* A step about p: what becomes of the connections and their contexts.     *)
LEMMA ConnectionMoves ==
  ASSUME ServerInv, net.sound, pc \notin {"idle", "over"}, NEW p \in Pcb,
         Touches(net, net', p), net'.sound, pc' = pc,
         p \notin Waiting(net'), p \in Free(net') \/ p \in Active(net'),
         p \in Active(net') => Agrees(p)',
         \A c \in Ctx : ctx'[c] # ctx[c] =>
            \/ p \in Active(net) /\ c = net.arg[p]
            \/ (ctx[c] = "free" /\ p \in Active(net') /\ c = net'.arg[p]),
         p \in Active(net') /\ net'.arg[p] # NoCtx =>
            \/ p \in Active(net) /\ net'.arg[p] = net.arg[p]
            \/ ctx[net'.arg[p]] = "free",
         p \in Active(net) /\ net.arg[p] # NoCtx /\ ctx'[net.arg[p]] # "free" =>
            p \in Active(net') /\ net'.arg[p] = net.arg[p]
  PROVE  Placed' /\ Connections' /\ Owned'
<1>1. Proper(net) /\ Proper(net') /\ Apart(net, net', p) /\ NoCtx \notin Ctx
  BY PcbAssumption DEF Touches, ServerInv, ServerTypeOK
<1>2. \A q \in Pcb : net.arg[q] \in Ctx \cup {NoCtx} /\ net'.arg[q] \in Ctx \cup {NoCtx}
  BY <1>1, StackFields DEF Proper
<1>3. Placed'
  BY <1>1 DEF ServerInv, Placed, Apart
<1>4. \A q \in Pcb \ {p} : q \in Active(net) => Agrees(q)
  BY DEF ServerInv, Connections
<1>5. \A q \in Pcb \ {p} : q \in Active(net) /\ net.arg[q] # NoCtx =>
        (p \in Active(net) => net.arg[q] # net.arg[p]) /\ ctx'[net.arg[q]] = ctx[net.arg[q]]
  <2> SUFFICES ASSUME NEW q \in Pcb \ {p}, q \in Active(net), net.arg[q] # NoCtx
               PROVE  (p \in Active(net) => net.arg[q] # net.arg[p]) /\ ctx'[net.arg[q]] = ctx[net.arg[q]]
    OBVIOUS
  <2>1. p \in Active(net) => net.arg[q] # net.arg[p]
    BY DEF ServerInv, Owned
  <2>2. net.arg[q] \in Ctx /\ ctx[net.arg[q]] # "free"
    BY <1>2, <1>4 DEF Agrees
  <2> QED
    BY <2>1, <2>2
<1>6. Connections'
  <2> SUFFICES ASSUME NEW q \in Pcb, q \in Active(net') PROVE Agrees(q)'
    BY DEF Connections
  <2>1. CASE q = p
    BY <2>1
  <2>2. CASE q # p
    <3>1. q \in Active(net) /\ net'.st[q] = net.st[q] /\ net'.arg[q] = net.arg[q]
      BY <1>1, <2>2 DEF Apart
    <3> QED
      BY <1>4, <1>5, <2>2, <3>1 DEF Agrees
  <2> QED
    BY <2>1, <2>2
<1>7. Owned'
  <2>1. ASSUME NEW q \in Pcb, NEW r \in Pcb, q \in Active(net'), r \in Active(net'),
               net'.arg[q] # NoCtx, net'.arg[q] = net'.arg[r], q # r
        PROVE  FALSE
    <3>1. CASE q # p /\ r # p
      BY <1>1, <2>1, <3>1 DEF ServerInv, Owned, Apart
    <3>2. CASE q = p
      <4>1. r \in Active(net) /\ net'.arg[r] = net.arg[r] /\ r \in Pcb \ {p}
        BY <1>1, <2>1, <3>2 DEF Apart
      <4>2. net.arg[r] # NoCtx /\ (p \in Active(net) => net.arg[r] # net.arg[p]) 
            /\ ctx[net.arg[r]] # "free"
        BY <1>4, <1>5, <2>1, <4>1 DEF Agrees
      <4> QED
        BY <2>1, <3>2, <4>1, <4>2
    <3>3. CASE r = p
      <4>1. q \in Active(net) /\ net'.arg[q] = net.arg[q] /\ q \in Pcb \ {p}
        BY <1>1, <2>1, <3>3 DEF Apart
      <4>2. net.arg[q] # NoCtx /\ (p \in Active(net) => net.arg[q] # net.arg[p]) 
            /\ ctx[net.arg[q]] # "free"
        BY <1>4, <1>5, <2>1, <4>1 DEF Agrees
      <4> QED
        BY <2>1, <3>3, <4>1, <4>2
    <3> QED
      BY <3>1, <3>2, <3>3
  <2>2. ASSUME NEW c \in Ctx, ctx'[c] # "free"
        PROVE  \E q \in Pcb : q \in Active(net') /\ net'.arg[q] = c
    <3>1. CASE ctx[c] = "free"
      BY <1>1, <2>2, <3>1
    <3>2. CASE ctx[c] # "free"
      <4>1. PICK q \in Pcb : q \in Active(net) /\ net.arg[q] = c
        BY <3>2 DEF ServerInv, Owned
      <4>2. CASE q = p
        BY <1>1, <2>2, <4>1, <4>2
      <4>3. CASE q # p
        BY <1>1, <4>1, <4>3 DEF Apart
      <4> QED
        BY <4>2, <4>3
    <3> QED
      BY <3>1, <3>2
  <2> QED
    BY <2>1, <2>2 DEF Owned
<1> QED
  BY <1>3, <1>6, <1>7

(* A step about a connection that does not open another one.               *)
LEMMA ServerMoves ==
  ASSUME ServerInv, net.sound, pc # "over", NEW p \in Pcb, p \in Active(net),
         Touches(net, net', p), net'.sound, UNCHANGED <<pc, server, crowded>>,
         p \notin Waiting(net'), p \in Free(net') \/ p \in Active(net'),
         p \notin Active(net') => net'.free # <<>> /\ Head(net'.free) = p,
         p \in Active(net') => Agrees(p)',
         \A c \in Ctx : ctx'[c] # ctx[c] =>
            c = net.arg[p] \/ (ctx[c] = "free" /\ p \in Active(net') /\ c = net'.arg[p]),
         p \in Active(net') /\ net'.arg[p] # NoCtx =>
            net'.arg[p] = net.arg[p] \/ ctx[net'.arg[p]] = "free",
         net.arg[p] # NoCtx /\ ctx'[net.arg[p]] # "free" =>
            p \in Active(net') /\ net'.arg[p] = net.arg[p]
  PROVE  Placed' /\ Connections' /\ Owned' /\ Lone'
<1>1. Apart(net, net', p) /\ pc # "idle"
  BY DEF Touches, ServerInv, Placed
<1>2. Placed' /\ Connections' /\ Owned'
  BY <1>1, ConnectionMoves
<1>3. Lone'
  <2> SUFFICES ASSUME ~ crowded PROVE Lone'
    BY DEF Lone
  <2>1. Lone /\ p = server
    BY DEF ServerInv, Lone
  <2>2. \A q \in Pcb : q \in Active(net') => q = server
    BY <1>1, <2>1 DEF Lone, Apart
  <2> QED
    BY <2>1, <2>2 DEF Lone
<1> QED
  BY <1>2, <1>3

(* A step that leaves the message of user_transmit alone.                  *)
LEMMA MessageKept ==
  ASSUME ServerInv, net.sound, pc # "over", ~ clash,
         UNCHANGED <<pc, buf, temp, clash>>,
         \A c \in Ctx : txp'[c] => txp[c],
         ~ loose' /\ pc = "read" => txp'[temp] = txp[temp],
         ~ loose' => ~ loose /\ (pc \in Sending => ctx'[temp] # "free")
  PROVE  Message' /\ MessageSafe'
<1>1. Message'
  BY DEF ServerInv, Message
<1>2. MessageSafe'
  BY DEF MessageSafe
<1> QED
  BY <1>1, <1>2

(* tcp_server_error.                                                       *)
LEMMA ErrorFreed ==
  ASSUME ServerInv, net.sound, pc # "over", NEW p \in Pcb, p \in Active(net),
         ErrorFrees(p)
  PROVE  /\ ctx' \in [Ctx -> {"free", "accepted", "closing"}] /\ loose' \in BOOLEAN
         /\ \A c \in Ctx : ctx'[c] # ctx[c] => c = net.arg[p]
         /\ net.arg[p] # NoCtx => ctx'[net.arg[p]] = "free"
         /\ ~ loose' => ~ loose /\ (pc \in Sending => ctx'[temp] # "free")
<1>1. /\ ctx' = IF net.arg[p] # NoCtx THEN [ctx EXCEPT ![net.arg[p]] = "free"] ELSE ctx
      /\ loose' = (loose \/ (net.arg[p] # NoCtx /\ net.arg[p] = temp))
  BY DEF ErrorFrees, HasCallbacks
<1>2. /\ ctx \in [Ctx -> {"free", "accepted", "closing"}] /\ loose \in BOOLEAN
      /\ net.arg[p] \in Ctx \cup {NoCtx} /\ Message
  BY StackFields DEF ServerInv, ServerTypeOK, Proper
<1>3. loose' \in BOOLEAN
  BY <1>1
<1>4. ctx' \in [Ctx -> {"free", "accepted", "closing"}]
  BY <1>1, <1>2
<1>5. /\ \A c \in Ctx : ctx'[c] # ctx[c] => c = net.arg[p]
      /\ net.arg[p] # NoCtx => ctx'[net.arg[p]] = "free"
  BY <1>1, <1>2
<1>6. ASSUME ~ loose' PROVE ~ loose /\ (pc \in Sending => ctx'[temp] # "free")
  <2>1. ~ loose /\ (net.arg[p] # NoCtx => net.arg[p] # temp)
    BY <1>1, <1>6
  <2>2. pc \in Sending => temp \in Ctx /\ ctx[temp] # "free"
    BY <1>2, <2>1 DEF Message
  <2>3. temp \in Ctx => ctx'[temp] = ctx[temp]
    BY <1>1, <1>2, <2>1
  <2> QED
    BY <2>1, <2>2, <2>3
<1> QED
  BY <1>3, <1>4, <1>5, <1>6

(* The connection of p ends, and p is the next pcb to be taken.            *)
LEMMA ServerEnds ==
  ASSUME ServerInv, Sound, NEW p \in Pcb, p \in Active(net),
         Touches(net, net', p), net'.sound, p \in Free(net'), p \notin Active(net'),
         p \notin Waiting(net'), net'.free # <<>>, Head(net'.free) = p,
         UNCHANGED <<pc, server, crowded, txp, buf, temp, clash>>, aborted' \in BOOLEAN,
         ErrorFrees(p) \/ (UNCHANGED <<ctx, loose>> /\ net.arg[p] = NoCtx)
  PROVE  ServerInv'
<1>1. net.sound /\ pc # "over" /\ ~ clash
  BY DEF Sound
<1>2. /\ ctx' \in [Ctx -> {"free", "accepted", "closing"}] /\ loose' \in BOOLEAN
      /\ \A c \in Ctx : ctx'[c] # ctx[c] => c = net.arg[p]
      /\ net.arg[p] # NoCtx => ctx'[net.arg[p]] = "free"
      /\ ~ loose' => ~ loose /\ (pc \in Sending => ctx'[temp] # "free")
  <2>1. CASE ErrorFrees(p)
    BY <1>1, <2>1, ErrorFreed
  <2>2. CASE UNCHANGED <<ctx, loose>> /\ net.arg[p] = NoCtx
    BY <1>1, <2>2 DEF ServerInv, ServerTypeOK, Message
  <2> QED
    BY <2>1, <2>2
<1>3. Placed' /\ Connections' /\ Owned' /\ Lone'
  BY <1>1, <1>2, ServerMoves
<1>4. Message' /\ MessageSafe'
  BY <1>1, <1>2, MessageKept
<1>5. ServerTypeOK'
  BY <1>2 DEF ServerInv, ServerTypeOK, Touches
<1>6. ServerFreedOnce'
  BY DEF ServerFreedOnce
<1> QED
  BY <1>3, <1>4, <1>5, <1>6 DEF ServerInv

(* tcp_setprio.                                                            *)
Lowered(s, p) == [s EXCEPT !.low = @ \cup {p}]

(* tcp_server_accept gives a connection the lowest priority.               *)
LEMMA LowerPriority ==
  ASSUME NEW s, Proper(s), NEW p \in Pcb, NEW t, t = Lowered(s, p)
  PROVE  /\ Touches(s, t, p) /\ t.arg = s.arg /\ t.st = s.st /\ (t.sound <=> s.sound)
         /\ t.free = s.free /\ t.active = s.active /\ t.tw = s.tw
<1> DEFINE w == s.low \cup {p}
<1>1. s \in Stack /\ w \in SUBSET Pcb
  BY StackFields DEF Proper
<1>2. t = [s EXCEPT !.low = w]
  BY DEF Lowered
<1> HIDE DEF w
<1>3. t \in Stack
  BY <1>1, <1>2 DEF Stack
<1>4. /\ t.arg = s.arg /\ t.st = s.st /\ (t.sound <=> s.sound)
      /\ t.free = s.free /\ t.active = s.active /\ t.tw = s.tw
  BY <1>1, <1>2 DEF Stack
<1>5. Lists(s) => Lists(t)
  BY <1>4 DEF Lists, Free, Active, Waiting
<1>6. Apart(s, t, p)
  BY <1>4 DEF Apart, Free, Active, Waiting
<1> QED
  BY <1>3, <1>4, <1>5, <1>6 DEF Touches, Proper

(* A SYN is acknowledged: the connection is accepted or aborted.           *)
LEMMA SynAckedKeeps ==
  ASSUME ServerInv, Sound, NEW p \in Range(net.active), SynAcked(p)
  PROVE  ServerInv'
<1>1. /\ Proper(net) /\ net.sound /\ p \in Pcb /\ p \in Active(net) /\ ~ clash
      /\ p \notin Free(net) /\ p \notin Waiting(net) /\ NoCtx \notin Ctx
      /\ pc # "over" /\ net.st[p] = "SYN_RCVD" /\ net.arg[p] = NoCtx
  BY ServerShown DEF SynAcked, Agrees
<1>2. /\ UNCHANGED <<pc, server, buf, temp, loose, clash, aborted, crowded>>
      /\ aborted' \in BOOLEAN
  BY DEF SynAcked, ServerInv, ServerTypeOK
<1>3. CASE net' = Abandon(net, p) /\ UNCHANGED <<ctx, txp>>
  <2> DEFINE t == net'
  <2>1. t = Abandon(net, p)
    BY <1>3
  <2> HIDE DEF t
  <2>2. /\ Touches(net, t, p) /\ t.sound /\ p \in Free(t) /\ p \notin Active(t)
        /\ p \notin Waiting(t) /\ t.free # <<>> /\ Head(t.free) = p
    BY <1>1, <2>1, Abandoned
  <2> QED
    BY <1>1, <1>2, <1>3, <2>2, ServerEnds DEF t
<1>4. CASE \E c \in Ctx : /\ Freed(c)
                          /\ ctx' = [ctx EXCEPT ![c] = "accepted"]
                          /\ txp' = [txp EXCEPT ![c] = FALSE]
                          /\ net' = [ToFront(net, p) EXCEPT !.st[p] = "ESTABLISHED",
                                         !.arg[p] = c, !.low = @ \cup {p}]
  <2>1. PICK c \in Ctx : /\ ctx[c] = "free"
                         /\ ctx' = [ctx EXCEPT ![c] = "accepted"]
                         /\ txp' = [txp EXCEPT ![c] = FALSE]
                         /\ net' = [ToFront(net, p) EXCEPT !.st[p] = "ESTABLISHED",
                                        !.arg[p] = c, !.low = @ \cup {p}]
    BY <1>4 DEF Freed
  <2> DEFINE front == ToFront(net, p)
             up == SetState(front, p, "ESTABLISHED")
             bound == SetArg(up, p, c)
             t == net'
  <2>2. t = Lowered(bound, p)
    BY <2>1 DEF SetState, SetArg, Lowered
  <2> HIDE DEF t
  <2>3. up = SetState(ToFront(net, p), p, "ESTABLISHED") /\ "ESTABLISHED" \in PcbStates
    BY DEF PcbStates
  <2> HIDE DEF front, up
  <2>4. /\ Touches(net, up, p) /\ up.sound /\ up.st[p] = "ESTABLISHED"
        /\ Active(up) = Active(net) /\ up.free = net.free /\ up.tw = net.tw
    BY <1>1, <2>3, FrontedAs
  <2>5. Proper(up)
    BY <2>4 DEF Touches
  <2>6. bound = SetArg(up, p, c)
    OBVIOUS
  <2> HIDE DEF bound
  <2>7. /\ Touches(up, bound, p)
        /\ bound.arg[p] = c /\ bound.st = up.st /\ bound.sound
        /\ bound.free = up.free /\ bound.active = up.active /\ bound.tw = up.tw
    BY <1>1, <2>4, <2>5, <2>6, Bound
  <2>8. Proper(bound)
    BY <2>7 DEF Touches
  <2>9. /\ Touches(bound, t, p) /\ t.arg = bound.arg /\ t.st = bound.st
        /\ t.sound <=> bound.sound
        /\ t.free = bound.free /\ t.active = bound.active /\ t.tw = bound.tw
    BY <1>1, <2>2, <2>8, LowerPriority
  <2>10. Touches(net, bound, p)
    BY <2>4, <2>7, TouchesAgain
  <2>11. Touches(net, t, p)
    BY <2>9, <2>10, TouchesAgain
  <2>12. /\ Touches(net, net', p) /\ net'.sound /\ net'.arg[p] = c
         /\ net'.st[p] = "ESTABLISHED" /\ p \in Active(net')
         /\ p \notin Free(net') /\ p \notin Waiting(net')
    BY <1>1, <2>4, <2>7, <2>9, <2>11 DEF t, Active, Free, Waiting
  <2>13. /\ ctx \in [Ctx -> {"free", "accepted", "closing"}] /\ txp \in [Ctx -> BOOLEAN]
         /\ c # NoCtx
    BY <1>1 DEF ServerInv, ServerTypeOK
  <2>14. /\ ctx' \in [Ctx -> {"free", "accepted", "closing"}] /\ ctx'[c] = "accepted"
         /\ \A d \in Ctx : ctx'[d] # ctx[d] => d = c
    BY <2>1, <2>13
  <2>15. /\ txp' \in [Ctx -> BOOLEAN]
         /\ \A d \in Ctx : txp'[d] => txp[d]
    BY <2>1, <2>13
  <2>16. Agrees(p)'
    BY <2>12, <2>13, <2>14 DEF Agrees
  <2>17. Placed' /\ Connections' /\ Owned' /\ Lone'
    BY <1>1, <1>2, <2>1, <2>12, <2>14, <2>16, ServerMoves
  <2>18. ~ loose' => ~ loose /\ (pc \in Sending => ctx'[temp] # "free")
    BY <1>1, <1>2, <2>1, <2>14 DEF ServerInv, Message
  <2>19. ~ loose' /\ pc = "read" => txp'[temp] = txp[temp]
    BY <1>1, <1>2, <2>1, <2>13 DEF ServerInv, Message, Sending, Freed
  <2>20. Message' /\ MessageSafe'
    BY <1>1, <1>2, <2>15, <2>18, <2>19, MessageKept
  <2>21. ServerTypeOK'
    BY <1>2, <2>12, <2>14, <2>15 DEF ServerInv, ServerTypeOK, Touches
  <2>22. ServerFreedOnce'
    BY <2>12 DEF ServerFreedOnce
  <2> QED
    BY <2>17, <2>20, <2>21, <2>22 DEF ServerInv
<1> QED
  BY <1>3, <1>4 DEF SynAcked

(* A connection ends: the last answer came, a reset, or no answer at all.  *)
LEMMA EndingsKeep ==
  ASSUME ServerInv, Sound, NEW p \in Range(net.active),
         ServerFinAcked(p) \/ ServerReset(p) \/ ServerTimeOut(p)
  PROVE  ServerInv'
<1> DEFINE t == net'
<1>1. /\ Proper(net) /\ net.sound /\ p \in Pcb /\ p \in Active(net) /\ p \notin Free(net)
      /\ Agrees(p) /\ aborted \in BOOLEAN
  BY ServerShown DEF ServerInv, ServerTypeOK
<1>2. CASE ServerFinAcked(p)
  <2>1. /\ t = Abandon(net, p) /\ net.arg[p] = NoCtx /\ net.st[p] = "LAST_ACK"
        /\ UNCHANGED <<pc, server, crowded, txp, buf, temp, clash, aborted, ctx, loose>>
    BY <1>1, <1>2 DEF ServerFinAcked, message, Agrees
  <2> HIDE DEF t
  <2>2. /\ Touches(net, t, p) /\ t.sound /\ p \in Free(t) /\ p \notin Active(t)
        /\ p \notin Waiting(t) /\ t.free # <<>> /\ Head(t.free) = p
    BY <1>1, <2>1, Abandoned
  <2> QED
    BY <1>1, <2>1, <2>2, ServerEnds DEF t
<1>3. CASE ServerReset(p)
  <2>1. /\ t = PcbFree(PcbRemove(net, p), p) /\ ErrorFrees(p)
        /\ UNCHANGED <<pc, server, crowded, txp, buf, temp, clash, aborted>>
    BY <1>3 DEF ServerReset
  <2> HIDE DEF t
  <2>2. /\ Touches(net, t, p) /\ t.sound /\ p \in Free(t) /\ p \notin Active(t)
        /\ p \notin Waiting(t) /\ t.free # <<>> /\ Head(t.free) = p
    BY <1>1, <2>1, Dropped
  <2> QED
    BY <1>1, <2>1, <2>2, ServerEnds DEF t
<1>4. CASE ServerTimeOut(p)
  <2>1. /\ t = PcbFree([net EXCEPT !.active = Unlinked(@, p)], p) /\ ErrorFrees(p)
        /\ UNCHANGED <<pc, server, crowded, txp, buf, temp, clash, aborted>>
    BY <1>4 DEF ServerTimeOut
  <2> HIDE DEF t
  <2>2. /\ Touches(net, t, p) /\ t.sound /\ p \in Free(t) /\ p \notin Active(t)
        /\ p \notin Waiting(t) /\ t.free # <<>> /\ Head(t.free) = p
    BY <1>1, <2>1, Expired
  <2> QED
    BY <1>1, <2>1, <2>2, ServerEnds DEF t
<1> QED
  BY <1>2, <1>3, <1>4

(* An acknowledgement: the sent callback goes on with the message.         *)
LEMMA SentKeeps ==
  ASSUME ServerInv, Sound, NEW p \in Range(net.active), Sent(p)
  PROVE  ServerInv'
<1> DEFINE t == net'
           c == net.arg[p]
<1>1. /\ Proper(net) /\ net.sound /\ p \in Pcb /\ p \in Active(net) /\ ~ clash
      /\ p \notin Free(net) /\ p \notin Waiting(net) /\ pc \notin {"idle", "over"}
      /\ Agrees(p) /\ c \in Ctx
  BY ServerShown DEF Sent, HasCallbacks
<1>2. /\ UNCHANGED <<pc, server, ctx, temp, aborted, crowded>> /\ txp[c]
      /\ clash' = (clash \/ ~ buf)
      /\ \/ /\ txp' = [txp EXCEPT ![c] = FALSE] /\ buf' = FALSE
            /\ loose' = (loose \/ (pc \in {"read", "send"} /\ c = temp))
         \/ UNCHANGED <<txp, buf, loose>>
      /\ t = ToFront(net, p)
  BY DEF Sent
<1> HIDE DEF t, c
<1>3. /\ Touches(net, t, p) /\ t.sound /\ Active(t) = Active(net)
      /\ t.free = net.free /\ t.tw = net.tw /\ t.st = net.st /\ t.arg = net.arg
  BY <1>1, <1>2, Fronted
<1>4. /\ Touches(net, net', p) /\ net'.sound /\ p \in Active(net')
      /\ p \notin Free(net') /\ p \notin Waiting(net')
      /\ net'.arg[p] = net.arg[p] /\ net'.st = net.st
  BY <1>1, <1>3 DEF t, Free, Waiting
<1>5. Agrees(p)'
  BY <1>1, <1>2, <1>4 DEF Agrees
<1>6. Placed' /\ Connections' /\ Owned' /\ Lone'
  BY <1>1, <1>2, <1>4, <1>5, ServerMoves
<1>7. /\ txp \in [Ctx -> BOOLEAN] /\ buf \in BOOLEAN /\ loose \in BOOLEAN /\ clash \in BOOLEAN
      /\ txp' \in [Ctx -> BOOLEAN] /\ buf' \in BOOLEAN /\ loose' \in BOOLEAN
      /\ clash' \in BOOLEAN
  BY <1>1, <1>2 DEF ServerInv, ServerTypeOK
<1>8. ASSUME ~ loose' PROVE ~ loose /\ c = temp /\ buf /\ pc \in Sending
  <2>1. ~ loose
    BY <1>2, <1>8
  <2> QED
    BY <1>1, <1>2, <2>1 DEF ServerInv, Message
<1>9. Message'
  <2> SUFFICES ASSUME ~ loose' PROVE Message'
    BY DEF Message
  <2>1. /\ \A d \in Ctx : txp[d] => d = c /\ buf /\ pc \in Sending
        /\ temp \in Ctx /\ ctx[temp] # "free" /\ ~ loose /\ c = temp /\ pc \in Sending
    BY <1>1, <1>8 DEF ServerInv, Message
  <2>2. CASE txp' = [txp EXCEPT ![c] = FALSE] /\ buf' = FALSE /\ pc \notin {"read", "send"}
    <3>1. \A d \in Ctx : ~ txp'[d]
      BY <1>1, <1>7, <2>1, <2>2
    <3> QED
      BY <1>2, <2>1, <2>2, <3>1 DEF Message
  <2>3. CASE UNCHANGED <<txp, buf, loose>>
    BY <1>1, <1>2, <2>1, <2>3 DEF ServerInv, Message
  <2> QED
    BY <1>2, <2>1, <2>2, <2>3
<1>10. MessageSafe'
  BY <1>1, <1>2, <1>8 DEF MessageSafe
<1>11. ServerTypeOK'
  BY <1>2, <1>4, <1>7 DEF ServerInv, ServerTypeOK, Touches
<1>12. ServerFreedOnce'
  BY <1>4 DEF ServerFreedOnce
<1> QED
  BY <1>6, <1>9, <1>10, <1>11, <1>12 DEF ServerInv

(* The FIN of the client.                                                  *)
LEMMA ServerFinKeeps ==
  ASSUME ServerInv, Sound, NEW p \in Range(net.active), ServerFin(p)
  PROVE  ServerInv'
<1> DEFINE t == net'
           c == net.arg[p]
<1>1. /\ Proper(net) /\ net.sound /\ p \in Pcb /\ p \in Active(net) /\ ~ clash
      /\ p \notin Free(net) /\ p \notin Waiting(net) /\ pc \notin {"idle", "over"}
      /\ c \in Ctx /\ c # NoCtx
  BY ServerShown DEF ServerFin, Agrees
<1>2. /\ UNCHANGED <<pc, server, buf, temp, clash, aborted, crowded>>
      /\ ctx' = [ctx EXCEPT ![c] = "closing"] /\ txp' = [txp EXCEPT ![c] = FALSE]
      /\ loose' = (loose \/ (pc = "read" /\ c = temp))
      /\ t = SetState(ToFront(net, p), p, "CLOSE_WAIT") /\ "CLOSE_WAIT" \in PcbStates
  BY DEF ServerFin, SetState, PcbStates
<1> HIDE DEF t, c
<1>3. /\ Touches(net, t, p) /\ t.sound /\ t.st[p] = "CLOSE_WAIT" /\ t.arg = net.arg
      /\ Active(t) = Active(net) /\ t.free = net.free /\ t.tw = net.tw
  BY <1>1, <1>2, FrontedAs
<1>4. /\ Touches(net, net', p) /\ net'.sound /\ p \in Active(net')
      /\ p \notin Free(net') /\ p \notin Waiting(net')
      /\ net'.arg[p] = c /\ net'.st[p] = "CLOSE_WAIT"
  BY <1>1, <1>3 DEF t, c, Free, Waiting
<1>5. /\ ctx \in [Ctx -> {"free", "accepted", "closing"}] /\ txp \in [Ctx -> BOOLEAN]
      /\ loose \in BOOLEAN
  BY DEF ServerInv, ServerTypeOK
<1>6. /\ ctx' \in [Ctx -> {"free", "accepted", "closing"}] /\ txp' \in [Ctx -> BOOLEAN]
      /\ loose' \in BOOLEAN
      /\ ctx'[c] = "closing" /\ \A d \in Ctx : ctx'[d] # ctx[d] => d = c
      /\ \A d \in Ctx : ctx'[d] = "free" => ctx[d] = "free"
      /\ \A d \in Ctx : txp'[d] => txp[d]
  BY <1>1, <1>2, <1>5
<1>7. Agrees(p)'
  BY <1>1, <1>4, <1>6 DEF Agrees
<1>8. Placed' /\ Connections' /\ Owned' /\ Lone'
  BY <1>1, <1>2, <1>4, <1>6, <1>7, ServerMoves DEF c
<1>9. ~ loose' => /\ ~ loose /\ (pc \in Sending => ctx'[temp] # "free")
                  /\ pc = "read" => txp'[temp] = txp[temp]
  <2> SUFFICES ASSUME ~ loose'
               PROVE  /\ ~ loose /\ (pc \in Sending => ctx'[temp] # "free")
                      /\ pc = "read" => txp'[temp] = txp[temp]
    OBVIOUS
  <2>1. ~ loose /\ (pc = "read" => c # temp)
    BY <1>2
  <2>2. pc \in Sending => temp \in Ctx /\ ctx[temp] # "free"
    BY <1>1, <2>1 DEF ServerInv, Message
  <2> QED
    BY <1>2, <1>5, <1>6, <2>1, <2>2 DEF Sending
<1>10. Message' /\ MessageSafe'
  BY <1>1, <1>2, <1>6, <1>9, MessageKept
<1>11. ServerTypeOK'
  BY <1>2, <1>4, <1>6 DEF ServerInv, ServerTypeOK, Touches
<1>12. ServerFreedOnce'
  BY <1>4 DEF ServerFreedOnce
<1> QED
  BY <1>8, <1>10, <1>11, <1>12 DEF ServerInv

(* The poll callback closes a connection that its client has closed.       *)
LEMMA ServerPollKeeps ==
  ASSUME ServerInv, Sound, NEW p \in Range(net.active), ServerPoll(p)
  PROVE  ServerInv'
<1> DEFINE s == Close(net, p)
           t == net'
           c == net.arg[p]
<1>1. /\ Proper(net) /\ net.sound /\ p \in Pcb /\ p \in Active(net) /\ ~ clash
      /\ p \notin Free(net) /\ p \notin Waiting(net) /\ pc \notin {"idle", "over"}
      /\ c \in Ctx /\ c # NoCtx /\ net.st[p] = "CLOSE_WAIT" /\ pc = "run"
  BY ServerShown DEF ServerPoll, Agrees, HasCallbacks
<1>2. /\ UNCHANGED <<pc, server, buf, txp, temp, loose, clash, aborted, crowded>>
      /\ ctx' = [ctx EXCEPT ![c] = "free"] /\ t = Unset(s, p)
  BY DEF ServerPoll, message
<1>3. s = Close(net, p)
  OBVIOUS
<1> HIDE DEF s, t, c
<1>4. Touches(net, s, p)
  BY <1>1, <1>3, Closed
<1>5. s.free = net.free /\ s.active = net.active
  BY <1>1, <1>3, Closed
<1>6. s.tw = net.tw /\ s.st[p] = "LAST_ACK"
  BY <1>1, <1>3, Closed
<1>7. s.sound
  BY <1>1, <1>3, Closed
<1>8. Proper(s)
  BY <1>4 DEF Touches
<1>9. /\ Touches(s, t, p) /\ t.arg[p] = NoCtx /\ t.st = s.st /\ t.sound = s.sound
      /\ t.free = s.free /\ t.active = s.active /\ t.tw = s.tw
  BY <1>1, <1>2, <1>8, Unbound
<1>10. Touches(net, t, p)
  BY <1>4, <1>9, TouchesAgain
<1>11. /\ Touches(net, net', p) /\ net'.sound /\ p \in Active(net')
       /\ p \notin Free(net') /\ p \notin Waiting(net')
       /\ net'.arg[p] = NoCtx /\ net'.st[p] = "LAST_ACK"
  BY <1>1, <1>5, <1>6, <1>7, <1>9, <1>10 DEF t, Free, Active, Waiting
<1>12. ctx \in [Ctx -> {"free", "accepted", "closing"}] /\ txp \in [Ctx -> BOOLEAN]
  BY DEF ServerInv, ServerTypeOK
<1>13. /\ ctx' \in [Ctx -> {"free", "accepted", "closing"}] /\ ctx'[c] = "free"
       /\ \A d \in Ctx : ctx'[d] # ctx[d] => d = c
  BY <1>1, <1>2, <1>12
<1>14. Agrees(p)'
  BY <1>11 DEF Agrees
<1>15. Placed' /\ Connections' /\ Owned' /\ Lone'
  BY <1>1, <1>2, <1>11, <1>13, <1>14, ServerMoves DEF c
<1>16. ~ loose' => ~ loose /\ (pc \in Sending => ctx'[temp] # "free")
  BY <1>1, <1>2 DEF Sending
<1>17. Message' /\ MessageSafe'
  BY <1>1, <1>2, <1>16, MessageKept
<1>18. ServerTypeOK'
  BY <1>2, <1>11, <1>13 DEF ServerInv, ServerTypeOK, Touches
<1>19. ServerFreedOnce'
  BY <1>11 DEF ServerFreedOnce
<1> QED
  BY <1>15, <1>17, <1>18, <1>19 DEF ServerInv

(* The key that sends finds server_pcb without a context.                  *)
LEMMA ServerAbortKeeps ==
  ASSUME ServerInv, Sound, ServerTransmitAbort
  PROVE  ServerInv'
<1> DEFINE t == net'
<1>1. /\ Proper(net) /\ net.sound /\ ~ clash /\ pc = "run" /\ server \in Pcb
      /\ server \in Active(net) \/ server \in Free(net)
      /\ server \in Active(net) => Agrees(server)
  BY DEF ServerInv, ServerTypeOK, Placed, Connections, Sound, ServerTransmitAbort
<1>2. /\ t = Abandon(net, server) /\ aborted' = TRUE /\ net.arg[server] = NoCtx
      /\ UNCHANGED <<pc, server, crowded, txp, buf, temp, clash, ctx, loose>>
  BY DEF ServerTransmitAbort, message
<1> HIDE DEF t
<1>3. CASE server \in Active(net)
  <2>1. net.st[server] # "CLOSED" /\ server \notin Free(net)
    BY <1>1, <1>3 DEF Agrees, Proper, Lists
  <2>2. Touches(net, t, server) /\ t.sound
    BY <1>1, <1>2, <2>1, Abandoned
  <2>3. server \in Free(t) /\ server \notin Active(t) /\ server \notin Waiting(t)
    BY <1>1, <1>2, <2>2, Abandoned
  <2>4. t.free # <<>> /\ Head(t.free) = server
    BY <1>1, <1>2, <2>2, Abandoned
  <2>5. aborted' \in BOOLEAN
    BY <1>2
  <2> QED
    BY <1>1, <1>2, <1>3, <2>2, <2>3, <2>4, <2>5, ServerEnds DEF t
<1>4. CASE server \in Free(net)
  <2>1. server \in Listed(net)
    BY <1>4 DEF Listed, Free
  <2>2. Touches(net, t, server)
    BY <1>1, <1>2, Abandoned
  <2>3. ~ t.sound
    <3>1. CASE net.st[server] = "CLOSED"
      BY <1>1, <1>2, <2>1, <3>1, Abandoned
    <3>2. CASE net.st[server] # "CLOSED"
      BY <1>1, <1>2, <1>4, <3>2, Abandoned
    <3> QED
      BY <3>1, <3>2
  <2>4. Proper(net') /\ ~ net'.sound
    BY <2>2, <2>3 DEF t, Touches
  <2>5. aborted' \in BOOLEAN
    BY <1>2
  <2>6. ServerTypeOK'
    BY <1>2, <2>4, <2>5 DEF ServerInv, ServerTypeOK
  <2>7. Placed' /\ Connections' /\ Owned' /\ Lone' /\ Message'
    BY <2>4 DEF Placed, Connections, Owned, Lone, Message
  <2>8. MessageSafe' /\ ServerFreedOnce'
    BY <1>1, <1>2 DEF MessageSafe, ServerFreedOnce
  <2> QED
    BY <2>6, <2>7, <2>8 DEF ServerInv
<1> QED
  BY <1>1, <1>3, <1>4

(* A step of the main loop that makes no call of lwIP.                     *)
LEMMA LoopKeeps ==
  ASSUME ServerInv, Sound, pc # "idle", pc' \notin {"idle", "over"},
         UNCHANGED <<net, server, ctx, aborted, crowded>>
  PROVE  /\ Placed' /\ Connections' /\ Owned' /\ Lone' /\ ServerFreedOnce'
         /\ net.sound /\ ~ clash /\ pc # "over" /\ server \in Pcb
<1>1. net.sound /\ ~ clash /\ pc # "over" /\ server \in Pcb
  BY DEF Sound, ServerInv, ServerTypeOK
<1>2. Placed' /\ Owned'
  BY <1>1 DEF ServerInv, Placed, Owned
<1>3. Connections'
  BY <1>1 DEF ServerInv, Connections, Agrees
<1>4. Lone' /\ ServerFreedOnce'
  BY <1>1 DEF ServerInv, Lone, ServerFreedOnce
<1> QED
  BY <1>1, <1>2, <1>3, <1>4

(* The key that sends puts a message into the context of server_pcb.       *)
LEMMA TransmitStartKeeps ==
  ASSUME ServerInv, Sound, TransmitStart
  PROVE  ServerInv'
<1>1. /\ pc = "run" /\ pc' = "write" /\ net.arg[server] # NoCtx
      /\ temp' = net.arg[server] /\ buf' \in BOOLEAN
      /\ txp' = [txp EXCEPT ![temp'] = buf']
      /\ loose' = (loose \/ server \notin Range(net.active))
      /\ clash' = (clash \/ ctx[temp'] = "free")
      /\ UNCHANGED <<net, server, ctx, aborted, crowded>>
  BY DEF TransmitStart, Freed
<1>2. /\ Placed' /\ Connections' /\ Owned' /\ Lone' /\ ServerFreedOnce'
      /\ net.sound /\ ~ clash /\ pc # "over" /\ server \in Pcb
  BY <1>1, LoopKeeps
<1>3. temp' \in Ctx
  BY <1>1, <1>2, StackFields DEF ServerInv, ServerTypeOK, Proper
<1>4. ServerTypeOK'
  <2>1. /\ txp \in [Ctx -> BOOLEAN] /\ loose \in BOOLEAN /\ clash \in BOOLEAN
        /\ ServerTypeOK
    BY DEF ServerInv, ServerTypeOK
  <2>2. txp' \in [Ctx -> BOOLEAN] /\ temp' \in Ctx \cup {NoCtx}
    BY <1>1, <1>3, <2>1
  <2>3. loose' \in BOOLEAN /\ clash' \in BOOLEAN
    BY <1>1
  <2> QED
    BY <1>1, <1>2, <2>1, <2>2, <2>3 DEF ServerTypeOK
<1>5. ASSUME ~ loose'
      PROVE  /\ ctx[temp'] # "free" /\ ~ clash'
             /\ \A c \in Ctx : ~ txp[c]
  <2>1. ~ loose /\ server \in Active(net)
    BY <1>1, <1>5 DEF Active
  <2>2. Agrees(server)
    BY <1>2, <2>1 DEF ServerInv, Connections
  <2>3. ctx[temp'] # "free"
    BY <1>1, <2>2 DEF Agrees
  <2>4. \A c \in Ctx : ~ txp[c]
    BY <1>1, <1>2, <2>1 DEF ServerInv, Message, Sending
  <2> QED
    BY <1>1, <1>2, <2>3, <2>4
<1>6. Message'
  <2> SUFFICES ASSUME ~ loose' PROVE Message'
    BY DEF Message
  <2>1. txp \in [Ctx -> BOOLEAN]
    BY DEF ServerInv, ServerTypeOK
  <2>2. \A c \in Ctx : txp'[c] => c = temp' /\ buf'
    BY <1>1, <1>3, <1>5, <2>1
  <2> QED
    BY <1>1, <1>3, <1>5, <2>2 DEF Message, Sending
<1>7. MessageSafe'
  BY <1>5 DEF MessageSafe
<1> QED
  BY <1>2, <1>4, <1>6, <1>7 DEF ServerInv

(* transmit_data tests temp->p.                                            *)
LEMMA TransmitTestKeeps ==
  ASSUME ServerInv, Sound, TransmitTest
  PROVE  ServerInv'
<1>1. /\ pc = "write" /\ pc' \in {"read", "free"} /\ (pc' = "read" => txp[temp])
      /\ clash' = (clash \/ ctx[temp] = "free")
      /\ UNCHANGED <<net, server, ctx, txp, buf, temp, loose, aborted, crowded>>
  BY DEF TransmitTest, Freed
<1>2. /\ Placed' /\ Connections' /\ Owned' /\ Lone' /\ ServerFreedOnce'
      /\ net.sound /\ ~ clash /\ pc # "over" /\ server \in Pcb
  BY <1>1, LoopKeeps
<1>3. ServerTypeOK'
  BY <1>1 DEF ServerInv, ServerTypeOK
<1>4. ~ loose => /\ \A c \in Ctx : txp[c] => c = temp /\ buf
                 /\ temp \in Ctx /\ ctx[temp] # "free"
  BY <1>1, <1>2 DEF ServerInv, Message, Sending
<1>5. Message'
  BY <1>1, <1>4 DEF Message, Sending
<1>6. MessageSafe'
  BY <1>1, <1>2, <1>4 DEF MessageSafe
<1> QED
  BY <1>2, <1>3, <1>5, <1>6 DEF ServerInv

(* transmit_data reads temp->p again.                                      *)
LEMMA TransmitReadKeeps ==
  ASSUME ServerInv, Sound, TransmitRead
  PROVE  ServerInv'
<1>1. /\ pc = "read" /\ pc' = "send"
      /\ clash' = (clash \/ ctx[temp] = "free" \/ ~ txp[temp])
      /\ UNCHANGED <<net, server, ctx, txp, buf, temp, loose, aborted, crowded>>
  BY DEF TransmitRead, Freed
<1>2. /\ Placed' /\ Connections' /\ Owned' /\ Lone' /\ ServerFreedOnce'
      /\ net.sound /\ ~ clash /\ pc # "over" /\ server \in Pcb
  BY <1>1, LoopKeeps
<1>3. clash' \in BOOLEAN
  BY <1>1
<1>4. ServerTypeOK'
  BY <1>1, <1>3 DEF ServerInv, ServerTypeOK
<1>5. ~ loose => /\ \A c \in Ctx : txp[c] => c = temp /\ buf
                 /\ temp \in Ctx /\ ctx[temp] # "free" /\ txp[temp]
  BY <1>1, <1>2 DEF ServerInv, Message, Sending
<1>6. Message'
  BY <1>1, <1>5 DEF Message, Sending
<1>7. MessageSafe'
  BY <1>1, <1>2, <1>5 DEF MessageSafe
<1> QED
  BY <1>2, <1>4, <1>6, <1>7 DEF ServerInv

(* transmit_data writes what it found in temp->p.                          *)
LEMMA TransmitSendKeeps ==
  ASSUME ServerInv, Sound, TransmitSend
  PROVE  ServerInv'
<1>1. /\ pc = "send" /\ pc' = "free"
      /\ clash' = (clash \/ ~ buf \/ ctx[temp] = "free")
      /\ \/ txp' = [txp EXCEPT ![temp] = FALSE] /\ buf' = FALSE
         \/ txp' = [txp EXCEPT ![temp] = TRUE] /\ UNCHANGED buf
         \/ UNCHANGED <<txp, buf>>
      /\ UNCHANGED <<net, server, ctx, temp, loose, aborted, crowded>>
  BY DEF TransmitSend, Freed
<1>2. /\ Placed' /\ Connections' /\ Owned' /\ Lone' /\ ServerFreedOnce'
      /\ net.sound /\ ~ clash /\ pc # "over" /\ server \in Pcb
  BY <1>1, LoopKeeps
<1>3. /\ txp \in [Ctx -> BOOLEAN] /\ buf \in BOOLEAN /\ ServerTypeOK
  BY DEF ServerInv, ServerTypeOK
<1>4. txp' \in [Ctx -> BOOLEAN] /\ buf' \in BOOLEAN /\ clash' \in BOOLEAN
  BY <1>1, <1>3
<1>5. ServerTypeOK'
  BY <1>1, <1>3, <1>4 DEF ServerTypeOK
<1>6. ~ loose => /\ \A c \in Ctx : txp[c] => c = temp /\ buf
                 /\ temp \in Ctx /\ ctx[temp] # "free" /\ buf
  BY <1>1, <1>2 DEF ServerInv, Message, Sending
<1>7. Message'
  <2> SUFFICES ASSUME ~ loose' PROVE Message'
    BY DEF Message
  <2>1. \A c \in Ctx : txp'[c] => c = temp /\ buf'
    BY <1>1, <1>3, <1>6
  <2> QED
    BY <1>1, <1>6, <2>1 DEF Message, Sending
<1>8. MessageSafe'
  BY <1>1, <1>2, <1>6 DEF MessageSafe
<1> QED
  BY <1>2, <1>5, <1>7, <1>8 DEF ServerInv

(* user_transmit frees what is left of the message.                        *)
LEMMA TransmitFreeKeeps ==
  ASSUME ServerInv, Sound, TransmitFree
  PROVE  ServerInv'
<1>1. /\ pc = "free" /\ pc' = "run" /\ temp' = NoCtx
      /\ clash' = (clash \/ ctx[temp] = "free" \/ (txp[temp] /\ ~ buf))
      /\ buf' = (buf /\ ~ txp[temp])
      /\ loose' = (loose \/ txp[temp])
      /\ UNCHANGED <<net, server, ctx, txp, aborted, crowded>>
  BY DEF TransmitFree, Freed
<1>2. /\ Placed' /\ Connections' /\ Owned' /\ Lone' /\ ServerFreedOnce'
      /\ net.sound /\ ~ clash /\ pc # "over" /\ server \in Pcb
  BY <1>1, LoopKeeps
<1>3. buf' \in BOOLEAN /\ loose' \in BOOLEAN /\ clash' \in BOOLEAN
  BY <1>1
<1>4. ServerTypeOK'
  BY <1>1, <1>3 DEF ServerInv, ServerTypeOK
<1>5. ASSUME ~ loose'
      PROVE  (\A c \in Ctx : ~ txp[c]) /\ ~ clash'
  <2>1. ~ loose /\ ~ txp[temp]
    BY <1>1, <1>5
  <2>2. /\ \A c \in Ctx : txp[c] => c = temp
        /\ temp \in Ctx /\ ctx[temp] # "free"
    BY <1>1, <1>2, <2>1 DEF ServerInv, Message, Sending
  <2> QED
    BY <1>1, <1>2, <2>1, <2>2
<1>6. Message'
  BY <1>1, <1>5 DEF Message, Sending
<1>7. MessageSafe'
  BY <1>5 DEF MessageSafe
<1> QED
  BY <1>2, <1>4, <1>6, <1>7 DEF ServerInv

(* The key that quits closes the listening pcb.                            *)
LEMMA ServerQuitKeeps ==
  ASSUME ServerInv, Sound, ServerQuit
  PROVE  ServerInv'
<1>1. /\ pc = "run" /\ pc' = "quit"
      /\ UNCHANGED <<net, server, ctx, txp, buf, temp, loose, clash, aborted, crowded>>
  BY DEF ServerQuit, message
<1>2. /\ Placed' /\ Connections' /\ Owned' /\ Lone' /\ ServerFreedOnce'
      /\ net.sound /\ ~ clash /\ pc # "over" /\ server \in Pcb
  BY <1>1, LoopKeeps
<1>3. ServerTypeOK'
  BY <1>1 DEF ServerInv, ServerTypeOK
<1>4. Message' /\ MessageSafe'
  BY <1>1, <1>2 DEF ServerInv, Message, Sending, MessageSafe
<1> QED
  BY <1>2, <1>3, <1>4 DEF ServerInv

(* The user quits: server_pcb is closed, whatever it is.                   *)
LEMMA CloseServerKeeps ==
  ASSUME ServerInv, Sound, CloseServer
  PROVE  ServerInv'
<1> DEFINE s == Close(net, server)
           t == net'
<1>1. Proper(net) /\ net.sound /\ ~ clash /\ pc = "quit" /\ server \in Pcb /\ Lone
  BY DEF ServerInv, ServerTypeOK, Sound, CloseServer
<1>2. /\ pc' = "over" /\ t = Unset(s, server)
      /\ UNCHANGED <<server, ctx, txp, buf, temp, loose, clash, aborted, crowded>>
  BY DEF CloseServer, message
<1>3. s = Close(net, server)
  OBVIOUS
<1> HIDE DEF s, t
<1>4. Touches(net, s, server)
  BY <1>1, <1>3, Closed
<1>5. Proper(s)
  BY <1>4 DEF Touches
<1>6. Touches(s, t, server)
  BY <1>1, <1>2, <1>5, Unbound
<1>7. Touches(net, net', server)
  BY <1>4, <1>6, TouchesAgain DEF t
<1>8. ServerTypeOK'
  <2>1. Proper(net')
    BY <1>7 DEF Touches
  <2>2. ServerTypeOK /\ pc' = "over" /\ server' = server /\ server \in Pcb
    BY <1>1, <1>2 DEF ServerInv
  <2> QED
    BY <1>2, <2>1, <2>2 DEF ServerTypeOK
<1>9. Placed' /\ Connections' /\ Owned' /\ Message' /\ ServerFreedOnce'
  BY <1>2 DEF Placed, Connections, Owned, Message, ServerFreedOnce
<1>10. Lone'
  <2> SUFFICES ASSUME net'.sound, ~ crowded PROVE Lone'
    BY <1>2 DEF Lone
  <2>1. Apart(net, net', server)
    BY <1>7 DEF Touches
  <2>2. \A p \in Pcb : p \in Active(net') => p = server
    BY <1>1, <2>1 DEF Lone, Apart
  <2> QED
    BY <1>2, <2>2 DEF Lone
<1>11. MessageSafe'
  BY <1>1, <1>2 DEF MessageSafe
<1> QED
  BY <1>8, <1>9, <1>10, <1>11 DEF ServerInv

(* tcp_listen gives back the pcb that it was called with.                  *)
LEMMA ServerStartKeeps ==
  ASSUME ServerInv, Sound, ServerStart
  PROVE  ServerInv'
<1> DEFINE new == Take(net)
           p == new.pcb
           t == net'
<1>1. /\ Proper(net) /\ net.sound /\ ~ clash /\ pc = "idle"
      /\ Placed /\ Owned /\ Message
  BY DEF ServerInv, ServerTypeOK, Sound, ServerStart
<1>2. /\ pc' = "run" /\ server' = p /\ t = PcbFree(new.stack, p)
      /\ UNCHANGED <<ctx, txp, buf, temp, loose, clash, aborted, crowded>>
  BY DEF ServerStart, message
<1>3. \A q \in Pcb : q \notin Waiting(net) /\ q \notin Active(net) /\ q \in Free(net)
  BY <1>1 DEF Placed
<1>4. net.free # <<>>
  <2>1. net.free \in Seq(Pcb) /\ Pcb # {}
    BY <1>1, StackFields, PcbAssumption DEF Proper
  <2> QED
    BY <1>3, <2>1, NoneInRange DEF Free
<1>5. new = Take(net)
  OBVIOUS
<1> HIDE DEF new, t
<1>6. /\ p \in Pcb /\ Touches(net, new.stack, p) /\ p \notin Listed(new.stack)
      /\ new.stack.active = net.active /\ new.stack.tw = net.tw
  BY <1>1, <1>4, <1>5, Allocated
<1>7. new.stack.sound
  BY <1>1, <1>4, <1>5, Allocated
<1>8. Proper(new.stack)
  BY <1>6 DEF Touches
<1>9. Touches(new.stack, t, p)
  BY <1>2, <1>6, <1>8, Returned
<1>10. t.sound /\ p \in Free(t) /\ t.free # <<>> /\ Head(t.free) = p
  BY <1>2, <1>6, <1>7, <1>8, Returned
<1>11. t.active = new.stack.active /\ t.tw = new.stack.tw
  BY <1>2, <1>6, <1>8, Returned
<1>12. Touches(net, t, p)
  BY <1>6, <1>9, TouchesAgain
<1>13. /\ Proper(net') /\ Apart(net, net', p) /\ net'.sound /\ p \in Free(net')
       /\ net'.free # <<>> /\ Head(net'.free) = p
       /\ Active(net') = Active(net) /\ Waiting(net') = Waiting(net)
  BY <1>6, <1>10, <1>11, <1>12 DEF t, Touches, Active, Waiting
<1>14. ServerTypeOK'
  BY <1>2, <1>6, <1>13 DEF ServerInv, ServerTypeOK
<1>15. Placed'
  BY <1>2, <1>3, <1>13 DEF Placed, Apart
<1>16. Connections' /\ Owned'
  BY <1>1, <1>2, <1>3, <1>13 DEF Connections, Owned
<1>17. Lone'
  BY <1>2, <1>3, <1>13 DEF Lone
<1>18. Message'
  BY <1>1, <1>2 DEF Message, Sending
<1>19. MessageSafe' /\ ServerFreedOnce'
  BY <1>1, <1>2, <1>13 DEF MessageSafe, ServerFreedOnce
<1> QED
  BY <1>14, <1>15, <1>16, <1>17, <1>18, <1>19 DEF ServerInv

(* The SYN of a client: the head of the pool is linked or, if the answer   *)
(* cannot be sent, given back.                                             *)
LEMMA SynTaken ==
  ASSUME NEW s, Proper(s), s.sound, s.free # <<>>, NEW p, p = Head(s.free),
         \A q \in Pcb : q \notin Waiting(s), NEW up, NEW t,
         up = Linked(Take(s).stack, Take(s).pcb, "SYN_RCVD"),
         t = up \/ t = Abandon(up, p)
  PROVE  /\ p \in Pcb /\ p \in Free(s) /\ Touches(s, t, p) /\ t.sound
         /\ p \notin Waiting(t)
         /\ p \in Free(t) \/ p \in Active(t)
         /\ p \in Active(t) => t.st[p] = "SYN_RCVD" /\ t.arg[p] = NoCtx
         /\ p \notin Active(t) => t.free # <<>> /\ Head(t.free) = p
<1> DEFINE new == Take(s)
           w == new.stack
<1>1. new = Take(s) /\ up = Linked(w, new.pcb, "SYN_RCVD") /\ "SYN_RCVD" \in PcbStates
  BY DEF PcbStates
<1> HIDE DEF new
<1>2. new.pcb = p /\ p \in Free(s) /\ p \in Pcb
  BY <1>1, Allocated
<1>3. Touches(s, w, p) /\ w.arg[p] = NoCtx
  BY <1>1, <1>2, Allocated
<1>4. w.sound /\ p \notin Listed(w)
  BY <1>1, <1>2, Allocated
<1>5. Proper(w) /\ up = Linked(w, p, "SYN_RCVD")
  BY <1>1, <1>2, <1>3 DEF Touches
<1> HIDE DEF w
<1>6. Touches(w, up, p) /\ up.sound
  BY <1>1, <1>2, <1>4, <1>5, Connected
<1>7. p \in Active(up) /\ p \notin Free(up) /\ p \notin Waiting(up)
  BY <1>1, <1>2, <1>4, <1>5, Connected
<1>8. up.st[p] = "SYN_RCVD" /\ up.arg[p] = NoCtx
  BY <1>1, <1>2, <1>3, <1>4, <1>5, Connected
<1>9. Touches(s, up, p)
  BY <1>3, <1>6, TouchesAgain
<1>10. CASE t = up
  BY <1>2, <1>6, <1>7, <1>8, <1>9, <1>10
<1>11. CASE t = Abandon(up, p)
  <2>1. Proper(up) /\ up.st[p] # "CLOSED"
    BY <1>8, <1>9 DEF Touches
  <2>2. Touches(up, t, p)
    BY <1>2, <1>11, <2>1, Abandoned
  <2>3. t.sound
    BY <1>2, <1>6, <1>7, <1>11, <2>1, Abandoned
  <2>4. p \in Free(t) /\ p \notin Active(t) /\ p \notin Waiting(t)
    BY <1>2, <1>11, <2>1, <2>3, Abandoned
  <2>5. t.free # <<>> /\ Head(t.free) = p
    BY <1>2, <1>11, <2>1, <2>3, Abandoned
  <2>6. Touches(s, t, p)
    BY <1>9, <2>2, TouchesAgain
  <2> QED
    BY <1>2, <2>3, <2>4, <2>5, <2>6
<1> QED
  BY <1>10, <1>11

(* A connection that is given up for another is on the list.               *)
LEMMA VictimShown ==
  ASSUME ServerInv, Sound, pc # "idle", NEW v \in Victims(net)
  PROVE  v \in Pcb /\ v \in Active(net) /\ net.free = <<>> /\ net.active # <<>>
<1>1. /\ net.tw \in Seq(Pcb) /\ net.active \in Seq(Pcb) /\ Active(net) \subseteq Pcb
      /\ Waiting(net) \subseteq Pcb
      /\ v \in Victims(net) /\ \A q \in Pcb : q \notin Waiting(net)
  BY StackFields DEF ServerInv, ServerTypeOK, Proper, Placed, Sound
<1>2. net.tw = <<>>
  BY <1>1, NoneInRange DEF Waiting
<1>3. v \in Active(net) /\ net.free = <<>>
  BY <1>1, <1>2 DEF Victims, ActiveIn, Active
<1> QED
  BY <1>1, <1>3, NoneInRange DEF Active

(* The SYN of a client, for which a connection may be given up.            *)
LEMMA SynKeeps ==
  ASSUME ServerInv, Sound, Syn
  PROVE  ServerInv'
<1>1. /\ Proper(net) /\ net.sound /\ ~ clash /\ pc \notin {"idle", "over"} /\ server \in Pcb
      /\ Placed /\ Lone /\ NoPcb \notin Pcb /\ NoCtx \notin Ctx
      /\ \A q \in Pcb : q \notin Waiting(net)
      /\ UNCHANGED <<pc, server, txp, buf, temp, clash, aborted>>
      /\ crowded' = (crowded \/ net.active # <<>>)
  BY PcbAssumption DEF ServerInv, ServerTypeOK, Placed, Sound, Syn,
                       Listening
<1>2. PICK v \in Victims(net) \cup {NoPcb} :
        /\ v = NoPcb => net.free # <<>>
        /\ LET new == Take(IF v = NoPcb THEN net ELSE Abandon(net, v))
               up == Linked(new.stack, new.pcb, "SYN_RCVD")
           IN  net' \in {up, Abandon(up, new.pcb)}
        /\ IF v = NoPcb THEN UNCHANGED <<ctx, loose>> ELSE ErrorFrees(v)
  BY DEF Syn, Linked
<1> DEFINE s == IF v = NoPcb THEN net ELSE Abandon(net, v)
           p == Head(s.free)
           up == Linked(Take(s).stack, Take(s).pcb, "SYN_RCVD")
           t == net'
<1>3. /\ up = Linked(Take(s).stack, Take(s).pcb, "SYN_RCVD")
      /\ t = up \/ t = Abandon(up, Take(s).pcb)
      /\ p = Head(s.free)
  BY <1>2
<1>4. v = NoPcb => s = net
  OBVIOUS
<1>5. v # NoPcb => s = Abandon(net, v)
  OBVIOUS
<1> HIDE DEF s, p, up, t
<1>6. v # NoPcb =>
        /\ v \in Pcb /\ v \in Active(net) /\ net.active # <<>> /\ Agrees(v)
        /\ net.st[v] # "CLOSED" /\ v \notin Free(net)
  <2> SUFFICES ASSUME v # NoPcb
               PROVE  /\ v \in Pcb /\ v \in Active(net) /\ net.active # <<>> /\ Agrees(v)
                      /\ net.st[v] # "CLOSED" /\ v \notin Free(net)
    OBVIOUS
  <2>1. v \in Pcb /\ v \in Active(net) /\ net.active # <<>>
    BY <1>1, <1>2, VictimShown
  <2>2. Agrees(v) /\ v \notin Free(net)
    BY <1>1, <2>1 DEF ServerInv, Connections, Proper, Lists
  <2> QED
    BY <2>1, <2>2 DEF Agrees
<1>7. v # NoPcb =>
        /\ Touches(net, s, v) /\ s.sound /\ v \notin Waiting(s)
        /\ s.free # <<>> /\ v = p
  <2> SUFFICES ASSUME v # NoPcb
               PROVE  /\ Touches(net, s, v) /\ s.sound /\ v \notin Waiting(s)
                      /\ s.free # <<>> /\ v = p
    OBVIOUS
  <2>1. Touches(net, s, v)
    BY <1>1, <1>5, <1>6, Abandoned
  <2>2. s.sound
    BY <1>1, <1>5, <1>6, Abandoned
  <2>3. v \notin Waiting(s) /\ s.free # <<>> /\ Head(s.free) = v
    BY <1>1, <1>5, <1>6, <2>2, Abandoned
  <2> QED
    BY <1>3, <2>1, <2>2, <2>3
<1>8. Proper(s) /\ s.sound /\ s.free # <<>> /\ \A q \in Pcb : q \notin Waiting(s)
  <2>1. CASE v = NoPcb
    BY <1>1, <1>2, <1>4, <2>1
  <2>2. CASE v # NoPcb
    BY <1>1, <1>7, <2>2 DEF Touches, Apart
  <2> QED
    BY <2>1, <2>2
<1>9. t = up \/ t = Abandon(up, p)
  <2>1. Take(s).pcb = Head(s.free)
    BY <1>8, Allocated
  <2> QED
    BY <1>3, <2>1
<1>10. /\ p \in Pcb /\ p \in Free(s) /\ Touches(s, t, p) /\ t.sound
       /\ p \notin Waiting(t)
       /\ p \in Free(t) \/ p \in Active(t)
       /\ p \in Active(t) => t.st[p] = "SYN_RCVD" /\ t.arg[p] = NoCtx
       /\ p \notin Active(t) => t.free # <<>> /\ Head(t.free) = p
  BY <1>3, <1>8, <1>9, SynTaken
<1>11. Touches(net, net', p)
  <2>1. CASE v = NoPcb
    BY <1>4, <1>10, <2>1 DEF t
  <2>2. CASE v # NoPcb
    BY <1>7, <1>10, <2>2, TouchesAgain DEF t
  <2> QED
    BY <2>1, <2>2
<1>12. /\ net'.sound /\ p \notin Waiting(net')
       /\ p \in Free(net') \/ p \in Active(net')
       /\ p \in Active(net') => net'.st[p] = "SYN_RCVD" /\ net'.arg[p] = NoCtx
       /\ p \notin Active(net') => net'.free # <<>> /\ Head(net'.free) = p
  BY <1>10 DEF t
<1>13. PICK r : r = p
  OBVIOUS
<1>14. v = NoPcb => r \notin Active(net) /\ r = Head(net.free)
  <2> SUFFICES ASSUME v = NoPcb PROVE r \notin Active(net) /\ r = Head(net.free)
    OBVIOUS
  <2>1. p \in Free(net) /\ p \in Pcb /\ p = Head(net.free)
    BY <1>3, <1>4, <1>10
  <2> QED
    BY <1>1, <1>13, <2>1 DEF Proper, Lists
<1>15. /\ ctx' \in [Ctx -> {"free", "accepted", "closing"}] /\ loose' \in BOOLEAN
       /\ \A c \in Ctx : ctx'[c] # ctx[c] => r \in Active(net) /\ c = net.arg[r]
       /\ r \in Active(net) /\ net.arg[r] # NoCtx => ctx'[net.arg[r]] = "free"
       /\ ~ loose' => ~ loose /\ (pc \in Sending => ctx'[temp] # "free")
  <2>1. CASE v = NoPcb
    BY <1>1, <1>2, <1>14, <2>1 DEF ServerInv, ServerTypeOK, Message
  <2>2. CASE v # NoPcb
    <3>1. v \in Pcb /\ v \in Active(net) /\ ErrorFrees(v) /\ v = r
      BY <1>2, <1>6, <1>7, <1>13, <2>2
    <3> QED
      BY <1>1, <3>1, ErrorFreed
  <2> QED
    BY <2>1, <2>2
<1>16. /\ r \in Pcb /\ Touches(net, net', r) /\ net'.sound /\ r \notin Waiting(net')
       /\ r \in Free(net') \/ r \in Active(net')
       /\ r \in Active(net') => net'.st[r] = "SYN_RCVD" /\ net'.arg[r] = NoCtx
       /\ r \notin Active(net') => net'.free # <<>> /\ Head(net'.free) = r
  BY <1>10, <1>11, <1>12, <1>13
<1>17. r \in Active(net') => Agrees(r)'
  BY <1>16 DEF Agrees
<1>18. Placed' /\ Connections' /\ Owned'
  BY <1>1, <1>15, <1>16, <1>17, ConnectionMoves
<1>19. Message' /\ MessageSafe'
  BY <1>1, <1>15, MessageKept
<1>20. Lone'
  <2> SUFFICES ASSUME ~ crowded' PROVE Lone'
    BY DEF Lone
  <2>1. ~ crowded /\ net.active = <<>> /\ v = NoPcb
    BY <1>1, <1>6
  <2>2. \A q \in Pcb : q \notin Active(net)
    BY <2>1 DEF Active, Range
  <2>3. r = server
    BY <1>1, <1>14, <2>1, <2>2 DEF Lone
  <2>4. \A q \in Pcb : q \in Active(net') => q = server
    BY <1>16, <2>2, <2>3 DEF Touches, Apart
  <2> QED
    BY <1>1, <1>16, <2>3, <2>4 DEF Lone
<1>21. ServerTypeOK'
  <2>1. crowded' \in BOOLEAN /\ Proper(net')
    BY <1>1, <1>16 DEF Touches
  <2> QED
    BY <1>1, <1>15, <2>1 DEF ServerInv, ServerTypeOK
<1>22. ServerFreedOnce'
  BY <1>16 DEF ServerFreedOnce
<1> QED
  BY <1>18, <1>19, <1>20, <1>21, <1>22 DEF ServerInv

(* The invariant holds before the server was started.                      *)
LEMMA ServerInvInit == ServerInit => ServerInv
<1> SUFFICES ASSUME ServerInit PROVE ServerInv
  OBVIOUS
<1>2. /\ Proper(net) /\ net.sound
      /\ Free(net) = Pcb /\ Active(net) = {} /\ Waiting(net) = {}
  BY FreshStack DEF ServerInit
<1>3. /\ pc = "idle" /\ server = NoPcb
      /\ ctx = [c \in Ctx |-> "free"] /\ txp = [c \in Ctx |-> FALSE]
      /\ buf = FALSE /\ temp = NoCtx
      /\ aborted = FALSE /\ crowded = FALSE /\ loose = FALSE /\ clash = FALSE
  BY DEF ServerInit
<1>4. ServerTypeOK
  BY <1>2, <1>3 DEF ServerTypeOK
<1>5. Placed /\ Connections /\ Owned /\ Lone
  BY <1>2, <1>3 DEF Placed, Connections, Owned, Lone
<1>6. Message /\ MessageSafe /\ ServerFreedOnce
  BY <1>2, <1>3 DEF Message, Sending, MessageSafe, ServerFreedOnce
<1> QED
  BY <1>4, <1>5, <1>6 DEF ServerInv

(* Every step of the server, of lwIP and of the clients keeps it.          *)
LEMMA ServerStep == ServerInv /\ [ServerNext]_ServerVars => ServerInv'
<1> SUFFICES ASSUME ServerInv, [ServerNext]_ServerVars PROVE ServerInv'
  OBVIOUS
<1>1. CASE UNCHANGED ServerVars
  BY <1>1 DEF ServerVars, ServerInv, ServerTypeOK, Placed, Connections, Agrees, Owned, Lone,
              Message, MessageSafe, ServerFreedOnce
<1>2. CASE ServerNext
  <2>1. Sound
    BY <1>2 DEF ServerNext
  <2>2. CASE ServerMainLoop
    <3>1. CASE ServerStart
      BY <2>1, <3>1, ServerStartKeeps
    <3>2. CASE ServerTransmitAbort
      BY <2>1, <3>2, ServerAbortKeeps
    <3>3. CASE TransmitStart
      BY <2>1, <3>3, TransmitStartKeeps
    <3>4. CASE TransmitTest
      BY <2>1, <3>4, TransmitTestKeeps
    <3>5. CASE TransmitRead
      BY <2>1, <3>5, TransmitReadKeeps
    <3>6. CASE TransmitSend
      BY <2>1, <3>6, TransmitSendKeeps
    <3>7. CASE TransmitFree
      BY <2>1, <3>7, TransmitFreeKeeps
    <3>8. CASE ServerQuit
      BY <2>1, <3>8, ServerQuitKeeps
    <3>9. CASE CloseServer
      BY <2>1, <3>9, CloseServerKeeps
    <3> QED
      BY <2>2, <3>1, <3>2, <3>3, <3>4, <3>5, <3>6, <3>7, <3>8, <3>9
         DEF ServerMainLoop
  <2>3. CASE Syn
    BY <2>1, <2>3, SynKeeps
  <2>4. CASE \E p \in Range(net.active) :
               ServerSegment(p) \/ ServerPoll(p) \/ ServerTimeOut(p)
    <3>1. PICK p \in Range(net.active) :
                 ServerSegment(p) \/ ServerPoll(p) \/ ServerTimeOut(p)
      BY <2>4
    <3>2. CASE SynAcked(p)
      BY <2>1, <3>2, SynAckedKeeps
    <3>3. CASE Sent(p)
      BY <2>1, <3>3, SentKeeps
    <3>4. CASE ServerFin(p)
      BY <2>1, <3>4, ServerFinKeeps
    <3>5. CASE ServerPoll(p)
      BY <2>1, <3>5, ServerPollKeeps
    <3>6. CASE ServerFinAcked(p) \/ ServerReset(p) \/ ServerTimeOut(p)
      BY <2>1, <3>6, EndingsKeep
    <3> QED
      BY <3>1, <3>2, <3>3, <3>4, <3>5, <3>6 DEF ServerSegment
  <2> QED
    BY <1>2, <2>2, <2>3, <2>4 DEF ServerNext
<1> QED
  BY <1>1, <1>2

(* The invariant holds in every state that the server can reach.           *)
LEMMA ServerInvariant == ServerSpec => []ServerInv
BY ServerInvInit, ServerStep, PTL DEF ServerSpec

(* The stack, the main loop's place and the contexts keep their types, and *)
(* as long as the stack is sound its lists are disjoint and without        *)
(* repetition.                                                             *)
THEOREM ServerTypeCorrect == ServerSpec => []ServerTypeOK
<1>1. ServerInv => ServerTypeOK
  BY DEF ServerInv
<1> QED
  BY <1>1, ServerInvariant, PTL

(* No pcb is freed twice until the key that sends is pressed without a     *)
(* connection in server_pcb or the user quits.                             *)
THEOREM ServerFreesOnce == ServerSpec => []ServerFreedOnce
<1>1. ServerInv => ServerFreedOnce
  BY DEF ServerInv
<1> QED
  BY <1>1, ServerInvariant, PTL

(* While clients come one at a time, the connection is in the element that *)
(* server_pcb was left pointing to by tcp_listen.                          *)
THEOREM ServerLoneClient == ServerSpec => []LoneClientIsServerPcb
<1>1. ServerInv => LoneClientIsServerPcb
  <2> SUFFICES ASSUME ServerInv, net.sound, ~ crowded
               PROVE  Range(net.active) \subseteq {server}
    BY DEF LoneClientIsServerPcb
  <2>1. Active(net) \subseteq Pcb
    BY StackFields DEF ServerInv, ServerTypeOK, Proper
  <2> QED
    BY <2>1 DEF ServerInv, Lone, Active
<1> QED
  BY <1>1, ServerInvariant, PTL

(* A connection with callbacks has a context of its own, and every context *)
(* that is allocated belongs to a connection lwIP still works on.          *)
THEOREM ServerContextOwned == ServerSpec => []ContextOwned
<1>1. ServerInv => ContextOwned
  <2> SUFFICES ASSUME ServerInv, net.sound, pc # "over" PROVE ContextOwned
    BY DEF ContextOwned
  <2>1. Active(net) \subseteq Pcb /\ Range(net.active) = Active(net)
    BY StackFields DEF ServerInv, ServerTypeOK, Proper, Active
  <2>2. \A p \in Active(net) : net.arg[p] # NoCtx => ctx[net.arg[p]] # "free"
    BY <2>1 DEF ServerInv, Connections, Agrees
  <2>3. \A p, q \in Active(net) : net.arg[p] # NoCtx /\ net.arg[p] = net.arg[q] => p = q
    BY <2>1 DEF ServerInv, Owned
  <2>4. \A c \in Ctx : ctx[c] # "free" => \E p \in Active(net) : net.arg[p] = c
    BY DEF ServerInv, Owned
  <2> QED
    BY <2>1, <2>2, <2>3, <2>4 DEF ContextOwned, HasCallbacks, Freed
<1> QED
  BY <1>1, ServerInvariant, PTL

(* A message and its context are not used after they were freed, nor NULL  *)
(* taken for a message, but in the cases that make them loose.             *)
THEOREM ServerMessageSafe == ServerSpec => []MessageSafe
<1>1. ServerInv => MessageSafe
  BY DEF ServerInv
<1> QED
  BY <1>1, ServerInvariant, PTL
=============================================================================
