---------------------------- MODULE RtpSessionProofs ----------------------------
(***************************************************************************)
(* Proofs about RtpSession for every finite set of addresses and every     *)
(* bound.  Inv is inductive.  What a poll does to the session is a chain   *)
(* of records, one per colliding packet; Progress, what Inv says of an     *)
(* open session together with the number of SSRCs drawn on the way, is     *)
(* kept along the chain, packet after packet.                              *)
(*                                                                         *)
(* The second part is about the RTCP packets the session has built for it, *)
(* RtcpReports, for every finite set of sources, every sequence of items,  *)
(* all intervals and any room in a packet.                                 *)
(***************************************************************************)
EXTENDS RtpSession, RtcpReports, SequenceTheorems, FiniteSetTheorems, TLAPS

-----------------------------------------------------------------------------
(* Induction over the packets of a poll.                                   *)

\* A set of numbers that is not empty has a smallest one.
LEMMA Smallest ==
    ASSUME NEW T, T \subseteq Nat, T # {}
    PROVE  \E x \in T : \A y \in T : ~(y < x)
<1>1. \E x \in T : \A y \in T : ~(<<y, x>> \in OpToRel(<, Nat))
  BY NatLessThanWellFounded, WFMin, Zenon
<1>2. \A x, y \in Nat : y < x => <<y, x>> \in OpToRel(<, Nat)
  BY DEF OpToRel
<1>3. QED
  BY <1>1, <1>2

\* A set that holds 0 and the successors of its numbers holds all of them.
LEMMA SetInduction ==
    ASSUME NEW S, 0 \in S, \A n \in Nat : n \in S => n + 1 \in S
    PROVE  Nat \subseteq S
<1> SUFFICES ASSUME Nat \ S # {} PROVE FALSE
  OBVIOUS
<1>1. PICK x \in Nat \ S : \A y \in Nat \ S : ~(y < x)
  <2>1. Nat \ S \subseteq Nat
    OBVIOUS
  <2>2. QED
    BY <2>1, Smallest, Zenon
<1>2. x \in Nat /\ x # 0 /\ x - 1 \in Nat /\ x - 1 < x /\ (x - 1) + 1 = x
  BY <1>1
<1>3. x - 1 \in S
  BY <1>1, <1>2
<1>4. QED
  BY <1>1, <1>2, <1>3

\* One record per packet handled, up to the n-th.
IsChain(g, packs, now, n) ==
    g = [k \in 0..n |->
            IF k = 0 THEN Session ELSE HandleOwnCollision(g[k - 1], packs[k], now)]

LEMMA ChainExists ==
    ASSUME NEW packs, NEW now, NEW n \in Nat
    PROVE  \E g : IsChain(g, packs, now, n)
<1> DEFINE S == {m \in Nat : \E g : IsChain(g, packs, now, m)}
<1>1. 0 \in S
  <2>1. IsChain([k \in 0..0 |-> Session], packs, now, 0)
    BY DEF IsChain
  <2>2. QED
    BY <2>1
<1>2. ASSUME NEW m \in Nat, m \in S PROVE m + 1 \in S
  <2>1. PICK g : IsChain(g, packs, now, m)
    BY <1>2
  <2> DEFINE h == [k \in 0..(m + 1) |->
                      IF k = 0 THEN Session
                      ELSE HandleOwnCollision(g[k - 1], packs[k], now)]
  <2>2. \A k \in 0..m : h[k] = g[k]
    BY <2>1 DEF IsChain
  <2>3. \A k \in 0..(m + 1) : k # 0 => h[k - 1] = g[k - 1]
    BY <2>2
  <2>4. IsChain(h, packs, now, m + 1)
    BY <2>3 DEF IsChain
  <2>5. QED
    BY <2>4
<1>3. Nat \subseteq S
  <2> HIDE DEF S
  <2>1. QED
    BY <1>1, <1>2, SetInduction
<1>4. QED
  BY <1>3

\* AfterPackets is the end of a chain.
LEMMA AfterPacketsDef ==
    ASSUME NEW packs \in Seq(Addrs), NEW now
    PROVE  \E g : /\ IsChain(g, packs, now, Len(packs))
                  /\ AfterPackets(packs, now) = g[Len(packs)]
<1> DEFINE g == CHOOSE f : IsChain(f, packs, now, Len(packs))
<1>1. IsChain(g, packs, now, Len(packs))
  BY ChainExists
<1>2. AfterPackets(packs, now) = g[Len(packs)]
  BY DEF AfterPackets, IsChain
<1>3. QED
  BY <1>1, <1>2

-----------------------------------------------------------------------------
(* Sequences of farewells.                                                 *)

Below(q, n) == \A i \in DOMAIN q : q[i] < n

\* A farewell with a larger number than all the others may follow them.
LEMMA AppendFarewell ==
    ASSUME NEW q \in Seq(Nat), NEW n \in Nat, Increasing(q), Below(q, n)
    PROVE  /\ Increasing(Append(q, n)) /\ Below(Append(q, n), n + 1)
           /\ Range(Append(q, n)) = Range(q) \cup {n}
<1> DEFINE r == Append(q, n)
<1>1. /\ r \in Seq(Nat) /\ Len(r) = Len(q) + 1 /\ Len(q) \in Nat
      /\ DOMAIN q = 1..Len(q) /\ DOMAIN r = 1..(Len(q) + 1)
      /\ \A i \in 1..Len(q) : r[i] = q[i] /\ q[i] \in Nat
      /\ r[Len(q) + 1] = n
  OBVIOUS
<1> HIDE DEF r
<1>2. Increasing(r)
  <2> SUFFICES ASSUME NEW i \in 2..(Len(q) + 1) PROVE r[i - 1] < r[i]
    BY <1>1 DEF Increasing
  <2>1. CASE i = Len(q) + 1
    <3>1. i - 1 \in 1..Len(q) /\ i - 1 \in DOMAIN q
      BY <1>1, <2>1
    <3>2. q[i - 1] < n
      BY <3>1 DEF Below
    <3>3. QED
      BY <1>1, <2>1, <3>1, <3>2
  <2>2. CASE i # Len(q) + 1
    <3>1. i \in 2..Len(q) /\ i \in 1..Len(q) /\ i - 1 \in 1..Len(q)
      BY <1>1, <2>2
    <3>2. q[i - 1] < q[i]
      BY <3>1 DEF Increasing
    <3>3. QED
      BY <1>1, <3>1, <3>2
  <2>3. QED
    BY <2>1, <2>2
<1>3. Below(r, n + 1)
  <2> SUFFICES ASSUME NEW i \in 1..(Len(q) + 1) PROVE r[i] < n + 1
    BY <1>1 DEF Below
  <2>1. CASE i = Len(q) + 1
    BY <1>1, <2>1
  <2>2. CASE i # Len(q) + 1
    <3>1. i \in 1..Len(q) /\ i \in DOMAIN q
      BY <1>1, <2>2
    <3>2. q[i] < n
      BY <3>1 DEF Below
    <3>3. QED
      BY <1>1, <3>1, <3>2
  <2>3. QED
    BY <2>1, <2>2
<1>4. Range(r) = Range(q) \cup {n}
  BY <1>1 DEF Range
<1>5. QED
  BY <1>2, <1>3, <1>4 DEF r

\* Saying some of the farewells that wait keeps the order.
LEMMA PrefixFarewell ==
    ASSUME NEW q \in Seq(Nat), NEW r \in Seq(Nat), NEW m \in 0..Len(r),
           Increasing(q \o r)
    PROVE  Increasing(q \o SubSeq(r, 1, m))
<1>1. /\ Len(q \o SubSeq(r, 1, m)) = Len(q) + m
      /\ Len(q \o r) = Len(q) + Len(r)
      /\ \A i \in 1..(Len(q) + m) : (q \o SubSeq(r, 1, m))[i] = (q \o r)[i]
  BY SMTT(30)
<1>2. ASSUME NEW i \in 2..(Len(q) + m)
      PROVE  (q \o SubSeq(r, 1, m))[i - 1] < (q \o SubSeq(r, 1, m))[i]
  <2>1. /\ i \in 1..(Len(q) + m) /\ i - 1 \in 1..(Len(q) + m)
        /\ i \in 2..(Len(q) + Len(r))
    OBVIOUS
  <2>2. (q \o r)[i - 1] < (q \o r)[i]
    BY <1>1, <2>1 DEF Increasing
  <2>3. QED
    BY <1>1, <2>1, <2>2
<1>3. QED
  BY <1>1, <1>2 DEF Increasing

\* Queueing a farewell, and taking the first of the queue.
LEMMA QueueFarewell ==
    ASSUME NEW q \in Seq(Nat), NEW r \in Seq(Nat), NEW n \in Nat
    PROVE  /\ q \o Append(r, n) = Append(q \o r, n)
           /\ r # <<>> => Append(q, Head(r)) \o Tail(r) = q \o r
           /\ q \o <<>> = q
<1>1. q \o Append(r, n) = Append(q \o r, n)
  OBVIOUS
<1>2. ASSUME r # <<>> PROVE Append(q, Head(r)) \o Tail(r) = q \o r
  <2>1. /\ Head(r) = r[1] /\ Tail(r) \in Seq(Nat) /\ Len(Tail(r)) = Len(r) - 1
        /\ \A i \in 1..(Len(r) - 1) : Tail(r)[i] = r[i + 1]
        /\ Len(r) > 0 /\ r[1] \in Nat
    BY <1>2
  <2>2. QED
    BY <2>1
<1>3. q \o <<>> = q
  OBVIOUS
<1>4. QED
  BY <1>1, <1>2, <1>3

\* What is offered or waits is one or the other.
LEMMA RangeOfBoth ==
    ASSUME NEW q \in Seq(Nat), NEW r \in Seq(Nat)
    PROVE  Range(q \o r) = Range(q) \cup Range(r)
<1>1. /\ DOMAIN q = 1..Len(q) /\ DOMAIN r = 1..Len(r)
      /\ DOMAIN (q \o r) = 1..(Len(q) + Len(r))
      /\ \A i \in 1..Len(q) : (q \o r)[i] = q[i]
      /\ \A i \in 1..Len(r) : (q \o r)[Len(q) + i] = r[i]
      /\ Len(q) \in Nat /\ Len(r) \in Nat
  OBVIOUS
<1>2. ASSUME NEW i \in 1..(Len(q) + Len(r)), ~(i \in 1..Len(q))
      PROVE  i - Len(q) \in 1..Len(r) /\ Len(q) + (i - Len(q)) = i
  BY <1>1, <1>2
<1>3. /\ \A i \in 1..Len(q) : i \in 1..(Len(q) + Len(r))
      /\ \A i \in 1..Len(r) : Len(q) + i \in 1..(Len(q) + Len(r))
  BY <1>1
<1> DEFINE both == q \o r
<1>4. Range(both) \subseteq Range(q) \cup Range(r)
  <2> SUFFICES ASSUME NEW i \in 1..(Len(q) + Len(r))
               PROVE  both[i] \in Range(q) \cup Range(r)
    BY <1>1 DEF Range
  <2>1. CASE i \in 1..Len(q)
    BY <1>1, <2>1 DEF Range
  <2>2. CASE ~(i \in 1..Len(q))
    <3>1. i - Len(q) \in 1..Len(r) /\ both[i] = r[i - Len(q)]
      BY <1>1, <1>2, <2>2
    <3>2. QED
      BY <1>1, <3>1 DEF Range
  <2>3. QED
    BY <2>1, <2>2
<1>5. Range(q) \subseteq Range(both) /\ Range(r) \subseteq Range(both)
  BY <1>1, <1>3 DEF Range
<1>6. QED
  BY <1>4, <1>5

LEMMA RangeOfAppend ==
    ASSUME NEW q \in Seq(Nat), NEW n \in Nat
    PROVE  Range(Append(q, n)) = Range(q) \cup {n}
<1> DEFINE r == Append(q, n)
<1>1. /\ r \in Seq(Nat) /\ Len(r) = Len(q) + 1 /\ Len(q) \in Nat
      /\ DOMAIN q = 1..Len(q) /\ DOMAIN r = 1..(Len(q) + 1)
      /\ \A i \in 1..Len(q) : r[i] = q[i]
      /\ r[Len(q) + 1] = n
  OBVIOUS
<1> HIDE DEF r
<1>2. 1..(Len(q) + 1) = 1..Len(q) \cup {Len(q) + 1}
  BY <1>1
<1>3. /\ DOMAIN r = 1..Len(q) \cup {Len(q) + 1}
      /\ \A i \in 1..Len(q) : r[i] = q[i]
      /\ r[Len(q) + 1] = n
  BY <1>1, <1>2
<1>4. Range(r) = Range(q) \cup {n}
  BY <1>1, <1>3 DEF Range
<1>5. QED
  BY <1>4 DEF r

LEMMA PrefixSeq ==
    ASSUME NEW S, NEW q \in Seq(S), NEW n \in 0..Len(q)
    PROVE  SubSeq(q, 1, n) \in Seq(S)
  OBVIOUS

\* Bounds and types only grow.
LEMMA WeakerBound ==
    ASSUME NEW q \in Seq(Nat), NEW n \in Nat, Below(q, n)
    PROVE  Below(q, n + 1)
<1>1. \A i \in DOMAIN q : q[i] \in Nat
  OBVIOUS
<1>2. QED
  BY <1>1 DEF Below

LEMMA SsrcSeq ==
    ASSUME NEW q \in Seq(1..MaxSsrc)
    PROVE  q \in Seq(Nat) /\ q \in Seq(Nat \ {0})
  BY SessionAssumption

LEMMA WaitingSeq ==
    ASSUME NEW q \in Seq(Nat), NEW r \in Seq(Nat \ {0}), NEW n \in Nat,
           Below(q \o r, n), n <= MaxSsrc
    PROVE  r \in Seq(1..MaxSsrc)
<1>1. ASSUME NEW i \in 1..Len(r) PROVE r[i] \in 1..MaxSsrc
  <2>1. Len(q) + i \in DOMAIN (q \o r) /\ (q \o r)[Len(q) + i] = r[i]
    BY DEF Below
  <2>2. r[i] \in Nat \ {0}
    OBVIOUS
  <2>3. r[i] < n
    BY <2>1 DEF Below
  <2>4. QED
    BY <2>2, <2>3, SessionAssumption
<1>2. Range(r) \subseteq 1..MaxSsrc
  BY <1>1, RangeEquality
<1>3. r \in Seq(Range(r))
  BY SeqOfRange
<1>4. QED
  BY <1>2, <1>3, SeqMonotonic

LEMMA SaidSeq ==
    ASSUME NEW q \in Seq(Nat \ {0}), NEW r \in Seq(Nat \ {0}), NEW n \in Nat,
           Below(q \o r, n), n <= MaxSsrc
    PROVE  q \in Seq(1..MaxSsrc)
<1>1. ASSUME NEW i \in 1..Len(q) PROVE q[i] \in 1..MaxSsrc
  <2>1. i \in DOMAIN (q \o r) /\ (q \o r)[i] = q[i]
    OBVIOUS
  <2>2. q[i] \in Nat \ {0}
    OBVIOUS
  <2>3. q[i] < n
    BY <2>1 DEF Below
  <2>4. QED
    BY <2>2, <2>3, SessionAssumption
<1>2. Range(q) \subseteq 1..MaxSsrc
  BY <1>1, RangeEquality
<1>3. q \in Seq(Range(q))
  BY SeqOfRange
<1>4. QED
  BY <1>2, <1>3, SeqMonotonic

-----------------------------------------------------------------------------
(* The packets of a poll.                                                  *)

\* What holds of the session s that an open session has become in a poll.
Progress(s) ==
    /\ s.ssrc \in Nat \ {0} /\ s.sent \in BOOLEAN /\ s.byes \in Seq(Nat \ {0})
    /\ s.coll \subseteq Addrs /\ s.sched \in Sched
    /\ s.sched.byescheduled <=> (s.byes # <<>> /\ ~stranded)
    /\ stranded => s.byes # <<>>
    /\ Increasing(taken \o s.byes) /\ Below(taken \o s.byes, s.ssrc)
    /\ used \ {s.ssrc} \subseteq Range(taken \o s.byes)
    /\ used \subseteq 1..s.ssrc
    /\ ~s.sent => s.ssrc \notin used
    /\ s.sent => s.ssrc \in used \cup carried
    /\ Range(taken \o s.byes) \subseteq used \cup carried
    /\ collisionlist \subseteq s.coll
    /\ s.ssrc = ssrc + Cardinality(s.coll \ collisionlist)

LEMMA ProgressStarts ==
    ASSUME Inv, created
    PROVE  Progress(Session)
<1>1. Session.coll \ collisionlist = {}
  BY DEF Session
<1>2. Cardinality({}) = 0
  BY FS_EmptySet
<1>3. /\ ssrc \in Nat \ {0} /\ byepackets \in Seq(Nat \ {0})
      /\ sentpackets \in BOOLEAN /\ collisionlist \subseteq Addrs /\ sched \in Sched
  BY SsrcSeq, SessionAssumption DEF Inv, TypeOK, UsedWhenSent
<1>4. /\ Increasing(taken \o byepackets) /\ Below(taken \o byepackets, ssrc)
      /\ used \ {ssrc} \subseteq Range(taken \o byepackets)
      /\ Range(taken \o byepackets) \subseteq used \cup carried
  <2>1. taken \in Seq(Nat) /\ byepackets \in Seq(Nat)
    BY SsrcSeq DEF Inv, TypeOK
  <2>2. Range(taken \o byepackets) = Range(taken) \cup Range(byepackets)
    BY <2>1, RangeOfBoth
  <2>3. /\ refused \subseteq Range(taken)
        /\ used \ {ssrc} \subseteq (Range(taken) \ refused) \cup Range(byepackets) \cup refused
    BY DEF Inv, OneFarewell
  <2>4. used \ {ssrc} \subseteq Range(taken \o byepackets)
    BY <2>2, <2>3
  <2>5. QED
    BY <2>4 DEF Inv, OneFarewell, Below
<1>5. ssrc = ssrc + Cardinality(Session.coll \ collisionlist)
  <2>1. Cardinality(Session.coll \ collisionlist) = 0
    BY <1>1, <1>2, Zenon
  <2>2. QED
    BY <1>3, <2>1
<1>6. QED
  BY <1>3, <1>4, <1>5
  DEF Session, Progress, Inv, ByeModeAsQueued, StrandedWaits, UsedWhenSent

\* One packet more.
LEMMA ProgressStep ==
    ASSUME TypeOK, NEW s, Progress(s), NEW from \in Addrs, NEW now \in BOOLEAN
    PROVE  Progress(HandleOwnCollision(s, from, now))
<1>1. CASE from \in s.coll
  BY <1>1 DEF HandleOwnCollision
<1>2. CASE from \notin s.coll
  <2> DEFINE byes == IF s.sent THEN Append(s.byes, s.ssrc) ELSE s.byes
             t == HandleOwnCollision(s, from, now)
  <2>1. /\ t.ssrc = s.ssrc + 1 /\ t.sent = FALSE /\ t.byes = byes
        /\ t.coll = s.coll \cup {from}
        /\ t.sched = IF s.sent /\ Len(byes) = 1
                     THEN ScheduleBYEPacket(s.sched, now) ELSE s.sched
    BY <1>2 DEF HandleOwnCollision
  <2>2. /\ taken \in Seq(Nat) /\ s.byes \in Seq(Nat) /\ s.ssrc \in Nat
        /\ taken \o s.byes \in Seq(Nat)
    BY SsrcSeq DEF TypeOK, Progress
  <2>3. /\ Increasing(taken \o byes) /\ Below(taken \o byes, s.ssrc + 1)
        /\ used \subseteq Range(taken \o byes)
        /\ Range(taken \o byes) \subseteq used \cup carried
        /\ byes \in Seq(Nat \ {0})
    <3>1. CASE s.sent
      <4>1. /\ taken \o byes = Append(taken \o s.byes, s.ssrc)
            /\ byes \in Seq(Nat \ {0})
        <5>1. byes = Append(s.byes, s.ssrc)
          BY <3>1
        <5>2. s.byes \in Seq(Nat \ {0}) /\ s.ssrc \in Nat \ {0}
          BY DEF Progress
        <5>3. Append(s.byes, s.ssrc) \in Seq(Nat \ {0})
          BY <5>2, AppendProperties, Zenon
        <5>4. taken \o Append(s.byes, s.ssrc) = Append(taken \o s.byes, s.ssrc)
          BY <2>2, QueueFarewell
        <5>5. QED
          BY <5>1, <5>3, <5>4, Zenon
      <4>2. /\ Increasing(taken \o byes) /\ Below(taken \o byes, s.ssrc + 1)
            /\ Range(taken \o byes) = Range(taken \o s.byes) \cup {s.ssrc}
        <5>1. /\ Increasing(taken \o s.byes) /\ Below(taken \o s.byes, s.ssrc)
              /\ taken \o s.byes \in Seq(Nat) /\ s.ssrc \in Nat
          BY <2>2 DEF Progress
        <5>2. QED
          BY <4>1, <5>1, AppendFarewell
      <4>3. QED
        BY <3>1, <4>1, <4>2 DEF Progress
    <3>2. CASE ~s.sent
      <4>1. Below(taken \o s.byes, s.ssrc + 1)
        BY <2>2, WeakerBound DEF Progress
      <4>2. QED
        BY <2>2, <3>2, <4>1 DEF Progress
    <3>3. QED
      BY <3>1, <3>2
  <2>4. /\ t.sched \in Sched
        /\ t.sched.byescheduled <=> (byes # <<>> /\ ~stranded)
        /\ stranded => byes # <<>>
    <3>1. CASE s.sent /\ s.byes = <<>>
      BY <2>1, <2>2, <3>1 DEF Progress, ScheduleBYEPacket, Sched
    <3>2. CASE s.sent /\ s.byes # <<>>
      <4>1. Len(byes) # 1 /\ byes # <<>>
        BY SMTT(30), <2>2, <3>2
      <4>2. t.sched = s.sched
        BY <2>1, <4>1
      <4>3. QED
        BY <3>2, <4>1, <4>2 DEF Progress
    <3>3. CASE ~s.sent
      BY <2>1, <3>3 DEF Progress
    <3>4. QED
      BY <3>1, <3>2, <3>3
  <2>5. t.ssrc = ssrc + Cardinality(t.coll \ collisionlist)
    <3>1. /\ t.coll \ collisionlist = (s.coll \ collisionlist) \cup {from}
          /\ from \notin s.coll \ collisionlist
          /\ s.coll \ collisionlist \subseteq Addrs
      BY <1>2, <2>1 DEF Progress
    <3>2. IsFiniteSet(s.coll \ collisionlist)
      BY <3>1, SessionAssumption, FS_Subset
    <3>3. Cardinality(t.coll \ collisionlist) = Cardinality(s.coll \ collisionlist) + 1
      BY <3>1, <3>2, FS_AddElement
    <3>4. Cardinality(s.coll \ collisionlist) \in Nat /\ ssrc \in Nat
      BY <3>2, FS_CardinalityType, SessionAssumption DEF TypeOK
    <3>5. QED
      <4>1. s.ssrc = ssrc + Cardinality(s.coll \ collisionlist)
        BY DEF Progress
      <4>2. QED
        BY <2>1, <3>3, <3>4, <4>1
  <2> HIDE DEF byes
  <2>6. Progress(t)
    <3> HIDE DEF t
    <3>1. /\ t.ssrc \in Nat \ {0} /\ t.coll \subseteq Addrs
          /\ used \subseteq 1..t.ssrc /\ t.ssrc \notin used
          /\ collisionlist \subseteq t.coll
      <4>1. /\ used \subseteq 1..s.ssrc /\ s.ssrc \in Nat \ {0}
            /\ s.coll \subseteq Addrs /\ collisionlist \subseteq s.coll
        BY DEF Progress
      <4>2. s.ssrc + 1 \notin 1..s.ssrc /\ 1..s.ssrc \subseteq 1..(s.ssrc + 1)
        BY <4>1
      <4>3. QED
        BY <2>1, <4>1, <4>2
    <3>2. QED
      BY <2>1, <2>3, <2>4, <2>5, <3>1 DEF Progress
  <2>7. QED
    BY <2>6
<1>3. QED
  BY <1>1, <1>2

\* However many packets a poll handles.
LEMMA ProgressLemma ==
    ASSUME Inv, created, NEW packs \in Colliding, NEW now \in BOOLEAN
    PROVE  Progress(AfterPackets(packs, now))
<1>1. packs \in Seq(Addrs)
  BY SessionAssumption DEF Colliding
<1>2. PICK g : /\ IsChain(g, packs, now, Len(packs))
               /\ AfterPackets(packs, now) = g[Len(packs)]
  BY <1>1, AfterPacketsDef
<1> DEFINE S == {m \in Nat : m <= Len(packs) => Progress(g[m])}
<1>3. 0 \in S
  BY <1>1, <1>2, ProgressStarts DEF IsChain
<1>4. ASSUME NEW m \in Nat, m \in S PROVE m + 1 \in S
  <2> SUFFICES ASSUME m + 1 <= Len(packs) PROVE Progress(g[m + 1])
    OBVIOUS
  <2>1. /\ m + 1 \in 0..Len(packs) /\ m + 1 # 0 /\ (m + 1) - 1 = m
        /\ m <= Len(packs) /\ packs[m + 1] \in Addrs
    BY <1>1
  <2>2. g[m + 1] = HandleOwnCollision(g[m], packs[m + 1], now)
    BY <1>2, <2>1 DEF IsChain
  <2>3. Progress(g[m]) /\ TypeOK
    BY <1>4, <2>1 DEF Inv
  <2>4. QED
    BY <2>1, <2>2, <2>3, ProgressStep
<1>5. Nat \subseteq S
  <2> HIDE DEF S
  <2>1. QED
    BY <1>3, <1>4, SetInduction
<1>6. QED
  BY <1>1, <1>2, <1>5

-----------------------------------------------------------------------------
(* The steps.                                                              *)

LEMMA ResetTyped == Reset \in Sched /\ ~Reset.byescheduled
  BY DEF Reset, Sched

LEMMA InitInv == Init => Inv
<1> SUFFICES ASSUME Init PROVE Inv
  OBVIOUS
<1>1. TypeOK
  <2>1. ssrc \in 0..MaxSsrc /\ <<>> \in Seq(1..MaxSsrc)
    BY SessionAssumption DEF Init
  <2>2. QED
    BY <2>1, ResetTyped DEF Init, TypeOK
<1>2. OneFarewell
  <2>1. taken \o byepackets = <<>>
    BY DEF Init
  <2>2. Increasing(taken \o byepackets)
    BY <2>1 DEF Increasing
  <2>3. QED
    BY <2>2 DEF Init, OneFarewell
<1>3. QED
  BY <1>1, <1>2
  DEF Init, Inv, AllOrNothing, ByeModeAsQueued, ClosedIsQuiet, StrandedWaits,
      UsedWhenSent, Reset

LEMMA CreateStep ==
    ASSUME Inv, Create
    PROVE  Inv'
<1>1. /\ byepackets = <<>> /\ byepackets' = <<>> /\ taken' = <<>>
      /\ ~stranded /\ ~stranded'
  BY DEF Create, Inv, ClosedIsQuiet, StrandedWaits
<1>2. TypeOK'
  <2>1. ssrc' \in 0..MaxSsrc /\ <<>> \in Seq(1..MaxSsrc)
    BY SessionAssumption DEF Create, Inv, TypeOK
  <2>2. QED
    BY <1>1, <2>1, ResetTyped DEF Create, Inv, TypeOK
<1>3. OneFarewell'
  <2>1. taken' \o byepackets' = <<>> /\ used' = {} /\ refused' = {}
    BY <1>1 DEF Create
  <2>2. Increasing(taken' \o byepackets')
    BY <2>1 DEF Increasing
  <2>3. Range(taken' \o byepackets') = {}
    BY <2>1 DEF Range
  <2>4. QED
    BY <2>1, <2>2, <2>3 DEF OneFarewell
<1>4. UsedWhenSent'
  BY SessionAssumption DEF Create, Inv, TypeOK, UsedWhenSent
<1>5. QED
  BY <1>1, <1>2, <1>3, <1>4
  DEF Create, Inv, AllOrNothing, ByeModeAsQueued, ClosedIsQuiet, StrandedWaits, Reset

\* Whichever stage fails, the error path destroys what there is by then.
LEMMA CleanUpLemma ==
    ASSUME NEW i \in DOMAIN Stages
    PROVE  Before(i) \subseteq CleanUp(i) /\ Before(i) \subseteq Components
<1>1. /\ Stages[1] = "rtptrans" /\ Stages[2] = "packetbuilder"
      /\ Stages[3] = "sources" /\ Stages[4] = "receivemode"
      /\ Stages[5] = "rtcpbuilder" /\ Stages[6] = "schedparams"
      /\ DOMAIN Stages = 1..6
  BY DEF Stages
<1>2. \A j \in 1..(i - 1) : j \in 1..5 /\ j < i
  BY <1>1
<1>3. CASE i = 1
  BY <1>1, <1>2, <1>3 DEF Before, CleanUp, Components
<1>4. CASE i = 2
  BY <1>1, <1>2, <1>4 DEF Before, CleanUp, Components
<1>5. CASE i = 3
  BY <1>1, <1>2, <1>5 DEF Before, CleanUp, Components
<1>6. CASE i = 4
  BY <1>1, <1>2, <1>6 DEF Before, CleanUp, Components
<1>7. CASE i = 5
  BY <1>1, <1>2, <1>7 DEF Before, CleanUp, Components
<1>8. CASE i = 6
  BY <1>1, <1>2, <1>8 DEF Before, CleanUp, Components
<1>9. QED
  BY <1>1, <1>3, <1>4, <1>5, <1>6, <1>7, <1>8

LEMMA CreateFailsStep ==
    ASSUME Inv, CreateFails
    PROVE  Inv'
<1>1. PICK i \in DOMAIN Stages : parts' = (parts \cup Before(i)) \ CleanUp(i)
  BY DEF CreateFails
<1>2. /\ ~created /\ parts = {} /\ parts' = {}
      /\ UNCHANGED <<created, byepackets, collisionlist, sched, history>>
      /\ sentpackets' = FALSE
  BY <1>1, CleanUpLemma DEF CreateFails, Inv, AllOrNothing
<1>3. ssrc' \in 0..MaxSsrc
  BY SessionAssumption DEF CreateFails, Inv, TypeOK
<1>4. QED
  BY <1>2, <1>3
  DEF Inv, TypeOK, AllOrNothing, ByeModeAsQueued, OneFarewell, ClosedIsQuiet,
      StrandedWaits, UsedWhenSent, history

LEMMA SendPacketStep ==
    ASSUME Inv, SendPacket
    PROVE  Inv'
<1>1. /\ created /\ created' /\ sentpackets' = TRUE /\ used' = used \cup {ssrc}
      /\ UNCHANGED <<created, parts, ssrc, byepackets, collisionlist, sched,
                     taken, refused, carried, stranded>>
  BY DEF SendPacket
<1>2. TypeOK' /\ UsedWhenSent'
  BY <1>1, SessionAssumption DEF Inv, TypeOK, UsedWhenSent
<1>3. OneFarewell'
  BY <1>1 DEF Inv, OneFarewell
<1>4. QED
  BY <1>1, <1>2, <1>3
  DEF Inv, AllOrNothing, ByeModeAsQueued, ClosedIsQuiet, StrandedWaits

LEMMA WaitStep ==
    ASSUME Inv, Wait
    PROVE  Inv'
<1>1. /\ created /\ sched' = [sched EXCEPT !.due = TRUE]
      /\ UNCHANGED <<created, parts, ssrc, sentpackets, byepackets, collisionlist, history>>
  BY DEF Wait
<1>2. sched' \in Sched /\ sched'.byescheduled = sched.byescheduled
  BY <1>1 DEF Inv, TypeOK, Sched
<1>3. QED
  BY <1>1, <1>2
  DEF Inv, TypeOK, AllOrNothing, ByeModeAsQueued, OneFarewell, ClosedIsQuiet,
      StrandedWaits, UsedWhenSent, history

\* Closing forgets what waits; what was offered stays in order.
LEMMA ClosedStep ==
    ASSUME Inv, Closed, taken' \in Seq(1..MaxSsrc), Increasing(taken'),
           refused' \subseteq Range(taken')
    PROVE  Inv'
<1>1. /\ created' = FALSE /\ parts' = {} /\ byepackets' = <<>> /\ collisionlist' = {}
      /\ sched' = Reset /\ stranded' = FALSE
      /\ UNCHANGED <<ssrc, sentpackets, used, carried>>
  BY DEF Closed
<1>2. taken' \o byepackets' = taken'
  BY <1>1
<1>3. TypeOK'
  <2>1. <<>> \in Seq(1..MaxSsrc)
    OBVIOUS
  <2>2. Range(taken') \subseteq 1..MaxSsrc
    BY RangeOfSeq
  <2>3. QED
    BY <1>1, <2>1, <2>2, ResetTyped DEF Inv, TypeOK
<1>4. OneFarewell'
  BY <1>1, <1>2 DEF OneFarewell
<1>5. QED
  BY <1>1, <1>3, <1>4
  DEF Inv, AllOrNothing, ByeModeAsQueued, ClosedIsQuiet, StrandedWaits,
      UsedWhenSent, Reset

LEMMA DestroyStep ==
    ASSUME Inv, Destroy
    PROVE  Inv'
<1>1. taken \in Seq(1..MaxSsrc) /\ taken \in Seq(Nat) /\ byepackets \in Seq(Nat)
  BY SsrcSeq DEF Inv, TypeOK
<1>2. Increasing(taken)
  <2>1. Increasing(taken \o byepackets) /\ 0 \in 0..Len(byepackets)
    BY <1>1 DEF Inv, OneFarewell
  <2>2. taken \o SubSeq(byepackets, 1, 0) = taken
    BY <1>1
  <2>3. QED
    BY <1>1, <2>1, <2>2, PrefixFarewell
<1>3. refused' \subseteq Range(taken') /\ taken' = taken
  BY DEF Destroy, Inv, OneFarewell
<1>4. QED
  BY <1>1, <1>2, <1>3, ClosedStep DEF Destroy

LEMMA BYEDestroyStep ==
    ASSUME Inv, BYEDestroy
    PROVE  Inv'
<1> DEFINE farewells == IF sentpackets THEN Append(byepackets, ssrc) ELSE byepackets
<1>1. PICK n \in 0..Len(farewells) :
          /\ Closed
          /\ taken' = taken \o SubSeq(farewells, 1, n)
          /\ \E lost \in SUBSET Range(SubSeq(farewells, 1, n)) : refused' = refused \cup lost
  BY DEF BYEDestroy
<1>2. /\ taken \in Seq(1..MaxSsrc) /\ taken \in Seq(Nat)
      /\ byepackets \in Seq(1..MaxSsrc) /\ byepackets \in Seq(Nat)
      /\ ssrc \in 1..MaxSsrc /\ ssrc \in Nat /\ created
  BY <1>1, SsrcSeq, SessionAssumption DEF Inv, TypeOK, Closed, UsedWhenSent
<1>3. farewells \in Seq(1..MaxSsrc) /\ farewells \in Seq(Nat)
  <2>1. Append(byepackets, ssrc) \in Seq(1..MaxSsrc)
    BY <1>2, AppendProperties, Zenon
  <2>2. QED
    BY <1>2, <2>1, SsrcSeq
<1>4. Increasing(taken \o farewells)
  <2>1. /\ Increasing(taken \o byepackets) /\ Below(taken \o byepackets, ssrc)
        /\ taken \o byepackets \in Seq(Nat)
    BY <1>2 DEF Inv, OneFarewell, Below
  <2>2. taken \o Append(byepackets, ssrc) = Append(taken \o byepackets, ssrc)
    BY <1>2, QueueFarewell
  <2>3. QED
    BY <1>2, <2>1, <2>2, AppendFarewell
<1> HIDE DEF farewells
<1>5. Increasing(taken')
  BY <1>1, <1>2, <1>3, <1>4, PrefixFarewell
<1>6. taken' \in Seq(1..MaxSsrc)
  <2>1. SubSeq(farewells, 1, n) \in Seq(1..MaxSsrc)
    BY <1>3, PrefixSeq
  <2>2. QED
    BY <1>1, <1>2, <2>1
<1>7. refused' \subseteq Range(taken')
  <2>1. SubSeq(farewells, 1, n) \in Seq(Nat)
    BY <1>3, PrefixSeq
  <2>2. Range(taken') = Range(taken) \cup Range(SubSeq(farewells, 1, n))
    BY <1>1, <1>2, <2>1, RangeOfBoth
  <2>3. refused \subseteq Range(taken)
    BY DEF Inv, OneFarewell
  <2>4. QED
    BY <1>1, <2>2, <2>3
<1>8. QED
  BY <1>1, <1>5, <1>6, <1>7, ClosedStep

-----------------------------------------------------------------------------
(* Polls.                                                                  *)

\* The scheduler's answer: when it is time, the BYE mode is over.
LEMMA IsTimeLemma ==
    ASSUME NEW sc \in Sched, NEW t \in IsTime(sc)
    PROVE  /\ t[2] \in Sched
           /\ t[1] => ~t[2].byescheduled
           /\ ~t[1] => t[2].byescheduled = sc.byescheduled
<1> DEFINE waits == [sc EXCEPT !.firstcall = FALSE, !.due = FALSE]
           passes == [waits EXCEPT !.byescheduled = FALSE]
<1>1. /\ waits \in Sched /\ waits.byescheduled = sc.byescheduled
      /\ passes \in Sched /\ passes.byescheduled = FALSE
  BY DEF Sched
<1> HIDE DEF waits, passes
<1>2. t \in {<<FALSE, waits>>, <<FALSE, sc>>, <<TRUE, passes>>}
  BY DEF IsTime, waits, passes
<1>3. CASE t = <<FALSE, waits>>
  BY <1>1, <1>3
<1>4. CASE t = <<FALSE, sc>>
  BY <1>4
<1>5. CASE t = <<TRUE, passes>>
  BY <1>1, <1>5
<1>6. QED
  BY <1>2, <1>3, <1>4, <1>5

LEMMA ScheduleLemma ==
    ASSUME NEW sc \in Sched, NEW now \in BOOLEAN
    PROVE  /\ ScheduleBYEPacket(sc, now) \in Sched
           /\ ScheduleBYEPacket(sc, now).byescheduled
  BY DEF ScheduleBYEPacket, Sched

\* What Inv says of the state a poll leaves, in terms of s and of what the call
\* made of its farewells.
LEMMA PollEnds ==
    ASSUME Inv, created, UNCHANGED <<created, parts>>,
           NEW s, Progress(s), s.ssrc <= MaxSsrc,
           ssrc' = s.ssrc, collisionlist' \subseteq Addrs,
           sentpackets' \in BOOLEAN,
           sched' \in Sched, stranded' \in BOOLEAN,
           sched'.byescheduled <=> (byepackets' # <<>> /\ ~stranded'),
           stranded' => byepackets' # <<>>,
           taken' \in Seq(Nat \ {0}), byepackets' \in Seq(Nat \ {0}),
           taken' \o byepackets' = taken \o s.byes,
           refused' \subseteq Range(taken'),
           carried' \in {carried, carried \cup {s.ssrc}},
           used' \in {used, used \cup {s.ssrc}},
           ~sentpackets' => s.ssrc \notin used',
           sentpackets' => s.ssrc \in used' \cup carried'
    PROVE  Inv'
<1>1. /\ s.ssrc \in 1..MaxSsrc
      /\ taken \in Seq(Nat) /\ s.byes \in Seq(Nat \ {0})
      /\ taken \in Seq(Nat \ {0})
  BY SessionAssumption, SsrcSeq DEF Progress, Inv, TypeOK
<1>2. OneFarewell'
  <2>1. /\ Increasing(taken' \o byepackets')
        /\ \A i \in DOMAIN (taken' \o byepackets') : (taken' \o byepackets')[i] < ssrc'
    BY DEF Progress, Below
  <2>2. used' \ {s.ssrc} \subseteq used \ {s.ssrc}
    OBVIOUS
  <2>3. used' \ {ssrc'} \subseteq Range(taken' \o byepackets')
    BY <2>2 DEF Progress
  <2>4. Range(taken' \o byepackets') = Range(taken') \cup Range(byepackets')
    <3>1. taken' \in Seq(Nat) /\ byepackets' \in Seq(Nat)
      BY SeqMonotonic
    <3>2. QED
      BY <3>1, RangeOfBoth
  <2>5. used' \ {ssrc'} \subseteq (Range(taken') \ refused') \cup Range(byepackets') \cup refused'
    BY <2>3, <2>4
  <2>6. Range(taken' \o byepackets') \subseteq used' \cup carried'
    <3>1. Range(taken \o s.byes) \subseteq used \cup carried
      BY DEF Progress
    <3>2. used \subseteq used' /\ carried \subseteq carried'
      OBVIOUS
    <3>3. QED
      BY <3>1, <3>2
  <2>7. QED
    BY <2>1, <2>5, <2>6 DEF OneFarewell
<1>3. taken' \in Seq(1..MaxSsrc) /\ byepackets' \in Seq(1..MaxSsrc)
  <2>1. Below(taken' \o byepackets', s.ssrc) /\ s.ssrc \in Nat
    BY <1>1 DEF Progress
  <2>2. byepackets' \in Seq(1..MaxSsrc)
    BY <1>1, <2>1, WaitingSeq, SeqMonotonic
  <2>3. taken' \in Seq(1..MaxSsrc)
    BY <1>1, <2>1, SaidSeq
  <2>4. QED
    BY <2>2, <2>3
<1>4. used' \subseteq 1..s.ssrc
  <2>1. used \subseteq 1..s.ssrc
    BY DEF Progress
  <2>2. s.ssrc \in 1..s.ssrc
    BY <1>1, SessionAssumption
  <2>3. QED
    BY <2>1, <2>2
<1>5. TypeOK'
  <2>1. used' \subseteq 1..MaxSsrc /\ ssrc' \in 0..MaxSsrc
    BY <1>1, <1>4, SessionAssumption
  <2>2. carried' \subseteq 1..MaxSsrc
    BY <1>1 DEF Inv, TypeOK
  <2>3. refused' \subseteq 1..MaxSsrc
    BY <1>3, RangeOfSeq
  <2>4. QED
    BY <1>3, <2>1, <2>2, <2>3 DEF Inv, TypeOK
<1>6. UsedWhenSent'
  <2>1. s.ssrc > 0
    BY <1>1
  <2>2. QED
    BY <1>4, <2>1 DEF UsedWhenSent
<1>7. AllOrNothing'
  BY DEF Inv, AllOrNothing
<1>8. ByeModeAsQueued' /\ StrandedWaits' /\ ClosedIsQuiet'
  BY DEF ByeModeAsQueued, StrandedWaits, ClosedIsQuiet
<1>9. QED
  BY <1>2, <1>5, <1>6, <1>7, <1>8 DEF Inv

LEMMA PollFailsStep ==
    ASSUME Inv, PollFails
    PROVE  Inv'
<1>1. PICK packs \in Colliding, now \in BOOLEAN :
          LET s == AfterPackets(packs, now)
          IN  /\ created
              /\ s.ssrc <= MaxSsrc
              /\ ssrc' = s.ssrc /\ sentpackets' = s.sent /\ byepackets' = s.byes
              /\ collisionlist' = s.coll /\ sched' = s.sched
              /\ UNCHANGED <<created, parts, history>>
  BY DEF PollFails
<1> DEFINE s == AfterPackets(packs, now)
<1>2. Progress(s)
  BY <1>1, ProgressLemma
<1> HIDE DEF s
<1>3. /\ taken \in Seq(Nat \ {0}) /\ stranded \in BOOLEAN
      /\ refused \subseteq Range(taken)
  BY SsrcSeq DEF Inv, TypeOK, OneFarewell
<1>4. /\ s.coll \subseteq Addrs /\ s.sent \in BOOLEAN /\ s.sched \in Sched
      /\ s.byes \in Seq(Nat \ {0})
      /\ s.sched.byescheduled <=> (s.byes # <<>> /\ ~stranded)
      /\ stranded => s.byes # <<>>
      /\ ~s.sent => s.ssrc \notin used
      /\ s.sent => s.ssrc \in used \cup carried
  BY <1>2 DEF Progress
<1>5. /\ created /\ UNCHANGED <<created, parts, used, taken, refused, carried, stranded>>
      /\ s.ssrc <= MaxSsrc
      /\ ssrc' = s.ssrc /\ sentpackets' = s.sent /\ byepackets' = s.byes
      /\ collisionlist' = s.coll /\ sched' = s.sched
  BY <1>1 DEF s, history
<1>6. QED
  BY <1>2, <1>3, <1>4, <1>5, PollEnds

\* A report or a BYE is due.
LEMMA ReportStep ==
    ASSUME Inv, created, UNCHANGED <<created, parts>>,
           NEW s, Progress(s), s.ssrc <= MaxSsrc,
           ssrc' = s.ssrc, collisionlist' \subseteq Addrs,
           NEW sc \in Sched, ~sc.byescheduled,
           NEW ok \in BOOLEAN, NEW again \in BOOLEAN, Report(s, sc, ok, again)
    PROVE  Inv'
<1>1. /\ taken \in Seq(Nat \ {0}) /\ taken \in Seq(Nat) /\ stranded \in BOOLEAN
      /\ s.byes \in Seq(Nat \ {0}) /\ s.byes \in Seq(Nat)
      /\ s.sent \in BOOLEAN
      /\ stranded => s.byes # <<>>
      /\ refused \subseteq Range(taken)
      /\ ~s.sent => s.ssrc \notin used
      /\ s.sent => s.ssrc \in used \cup carried
  BY SsrcSeq, SeqMonotonic DEF Progress, Inv, TypeOK, OneFarewell
<1>2. /\ sentpackets' = (s.sent \/ ok)
      /\ sentpackets' \in BOOLEAN
  BY <1>1 DEF Report
<1>3. CASE s.byes = <<>>
  <2>1. /\ used' = IF ok THEN used \cup {s.ssrc} ELSE used
        /\ byepackets' = s.byes /\ sched' = sc
        /\ UNCHANGED <<taken, refused, carried, stranded>> /\ ~stranded
    BY <1>1, <1>3 DEF Report
  <2>2. /\ ~sentpackets' => s.ssrc \notin used'
        /\ sentpackets' => s.ssrc \in used' \cup carried'
        /\ used' \in {used, used \cup {s.ssrc}}
    BY <1>1, <1>2, <2>1
  <2>3. taken' \o byepackets' = taken \o s.byes
    BY <2>1
  <2>4. QED
    BY <1>1, <1>2, <1>3, <2>1, <2>2, <2>3, PollEnds
<1>4. CASE s.byes # <<>>
  <2> DEFINE rest == Tail(s.byes)
  <2>1. /\ taken' = Append(taken, Head(s.byes)) /\ byepackets' = rest
        /\ refused' = IF ok THEN refused ELSE refused \cup {Head(s.byes)}
        /\ carried' = IF ok THEN carried \cup {s.ssrc} ELSE carried
        /\ sched' = IF ok /\ rest # <<>> THEN ScheduleBYEPacket(sc, again) ELSE sc
        /\ stranded' = (~ok /\ rest # <<>>) /\ used' = used
    BY <1>4 DEF Report
  <2>2. rest \in Seq(Nat \ {0}) /\ Head(s.byes) \in Nat \ {0}
    BY <1>1, <1>4, HeadTailProperties, Zenon
  <2>3. Append(taken, Head(s.byes)) \in Seq(Nat \ {0})
    BY <1>1, <2>2, AppendProperties, Zenon
  <2>4. Append(taken, Head(s.byes)) \o Tail(s.byes) = taken \o s.byes
    BY <1>1, <1>4, QueueFarewell
  <2>5. taken' \o byepackets' = taken \o s.byes
    BY <2>1, <2>4, Zenon
  <2> HIDE DEF rest
  <2>6. /\ sched' \in Sched /\ stranded' \in BOOLEAN
        /\ sched'.byescheduled <=> (byepackets' # <<>> /\ ~stranded')
        /\ stranded' => byepackets' # <<>>
    BY <2>1, ScheduleLemma
  <2>7. refused' \subseteq Range(taken')
    <3>1. Range(taken') = Range(taken) \cup {Head(s.byes)}
      BY <1>1, <2>1, <2>2, RangeOfAppend
    <3>2. QED
      BY <1>1, <2>1, <3>1
  <2>8. /\ ~sentpackets' => s.ssrc \notin used'
        /\ sentpackets' => s.ssrc \in used' \cup carried'
        /\ carried' \in {carried, carried \cup {s.ssrc}}
    BY <1>1, <1>2, <2>1
  <2>9. QED
    BY <1>2, <2>1, <2>2, <2>3, <2>5, <2>6, <2>7, <2>8, PollEnds
<1>5. QED
  BY <1>3, <1>4

LEMMA ProcessPolledDataStep ==
    ASSUME Inv, NEW ok \in BOOLEAN, ProcessPolledData(ok)
    PROVE  Inv'
<1>1. PICK packs \in Colliding, now \in BOOLEAN :
          LET s == AfterPackets(packs, now)
          IN  /\ created
              /\ s.ssrc <= MaxSsrc
              /\ \E old \in SUBSET (s.coll \ Range(packs)) :
                     collisionlist' = s.coll \ old
              /\ ssrc' = s.ssrc
              /\ \E t \in IsTime(s.sched), again \in BOOLEAN :
                     IF t[1] THEN Report(s, t[2], ok, again)
                     ELSE /\ sentpackets' = s.sent
                          /\ byepackets' = s.byes
                          /\ sched' = t[2]
                          /\ UNCHANGED history
              /\ UNCHANGED <<created, parts>>
  BY DEF ProcessPolledData
<1> DEFINE s == AfterPackets(packs, now)
<1>2. Progress(s)
  BY <1>1, ProgressLemma
<1> HIDE DEF s
<1>3. /\ created /\ UNCHANGED <<created, parts>> /\ s.ssrc <= MaxSsrc
      /\ ssrc' = s.ssrc /\ collisionlist' \subseteq s.coll
      /\ \E t \in IsTime(s.sched), again \in BOOLEAN :
            IF t[1] THEN Report(s, t[2], ok, again)
            ELSE /\ sentpackets' = s.sent
                 /\ byepackets' = s.byes
                 /\ sched' = t[2]
                 /\ UNCHANGED history
  BY <1>1 DEF s
<1>4. PICK t \in IsTime(s.sched), again \in BOOLEAN :
          IF t[1] THEN Report(s, t[2], ok, again)
          ELSE /\ sentpackets' = s.sent
               /\ byepackets' = s.byes
               /\ sched' = t[2]
               /\ UNCHANGED history
  BY <1>3
<1>5. /\ collisionlist' \subseteq Addrs /\ s.sched \in Sched
      /\ s.sent \in BOOLEAN /\ s.byes \in Seq(Nat \ {0})
      /\ s.sched.byescheduled <=> (s.byes # <<>> /\ ~stranded)
      /\ stranded => s.byes # <<>>
      /\ ~s.sent => s.ssrc \notin used
      /\ s.sent => s.ssrc \in used \cup carried
  BY <1>2, <1>3 DEF Progress
<1>6. /\ t[2] \in Sched
      /\ t[1] => ~t[2].byescheduled
      /\ ~t[1] => t[2].byescheduled = s.sched.byescheduled
  BY <1>5, IsTimeLemma
<1>7. CASE t[1]
  BY <1>2, <1>3, <1>4, <1>5, <1>6, <1>7, ReportStep
<1>8. CASE ~t[1]
  <2>1. /\ taken \in Seq(Nat \ {0}) /\ stranded \in BOOLEAN
        /\ refused \subseteq Range(taken)
    BY SsrcSeq DEF Inv, TypeOK, OneFarewell
  <2>2. /\ sentpackets' = s.sent /\ byepackets' = s.byes /\ sched' = t[2]
        /\ UNCHANGED <<used, taken, refused, carried, stranded>>
    BY <1>4, <1>8 DEF history
  <2>3. QED
    BY <1>2, <1>3, <1>5, <1>6, <1>8, <2>1, <2>2, PollEnds
<1>9. QED
  BY <1>7, <1>8

-----------------------------------------------------------------------------
(* The theorems.                                                           *)

LEMMA NextInv ==
    ASSUME Inv, [Next]_vars
    PROVE  Inv'
<1>1. CASE Create
  BY <1>1, CreateStep
<1>2. CASE CreateFails
  BY <1>2, CreateFailsStep
<1>3. CASE SendPacket
  BY <1>3, SendPacketStep
<1>4. CASE ProcessPolledData(TRUE) \/ ProcessPolledData(FALSE)
  BY <1>4, ProcessPolledDataStep
<1>5. CASE PollFails
  BY <1>5, PollFailsStep
<1>6. CASE Destroy
  BY <1>6, DestroyStep
<1>7. CASE BYEDestroy
  BY <1>7, BYEDestroyStep
<1>8. CASE Wait
  BY <1>8, WaitStep
<1>9. CASE UNCHANGED vars
  BY <1>9
  DEF vars, history, Inv, TypeOK, AllOrNothing, ByeModeAsQueued, OneFarewell, ClosedIsQuiet,
      StrandedWaits, UsedWhenSent
<1>10. QED
  BY <1>1, <1>2, <1>3, <1>4, <1>5, <1>6, <1>7, <1>8, <1>9 DEF Next

\* Inv holds in every reachable state of the session.
THEOREM InvTheorem == Spec => []Inv
  BY InitInv, NextInv, PTL DEF Spec

\* Type correctness, for any number of addresses, SSRCs and packets per poll.
THEOREM TypeCorrect == Spec => []TypeOK
<1>1. Inv => TypeOK
  BY DEF Inv
<1>2. QED
  BY <1>1, InvTheorem, PTL

\* Whichever stage of Create fails, and however the session is closed, nothing of
\* it is left.
THEOREM AllOrNothingTheorem == Spec => []AllOrNothing
<1>1. Inv => AllOrNothing
  BY DEF Inv
<1>2. QED
  BY <1>1, InvTheorem, PTL

\* The scheduler is in BYE mode exactly while a BYE waits that was not stranded.
THEOREM ByeModeTheorem == Spec => []ByeModeAsQueued
<1>1. Inv => ByeModeAsQueued
  BY DEF Inv
<1>2. QED
  BY <1>1, InvTheorem, PTL

\* Every SSRC given up after something was sent with it has one BYE, in order, and it
\* waits, has been sent, or was lost in the one send that failed; never one in use.
THEOREM OneFarewellTheorem == Spec => []OneFarewell
<1>1. Inv => OneFarewell
  BY DEF Inv
<1>2. QED
  BY <1>1, InvTheorem, PTL

\* The SSRCs a poll draws are at most as many as the addresses not in the
\* collision list yet, however many packets they send.
LEMMA DrawnInPoll ==
    ASSUME Inv, created, NEW packs \in Colliding, NEW now \in BOOLEAN,
           ssrc' = AfterPackets(packs, now).ssrc
    PROVE  ssrc' - ssrc <= Cardinality(Addrs \ collisionlist)
<1> DEFINE s == AfterPackets(packs, now)
<1>1. Progress(s)
  BY ProgressLemma
<1> HIDE DEF s
<1>2. /\ s.coll \ collisionlist \in SUBSET (Addrs \ collisionlist)
      /\ s.ssrc = ssrc + Cardinality(s.coll \ collisionlist)
  BY <1>1 DEF Progress
<1>3. IsFiniteSet(Addrs \ collisionlist)
  BY SessionAssumption, FS_Subset
<1>4. /\ Cardinality(s.coll \ collisionlist) <= Cardinality(Addrs \ collisionlist)
      /\ IsFiniteSet(s.coll \ collisionlist)
  BY <1>2, <1>3, FS_Subset
<1>5. /\ Cardinality(s.coll \ collisionlist) \in Nat
      /\ Cardinality(Addrs \ collisionlist) \in Nat /\ ssrc \in Nat
  BY <1>3, <1>4, FS_CardinalityType, SessionAssumption DEF Inv, TypeOK
<1>6. ssrc' = s.ssrc
  BY DEF s
<1>7. QED
  BY <1>2, <1>4, <1>5, <1>6

\* An address already seen colliding never makes the session change its SSRC: in
\* one call it draws no more SSRCs than there are other addresses.
THEOREM LoopEndsTheorem == Spec => LoopEnds
<1>1. ASSUME Inv, [Next]_vars, created, created'
      PROVE  ssrc' - ssrc <= Cardinality(Addrs \ collisionlist)
  <2>1. CASE \E ok \in BOOLEAN : ProcessPolledData(ok)
    BY <1>1, <2>1, DrawnInPoll DEF ProcessPolledData
  <2>2. CASE PollFails
    BY <1>1, <2>2, DrawnInPoll DEF PollFails
  <2>3. CASE ssrc' = ssrc
    <3>1. IsFiniteSet(Addrs \ collisionlist)
      BY SessionAssumption, FS_Subset
    <3>2. Cardinality(Addrs \ collisionlist) \in Nat /\ ssrc \in Nat
      BY <1>1, <3>1, FS_CardinalityType, SessionAssumption DEF Inv, TypeOK
    <3>3. QED
      BY <2>3, <3>2
  <2>4. QED
    BY <1>1, <2>1, <2>2, <2>3
    DEF Next, vars, Create, CreateFails, SendPacket, Destroy, BYEDestroy, Closed, Wait
<1>2. QED
  BY <1>1, InvTheorem, PTL DEF Spec, LoopEnds

-----------------------------------------------------------------------------
(* The packets of RTCP built for the session, RtcpReports: picking out of  *)
(* a sequence.                                                             *)

\* What is picked of the first k elements, up to the n-th.
Pick(h, x, S) == IF x \in S THEN Append(h, x) ELSE h
IsPicking(g, seq, S, n) ==
    g = [k \in 0 .. n |-> IF k = 0 THEN <<>> ELSE Pick(g[k - 1], seq[k], S)]

LEMMA PickingExists ==
    ASSUME NEW seq, NEW S, NEW n \in Nat
    PROVE  \E g : IsPicking(g, seq, S, n)
<1> DEFINE T == {m \in Nat : \E g : IsPicking(g, seq, S, m)}
<1>1. 0 \in T
  <2>1. IsPicking([k \in 0 .. 0 |-> <<>>], seq, S, 0)
    BY DEF IsPicking
  <2>2. QED
    BY <2>1
<1>2. ASSUME NEW m \in Nat, m \in T PROVE m + 1 \in T
  <2>1. PICK g : IsPicking(g, seq, S, m)
    BY <1>2
  <2> DEFINE h == [k \in 0 .. (m + 1) |->
                      IF k = 0 THEN <<>> ELSE Pick(g[k - 1], seq[k], S)]
  <2>2. \A k \in 0 .. m : h[k] = g[k]
    BY <2>1 DEF IsPicking
  <2>3. \A k \in 0 .. (m + 1) : k # 0 => h[k - 1] = g[k - 1]
    <3>1. \A k \in 0 .. (m + 1) : k # 0 => k - 1 \in 0 .. m
      OBVIOUS
    <3> HIDE DEF h
    <3>2. QED
      BY <2>2, <3>1
  <2>4. IsPicking(h, seq, S, m + 1)
    BY <2>3 DEF IsPicking
  <2>5. QED
    BY <2>4
<1>3. Nat \subseteq T
  <2> HIDE DEF T
  <2>1. QED
    BY <1>1, <1>2, SetInduction
<1>4. QED
  BY <1>3

LEMMA AmongDef ==
    ASSUME NEW U, NEW seq \in Seq(U), NEW S
    PROVE  \E g : IsPicking(g, seq, S, Len(seq)) /\ Among(seq, S) = g[Len(seq)]
<1> DEFINE g == CHOOSE f : IsPicking(f, seq, S, Len(seq))
<1>1. IsPicking(g, seq, S, Len(seq))
  BY PickingExists
<1>2. Among(seq, S) = g[Len(seq)]
  BY DEF Among, IsPicking, Pick
<1>3. QED
  BY <1>1, <1>2

LEMMA EmptyLemma ==
    ASSUME NEW U
    PROVE  <<>> \in Seq(U) /\ ToSet(<<>>) = {} /\ IsInjective(<<>>) /\ Len(<<>>) = 0
<1>1. <<>> \in Seq(U) /\ Len(<<>>) = 0 /\ DOMAIN <<>> = {}
  OBVIOUS
<1>2. QED
  BY <1>1 DEF ToSet, IsInjective

\* One more element at the end.
LEMMA AppendLemma ==
    ASSUME NEW U, NEW seq \in Seq(U), NEW x \in U
    PROVE  /\ Append(seq, x) \in Seq(U) /\ ToSet(Append(seq, x)) = ToSet(seq) \cup {x}
           /\ IsInjective(seq) /\ x \notin ToSet(seq) => IsInjective(Append(seq, x))
<1> DEFINE out == Append(seq, x)
           n == Len(seq)
<1>1. /\ out \in Seq(U) /\ n \in Nat /\ DOMAIN seq = 1 .. n /\ DOMAIN out = 1 .. (n + 1)
      /\ \A j \in 1 .. n : out[j] = seq[j]
      /\ out[n + 1] = x
  OBVIOUS
<1> HIDE DEF out, n
<1>2. ToSet(out) = ToSet(seq) \cup {x}
  <2>1. \A j \in 1 .. (n + 1) : j \in 1 .. n \/ j = n + 1
    BY <1>1
  <2>2. \A j \in 1 .. n : j \in 1 .. (n + 1)
    BY <1>1
  <2>3. n + 1 \in 1 .. (n + 1)
    BY <1>1
  <2>4. QED
    BY <1>1, <2>1, <2>2, <2>3 DEF ToSet
<1>3. ASSUME IsInjective(seq), x \notin ToSet(seq) PROVE IsInjective(out)
  <2> SUFFICES ASSUME NEW a \in 1 .. (n + 1), NEW b \in 1 .. (n + 1), out[a] = out[b]
               PROVE  a = b
    BY <1>1 DEF IsInjective
  <2>1. (a \in 1 .. n \/ a = n + 1) /\ (b \in 1 .. n \/ b = n + 1)
    BY <1>1
  <2>2. \A j \in 1 .. n : out[j] # x
    BY <1>1, <1>3 DEF ToSet
  <2>3. QED
    BY <1>1, <1>3, <2>1, <2>2 DEF IsInjective
<1>4. QED
  BY <1>1, <1>2, <1>3 DEF out

\* Among yields the elements in S, each as often as before.
LEMMA AmongLemma ==
    ASSUME NEW U, NEW seq \in Seq(U), NEW S
    PROVE  /\ Among(seq, S) \in Seq(U) /\ ToSet(Among(seq, S)) = ToSet(seq) \cap S
           /\ IsInjective(seq) => IsInjective(Among(seq, S))
<1> DEFINE n == Len(seq)
           Upto(m) == {seq[i] : i \in 1 .. m}
<1>1. n \in Nat /\ DOMAIN seq = 1 .. n /\ \A i \in 1 .. n : seq[i] \in U
  OBVIOUS
<1>2. PICK g : IsPicking(g, seq, S, n) /\ Among(seq, S) = g[n]
  BY AmongDef
<1> DEFINE Right(m) == /\ g[m] \in Seq(U) /\ ToSet(g[m]) = Upto(m) \cap S
                       /\ IsInjective(seq) => IsInjective(g[m])
           T == {m \in Nat : m <= n => Right(m)}
<1> HIDE DEF n
<1>3. 0 \in T
  <2>1. g[0] = <<>>
    BY <1>1, <1>2 DEF IsPicking
  <2>2. Upto(0) = {}
    OBVIOUS
  <2> HIDE DEF Upto
  <2>3. Right(0)
    BY <2>1, <2>2, EmptyLemma
  <2>4. QED
    BY <2>3
<1>4. ASSUME NEW m \in Nat, m \in T PROVE m + 1 \in T
  <2> SUFFICES ASSUME m + 1 <= n PROVE Right(m + 1)
    OBVIOUS
  <2>1. /\ m + 1 \in 0 .. n /\ m + 1 \in 1 .. n /\ m + 1 # 0 /\ (m + 1) - 1 = m /\ m <= n
        /\ \A i \in 1 .. m : i \in 1 .. n /\ i # m + 1
    BY <1>1
  <2>2. Right(m)
    BY <1>4, <2>1
  <2>3. g[m + 1] = IF seq[m + 1] \in S THEN Append(g[m], seq[m + 1]) ELSE g[m]
    BY <1>2, <2>1 DEF IsPicking, Pick
  <2>4. Upto(m + 1) = Upto(m) \cup {seq[m + 1]} /\ seq[m + 1] \in U
    <3>1. \A i \in 1 .. (m + 1) : i \in 1 .. m \/ i = m + 1
      OBVIOUS
    <3>2. \A i \in 1 .. m : i \in 1 .. (m + 1)
      OBVIOUS
    <3>3. m + 1 \in 1 .. (m + 1)
      OBVIOUS
    <3>4. QED
      BY <1>1, <2>1, <3>1, <3>2, <3>3
  <2>5. IsInjective(seq) => seq[m + 1] \notin Upto(m)
    BY <1>1, <2>1 DEF IsInjective
  <2> HIDE DEF Upto
  <2>6. CASE seq[m + 1] \in S
    <3>1. /\ Append(g[m], seq[m + 1]) \in Seq(U)
          /\ ToSet(Append(g[m], seq[m + 1])) = ToSet(g[m]) \cup {seq[m + 1]}
          /\ IsInjective(g[m]) /\ seq[m + 1] \notin ToSet(g[m])
             => IsInjective(Append(g[m], seq[m + 1]))
      BY <2>2, <2>4, AppendLemma
    <3>2. QED
      BY <2>2, <2>3, <2>4, <2>5, <2>6, <3>1
  <2>7. CASE seq[m + 1] \notin S
    BY <2>2, <2>3, <2>4, <2>7
  <2>8. QED
    BY <2>6, <2>7
<1>5. Nat \subseteq T
  <2> HIDE DEF T
  <2>1. QED
    BY <1>3, <1>4, SetInduction
<1>6. Right(n)
  <2>1. n \in T /\ n <= n
    BY <1>1, <1>5
  <2> HIDE DEF Right
  <2>2. QED
    BY <2>1
<1>7. Upto(n) = ToSet(seq)
  BY <1>1 DEF ToSet
<1>8. QED
  BY <1>2, <1>6, <1>7

\* The first n elements, or all of them if there are no more.
LEMMA FirstOfLemma ==
    ASSUME NEW U, NEW seq \in Seq(U), NEW n \in Int
    PROVE  /\ FirstOf(seq, n) \in Seq(U) /\ ToSet(FirstOf(seq, n)) \subseteq ToSet(seq)
           /\ IsInjective(seq) => IsInjective(FirstOf(seq, n))
           /\ Len(FirstOf(seq, n)) = Len(seq) => FirstOf(seq, n) = seq
           /\ n \in Nat => Len(FirstOf(seq, n)) <= n
<1>1. Len(seq) \in Nat /\ DOMAIN seq = 1 .. Len(seq) /\ \A i \in 1 .. Len(seq) : seq[i] \in U
  OBVIOUS
<1>2. CASE Len(seq) <= n
  BY <1>2 DEF FirstOf
<1>3. CASE n < Len(seq) /\ n <= 0
  <2>1. FirstOf(seq, n) = <<>>
    BY <1>1, <1>3, SubSeqEmpty DEF FirstOf
  <2>2. Len(seq) # 0 => Len(<<>>) # Len(seq)
    BY EmptyLemma
  <2>3. Len(seq) = 0 => seq = <<>>
    OBVIOUS
  <2>4. n \in Nat => Len(<<>>) <= n
    BY EmptyLemma
  <2>5. QED
    BY <2>1, <2>2, <2>3, <2>4, EmptyLemma
<1>4. CASE n < Len(seq) /\ n > 0
  <2> DEFINE out == SubSeq(seq, 1, n)
  <2>1. FirstOf(seq, n) = out /\ n \in Nat /\ 1 \in Int
    BY <1>1, <1>4 DEF FirstOf
  <2>2. /\ out \in Seq(U) /\ Len(out) = n /\ DOMAIN out = 1 .. n
        /\ \A i \in 1 .. n : out[i] = seq[i] /\ i \in 1 .. Len(seq)
    BY <1>1, <1>4
  <2> HIDE DEF out
  <2>3. ToSet(out) \subseteq ToSet(seq)
    BY <1>1, <2>2 DEF ToSet
  <2>4. IsInjective(seq) => IsInjective(out)
    BY <1>1, <2>2 DEF IsInjective
  <2>5. Len(out) # Len(seq) /\ Len(out) <= n
    <3>1. Len(out) = n
      BY <2>2
    <3> DEFINE l == Len(seq)
    <3>2. l \in Nat /\ l > n
      BY <1>1, <1>4
    <3> HIDE DEF l
    <3>3. l # n
      BY <3>2
    <3>4. n <= n
      OBVIOUS
    <3>5. QED
      BY <3>1, <3>3, <3>4 DEF l
  <2>6. QED
    BY <2>1, <2>2, <2>3, <2>4, <2>5
<1>5. QED
  BY <1>1, <1>2, <1>3, <1>4

\* Two sequences one after the other.
LEMMA ConcatLemma ==
    ASSUME NEW U, NEW one \in Seq(U), NEW two \in Seq(U)
    PROVE  /\ one \o two \in Seq(U) /\ ToSet(one \o two) = ToSet(one) \cup ToSet(two)
           /\ IsInjective(one) /\ IsInjective(two) /\ ToSet(one) \cap ToSet(two) = {}
              => IsInjective(one \o two)
<1> DEFINE m == Len(one)
           n == Len(two)
           out == one \o two
<1>1. /\ m \in Nat /\ n \in Nat /\ DOMAIN one = 1 .. m /\ DOMAIN two = 1 .. n
      /\ out \in Seq(U) /\ DOMAIN out = 1 .. (m + n)
      /\ \A i \in 1 .. (m + n) : out[i] = IF i <= m THEN one[i] ELSE two[i - m]
  BY ConcatProperties
<1> HIDE DEF m, n, out
<1>2. /\ \A i \in 1 .. (m + n) : \/ i \in 1 .. m /\ out[i] = one[i]
                                 \/ i - m \in 1 .. n /\ out[i] = two[i - m]
      /\ \A i \in 1 .. m : i \in 1 .. (m + n) /\ out[i] = one[i]
      /\ \A i \in 1 .. n : m + i \in 1 .. (m + n) /\ out[m + i] = two[i]
  <2>1. \A i \in 1 .. (m + n) : IF i <= m THEN i \in 1 .. m ELSE i - m \in 1 .. n
    BY <1>1
  <2>2. \A i \in 1 .. m : i \in 1 .. (m + n) /\ i <= m
    BY <1>1
  <2>3. \A i \in 1 .. n : m + i \in 1 .. (m + n) /\ ~(m + i <= m) /\ (m + i) - m = i
    BY <1>1
  <2>4. ASSUME NEW i \in 1 .. (m + n)
        PROVE  \/ i \in 1 .. m /\ out[i] = one[i]
               \/ i - m \in 1 .. n /\ out[i] = two[i - m]
    <3>1. out[i] = IF i <= m THEN one[i] ELSE two[i - m]
      BY <1>1
    <3>2. QED
      BY <2>1, <3>1
  <2>5. ASSUME NEW i \in 1 .. m PROVE i \in 1 .. (m + n) /\ out[i] = one[i]
    BY <1>1, <2>2
  <2>6. ASSUME NEW i \in 1 .. n PROVE m + i \in 1 .. (m + n) /\ out[m + i] = two[i]
    <3>1. m + i \in 1 .. (m + n) /\ ~(m + i <= m) /\ (m + i) - m = i
      BY <2>3
    <3>2. out[m + i] = two[(m + i) - m]
      BY <1>1, <3>1
    <3>3. QED
      BY <3>1, <3>2
  <2>7. QED
    BY <2>4, <2>5, <2>6
<1>3. ToSet(out) = ToSet(one) \cup ToSet(two)
  <2>1. \A i \in DOMAIN out : out[i] \in ToSet(one) \cup ToSet(two)
    BY <1>1, <1>2 DEF ToSet
  <2>2. \A i \in DOMAIN one : one[i] \in ToSet(out)
    BY <1>1, <1>2 DEF ToSet
  <2>3. \A i \in DOMAIN two : two[i] \in ToSet(out)
    <3>1. \A i \in 1 .. n : out[m + i] \in ToSet(out)
      BY <1>1, <1>2 DEF ToSet
    <3>2. QED
      BY <1>1, <1>2, <3>1
  <2>4. ToSet(out) \subseteq ToSet(one) \cup ToSet(two)
    BY <2>1 DEF ToSet
  <2>5. ToSet(one) \subseteq ToSet(out) /\ ToSet(two) \subseteq ToSet(out)
    BY <2>2, <2>3 DEF ToSet
  <2>6. QED
    BY <2>4, <2>5
<1>4. ASSUME IsInjective(one), IsInjective(two), ToSet(one) \cap ToSet(two) = {}
      PROVE  IsInjective(out)
  <2> SUFFICES ASSUME NEW a \in 1 .. (m + n), NEW b \in 1 .. (m + n), out[a] = out[b]
               PROVE  a = b
    BY <1>1 DEF IsInjective
  <2>1. \A i \in 1 .. m, j \in 1 .. n : one[i] # two[j]
    BY <1>1, <1>4 DEF ToSet
  <2>2. CASE a \in 1 .. m /\ out[a] = one[a]
    <3>1. b \in 1 .. m /\ out[b] = one[b]
      BY <1>2, <2>1, <2>2
    <3>2. QED
      BY <1>1, <1>4, <2>2, <3>1 DEF IsInjective
  <2>3. CASE a - m \in 1 .. n /\ out[a] = two[a - m]
    <3>1. b - m \in 1 .. n /\ out[b] = two[b - m]
      BY <1>2, <2>1, <2>3
    <3>2. a - m = b - m
      BY <1>1, <1>4, <2>3, <3>1 DEF IsInjective
    <3>3. QED
      BY <1>1, <3>2
  <2>4. QED
    BY <1>2, <2>2, <2>3
<1>5. QED
  BY <1>1, <1>3, <1>4 DEF out

-----------------------------------------------------------------------------
(* The invariant of the packets built.                                     *)

LEMMA FillLemma ==
    ASSUME list \in Seq(Sources), NEW marked, NEW max \in Int, NEW room \in Int
    PROVE  /\ FillInReportBlocks(marked, max, room).taken \in Seq(Sources)
           /\ ToSet(FillInReportBlocks(marked, max, room).taken) \subseteq ToSet(list)
           /\ FillInReportBlocks(marked, max, room).skipped \in Nat
<1> DEFINE open == Among(list, {s \in ToSet(list) : ShouldProcess(s)} \ marked)
           n == IF max < room THEN max ELSE room
           passed == {s \in ToSet(list) : ShouldProcess(s) /\ s \in marked}
<1>1. open \in Seq(Sources) /\ ToSet(open) \subseteq ToSet(list)
  BY AmongLemma
<1>2. FirstOf(open, n) \in Seq(Sources) /\ ToSet(FirstOf(open, n)) \subseteq ToSet(open)
  <2>1. n \in Int
    OBVIOUS
  <2> HIDE DEF open, n
  <2>2. QED
    BY <1>1, <2>1, FirstOfLemma
<1>3. Cardinality(passed) \in Nat
  <2>1. passed \subseteq Sources
    BY DEF ToSet
  <2> HIDE DEF passed
  <2>2. QED
    BY <2>1, RtcpReportsAssumption, FS_Subset, FS_CardinalityType
<1>4. /\ FillInReportBlocks(marked, max, room).taken = FirstOf(open, n)
      /\ FillInReportBlocks(marked, max, room).skipped = Cardinality(passed)
  BY DEF FillInReportBlocks
<1> HIDE DEF open, n, passed
<1>5. QED
  BY <1>1, <1>2, <1>3, <1>4

LEMMA ItemsLemma ==
    ASSUME NEW items \in SUBSET ItemNames, NEW flags, NEW room \in Int
    PROVE  /\ FillInSDES(items, flags, room).taken \in Seq(ItemNames)
           /\ IsInjective(FillInSDES(items, flags, room).taken)
           /\ ToSet(FillInSDES(items, flags, room).taken) \subseteq items \ flags
           /\ FillInSDES(items, flags, room).processedall
              => ToSet(FillInSDES(items, flags, room).taken) = items \ flags
<1> DEFINE todo == Among(Items, items \ flags)
<1>1. Items \in Seq(ItemNames) /\ IsInjective(Items) /\ ToSet(Items) = ItemNames
  BY RtcpReportsAssumption DEF ItemNames, ToSet
<1>2. todo \in Seq(ItemNames) /\ IsInjective(todo) /\ ToSet(todo) = items \ flags
  <2>1. /\ todo \in Seq(ItemNames) /\ IsInjective(todo)
        /\ ToSet(todo) = ItemNames \cap (items \ flags)
    BY <1>1, AmongLemma
  <2> HIDE DEF todo
  <2>2. QED
    BY <2>1
<1>3. /\ FillInSDES(items, flags, room).taken = FirstOf(todo, room)
      /\ FillInSDES(items, flags, room).processedall <=> Len(FirstOf(todo, room)) = Len(todo)
  BY DEF FillInSDES
<1> HIDE DEF todo
<1>4. /\ FirstOf(todo, room) \in Seq(ItemNames) /\ IsInjective(FirstOf(todo, room))
      /\ ToSet(FirstOf(todo, room)) \subseteq ToSet(todo)
      /\ Len(FirstOf(todo, room)) = Len(todo) => FirstOf(todo, room) = todo
  BY <1>2, FirstOfLemma
<1>5. QED
  BY <1>2, <1>3, <1>4

\* A function of the places of a sequence is a sequence.
LEMMA MappedLemma ==
    ASSUME NEW U, NEW V, NEW seq \in Seq(U), NEW f \in [DOMAIN seq -> V]
    PROVE  f \in Seq(V)
<1>1. Len(seq) \in Nat /\ DOMAIN seq = 1 .. Len(seq)
  OBVIOUS
<1>2. f \in [1 .. Len(seq) -> V]
  BY <1>1
<1>3. QED
  BY <1>1, <1>2, SeqDef

LEMMA BlocksLemma ==
    ASSUME ReportsTypeOK, NEW one \in Seq(Sources), NEW two \in Seq(Sources)
    PROVE  Reports(one, two) \in Seq(ReportBlock)
<1> DEFINE a == [i \in DOMAIN one |-> [src |-> one[i], num |-> pending[one[i]]]]
           b == [i \in DOMAIN two |-> [src |-> two[i],
                      num |-> IF two[i] \in ToSet(one) THEN 0 ELSE pending[two[i]]]]
<1>1. pending \in [Sources -> 0 .. MaxPending] /\ 0 \in 0 .. MaxPending
  BY RtcpReportsAssumption DEF ReportsTypeOK
<1>2. (\A i \in DOMAIN one : one[i] \in Sources) /\ (\A i \in DOMAIN two : two[i] \in Sources)
  OBVIOUS
<1>3. a \in [DOMAIN one -> ReportBlock] /\ b \in [DOMAIN two -> ReportBlock]
  BY <1>1, <1>2 DEF ReportBlock
<1>4. Reports(one, two) = a \o b
  BY DEF Reports
<1> HIDE DEF a, b
<1>5. a \in Seq(ReportBlock) /\ b \in Seq(ReportBlock)
  BY <1>3, MappedLemma
<1>6. QED
  BY <1>4, <1>5

\* What every packet does keeps its types.
LEMMA BuiltLemma ==
    ASSUME ReportsTypeOK, NEW one \in Seq(Sources), NEW two \in Seq(Sources),
           NEW items \in Seq(ItemNames), Built(one, two, items)
    PROVE  /\ packet'.reports \in Seq(ReportBlock) /\ packet'.items \in Seq(ItemNames)
           /\ pending' \in [Sources -> 0 .. MaxPending] /\ waited' \in [Sources -> Nat]
           /\ fresh' = {} /\ firstpacket' = FALSE
           /\ list' = list /\ csrc' = csrc /\ sentdata' = sentdata
<1>1. packet'.reports \in Seq(ReportBlock) /\ packet'.items \in Seq(ItemNames)
  <2>1. packet'.reports = Reports(one, two) /\ packet'.items = items
    BY DEF Built
  <2>2. QED
    BY <2>1, BlocksLemma
<1>2. pending' \in [Sources -> 0 .. MaxPending]
  BY RtcpReportsAssumption DEF Built, ReportsTypeOK
<1>3. waited' \in [Sources -> Nat]
  BY DEF Built, ReportsTypeOK
<1>4. QED
  BY <1>1, <1>2, <1>3 DEF Built

\* What is left to show of a packet when its reports and items are typed.
LEMMA RoundLemma ==
    ASSUME ReportsInv, NEW one \in Seq(Sources), NEW two \in Seq(Sources),
           NEW items \in Seq(ItemNames), Built(one, two, items),
           processed' \subseteq ToSet(list), processingsdes' \in BOOLEAN,
           sdesbuildcount' \in 0 .. Period - 1, due' \subseteq ItemNames,
           round' \in Seq(ItemNames), IsInjective(round'), ToSet(round') \subseteq due',
           ~processingsdes' => ToSet(round') = due',
           handled' = IF processingsdes' THEN ToSet(round') ELSE {}
    PROVE  ReportsInv'
<1>1. ReportsTypeOK /\ ItemsOnce /\ FlagsTell
  BY DEF ReportsInv
<1>2. /\ packet'.reports \in Seq(ReportBlock) /\ packet'.items \in Seq(ItemNames)
      /\ pending' \in [Sources -> 0 .. MaxPending] /\ waited' \in [Sources -> Nat]
      /\ fresh' = {} /\ firstpacket' = FALSE
      /\ list' = list /\ csrc' = csrc /\ sentdata' = sentdata
  BY <1>1, BuiltLemma
<1>3. ReportsTypeOK'
  BY <1>1, <1>2 DEF ReportsTypeOK
<1>4. ItemsOnce' /\ FlagsTell'
  BY DEF ItemsOnce, FlagsTell
<1>5. QED
  BY <1>3, <1>4 DEF ReportsInv

LEMMA SourcesStep ==
    ASSUME ReportsInv, NEW s \in Sources, Join(s) \/ Receive(s) \/ SetCSRC(s) \/ Leave(s)
    PROVE  ReportsInv'
<1>1. ReportsTypeOK /\ ItemsOnce /\ FlagsTell
  BY DEF ReportsInv
<1>2. UNCHANGED <<sdesVars, firstpacket, packet>>
  BY DEF Join, Receive, SetCSRC, Leave
<1>3. ItemsOnce' /\ FlagsTell'
  BY <1>1, <1>2 DEF ItemsOnce, FlagsTell, sdesVars
<1>4. list' \in Seq(Sources) /\ IsInjective(list') /\ processed' \subseteq ToSet(list')
  <2>1. list \in Seq(Sources) /\ IsInjective(list) /\ processed \subseteq ToSet(list)
    BY <1>1 DEF ReportsTypeOK
  <2>2. CASE Join(s)
    <3>1. list' = Append(list, s) /\ s \notin ToSet(list) /\ processed' = processed
      BY <2>2 DEF Join
    <3>2. QED
      BY <2>1, <3>1, AppendLemma
  <2>3. CASE Leave(s)
    <3>1. list' = Among(list, ToSet(list) \ {s}) /\ processed' = processed \ {s}
      BY <2>3 DEF Leave
    <3>2. /\ list' \in Seq(Sources) /\ IsInjective(list')
          /\ ToSet(list') = ToSet(list) \cap (ToSet(list) \ {s})
      BY <2>1, <3>1, AmongLemma
    <3>3. QED
      BY <2>1, <3>1, <3>2
  <2>4. CASE Receive(s) \/ SetCSRC(s)
    BY <2>1, <2>4 DEF Receive, SetCSRC
  <2>5. QED
    BY <2>2, <2>3, <2>4
<1>5. /\ csrc' \subseteq Sources /\ sentdata' \subseteq Sources /\ fresh' \subseteq sentdata'
      /\ pending' \in [Sources -> 0 .. MaxPending] /\ waited' \in [Sources -> Nat]
  <2>1. MaxPending \in Nat
    BY RtcpReportsAssumption
  <2>2. CASE Join(s)
    BY <1>1, <2>2 DEF Join, ReportsTypeOK
  <2>3. CASE Receive(s)
    BY <1>1, <2>1, <2>3 DEF Receive, ReportsTypeOK
  <2>4. CASE SetCSRC(s)
    BY <1>1, <2>4 DEF SetCSRC, ReportsTypeOK
  <2>5. CASE Leave(s)
    BY <1>1, <2>1, <2>5 DEF Leave, ReportsTypeOK
  <2>6. QED
    BY <2>2, <2>3, <2>4, <2>5
<1>6. ReportsTypeOK'
  BY <1>1, <1>2, <1>4, <1>5 DEF ReportsTypeOK, sdesVars
<1>7. QED
  BY <1>3, <1>6 DEF ReportsInv

LEMMA ReportsStep ==
    ASSUME ReportsInv, BuildReports
    PROVE  ReportsInv'
<1> DEFINE one == FillInReportBlocks(processed, All, Room).taken
<1>1. ReportsTypeOK /\ ItemsOnce /\ FlagsTell
  BY DEF ReportsInv
<1>2. one \in Seq(Sources) /\ ToSet(one) \subseteq ToSet(list)
  <2>1. All \in Int /\ Room \in Int
    BY RtcpReportsAssumption, FS_CardinalityType DEF All
  <2>2. QED
    BY <1>1, <2>1, FillLemma DEF ReportsTypeOK
<1>3. /\ processed' = processed \cup ToSet(one) /\ Built(one, <<>>, <<>>)
      /\ UNCHANGED sdesVars
  BY DEF BuildReports, Marked
<1> HIDE DEF one
<1>4. /\ processed' \subseteq ToSet(list) /\ processingsdes' \in BOOLEAN
      /\ sdesbuildcount' \in 0 .. Period - 1 /\ due' \subseteq ItemNames
      /\ round' \in Seq(ItemNames)
  BY <1>1, <1>2, <1>3 DEF ReportsTypeOK, sdesVars
<1>5. /\ IsInjective(round') /\ ToSet(round') \subseteq due'
      /\ ~processingsdes' => ToSet(round') = due'
      /\ handled' = IF processingsdes' THEN ToSet(round') ELSE {}
  BY <1>1, <1>3 DEF ItemsOnce, FlagsTell, sdesVars
<1>6. <<>> \in Seq(Sources) /\ <<>> \in Seq(ItemNames)
  OBVIOUS
<1>7. QED
  BY <1>2, <1>3, <1>4, <1>5, <1>6, RoundLemma

LEMMA BothStep ==
    ASSUME ReportsInv, BuildBoth
    PROVE  ReportsInv'
<1> DEFINE fill == FillInReportBlocks(processed, All, Room)
           count == (sdesbuildcount + 1) % Period
           sdes == FillInSDES(Due(count), handled, Room - Len(fill.taken))
           more == FillInReportBlocks({}, fill.skipped, RoomAfter(fill.taken, sdes.taken)).taken
           again == IF sdes.processedall /\ fill.skipped > 0 THEN more ELSE <<>>
<1>1. ReportsTypeOK /\ ItemsOnce /\ FlagsTell
  BY DEF ReportsInv
<1>2. list \in Seq(Sources) /\ All \in Int /\ Room \in Int /\ Period \in Nat \ {0}
  BY <1>1, RtcpReportsAssumption, FS_CardinalityType DEF All, ReportsTypeOK
<1>3. /\ ~processingsdes
      /\ sdesbuildcount' = count /\ due' = Due(count)
      /\ processingsdes' = ~sdes.processedall
      /\ handled' = IF sdes.processedall THEN {} ELSE handled \cup ToSet(sdes.taken)
      /\ round' = sdes.taken
      /\ processed' = {} \cup ToSet(again)
      /\ Built(fill.taken, again, sdes.taken)
  BY DEF BuildBoth, Marked
<1>4. fill.taken \in Seq(Sources) /\ fill.skipped \in Nat /\ Len(fill.taken) \in Int
  <2>1. fill.taken \in Seq(Sources) /\ fill.skipped \in Nat
    BY <1>2, FillLemma
  <2> HIDE DEF fill
  <2>2. QED
    BY <2>1
<1>5. count \in 0 .. Period - 1
  BY <1>1, <1>2 DEF ReportsTypeOK
<1>6. /\ sdes.taken \in Seq(ItemNames) /\ IsInjective(sdes.taken)
      /\ ToSet(sdes.taken) \subseteq Due(count) \ handled
      /\ sdes.processedall => ToSet(sdes.taken) = Due(count) \ handled
      /\ Len(sdes.taken) \in Int
  <2>1. Due(count) \in SUBSET ItemNames /\ Room - Len(fill.taken) \in Int
    BY <1>2, <1>4 DEF Due
  <2>2. /\ sdes.taken \in Seq(ItemNames) /\ IsInjective(sdes.taken)
        /\ ToSet(sdes.taken) \subseteq Due(count) \ handled
        /\ sdes.processedall => ToSet(sdes.taken) = Due(count) \ handled
    <3> DEFINE items == Due(count)
               room == Room - Len(fill.taken)
    <3>1. sdes = FillInSDES(items, handled, room) /\ items \in SUBSET ItemNames /\ room \in Int
      BY <2>1
    <3> HIDE DEF items, room, sdes
    <3>2. /\ sdes.taken \in Seq(ItemNames) /\ IsInjective(sdes.taken)
          /\ ToSet(sdes.taken) \subseteq items \ handled
          /\ sdes.processedall => ToSet(sdes.taken) = items \ handled
      BY <3>1, ItemsLemma
    <3>3. QED
      BY <3>2 DEF items
  <2> HIDE DEF sdes
  <2>3. QED
    BY <2>2
<1>7. more \in Seq(Sources) /\ ToSet(more) \subseteq ToSet(list)
  <2>1. RoomAfter(fill.taken, sdes.taken) \in Int /\ fill.skipped \in Int
    BY <1>2, <1>4, <1>6 DEF RoomAfter
  <2> HIDE DEF fill, sdes
  <2>2. QED
    BY <1>2, <2>1, FillLemma
<1>8. again \in Seq(Sources) /\ ToSet(again) \subseteq ToSet(list)
  <2> HIDE DEF more, sdes, fill
  <2>1. <<>> \in Seq(Sources) /\ ToSet(<<>>) = {}
    BY EmptyLemma
  <2>2. QED
    BY <1>7, <2>1
<1> HIDE DEF fill, count, sdes, again
<1>9. handled = {}
  BY <1>1, <1>3 DEF FlagsTell
<1>10. Due(count) \subseteq ItemNames
  BY DEF Due
<1>11. /\ processed' \subseteq ToSet(list) /\ processingsdes' \in BOOLEAN
       /\ sdesbuildcount' \in 0 .. Period - 1 /\ due' \subseteq ItemNames
       /\ round' \in Seq(ItemNames) /\ IsInjective(round') /\ ToSet(round') \subseteq due'
  BY <1>3, <1>5, <1>6, <1>8, <1>9, <1>10
<1>12. /\ ~processingsdes' => ToSet(round') = due'
       /\ handled' = IF processingsdes' THEN ToSet(round') ELSE {}
  BY <1>3, <1>6, <1>9
<1>13. QED
  BY <1>3, <1>4, <1>6, <1>8, <1>11, <1>12, RoundLemma

LEMMA ItemsStep ==
    ASSUME ReportsInv, BuildItems
    PROVE  ReportsInv'
<1> DEFINE sdes == FillInSDES(due, handled, Room)
           fill == FillInReportBlocks(processed, All, Room - Len(sdes.taken))
<1>1. ReportsTypeOK /\ ItemsOnce /\ FlagsTell /\ processingsdes
  BY DEF ReportsInv, BuildItems
<1>2. /\ round \in Seq(ItemNames) /\ IsInjective(round) /\ ToSet(round) \subseteq due
      /\ handled = ToSet(round) /\ due \subseteq ItemNames
      /\ list \in Seq(Sources) /\ processed \subseteq ToSet(list)
  BY <1>1 DEF ReportsTypeOK, ItemsOnce, FlagsTell
<1>3. All \in Int /\ Room \in Int
  BY RtcpReportsAssumption, FS_CardinalityType DEF All
<1>4. /\ sdes.taken \in Seq(ItemNames) /\ IsInjective(sdes.taken)
      /\ ToSet(sdes.taken) \subseteq due \ handled
      /\ sdes.processedall => ToSet(sdes.taken) = due \ handled
  BY <1>2, <1>3, ItemsLemma
<1>5. fill.taken \in Seq(Sources) /\ ToSet(fill.taken) \subseteq ToSet(list)
  <2> HIDE DEF sdes
  <2>1. Room - Len(sdes.taken) \in Int
    BY <1>3, <1>4
  <2>2. QED
    BY <1>2, <1>3, <2>1, FillLemma
<1>6. /\ round' = round \o sdes.taken
      /\ sdesbuildcount' = sdesbuildcount /\ due' = due
      /\ IF sdes.processedall
         THEN /\ processingsdes' = FALSE /\ handled' = {}
              /\ processed' = IF fill.atend THEN {} ELSE processed \cup ToSet(fill.taken)
              /\ Built(fill.taken, <<>>, sdes.taken)
         ELSE /\ processingsdes' = TRUE /\ handled' = handled \cup ToSet(sdes.taken)
              /\ processed' = processed
              /\ Built(<<>>, <<>>, sdes.taken)
  BY DEF BuildItems, Marked
<1> HIDE DEF sdes, fill
<1>7. /\ round' \in Seq(ItemNames) /\ IsInjective(round')
      /\ ToSet(round') = ToSet(round) \cup ToSet(sdes.taken)
  <2>1. ToSet(round) \cap ToSet(sdes.taken) = {}
    BY <1>2, <1>4
  <2>2. QED
    BY <1>2, <1>4, <1>6, <2>1, ConcatLemma
<1>8. ToSet(round') \subseteq due'
  BY <1>2, <1>4, <1>6, <1>7
<1>9. sdesbuildcount' \in 0 .. Period - 1 /\ due' \subseteq ItemNames
  BY <1>1, <1>6 DEF ReportsTypeOK
<1>10. <<>> \in Seq(Sources)
  OBVIOUS
<1>11. CASE sdes.processedall
  <2>1. /\ processingsdes' = FALSE /\ handled' = {}
        /\ processed' \subseteq ToSet(list) /\ Built(fill.taken, <<>>, sdes.taken)
    BY <1>2, <1>5, <1>6, <1>11
  <2>2. ToSet(round') = due'
    BY <1>2, <1>4, <1>6, <1>7, <1>11
  <2>3. handled' = IF processingsdes' THEN ToSet(round') ELSE {}
    BY <2>1
  <2>4. QED
    BY <1>4, <1>5, <1>7, <1>8, <1>9, <1>10, <2>1, <2>2, <2>3, RoundLemma
<1>12. CASE ~sdes.processedall
  <2>1. /\ processingsdes' = TRUE /\ handled' = handled \cup ToSet(sdes.taken)
        /\ processed' \subseteq ToSet(list) /\ Built(<<>>, <<>>, sdes.taken)
    BY <1>2, <1>6, <1>12
  <2>2. handled' = IF processingsdes' THEN ToSet(round') ELSE {}
    BY <1>2, <1>7, <2>1
  <2>3. QED
    BY <1>4, <1>7, <1>8, <1>9, <1>10, <2>1, <2>2, RoundLemma
<1>13. QED
  BY <1>11, <1>12

LEMMA ReportsInitInv ==
    ASSUME ReportsInit
    PROVE  ReportsInv
<1>1. /\ <<>> \in Seq(ItemNames) /\ <<>> \in Seq(ReportBlock)
      /\ <<Own>> \in Seq(Sources) /\ ToSet(<<>>) = {} /\ IsInjective(<<>>)
      /\ IsInjective(<<Own>>)
  <2>1. <<Own>> \in Seq(Sources)
    BY RtcpReportsAssumption
  <2>2. IsInjective(<<Own>>)
    BY DEF IsInjective
  <2>3. QED
    BY <2>1, <2>2, EmptyLemma
<1>2. 0 \in 0 .. MaxPending /\ 0 \in 0 .. Period - 1
  BY RtcpReportsAssumption
<1>3. ReportsTypeOK
  BY <1>1, <1>2 DEF ReportsInit, ReportsTypeOK
<1>4. ItemsOnce /\ FlagsTell
  BY <1>1 DEF ReportsInit, ItemsOnce, FlagsTell
<1>5. QED
  BY <1>3, <1>4 DEF ReportsInv

\* The inductive invariant of the packets built, for any finite set of sources,
\* any items and intervals and any room in a packet.
THEOREM ReportsInvTheorem == ReportsSpec => []ReportsInv
<1>1. ReportsInv /\ UNCHANGED reportsVars => ReportsInv'
  BY DEF ReportsInv, ReportsTypeOK, ItemsOnce, FlagsTell, reportsVars, tableVars, sdesVars
<1>2. ReportsInv /\ [ReportsNext]_reportsVars => ReportsInv'
  BY <1>1, SourcesStep, ReportsStep, BothStep, ItemsStep DEF ReportsNext, BuildNextPacket
<1>3. QED
  BY <1>2, ReportsInitInv, PTL DEF ReportsSpec

\* Every variable of the packet builder keeps its type: what is marked as
\* reported is in the table.
THEOREM ReportsTypeCorrect == ReportsSpec => []ReportsTypeOK
<1>1. ReportsInv => ReportsTypeOK
  BY DEF ReportsInv
<1>2. QED
  BY <1>1, ReportsInvTheorem, PTL

\* In a round every item that is due goes out once, over however many packets.
THEOREM ItemsOnceTheorem == ReportsSpec => []ItemsOnce
<1>1. ReportsInv => ItemsOnce
  BY DEF ReportsInv
<1>2. QED
  BY <1>1, ReportsInvTheorem, PTL

-----------------------------------------------------------------------------
(* How long a source waits for its report: the order in which sources are  *)
(* picked, and how many.                                                   *)

\* An injective sequence has as many elements as places.
LEMMA SizeLemma ==
    ASSUME NEW U, NEW seq \in Seq(U), IsInjective(seq)
    PROVE  IsFiniteSet(ToSet(seq)) /\ Cardinality(ToSet(seq)) = Len(seq)
<1> DEFINE n == Len(seq)
<1>1. n \in Nat /\ DOMAIN seq = 1 .. n /\ seq \in [1 .. n -> U]
  OBVIOUS
<1> HIDE DEF n
<1>2. seq \in [1 .. n -> ToSet(seq)]
  BY <1>1 DEF ToSet
<1>3. seq \in Bijection(1 .. n, ToSet(seq))
  BY <1>1, <1>2 DEF ToSet, Bijection, Injection, Surjection
<1>4. ExistsBijection(1 .. n, ToSet(seq))
  BY <1>3 DEF ExistsBijection
<1>5. IsFiniteSet(1 .. n) /\ Cardinality(1 .. n) = n
  BY <1>1, FS_Interval
<1>6. QED
  BY <1>4, <1>5, FS_Bijection DEF n

\* Taking some elements away.
LEMMA TakeAway ==
    ASSUME NEW X, NEW Y, IsFiniteSet(X), Y \subseteq X
    PROVE  /\ IsFiniteSet(X \ Y) /\ IsFiniteSet(Y)
           /\ Cardinality(X) \in Nat /\ Cardinality(Y) \in Nat /\ Cardinality(X \ Y) \in Nat
           /\ Cardinality(X \ Y) = Cardinality(X) - Cardinality(Y)
<1>1. IsFiniteSet(X \ Y) /\ IsFiniteSet(Y)
  BY FS_Subset
<1>2. /\ Cardinality(X) \in Nat /\ Cardinality(Y) \in Nat /\ Cardinality(X \ Y) \in Nat
  BY <1>1, FS_CardinalityType
<1>3. X = (X \ Y) \cup Y /\ (X \ Y) \cap Y = {}
  OBVIOUS
<1>4. Cardinality(X) = Cardinality(X \ Y) + Cardinality(Y) - Cardinality({})
  BY <1>1, <1>3, FS_Union
<1>5. QED
  BY <1>1, <1>2, <1>4, FS_EmptySet

\* Among keeps the order of the elements.
LEMMA OrderLemma ==
    ASSUME NEW U, NEW seq \in Seq(U), NEW S, NEW x, NEW y, Precedes(Among(seq, S), x, y)
    PROVE  Precedes(seq, x, y)
<1> DEFINE n == Len(seq)
<1>1. n \in Nat /\ DOMAIN seq = 1 .. n /\ \A i \in 1 .. n : seq[i] \in U
  OBVIOUS
<1>2. PICK g : IsPicking(g, seq, S, n) /\ Among(seq, S) = g[n]
  BY AmongDef
<1> DEFINE Placed(m) ==
             /\ g[m] \in Seq(U)
             /\ \A a \in 1 .. Len(g[m]) : \E i \in 1 .. m : seq[i] = g[m][a]
             /\ \A a, b \in 1 .. Len(g[m]) : a < b =>
                   \E i, j \in 1 .. m : i < j /\ seq[i] = g[m][a] /\ seq[j] = g[m][b]
           T == {m \in Nat : m <= n => Placed(m)}
<1> HIDE DEF n
<1>3. 0 \in T
  <2>1. g[0] = <<>>
    BY <1>1, <1>2 DEF IsPicking
  <2>2. g[0] \in Seq(U) /\ Len(g[0]) = 0
    BY <2>1, EmptyLemma
  <2>3. Placed(0)
    BY <2>2
  <2>4. QED
    BY <2>3
<1>4. ASSUME NEW m \in Nat, m \in T PROVE m + 1 \in T
  <2> SUFFICES ASSUME m + 1 <= n PROVE Placed(m + 1)
    OBVIOUS
  <2>1. /\ m + 1 \in 0 .. n /\ m + 1 \in 1 .. n /\ m + 1 # 0 /\ (m + 1) - 1 = m /\ m <= n
        /\ \A i \in 1 .. m : i \in 1 .. (m + 1) /\ i < m + 1
        /\ m + 1 \in 1 .. (m + 1)
    BY <1>1
  <2>2. Placed(m)
    BY <1>4, <2>1
  <2>3. g[m + 1] = IF seq[m + 1] \in S THEN Append(g[m], seq[m + 1]) ELSE g[m]
    BY <1>2, <2>1 DEF IsPicking, Pick
  <2>4. seq[m + 1] \in U
    BY <1>1, <2>1
  <2>5. CASE seq[m + 1] \notin S
    <3>1. g[m + 1] = g[m]
      BY <2>3, <2>5
    <3>2. QED
      BY <2>1, <2>2, <3>1
  <2>6. CASE seq[m + 1] \in S
    <3> DEFINE old == g[m]
               new == g[m + 1]
               l == Len(g[m])
    <3>1. new = Append(old, seq[m + 1]) /\ old \in Seq(U)
      BY <2>2, <2>3, <2>6
    <3>2. /\ new \in Seq(U) /\ l \in Nat /\ Len(new) = l + 1
          /\ new[l + 1] = seq[m + 1] /\ \A a \in 1 .. l : new[a] = old[a]
      <4> HIDE DEF old, new
      <4>1. l = Len(old)
        BY DEF old
      <4> HIDE DEF l
      <4>2. QED
        BY <2>4, <3>1, <4>1
    <3>3. \A a \in 1 .. (l + 1) : a \in 1 .. l \/ a = l + 1
      BY <3>2
    <3>4. /\ \A a \in 1 .. l : \E i \in 1 .. m : seq[i] = old[a]
          /\ \A a, b \in 1 .. l : a < b =>
                \E i, j \in 1 .. m : i < j /\ seq[i] = old[a] /\ seq[j] = old[b]
      BY <2>2
    <3> HIDE DEF old, new, l
    <3>5. ASSUME NEW a \in 1 .. (l + 1)
          PROVE  \E i \in 1 .. (m + 1) : seq[i] = new[a]
      BY SMTT(30), <2>1, <3>2, <3>3, <3>4
    <3>6. ASSUME NEW a \in 1 .. (l + 1), NEW b \in 1 .. (l + 1), a < b
          PROVE  \E i, j \in 1 .. (m + 1) : i < j /\ seq[i] = new[a] /\ seq[j] = new[b]
      <4>1. a \in 1 .. l
        BY <3>2, <3>6
      <4>2. CASE b \in 1 .. l
        <5>1. PICK i \in 1 .. m, j \in 1 .. m : i < j /\ seq[i] = old[a] /\ seq[j] = old[b]
          BY <3>4, <3>6, <4>1, <4>2
        <5>2. i \in 1 .. (m + 1) /\ j \in 1 .. (m + 1)
          BY <2>1
        <5>3. QED
          BY <3>2, <4>1, <4>2, <5>1, <5>2
      <4>3. CASE b = l + 1
        <5>1. PICK i \in 1 .. m : seq[i] = old[a]
          BY <3>4, <4>1
        <5>2. i < m + 1 /\ i \in 1 .. (m + 1) /\ seq[i] = new[a] /\ seq[m + 1] = new[b]
          BY <2>1, <3>2, <4>1, <4>3, <5>1
        <5>3. QED
          BY <2>1, <5>2
      <4>4. QED
        BY <3>3, <4>2, <4>3
    <3> DEFINE Shown(k) ==
                 /\ \A a \in 1 .. k : \E i \in 1 .. (m + 1) : seq[i] = new[a]
                 /\ \A a, b \in 1 .. k : a < b =>
                       \E i, j \in 1 .. (m + 1) : i < j /\ seq[i] = new[a] /\ seq[j] = new[b]
    <3>7. Shown(l + 1)
      BY <3>5, <3>6
    <3>8. Len(new) = l + 1 /\ new \in Seq(U)
      BY <3>2
    <3> HIDE DEF Shown
    <3>9. Shown(Len(new))
      BY <3>7, <3>8
    <3> USE DEF Shown
    <3>10. QED
      BY <3>8, <3>9 DEF new
  <2>7. QED
    BY <2>5, <2>6
<1>5. Nat \subseteq T
  <2> HIDE DEF T
  <2>1. QED
    BY <1>3, <1>4, SetInduction
<1>6. Placed(n)
  <2> HIDE DEF Placed
  <2>1. n \in T /\ n <= n
    BY <1>1, <1>5
  <2>2. QED
    BY <2>1
<1> DEFINE out == g[n]
<1>7. /\ out \in Seq(U)
      /\ \A a, b \in 1 .. Len(out) : a < b =>
            \E i, j \in 1 .. n : i < j /\ seq[i] = out[a] /\ seq[j] = out[b]
  BY <1>6
<1> HIDE DEF out, Placed
<1>8. PICK a \in DOMAIN out, b \in DOMAIN out : a < b /\ out[a] = x /\ out[b] = y
  BY <1>2 DEF Precedes, out
<1>9. DOMAIN out = 1 .. Len(out)
  BY <1>7
<1>10. \E i, j \in 1 .. n : i < j /\ seq[i] = x /\ seq[j] = y
  BY <1>7, <1>8, <1>9
<1>11. QED
  BY <1>1, <1>10 DEF Precedes

\* What FirstOf leaves out comes after what it yields, and it leaves out
\* something only when it yields n elements.
LEMMA CutLemma ==
    ASSUME NEW U, NEW seq \in Seq(U), NEW n \in Nat
    PROVE  /\ Len(FirstOf(seq, n)) # Len(seq) => Len(FirstOf(seq, n)) = n
           /\ Len(FirstOf(seq, n)) <= n
           /\ \A x \in ToSet(FirstOf(seq, n)), y \in ToSet(seq) \ ToSet(FirstOf(seq, n)) :
                 Len(FirstOf(seq, n)) = n /\ Precedes(seq, x, y)
<1> DEFINE m == Len(seq)
<1>1. m \in Nat /\ DOMAIN seq = 1 .. m
  OBVIOUS
<1>2. CASE m <= n
  <2>1. FirstOf(seq, n) = seq
    BY <1>2 DEF FirstOf
  <2>2. QED
    BY <1>2, <2>1
<1>3. CASE n < m
  <2> DEFINE out == SubSeq(seq, 1, n)
  <2>1. FirstOf(seq, n) = out
    BY <1>1, <1>3 DEF FirstOf
  <2>2. Len(out) = n /\ DOMAIN out = 1 .. n /\ \A i \in 1 .. n : out[i] = seq[i]
    BY <1>1, <1>3
  <2> HIDE DEF out, m
  <2>3. ASSUME NEW x \in ToSet(out), NEW y \in ToSet(seq) \ ToSet(out)
        PROVE  Precedes(seq, x, y)
    <3>1. PICK i \in 1 .. n : x = seq[i]
      BY <2>2 DEF ToSet
    <3>2. PICK j \in 1 .. m : y = seq[j]
      BY <1>1 DEF ToSet
    <3>3. j \notin 1 .. n
      BY <2>2, <3>2 DEF ToSet
    <3>4. i < j /\ i \in 1 .. m
      BY <1>1, <1>3, <3>3
    <3>5. QED
      BY <1>1, <3>1, <3>2, <3>4 DEF Precedes
  <2>4. QED
    BY <2>1, <2>2, <2>3
<1>4. QED
  BY <1>1, <1>2, <1>3

\* WaitedFor as an operator of the values it depends on, so that the lemmas
\* hold before and after a step.
Left(lst, mark) == ToSet(lst) \ (mark \cup {Own})
Ahead(lst, mark, s) == {x \in Left(lst, mark) : Precedes(lst, x, s)}
Paid(lst, mark, busy, todo, w, s) ==
    /\ s \notin ToSet(lst) => w = 0
    /\ s \in mark => Room * w + Cardinality(Left(lst, mark)) <= OtherSources
    /\ s \in ToSet(lst) \ mark /\ busy =>
         Room * w + Cardinality(todo) + Cardinality(Ahead(lst, mark, s))
             <= 2 * OtherSources + Cardinality(ItemNames)
    /\ s \in ToSet(lst) \ mark /\ ~busy =>
         Room * w + Cardinality(Ahead(lst, mark, s))
             <= 2 * OtherSources + Cardinality(ItemNames) + Room

LEMMA PaidDef ==
    ASSUME NEW s
    PROVE  /\ WaitedFor(s) <=>
                 Paid(list, processed, processingsdes, due \ handled, waited[s], s)
           /\ WaitedFor(s)' <=>
                 Paid(list', processed', processingsdes', due' \ handled', waited'[s], s)
  BY DEF WaitedFor, Paid, Unmarked, AheadOf, Left, Ahead

\* The others are no more than OtherSources, and a source is not ahead of itself.
LEMMA OthersLemma ==
    ASSUME NEW lst \in Seq(Sources), NEW mark, NEW s \in Sources \ {Own}
    PROVE  /\ OtherSources \in Nat
           /\ IsFiniteSet(Left(lst, mark))
           /\ Cardinality(Left(lst, mark)) \in Nat
           /\ s \notin Left(lst, mark) => Cardinality(Left(lst, mark)) <= OtherSources
           /\ IsInjective(lst) =>
                 /\ IsFiniteSet(Ahead(lst, mark, s))
                 /\ Cardinality(Ahead(lst, mark, s)) \in Nat
                 /\ Cardinality(Ahead(lst, mark, s)) <= OtherSources
<1> DEFINE R == Sources \ {Own, s}
<1>1. /\ IsFiniteSet(R) /\ Cardinality(R) = OtherSources /\ OtherSources \in Nat
  <2>1. IsFiniteSet(Sources) /\ Own \in Sources
    BY RtcpReportsAssumption
  <2>2. /\ IsFiniteSet(Sources \ {Own}) /\ Cardinality(Sources) \in Nat
        /\ Cardinality(Sources \ {Own}) = Cardinality(Sources) - 1
    BY <2>1, FS_RemoveElement, FS_CardinalityType
  <2>3. /\ IsFiniteSet((Sources \ {Own}) \ {s})
        /\ Cardinality((Sources \ {Own}) \ {s}) = Cardinality(Sources \ {Own}) - 1
    BY <2>2, FS_RemoveElement
  <2>4. R = (Sources \ {Own}) \ {s}
    OBVIOUS
  <2>5. Cardinality(R) \in Nat
    BY <2>3, <2>4, FS_CardinalityType
  <2> HIDE DEF R
  <2>6. QED
    BY <2>2, <2>3, <2>4, <2>5 DEF OtherSources
<1>2. ASSUME NEW X, X \subseteq R
      PROVE  IsFiniteSet(X) /\ Cardinality(X) \in Nat /\ Cardinality(X) <= OtherSources
  <2> HIDE DEF R
  <2>1. IsFiniteSet(X) /\ Cardinality(X) <= Cardinality(R)
    BY <1>1, <1>2, FS_Subset
  <2>2. QED
    BY <1>1, <2>1, FS_CardinalityType
<1>3. ToSet(lst) \subseteq Sources
  BY DEF ToSet
<1>4. /\ IsFiniteSet(Left(lst, mark)) /\ Cardinality(Left(lst, mark)) \in Nat
  <2>1. Left(lst, mark) \subseteq Sources
    BY <1>3 DEF Left
  <2>2. QED
    BY <2>1, RtcpReportsAssumption, FS_Subset, FS_CardinalityType
<1>5. s \notin Left(lst, mark) => Left(lst, mark) \subseteq R
  BY <1>3 DEF Left
<1>6. IsInjective(lst) => Ahead(lst, mark, s) \subseteq R
  <2>1. ASSUME IsInjective(lst) PROVE ~Precedes(lst, s, s)
    <3>1. DOMAIN lst \subseteq Int
      OBVIOUS
    <3>2. QED
      BY <2>1, <3>1 DEF Precedes, IsInjective
  <2>2. QED
    BY <1>3, <2>1 DEF Ahead, Left
<1> HIDE DEF R
<1>7. QED
  BY <1>1, <1>2, <1>4, <1>5, <1>6

LEMMA ItemsFinite ==
    /\ IsFiniteSet(ItemNames) /\ Cardinality(ItemNames) \in Nat
    /\ \A X \in SUBSET ItemNames : /\ IsFiniteSet(X) /\ Cardinality(X) \in Nat
                                   /\ Cardinality(X) <= Cardinality(ItemNames)
<1>1. Items \in Seq(ItemNames) /\ IsInjective(Items) /\ ToSet(Items) = ItemNames
  BY RtcpReportsAssumption DEF ItemNames, ToSet
<1>2. IsFiniteSet(ItemNames)
  BY <1>1, SizeLemma
<1>3. QED
  BY <1>2, FS_Subset, FS_CardinalityType

\* A packet more to wait for costs its room.
LEMMA OneMore ==
    ASSUME NEW w \in Nat
    PROVE  /\ Room \in Nat \ {0} /\ Room * w \in Nat /\ Room * 0 = 0
           /\ Room * (w + 1) = Room * w + Room
<1>1. Room \in Nat \ {0}
  BY RtcpReportsAssumption
<1>2. QED
  BY <1>1

\* A source whose wait begins has all of it before it.
LEMMA ZeroPaid ==
    ASSUME NEW lst \in Seq(Sources), IsInjective(lst), NEW mark, mark \subseteq ToSet(lst),
           NEW busy, NEW todo \in SUBSET ItemNames, NEW s \in Sources \ {Own}
    PROVE  Paid(lst, mark, busy, todo, 0, s)
<1> DEFINE O == OtherSources
           M == Cardinality(ItemNames)
           t == Cardinality(todo)
           l == Cardinality(Left(lst, mark))
           a == Cardinality(Ahead(lst, mark, s))
<1>1. O \in Nat /\ l \in Nat /\ a \in Nat /\ a <= O
  BY OthersLemma
<1>2. s \in mark => l <= O
  <2>1. s \in mark => s \notin Left(lst, mark)
    BY DEF Left
  <2>2. QED
    BY <2>1, OthersLemma
<1>3. M \in Nat /\ t \in Nat /\ t <= M
  BY ItemsFinite
<1>4. Room \in Nat /\ Room * 0 = 0
  BY OneMore
<1> HIDE DEF O, M, t, l, a
<1>5. /\ s \in mark => 0 + l <= O
      /\ 0 + t + a <= 2 * O + M
      /\ 0 + a <= 2 * O + M + Room
  BY <1>1, <1>2, <1>3, <1>4
<1>6. QED
  BY <1>4, <1>5 DEF Paid, O, M, t, l, a

\* Nobody new ahead of a source: what it waited stays paid.
LEMMA SamePaid ==
    ASSUME NEW lst \in Seq(Sources), NEW lst2 \in Seq(Sources), IsInjective(lst),
           NEW mark, NEW mark2, NEW busy, NEW todo, NEW w \in Nat,
           NEW s \in Sources \ {Own}, Paid(lst, mark, busy, todo, w, s),
           s \in ToSet(lst2) <=> s \in ToSet(lst), s \in mark2 <=> s \in mark,
           s \in mark => Left(lst2, mark2) \subseteq Left(lst, mark),
           Ahead(lst2, mark2, s) \subseteq Ahead(lst, mark, s), 
           IsFiniteSet(todo)
    PROVE  Paid(lst2, mark2, busy, todo, w, s)
<1> DEFINE O == OtherSources
           M == Cardinality(ItemNames)
           t == Cardinality(todo)
           l == Cardinality(Left(lst, mark))
           a == Cardinality(Ahead(lst, mark, s))
           l2 == Cardinality(Left(lst2, mark2))
           a2 == Cardinality(Ahead(lst2, mark2, s))
           p == Room * w
<1>1. /\ O \in Nat /\ l \in Nat /\ a \in Nat
      /\ IsFiniteSet(Left(lst, mark)) /\ IsFiniteSet(Ahead(lst, mark, s))
  BY OthersLemma
<1>2. a2 \in Nat /\ a2 <= a /\ (s \in mark => l2 \in Nat /\ l2 <= l)
  BY <1>1, FS_Subset, FS_CardinalityType
<1>3. M \in Nat /\ t \in Nat /\ p \in Nat /\ Room \in Nat
  BY ItemsFinite, OneMore, FS_CardinalityType
<1>4. /\ s \in mark => p + l <= O
      /\ s \in ToSet(lst) \ mark /\ busy => p + t + a <= 2 * O + M
      /\ s \in ToSet(lst) \ mark /\ ~busy => p + a <= 2 * O + M + Room
      /\ s \notin ToSet(lst) => w = 0
  BY DEF Paid
<1> HIDE DEF O, M, t, l, a, l2, a2, p
<1>5. /\ s \in mark => p + l2 <= O
      /\ s \in ToSet(lst) \ mark /\ busy => p + t + a2 <= 2 * O + M
      /\ s \in ToSet(lst) \ mark /\ ~busy => p + a2 <= 2 * O + M + Room
  BY <1>1, <1>2, <1>3, <1>4
<1>6. /\ s \in mark2 => p + l2 <= O
      /\ s \in ToSet(lst2) \ mark2 /\ busy => p + t + a2 <= 2 * O + M
      /\ s \in ToSet(lst2) \ mark2 /\ ~busy => p + a2 <= 2 * O + M + Room
      /\ s \notin ToSet(lst2) => w = 0
  BY <1>4, <1>5
<1>7. QED
  BY <1>6 DEF Paid, O, M, t, l2, a2, p

-----------------------------------------------------------------------------
(* Filling a packet, for the sources that wait.                            *)

\* What a fill takes of the sources: how many, and in which order.
Filled(marked, max, room) ==
    LET fill == FillInReportBlocks(marked, max, room)
        one == fill.taken
    IN  /\ one \in Seq(Sources) /\ Len(one) \in Nat /\ Len(one) <= room
        /\ IsFiniteSet(ToSet(one)) /\ Cardinality(ToSet(one)) = Len(one)
        /\ ToSet(one) \subseteq Left(list, marked)
        /\ fill.full => Len(one) = room
        /\ max = All /\ ~fill.full =>
              \A s \in ToSet(list) \ marked : ShouldProcess(s) => s \in ToSet(one)
        /\ \A s \in ToSet(list) \ marked :
              ShouldProcess(s) /\ s \notin ToSet(one) => ToSet(one) \subseteq Ahead(list, marked, s)

LEMMA TakenLemma ==
    ASSUME ReportsTypeOK, NEW marked, NEW max \in Nat, NEW room \in Nat
    PROVE  Filled(marked, max, room)
<1> DEFINE S == {s \in ToSet(list) : ShouldProcess(s)} \ marked
           open == Among(list, S)
           n == IF max < room THEN max ELSE room
           fill == FillInReportBlocks(marked, max, room)
           one == fill.taken
<1>1. /\ one = FirstOf(open, n)
      /\ fill.full <=> Len(open) > Len(one) /\ Len(one) < max
  BY DEF FillInReportBlocks
<1>2. list \in Seq(Sources) /\ IsInjective(list)
  BY DEF ReportsTypeOK
<1>3. n \in Nat /\ n <= room /\ (n = room \/ n = max)
  OBVIOUS
<1> HIDE DEF n, one, fill
<1>4. open \in Seq(Sources) /\ IsInjective(open) /\ ToSet(open) = S
  <2>1. /\ open \in Seq(Sources) /\ IsInjective(open) /\ ToSet(open) = ToSet(list) \cap S
    BY <1>2, AmongLemma
  <2>2. S \subseteq ToSet(list)
    OBVIOUS
  <2> HIDE DEF S
  <2>3. QED
    BY <2>1, <2>2
<1>5. \A x, y : Precedes(open, x, y) => Precedes(list, x, y)
  <2> HIDE DEF S
  <2>1. QED
    BY <1>2, OrderLemma
<1>6. S \subseteq Left(list, marked) /\ Own \notin S /\ S \subseteq Sources
  BY <1>2 DEF Left, ShouldProcess, ToSet
<1>7. \A s \in ToSet(list) \ marked : ShouldProcess(s) => s \in S
  OBVIOUS
<1> HIDE DEF S, open
<1>8. /\ one \in Seq(Sources) /\ ToSet(one) \subseteq S /\ IsInjective(one)
      /\ Len(one) = Len(open) => one = open
      /\ Len(one) <= n
      /\ Len(one) # Len(open) => Len(one) = n
      /\ \A x \in ToSet(one), y \in S \ ToSet(one) : Len(one) = n /\ Precedes(open, x, y)
  BY <1>1, <1>3, <1>4, FirstOfLemma, CutLemma
<1>9. IsFiniteSet(ToSet(one)) /\ Cardinality(ToSet(one)) = Len(one)
  BY <1>8, SizeLemma
<1>10. Len(one) \in Nat /\ Len(open) \in Nat
  BY <1>4, <1>8
<1>11. fill.full => Len(one) = room
  BY <1>1, <1>3, <1>8, <1>10
<1>12. ASSUME max = All, ~fill.full PROVE ToSet(one) = S
  <2>1. Cardinality(S) = Len(open) /\ IsFiniteSet(S)
    BY <1>4, SizeLemma
  <2>2. Len(open) < All
    <3>1. S \subseteq Sources \ {Own}
      BY <1>6
    <3>2. /\ IsFiniteSet(Sources \ {Own}) /\ Cardinality(Sources) \in Nat
          /\ Cardinality(Sources \ {Own}) = Cardinality(Sources) - 1
      BY RtcpReportsAssumption, FS_RemoveElement, FS_CardinalityType
    <3>3. Cardinality(S) <= Cardinality(Sources \ {Own})
      BY <3>1, <3>2, FS_Subset
    <3>4. QED
      BY <1>10, <2>1, <3>2, <3>3 DEF All
  <2>3. Len(one) <= Len(open)
    <3>1. Cardinality(ToSet(one)) <= Cardinality(S)
      BY <1>8, <2>1, FS_Subset
    <3>2. QED
      BY <1>9, <2>1, <3>1
  <2>4. Len(one) = Len(open)
    BY <1>1, <1>10, <1>12, <2>2, <2>3
  <2>5. QED
    BY <1>4, <1>8, <2>4
<1>13. ASSUME NEW s \in ToSet(list) \ marked, ShouldProcess(s), s \notin ToSet(one)
       PROVE  ToSet(one) \subseteq Ahead(list, marked, s)
  <2>1. s \in S \ ToSet(one)
    BY <1>7, <1>13
  <2>2. \A x \in ToSet(one) : Precedes(list, x, s) /\ x \in Left(list, marked)
    BY <1>5, <1>6, <1>8, <2>1
  <2>3. QED
    BY <2>2 DEF Ahead
<1>14. Len(one) <= room
  BY <1>3, <1>8, <1>10
<1>15. QED
  BY <1>6, <1>7, <1>8, <1>9, <1>10, <1>11, <1>12, <1>13, <1>14 DEF Filled, one, fill

\* Of the items to do, a packet takes as many as it has room for, or all.
FilledItems(items, flags, room) ==
    LET sdes == FillInSDES(items, flags, room)
        filled == sdes.taken
    IN  /\ filled \in Seq(ItemNames) /\ Len(filled) \in Nat /\ Len(filled) <= room
        /\ ToSet(filled) \subseteq items \ flags
        /\ IsFiniteSet(ToSet(filled)) /\ Cardinality(ToSet(filled)) = Len(filled)
        /\ ~sdes.processedall => Len(filled) = room

LEMMA ItemsCount ==
    ASSUME NEW items \in SUBSET ItemNames, NEW flags, NEW room \in Nat
    PROVE  FilledItems(items, flags, room)
<1> DEFINE filled == FillInSDES(items, flags, room).taken
<1>1. /\ filled \in Seq(ItemNames) /\ IsInjective(filled) /\ ToSet(filled) \subseteq items \ flags
  BY ItemsLemma
<1>2. /\ Len(filled) <= room
      /\ ~FillInSDES(items, flags, room).processedall => Len(filled) = room
  <2> DEFINE todo == Among(Items, items \ flags)
  <2>1. Items \in Seq(ItemNames)
    BY RtcpReportsAssumption
  <2>2. todo \in Seq(ItemNames)
    BY <2>1, AmongLemma
  <2>3. /\ filled = FirstOf(todo, room)
        /\ FillInSDES(items, flags, room).processedall <=> Len(filled) = Len(todo)
    BY DEF FillInSDES
  <2> HIDE DEF todo, filled
  <2>4. QED
    BY <2>2, <2>3, CutLemma
<1> HIDE DEF filled
<1>3. Len(filled) \in Nat /\ IsFiniteSet(ToSet(filled)) /\ Cardinality(ToSet(filled)) = Len(filled)
  BY <1>1, SizeLemma
<1>4. QED
  BY <1>1, <1>2, <1>3 DEF FilledItems, filled

-----------------------------------------------------------------------------
(* The invariant of the wait.                                              *)

\* What the steps below know of the state.
LEMMA WaitFacts ==
    ASSUME ReportsInv, WaitInv
    PROVE  /\ ReportsTypeOK /\ list \in Seq(Sources) /\ IsInjective(list)
           /\ processed \subseteq ToSet(list) /\ ToSet(list) \subseteq Sources
           /\ sentdata \subseteq ToSet(list)
           /\ processingsdes \in BOOLEAN
           /\ processingsdes => processed = {}
           /\ due \in SUBSET ItemNames /\ handled \subseteq due
           /\ due \ handled \in SUBSET ItemNames /\ IsFiniteSet(due \ handled)
           /\ \A s \in Sources : waited[s] \in Nat
           /\ \A s \in Sources \ {Own} :
                 Paid(list, processed, processingsdes, due \ handled, waited[s], s)
<1>1. ReportsTypeOK
  BY DEF ReportsInv
<1>2. ToSet(list) \subseteq Sources
  BY <1>1 DEF ReportsTypeOK, ToSet
<1>3. due \ handled \in SUBSET ItemNames
  BY <1>1 DEF ReportsTypeOK
<1>4. IsFiniteSet(due \ handled)
  BY <1>3, ItemsFinite
<1>5. QED
  BY <1>1, <1>2, <1>3, <1>4, PaidDef DEF ReportsTypeOK, WaitInv

\* Any step that pays for every source keeps the invariant.
LEMMA WaitKept ==
    ASSUME sentdata' \subseteq ToSet(list'), processingsdes' => processed' = {},
           \A s \in Sources \ {Own} :
              Paid(list', processed', processingsdes', due' \ handled', waited'[s], s)
    PROVE  WaitInv'
  BY PaidDef DEF WaitInv

LEMMA JoinWait ==
    ASSUME ReportsInv, WaitInv, NEW x \in Sources, Join(x)
    PROVE  WaitInv'
<1>1. /\ list \in Seq(Sources) /\ IsInjective(list) /\ processed \subseteq ToSet(list)
      /\ sentdata \subseteq ToSet(list)
      /\ processingsdes => processed = {}
      /\ due \ handled \in SUBSET ItemNames /\ IsFiniteSet(due \ handled)
      /\ \A s \in Sources : waited[s] \in Nat
      /\ \A s \in Sources \ {Own} :
            Paid(list, processed, processingsdes, due \ handled, waited[s], s)
  BY WaitFacts
<1>2. /\ x \notin ToSet(list) /\ list' = Append(list, x)
      /\ waited' = [s \in Sources |-> IF s \in processed THEN 0 ELSE waited[s]]
      /\ sentdata' = sentdata /\ processed' = processed
      /\ processingsdes' = processingsdes /\ due' = due /\ handled' = handled
  BY DEF Join, sdesVars
<1>3. /\ list' \in Seq(Sources) /\ ToSet(list') = ToSet(list) \cup {x} /\ IsInjective(list')
  BY <1>1, <1>2, AppendLemma
<1>4. ASSUME NEW s \in Sources \ {Own}
      PROVE  Paid(list', processed', processingsdes', due' \ handled', waited'[s], s)
  <2>1. CASE waited'[s] = 0
    <3>1. processed' \subseteq ToSet(list') /\ due' \ handled' \in SUBSET ItemNames
      BY <1>1, <1>2, <1>3
    <3>2. Paid(list', processed', processingsdes', due' \ handled', 0, s)
      BY <1>3, <3>1, ZeroPaid
    <3>3. QED
      BY <2>1, <3>2
  <2>2. CASE waited'[s] # 0
    <3>1. s \notin processed /\ waited'[s] = waited[s] /\ s \in ToSet(list) /\ s # x
      BY <1>1, <1>2, <2>2 DEF Paid
    <3>2. \A y : Precedes(list', y, s) => Precedes(list, y, s)
      <4> SUFFICES ASSUME NEW y, Precedes(list', y, s) PROVE Precedes(list, y, s)
        OBVIOUS
      <4> DEFINE n == Len(list)
                 new == list'
      <4>1. /\ n \in Nat /\ DOMAIN list = 1 .. n /\ DOMAIN new = 1 .. (n + 1)
            /\ new[n + 1] = x /\ \A i \in 1 .. n : new[i] = list[i]
        BY <1>1, <1>2
      <4> HIDE DEF n, new
      <4>2. PICK i \in 1 .. (n + 1), j \in 1 .. (n + 1) : i < j /\ new[i] = y /\ new[j] = s
        BY <4>1 DEF Precedes, new
      <4>3. i \in 1 .. n /\ j \in 1 .. n
        BY <3>1, <4>1, <4>2
      <4>4. QED
        BY <4>1, <4>2, <4>3 DEF Precedes
    <3>3. Ahead(list', processed', s) \subseteq Ahead(list, processed, s)
      <4> SUFFICES ASSUME NEW y \in Ahead(list', processed', s)
                   PROVE  y \in Ahead(list, processed, s)
        OBVIOUS
      <4>1. Precedes(list, y, s) /\ y \notin processed /\ y # Own
        BY <1>2, <3>2 DEF Ahead, Left
      <4>2. y \in ToSet(list)
        BY <4>1 DEF Precedes, ToSet
      <4>3. QED
        BY <4>1, <4>2 DEF Ahead, Left
    <3>4. QED
      BY <1>1, <1>2, <1>3, <3>1, <3>3, SamePaid
  <2>3. QED
    BY <2>1, <2>2
<1>5. QED
  BY <1>1, <1>2, <1>3, <1>4, WaitKept

LEMMA LeaveWait ==
    ASSUME ReportsInv, WaitInv, NEW x \in Sources, Leave(x)
    PROVE  WaitInv'
<1>1. /\ list \in Seq(Sources) /\ IsInjective(list) /\ processed \subseteq ToSet(list)
      /\ sentdata \subseteq ToSet(list)
      /\ processingsdes => processed = {}
      /\ due \ handled \in SUBSET ItemNames /\ IsFiniteSet(due \ handled)
      /\ \A s \in Sources : waited[s] \in Nat
      /\ \A s \in Sources \ {Own} :
            Paid(list, processed, processingsdes, due \ handled, waited[s], s)
  BY WaitFacts
<1>2. /\ list' = Among(list, ToSet(list) \ {x})
      /\ waited' = [waited EXCEPT ![x] = 0]
      /\ sentdata' = sentdata \ {x} /\ processed' = processed \ {x}
      /\ processingsdes' = processingsdes /\ due' = due /\ handled' = handled
  BY DEF Leave, sdesVars
<1>3. /\ list' \in Seq(Sources) /\ ToSet(list') = ToSet(list) \ {x} /\ IsInjective(list')
  <2>1. /\ list' \in Seq(Sources) /\ IsInjective(list')
        /\ ToSet(list') = ToSet(list) \cap (ToSet(list) \ {x})
    BY <1>1, <1>2, AmongLemma
  <2>2. QED
    BY <2>1
<1>4. \A y, s : Precedes(list', y, s) => Precedes(list, y, s)
  BY <1>1, <1>2, OrderLemma
<1>5. waited \in [Sources -> Nat]
  BY WaitFacts DEF ReportsTypeOK
<1>6. ASSUME NEW s \in Sources \ {Own}
      PROVE  Paid(list', processed', processingsdes', due' \ handled', waited'[s], s)
  <2>1. CASE s = x
    <3>1. /\ waited'[s] = 0 /\ processed' \subseteq ToSet(list')
          /\ due' \ handled' \in SUBSET ItemNames
      BY <1>1, <1>2, <1>3, <1>5, <2>1
    <3>2. Paid(list', processed', processingsdes', due' \ handled', 0, s)
      BY <1>3, <3>1, ZeroPaid
    <3>3. QED
      BY <3>1, <3>2
  <2>2. CASE s # x
    <3>1. /\ waited'[s] = waited[s]
          /\ s \in ToSet(list') <=> s \in ToSet(list)
          /\ s \in processed' <=> s \in processed
      BY <1>2, <1>3, <1>5, <2>2
    <3>2. Left(list', processed') \subseteq Left(list, processed)
      BY <1>2, <1>3 DEF Left
    <3>3. Ahead(list', processed', s) \subseteq Ahead(list, processed, s)
      BY <1>4, <3>2 DEF Ahead
    <3>4. waited[s] \in Nat /\ Paid(list, processed, processingsdes, due \ handled, waited[s], s)
      BY <1>1
    <3>5. Paid(list', processed', processingsdes, due \ handled, waited[s], s)
      BY <1>1, <1>3, <3>1, <3>2, <3>3, <3>4, SamePaid
    <3>6. QED
      BY <1>2, <3>1, <3>5
  <2>3. QED
    BY <2>1, <2>2
<1>7. sentdata' \subseteq ToSet(list') /\ (processingsdes' => processed' = {})
  BY <1>1, <1>2, <1>3
<1>8. QED
  BY <1>6, <1>7, WaitKept

\* Steps that leave the table and the marks alone.
LEMMA OtherWait ==
    ASSUME ReportsInv, WaitInv, sentdata' \subseteq ToSet(list'),
           UNCHANGED <<list, processed, processingsdes, due, handled, waited>>
    PROVE  WaitInv'
<1>1. /\ processingsdes => processed = {}
      /\ \A s \in Sources \ {Own} :
            Paid(list, processed, processingsdes, due \ handled, waited[s], s)
  BY WaitFacts
<1>2. \A s \in Sources \ {Own} :
         Paid(list', processed', processingsdes', due' \ handled', waited'[s], s)
  BY <1>1
<1>3. QED
  BY <1>1, <1>2, WaitKept

\* What a packet does to the source's wait.
LEMMA BuiltWait ==
    ASSUME NEW one, NEW two, NEW items, Built(one, two, items), NEW s \in Sources
    PROVE  /\ list' = list /\ sentdata' = sentdata
           /\ \/ waited'[s] = 0
              \/ /\ ShouldProcess(s) /\ s \notin ToSet(one) /\ s \notin ToSet(two)
                 /\ s \in sentdata /\ waited'[s] = waited[s] + 1
  BY DEF Built, ShouldProcess

LEMMA ReportsWait ==
    ASSUME ReportsInv, WaitInv, BuildReports
    PROVE  WaitInv'
<1> DEFINE one == FillInReportBlocks(processed, All, Room).taken
<1>1. /\ list \in Seq(Sources) /\ IsInjective(list) /\ processed \subseteq ToSet(list)
      /\ sentdata \subseteq ToSet(list) /\ ReportsTypeOK
      /\ due \ handled \in SUBSET ItemNames
      /\ \A s \in Sources : waited[s] \in Nat
      /\ \A s \in Sources \ {Own} :
            Paid(list, processed, processingsdes, due \ handled, waited[s], s)
  BY WaitFacts
<1>2. /\ ~processingsdes /\ FillInReportBlocks(processed, All, Room).full
      /\ processed' = processed \cup ToSet(one) /\ Built(one, <<>>, <<>>)
      /\ processingsdes' = processingsdes /\ due' = due /\ handled' = handled
  BY DEF BuildReports, Marked, sdesVars
<1>3. All \in Nat /\ Room \in Nat
  BY RtcpReportsAssumption, FS_CardinalityType DEF All
<1>4. /\ IsFiniteSet(ToSet(one)) /\ Cardinality(ToSet(one)) = Room
      /\ ToSet(one) \subseteq Left(list, processed)
      /\ \A s \in ToSet(list) \ processed :
            ShouldProcess(s) /\ s \notin ToSet(one) => ToSet(one) \subseteq Ahead(list, processed, s)
  <2>1. Filled(processed, All, Room)
    BY <1>1, <1>3, TakenLemma
  <2>2. QED
    BY <1>2, <2>1 DEF Filled
<1> HIDE DEF one
<1>5. list' = list /\ sentdata' = sentdata
  BY <1>2, BuiltWait, RtcpReportsAssumption
<1>6. processed' \subseteq ToSet(list')
  BY <1>1, <1>2, <1>4, <1>5 DEF Left
<1>7. ASSUME NEW s \in Sources \ {Own}
      PROVE  Paid(list', processed', processingsdes', due' \ handled', waited'[s], s)
  <2>1. CASE waited'[s] = 0
    BY <1>1, <1>2, <1>5, <1>6, <2>1, ZeroPaid
  <2>2. CASE waited'[s] # 0
    <3>1. /\ ShouldProcess(s) /\ s \notin ToSet(one) /\ s \in ToSet(list)
          /\ waited'[s] = waited[s] + 1
      BY <1>1, <1>2, <2>2, BuiltWait
    <3> DEFINE O == OtherSources
               M == Cardinality(ItemNames)
               w == waited[s]
               p == Room * w
               q == Room * waited'[s]
               l == Cardinality(Left(list, processed))
               l2 == Cardinality(Left(list', processed'))
               a == Cardinality(Ahead(list, processed, s))
               a2 == Cardinality(Ahead(list', processed', s))
    <3>2. p \in Nat /\ q = p + Room
      <4> HIDE DEF w
      <4>1. w \in Nat
        BY <1>1 DEF w
      <4>2. p \in Nat /\ Room * (w + 1) = p + Room
        BY <4>1, OneMore
      <4>3. QED
        BY <3>1, <4>2 DEF w
    <3>3. /\ O \in Nat /\ l \in Nat /\ a \in Nat
          /\ IsFiniteSet(Left(list, processed)) /\ IsFiniteSet(Ahead(list, processed, s))
      BY <1>1, OthersLemma
    <3>4. M \in Nat
      BY ItemsFinite
    <3>5. CASE s \in processed
      <4>1. Left(list', processed') = Left(list, processed) \ ToSet(one)
        BY <1>2, <1>5 DEF Left
      <4>2. l2 = l - Room
        BY <1>4, <3>3, <4>1, TakeAway
      <4>3. p + l <= O
        BY <1>1, <3>5 DEF Paid
      <4> HIDE DEF O, p, q, l, l2
      <4>4. q + l2 <= O
        BY <1>3, <3>2, <3>3, <4>2, <4>3
      <4>5. s \in processed' /\ s \in ToSet(list')
        BY <1>2, <1>5, <3>1, <3>5
      <4>6. QED
        BY <4>4, <4>5 DEF Paid, O, q, l2
    <3>6. CASE s \notin processed
      <4>1. ToSet(one) \subseteq Ahead(list, processed, s)
        BY <1>4, <3>1, <3>6
      <4>2. Ahead(list', processed', s) = Ahead(list, processed, s) \ ToSet(one)
        BY <1>2, <1>5 DEF Ahead, Left
      <4>3. a2 = a - Room
        BY <1>4, <3>3, <4>1, <4>2, TakeAway
      <4>4. p + a <= 2 * O + M + Room
        BY <1>1, <1>2, <3>1, <3>6 DEF Paid
      <4> HIDE DEF O, M, p, q, a, a2
      <4>5. q + a2 <= 2 * O + M + Room
        BY <1>3, <3>2, <3>3, <3>4, <4>3, <4>4
      <4>6. s \notin processed' /\ s \in ToSet(list') /\ ~processingsdes'
        BY <1>2, <1>5, <3>1, <3>6
      <4>7. QED
        BY <4>5, <4>6 DEF Paid, O, M, q, a2
    <3>7. QED
      BY <3>5, <3>6
  <2>3. QED
    BY <2>1, <2>2
<1>8. QED
  BY <1>1, <1>2, <1>5, <1>7, WaitKept

LEMMA BothWait ==
    ASSUME ReportsInv, WaitInv, BuildBoth
    PROVE  WaitInv'
<1> DEFINE fill == FillInReportBlocks(processed, All, Room)
           one == fill.taken
           count == (sdesbuildcount + 1) % Period
           sdes == FillInSDES(Due(count), handled, Room - Len(one))
           items == sdes.taken
           more == FillInReportBlocks({}, fill.skipped, RoomAfter(one, items)).taken
           again == IF sdes.processedall /\ fill.skipped > 0 THEN more ELSE <<>>
<1>1. /\ list \in Seq(Sources) /\ IsInjective(list) /\ processed \subseteq ToSet(list)
      /\ sentdata \subseteq ToSet(list) /\ ReportsTypeOK
      /\ \A s \in Sources : waited[s] \in Nat
      /\ \A s \in Sources \ {Own} :
            Paid(list, processed, processingsdes, due \ handled, waited[s], s)
  BY WaitFacts
<1>2. /\ ~processingsdes /\ ~fill.full /\ due' = Due(count)
      /\ processingsdes' = ~sdes.processedall
      /\ handled' = IF sdes.processedall THEN {} ELSE handled \cup ToSet(items)
      /\ processed' = {} \cup ToSet(again)
      /\ Built(one, again, items)
  BY DEF BuildBoth, Marked
<1>3. All \in Nat /\ Room \in Nat
  BY RtcpReportsAssumption, FS_CardinalityType DEF All
<1>4. /\ one \in Seq(Sources) /\ Len(one) \in Nat /\ Len(one) <= Room
      /\ IsFiniteSet(ToSet(one)) /\ Cardinality(ToSet(one)) = Len(one)
      /\ ToSet(one) \subseteq Left(list, processed)
      /\ \A s \in ToSet(list) \ processed : ShouldProcess(s) => s \in ToSet(one)
  <2>1. Filled(processed, All, Room)
    BY <1>1, <1>3, TakenLemma
  <2>2. QED
    BY <1>2, <2>1 DEF Filled
<1>5. Due(count) \in SUBSET ItemNames
  BY DEF Due
<1>6. /\ ToSet(items) \subseteq Due(count) /\ Len(items) \in Nat
      /\ IsFiniteSet(ToSet(items)) /\ Cardinality(ToSet(items)) = Len(items)
      /\ ~sdes.processedall => Len(items) = Room - Len(one)
  <2> HIDE DEF one, count
  <2>1. Room - Len(one) \in Nat
    BY <1>3, <1>4
  <2>2. FilledItems(Due(count), handled, Room - Len(one))
    BY <1>5, <2>1, ItemsCount
  <2>3. QED
    BY <2>2 DEF FilledItems
<1>7. ToSet(again) \subseteq ToSet(list)
  <2>1. fill.skipped \in Int /\ RoomAfter(one, items) \in Int
    <3>1. fill.skipped \in Int
      BY <1>1, <1>3, FillLemma
    <3> HIDE DEF fill, one, sdes, items
    <3>2. QED
      BY <1>3, <1>4, <1>6, <3>1 DEF RoomAfter
  <2> HIDE DEF fill, one, sdes, items
  <2>2. ToSet(more) \subseteq ToSet(list)
    BY <1>1, <2>1, FillLemma
  <2> HIDE DEF more
  <2>3. QED
    BY <2>2, EmptyLemma
<1>8. ~sdes.processedall => ToSet(again) = {}
  <2> HIDE DEF more, sdes, fill
  <2>1. QED
    BY EmptyLemma
<1> HIDE DEF fill, one, count, sdes, items, more, again
<1>9. handled = {}
  BY <1>2 DEF ReportsInv, FlagsTell
<1>10. list' = list /\ sentdata' = sentdata
  BY <1>2, BuiltWait, RtcpReportsAssumption
<1>11. processed' \subseteq ToSet(list') /\ due' \ handled' \in SUBSET ItemNames
  BY <1>2, <1>5, <1>7, <1>10
<1>12. processingsdes' => processed' = {}
  BY <1>2, <1>8
<1>13. ASSUME NEW s \in Sources \ {Own}
       PROVE  Paid(list', processed', processingsdes', due' \ handled', waited'[s], s)
  <2>1. CASE waited'[s] = 0
    <3>1. Paid(list', processed', processingsdes', due' \ handled', 0, s)
      BY <1>1, <1>10, <1>11, ZeroPaid
    <3>2. QED
      BY <2>1, <3>1
  <2>2. CASE waited'[s] # 0
    <3>1. /\ ShouldProcess(s) /\ s \notin ToSet(one) /\ s \notin ToSet(again)
          /\ s \in ToSet(list) /\ waited'[s] = waited[s] + 1
      BY <1>1, <1>2, <2>2, BuiltWait
    <3>2. s \in processed
      BY <1>4, <3>1
    <3>3. s \notin processed' /\ s \in ToSet(list')
      BY <1>2, <1>10, <3>1
    <3> DEFINE O == OtherSources
               M == Cardinality(ItemNames)
               w == waited[s]
               p == Room * w
               q == Room * waited'[s]
               l == Cardinality(Left(list, processed))
               a2 == Cardinality(Ahead(list', processed', s))
               t2 == Cardinality(due' \ handled')
               k == Len(one)
    <3>4. p \in Nat /\ q = p + Room
      <4> HIDE DEF w
      <4>1. w \in Nat
        BY <1>1 DEF w
      <4>2. p \in Nat /\ Room * (w + 1) = p + Room
        BY <4>1, OneMore
      <4>3. QED
        BY <3>1, <4>2 DEF w
    <3>5. O \in Nat /\ l \in Nat /\ a2 \in Nat /\ a2 <= O
      BY <1>1, <1>10, OthersLemma
    <3>6. p + l <= O
      BY <1>1, <3>2 DEF Paid
    <3>7. k <= l
      <4>1. IsFiniteSet(Left(list, processed))
        BY <1>1, OthersLemma
      <4>2. Cardinality(ToSet(one)) <= l
        BY <1>4, <4>1, FS_Subset
      <4>3. QED
        BY <1>4, <4>2
    <3>8. M \in Nat /\ k \in Nat
      BY <1>4, ItemsFinite
    <3>9. CASE sdes.processedall
      <4> HIDE DEF O, M, p, q, l, a2
      <4>1. q + a2 <= 2 * O + M + Room
        BY <1>3, <3>4, <3>5, <3>6, <3>8
      <4>2. ~processingsdes'
        BY <1>2, <3>9
      <4>3. QED
        BY <3>3, <4>1, <4>2 DEF Paid, O, M, q, a2
    <3>10. CASE ~sdes.processedall
      <4>1. due' \ handled' = Due(count) \ ToSet(items)
        BY <1>2, <1>9, <3>10
      <4>2. /\ IsFiniteSet(Due(count)) /\ Cardinality(Due(count)) \in Nat
            /\ Cardinality(Due(count)) <= M
        BY <1>5, ItemsFinite
      <4>3. t2 \in Nat /\ t2 = Cardinality(Due(count)) - (Room - k)
        BY <1>6, <3>10, <4>1, <4>2, TakeAway
      <4> HIDE DEF O, M, p, q, l, a2, t2, k
      <4>4. q + t2 + a2 <= 2 * O + M
        BY <1>3, <3>4, <3>5, <3>6, <3>7, <3>8, <4>2, <4>3
      <4>5. processingsdes'
        BY <1>2, <3>10
      <4>6. QED
        BY <3>3, <4>4, <4>5 DEF Paid, O, M, q, a2, t2
    <3>11. QED
      BY <3>9, <3>10
  <2>3. QED
    BY <2>1, <2>2
<1>14. QED
  BY <1>1, <1>10, <1>12, <1>13, WaitKept

LEMMA ItemsWait ==
    ASSUME ReportsInv, WaitInv, BuildItems
    PROVE  WaitInv'
<1> DEFINE sdes == FillInSDES(due, handled, Room)
           items == sdes.taken
           fill == FillInReportBlocks(processed, All, Room - Len(items))
           one == fill.taken
<1>1. /\ list \in Seq(Sources) /\ IsInjective(list) /\ processed = {}
      /\ sentdata \subseteq ToSet(list)
      /\ due \in SUBSET ItemNames /\ due \ handled \in SUBSET ItemNames
      /\ IsFiniteSet(due \ handled) /\ processingsdes
      /\ \A s \in Sources : waited[s] \in Nat
      /\ \A s \in Sources \ {Own} :
            Paid(list, processed, processingsdes, due \ handled, waited[s], s)
  BY WaitFacts DEF BuildItems
<1>2. Room \in Nat /\ All \in Int
  BY RtcpReportsAssumption, FS_CardinalityType DEF All
<1>3. /\ due' = due
      /\ IF sdes.processedall
         THEN /\ processingsdes' = FALSE /\ handled' = {}
              /\ processed' = IF fill.atend THEN {} ELSE processed \cup ToSet(one)
              /\ Built(one, <<>>, items)
         ELSE /\ processingsdes' = TRUE /\ handled' = handled \cup ToSet(items)
              /\ processed' = processed
              /\ Built(<<>>, <<>>, items)
  BY DEF BuildItems, Marked
<1>4. /\ ToSet(items) \subseteq due \ handled /\ Len(items) \in Nat
      /\ IsFiniteSet(ToSet(items)) /\ Cardinality(ToSet(items)) = Len(items)
      /\ ~sdes.processedall => Len(items) = Room
  <2>1. FilledItems(due, handled, Room)
    BY <1>1, <1>2, ItemsCount
  <2>2. QED
    BY <2>1 DEF FilledItems
<1>5. ToSet(one) \subseteq ToSet(list)
  <2> HIDE DEF sdes, items
  <2>1. Room - Len(items) \in Int
    BY <1>2, <1>4
  <2>2. QED
    BY <1>1, <1>2, <2>1, FillLemma
<1> HIDE DEF sdes, items, fill, one
<1>6. list' = list /\ sentdata' = sentdata
  BY <1>3, BuiltWait, RtcpReportsAssumption
<1>7. processed' \subseteq ToSet(list') /\ due' \ handled' \in SUBSET ItemNames
  BY <1>1, <1>3, <1>5, <1>6
<1>8. processingsdes' => processed' = {}
  BY <1>1, <1>3
<1>9. ASSUME NEW s \in Sources \ {Own}
      PROVE  Paid(list', processed', processingsdes', due' \ handled', waited'[s], s)
  <2>1. CASE waited'[s] = 0
    <3>1. Paid(list', processed', processingsdes', due' \ handled', 0, s)
      BY <1>1, <1>6, <1>7, ZeroPaid
    <3>2. QED
      BY <2>1, <3>1
  <2>2. CASE waited'[s] # 0
    <3>1. /\ s \in ToSet(list) /\ waited'[s] = waited[s] + 1
          /\ sdes.processedall => s \notin ToSet(one)
      BY <1>1, <1>3, <2>2, BuiltWait
    <3>2. s \notin processed' /\ s \in ToSet(list')
      BY <1>1, <1>3, <1>6, <3>1
    <3> DEFINE O == OtherSources
               M == Cardinality(ItemNames)
               w == waited[s]
               p == Room * w
               q == Room * waited'[s]
               a == Cardinality(Ahead(list, processed, s))
               a2 == Cardinality(Ahead(list', processed', s))
               t == Cardinality(due \ handled)
               t2 == Cardinality(due' \ handled')
    <3>3. p \in Nat /\ q = p + Room
      <4> HIDE DEF w
      <4>1. w \in Nat
        BY <1>1 DEF w
      <4>2. p \in Nat /\ Room * (w + 1) = p + Room
        BY <4>1, OneMore
      <4>3. QED
        BY <3>1, <4>2 DEF w
    <3>4. O \in Nat /\ a \in Nat /\ IsFiniteSet(Ahead(list, processed, s))
      BY <1>1, OthersLemma
    <3>5. a2 \in Nat /\ a2 <= a
      <4>1. Ahead(list', processed', s) \subseteq Ahead(list, processed, s)
        BY <1>1, <1>3, <1>6 DEF Ahead, Left
      <4>2. QED
        BY <3>4, <4>1, FS_Subset, FS_CardinalityType
    <3>6. M \in Nat /\ t \in Nat
      BY <1>1, ItemsFinite
    <3>7. p + t + a <= 2 * O + M
      BY <1>1, <3>1 DEF Paid
    <3>8. CASE sdes.processedall
      <4>1. ~processingsdes'
        BY <1>3, <3>8
      <4> HIDE DEF O, M, p, q, a, a2, t
      <4>2. q + a2 <= 2 * O + M + Room
        BY <1>2, <3>3, <3>4, <3>5, <3>6, <3>7
      <4>3. QED
        BY <3>2, <4>1, <4>2 DEF Paid, O, M, q, a2
    <3>9. CASE ~sdes.processedall
      <4>1. due' \ handled' = (due \ handled) \ ToSet(items) /\ processingsdes'
        BY <1>3, <3>9
      <4>2. t2 \in Nat /\ t2 = t - Room
        BY <1>1, <1>4, <3>9, <4>1, TakeAway
      <4> HIDE DEF O, M, p, q, a, a2, t, t2
      <4>3. q + t2 + a2 <= 2 * O + M
        BY <1>2, <3>3, <3>4, <3>5, <3>6, <3>7, <4>2
      <4>4. QED
        BY <3>2, <4>1, <4>3 DEF Paid, O, M, q, a2, t2
    <3>10. QED
      BY <3>8, <3>9
  <2>3. QED
    BY <2>1, <2>2
<1>10. QED
  BY <1>1, <1>6, <1>8, <1>9, WaitKept

LEMMA InitWait ==
    ASSUME ReportsInit
    PROVE  WaitInv
<1>1. list = <<Own>> /\ sentdata = {} /\ processed = {} /\ due = {} /\ ~processingsdes
  BY DEF ReportsInit
<1>2. list \in Seq(Sources) /\ IsInjective(list)
  BY ReportsInitInv DEF ReportsInv, ReportsTypeOK
<1>3. \A s \in Sources : waited[s] = 0
  BY DEF ReportsInit
<1>4. \A s \in Sources \ {Own} :
         Paid(list, processed, processingsdes, due \ handled, waited[s], s)
  <2> SUFFICES ASSUME NEW s \in Sources \ {Own}
               PROVE  Paid(list, processed, processingsdes, due \ handled, 0, s)
    BY <1>3
  <2>1. processed \subseteq ToSet(list) /\ due \ handled \in SUBSET ItemNames
    BY <1>1
  <2>2. QED
    BY <1>2, <2>1, ZeroPaid
<1>5. QED
  BY <1>1, <1>4, PaidDef DEF WaitInv

LEMMA WaitNext ==
    ASSUME ReportsInv, WaitInv, [ReportsNext]_reportsVars
    PROVE  WaitInv'
<1>1. ASSUME NEW s \in Sources, Receive(s) \/ SetCSRC(s) PROVE WaitInv'
  <2>1. sentdata' \subseteq ToSet(list')
    BY <1>1, WaitFacts DEF Receive, SetCSRC
  <2>2. UNCHANGED <<list, processed, processingsdes, due, handled, waited>>
    BY <1>1 DEF Receive, SetCSRC, sdesVars
  <2>3. QED
    BY <2>1, <2>2, OtherWait
<1>2. ASSUME UNCHANGED reportsVars PROVE WaitInv'
  <2>1. sentdata' \subseteq ToSet(list')
    BY <1>2, WaitFacts DEF reportsVars, tableVars
  <2>2. UNCHANGED <<list, processed, processingsdes, due, handled, waited>>
    BY <1>2 DEF reportsVars, tableVars, sdesVars
  <2>3. QED
    BY <2>1, <2>2, OtherWait
<1>3. QED
  BY <1>1, <1>2, JoinWait, LeaveWait, ReportsWait, BothWait, ItemsWait
  DEF ReportsNext, BuildNextPacket

\* What is paid for bounds the wait.
LEMMA WaitFromPaid ==
    ASSUME ReportsInv, WaitInv, NEW s \in Sources \ {Own}
    PROVE  waited[s] <= MaxWait
<1> DEFINE O == OtherSources
           M == Cardinality(ItemNames)
           w == waited[s]
           K == 2 * O + M
           d == K \div Room
           p == Room * w
<1>1. O \in Nat /\ M \in Nat /\ Room \in Nat \ {0}
  BY WaitFacts, OthersLemma, ItemsFinite, RtcpReportsAssumption
<1>2. w \in Nat
  BY WaitFacts
<1>3. p \in Nat
  <2> HIDE DEF w
  <2>1. QED
    BY <1>2, OneMore
<1>4. p <= K + Room
  <2>1. /\ Cardinality(Left(list, processed)) \in Nat
        /\ Cardinality(Ahead(list, processed, s)) \in Nat
        /\ Cardinality(due \ handled) \in Nat
    BY WaitFacts, OthersLemma, ItemsFinite
  <2>2. Paid(list, processed, processingsdes, due \ handled, w, s)
    BY WaitFacts
  <2>3. /\ s \notin ToSet(list) => p = 0
        /\ s \in processed => p + Cardinality(Left(list, processed)) <= O
        /\ s \in ToSet(list) \ processed /\ processingsdes =>
              p + Cardinality(due \ handled) + Cardinality(Ahead(list, processed, s)) <= K
        /\ s \in ToSet(list) \ processed /\ ~processingsdes =>
              p + Cardinality(Ahead(list, processed, s)) <= K + Room
    BY <2>2, OneMore DEF Paid
  <2> HIDE DEF O, M, p
  <2>4. QED
    BY <1>1, <1>3, <2>1, <2>3
<1>5. K \in Nat
  BY <1>1
<1> HIDE DEF K
<1>6. d \in Nat /\ K < Room * d + Room
  BY <1>1, <1>5
<1> HIDE DEF d
<1>7. w <= d + 1
  <2> SUFFICES ASSUME w >= d + 2 PROVE FALSE
    BY <1>2, <1>6
  <2>1. Room * w >= Room * d + Room + Room
    BY <1>1, <1>2, <1>6
  <2>2. QED
    BY <1>1, <1>3, <1>4, <1>5, <1>6, <2>1
<1>8. QED
  BY <1>7 DEF MaxWait, d, K

\* The inductive invariant of the wait, for any sources, items and room.
THEOREM WaitInvTheorem == ReportsSpec => []WaitInv
  BY InitWait, WaitNext, ReportsInvTheorem, PTL DEF ReportsSpec

\* No source that keeps sending waits for its report for more than MaxWait
\* packets, but for newcomers that go before a source with a mark.
THEOREM WaitBoundedTheorem == ReportsSpec => []WaitBounded
<1>1. ReportsInv /\ WaitInv => WaitBounded
  BY WaitFromPaid DEF WaitBounded
<1>2. QED
  BY <1>1, WaitInvTheorem, ReportsInvTheorem, PTL

=============================================================================
