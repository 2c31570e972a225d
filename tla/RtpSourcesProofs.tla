---------------------------- MODULE RtpSourcesProofs ----------------------------
(***************************************************************************)
(* Proofs about RtpSources for every finite set of identifiers, every set  *)
(* of addresses and hosts and every number of contributing sources, and,   *)
(* in the second part, about one source of the table, RtpSource.           *)
(***************************************************************************)
EXTENDS RtpSources, RtpSource, SequenceTheorems, FiniteSetTheorems, TLAPS

-----------------------------------------------------------------------------
(* Counting.                                                               *)

\* Two sets that differ in s at most.
LEMMA CountChange ==
    ASSUME NEW P \in SUBSET SSRC, NEW Q \in SUBSET SSRC, NEW s, P \ {s} = Q \ {s}
    PROVE  /\ Cardinality(P) \in Nat /\ Cardinality(Q) \in Nat
           /\ Cardinality(Q) = Cardinality(P) + One(s \in Q) - One(s \in P)
<1>1. IsFiniteSet(P) /\ IsFiniteSet(Q)
  BY RtpSourcesAssumption, FS_Subset
<1>2. Cardinality(P) \in Nat /\ Cardinality(Q) \in Nat
  BY <1>1, FS_CardinalityType
<1>3. Cardinality(P \ {s}) = Cardinality(P) - One(s \in P)
  BY SMTT(30), <1>1, <1>2, FS_RemoveElement DEF One
<1>4. Cardinality(Q \ {s}) = Cardinality(Q) - One(s \in Q)
  BY SMTT(30), <1>1, <1>2, FS_RemoveElement DEF One
<1>5. QED
  BY <1>2, <1>3, <1>4 DEF One

LEMMA CardinalitiesTyped ==
    ASSUME NEW t
    PROVE  /\ Cardinality(Members(t)) \in Nat /\ Cardinality(SendingMembers(t)) \in Nat
           /\ Cardinality(ActiveMembers(t)) \in Nat
<1>1. /\ Members(t) \in SUBSET SSRC /\ SendingMembers(t) \in SUBSET SSRC
      /\ ActiveMembers(t) \in SUBSET SSRC
  BY DEF Members, SendingMembers, ActiveMembers
<1>2. QED
  BY <1>1, RtpSourcesAssumption, FS_Subset, FS_CardinalityType

\* The table with another entry for one source.
LEMMA EntryChange ==
    ASSUME NEW t \in Table, NEW u \in Table, NEW s \in SSRC,
           \A r \in SSRC \ {s} : u.src[r] = t.src[r]
    PROVE  /\ Cardinality(Members(u)) = Cardinality(Members(t))
                + One(u.src[s].present) - One(t.src[s].present)
           /\ Cardinality(SendingMembers(u)) = Cardinality(SendingMembers(t))
                + One(u.src[s].present /\ u.src[s].sender)
                - One(t.src[s].present /\ t.src[s].sender)
           /\ Cardinality(ActiveMembers(u)) = Cardinality(ActiveMembers(t))
                + One(IsActive(u.src[s])) - One(IsActive(t.src[s]))
<1>1. Cardinality(Members(u)) = Cardinality(Members(t))
                + One(u.src[s].present) - One(t.src[s].present)
  <2>1. Members(t) \ {s} = Members(u) \ {s}
    BY DEF Members
  <2>2. /\ Members(t) \in SUBSET SSRC /\ Members(u) \in SUBSET SSRC
        /\ s \in Members(t) <=> t.src[s].present
        /\ s \in Members(u) <=> u.src[s].present
    BY DEF Members
  <2>3. QED
    BY <2>1, <2>2, CountChange DEF One
<1>2. Cardinality(SendingMembers(u)) = Cardinality(SendingMembers(t))
                + One(u.src[s].present /\ u.src[s].sender)
                - One(t.src[s].present /\ t.src[s].sender)
  <2>1. SendingMembers(t) \ {s} = SendingMembers(u) \ {s}
    BY DEF SendingMembers
  <2>2. /\ SendingMembers(t) \in SUBSET SSRC /\ SendingMembers(u) \in SUBSET SSRC
        /\ s \in SendingMembers(t) <=> (t.src[s].present /\ t.src[s].sender)
        /\ s \in SendingMembers(u) <=> (u.src[s].present /\ u.src[s].sender)
    BY DEF SendingMembers
  <2>3. QED
    BY <2>1, <2>2, CountChange DEF One
<1>3. Cardinality(ActiveMembers(u)) = Cardinality(ActiveMembers(t))
                + One(IsActive(u.src[s])) - One(IsActive(t.src[s]))
  <2>1. ActiveMembers(t) \ {s} = ActiveMembers(u) \ {s}
    BY DEF ActiveMembers
  <2>2. /\ ActiveMembers(t) \in SUBSET SSRC /\ ActiveMembers(u) \in SUBSET SSRC
        /\ s \in ActiveMembers(t) <=> IsActive(t.src[s])
        /\ s \in ActiveMembers(u) <=> IsActive(u.src[s])
    BY DEF ActiveMembers
  <2>3. QED
    BY <2>1, <2>2, CountChange DEF One
<1>4. QED
  BY <1>1, <1>2, <1>3

-----------------------------------------------------------------------------
(* The invariant as a predicate of tables, and the calls that change one   *)
(* entry.                                                                  *)

AbsentAreNew(t) == \A s \in SSRC : ~t.src[s].present => t.src[s] = NewEntry
Counted(t) ==
    /\ t.total = Cardinality(Members(t))
    /\ t.senders = Cardinality(SendingMembers(t))
    /\ t.active + t.missed = Cardinality(ActiveMembers(t))
OursEntry(e) == IsActive(e) /\ e.rtp = Own /\ e.rtcp = Own

Good(t) == /\ t \in Table /\ AbsentAreNew(t) /\ Counted(t)
           /\ t.own # NoSSRC => OursEntry(t.src[t.own])

\* What packets do to a table: no source leaves it, none is moved.
Kept(e, f) == /\ e.present => f.present
              /\ e.rtp # Unset => f.rtp = e.rtp
              /\ e.rtcp # Unset => f.rtcp = e.rtcp
Grows(t, u) == /\ u.own = t.own
               /\ \A s \in SSRC : Kept(t.src[s], u.src[s])

LEMMA GrowsTransitive ==
    ASSUME NEW t, NEW u, NEW v, Grows(t, u), Grows(u, v)
    PROVE  Grows(t, v)
  BY DEF Grows, Kept

\* A change of the entry of s, with the counts changed accordingly.
LEMMA Update ==
    ASSUME NEW t, Good(t), NEW u \in Table, NEW s \in SSRC,
           \A r \in SSRC \ {s} : u.src[r] = t.src[r],
           u.own = t.own, u.src[s].present, Kept(t.src[s], u.src[s]),
           s = t.own => OursEntry(u.src[s]),
           u.total = t.total + One(~t.src[s].present),
           u.senders = t.senders + One(u.src[s].sender)
                         - One(t.src[s].present /\ t.src[s].sender),
           u.active + u.missed = t.active + t.missed + One(IsActive(u.src[s]))
                                   - One(IsActive(t.src[s]))
    PROVE  Good(u) /\ Grows(t, u)
<1>1. t \in Table /\ Counted(t)
  BY DEF Good
<1>2. Counted(u)
  <2>1. \A r \in SSRC \ {s} : u.src[r] = t.src[r]
    OBVIOUS
  <2> HIDE DEF Good
  <2>10. /\ Cardinality(Members(u)) = Cardinality(Members(t))
                + One(u.src[s].present) - One(t.src[s].present)
        /\ Cardinality(SendingMembers(u)) = Cardinality(SendingMembers(t))
                + One(u.src[s].present /\ u.src[s].sender)
                - One(t.src[s].present /\ t.src[s].sender)
        /\ Cardinality(ActiveMembers(u)) = Cardinality(ActiveMembers(t))
                + One(IsActive(u.src[s])) - One(IsActive(t.src[s]))
    BY <1>1, EntryChange DEF One
  <2>2. /\ t.total \in Int /\ t.senders \in Int /\ t.active \in Int /\ t.missed \in Int
    BY <1>1 DEF Table
  <2>3. u.total = Cardinality(Members(u))
    BY <1>1, <2>10, <2>2 DEF Counted, One
  <2>4. u.senders = Cardinality(SendingMembers(u))
    BY <1>1, <2>10, <2>2 DEF Counted, One
  <2>5. u.active + u.missed = Cardinality(ActiveMembers(u))
    BY <1>1, <2>10, <2>2 DEF Counted, One
  <2>6. QED
    BY <2>3, <2>4, <2>5 DEF Counted
<1>3. AbsentAreNew(u)
  BY DEF AbsentAreNew, Good
<1>4. u.own # NoSSRC => OursEntry(u.src[u.own])
  BY <1>1 DEF Good, Table
<1>5. Grows(t, u)
  BY DEF Grows, Kept
<1>6. QED
  BY <1>2, <1>3, <1>4, <1>5 DEF Good

\* The types of the records that make up a table.
LEMMA TableTypes ==
    ASSUME NEW t \in Table, NEW s \in SSRC
    PROVE  /\ t.src \in [SSRC -> Entry] /\ t.src[s] \in Entry
           /\ t.own \in SSRC \cup {NoSSRC}
           /\ t.total \in Nat /\ t.senders \in Nat /\ t.active \in Int /\ t.missed \in Nat
           /\ t.owncollision \in BOOLEAN /\ t.mine \in SUBSET SSRC
           /\ t.src[s].present \in BOOLEAN /\ t.src[s].validated \in BOOLEAN
           /\ t.src[s].sender \in BOOLEAN /\ t.src[s].bye \in BOOLEAN
  BY DEF Table, Entry

LEMMA ObtainLemma ==
    ASSUME NEW t, Good(t), NEW s \in SSRC, NEW u, u = ObtainSourceDataInstance(t, s)
    PROVE  /\ Good(u) /\ Grows(t, u) /\ u.src[s].present
           /\ t.src[s].present => u = t
           /\ ~t.src[s].present => u.src[s] = [NewEntry EXCEPT !.present = TRUE]
<1>1. CASE t.src[s].present
  BY <1>1 DEF ObtainSourceDataInstance, Grows, Kept
<1>2. CASE ~t.src[s].present
  <2>1. t \in Table /\ t.src[s] = NewEntry
    BY <1>2 DEF Good, AbsentAreNew
  <2>2. u = [t EXCEPT !.src[s].present = TRUE, !.total = @ + 1]
    BY <1>2 DEF ObtainSourceDataInstance
  <2>3. /\ u \in Table /\ u.own = t.own
        /\ u.src[s] = [NewEntry EXCEPT !.present = TRUE]
        /\ \A r \in SSRC \ {s} : u.src[r] = t.src[r]
        /\ u.total = t.total + 1 /\ u.senders = t.senders
        /\ u.active = t.active /\ u.missed = t.missed
    <3> DEFINE e == [t.src[s] EXCEPT !.present = TRUE]
    <3>1. u = [src |-> [t.src EXCEPT ![s] = e], own |-> t.own, total |-> t.total + 1,
               senders |-> t.senders, active |-> t.active, missed |-> t.missed,
               owncollision |-> t.owncollision, mine |-> t.mine]
      BY <2>1, <2>2 DEF Table
    <3>2. e \in Entry /\ e = [NewEntry EXCEPT !.present = TRUE]
      <4>1. e = [NewEntry EXCEPT !.present = TRUE]
        BY <2>1
      <4>2. t.src[s] \in Entry
        BY <2>1, TableTypes
      <4>3. QED
        BY <4>1, <4>2 DEF Entry
    <3> HIDE DEF e
    <3>3. u \in Table
      BY <2>1, <3>1, <3>2, TableTypes DEF Table
    <3>4. QED
      BY <2>1, <3>1, <3>2, <3>3, TableTypes
  <2>4. /\ t.src[s].present = FALSE /\ t.src[s].sender = FALSE /\ t.src[s].bye = FALSE
        /\ t.src[s].rtp = Unset /\ t.src[s].rtcp = Unset /\ t.src[s].validated = FALSE
        /\ u.src[s].present = TRUE /\ u.src[s].sender = FALSE /\ u.src[s].bye = FALSE
        /\ u.src[s].validated = FALSE
    BY <2>1, <2>3 DEF NewEntry
  <2>5. t.own # s
    BY <2>4, RtpSourcesAssumption DEF Good, OursEntry, IsActive
  <2>6. /\ u.total = t.total + One(~t.src[s].present)
        /\ u.senders = t.senders + One(u.src[s].sender)
                         - One(t.src[s].present /\ t.src[s].sender)
        /\ u.active + u.missed = t.active + t.missed + One(IsActive(u.src[s]))
                                   - One(IsActive(t.src[s]))
    BY <2>1, <2>3, <2>4, TableTypes DEF One, IsActive
  <2>7. /\ Kept(t.src[s], u.src[s]) /\ u.src[s].present
        /\ s = t.own => OursEntry(u.src[s])
    BY <2>4, <2>5 DEF Kept
  <2>8. Good(u) /\ Grows(t, u)
    BY <2>3, <2>6, <2>7, Update
  <2>9. QED
    BY <1>2, <2>3, <2>4, <2>8
<1>3. QED
  BY <1>1, <1>2

\* A table with entry e for source s, and counts changed by n, m and k.
Put(t, s, e, n, m, k) ==
    [src |-> [t.src EXCEPT ![s] = e], own |-> t.own, total |-> t.total,
     senders |-> t.senders + n, active |-> t.active + m, missed |-> t.missed + k,
     owncollision |-> t.owncollision, mine |-> t.mine]

LEMMA PutLemma ==
    ASSUME NEW t, Good(t), NEW s \in SSRC, t.src[s].present,
           NEW e \in Entry, e.present, Kept(t.src[s], e), s = t.own => OursEntry(e),
           NEW n \in Nat, NEW m \in Int, NEW k \in Nat,
           n = One(e.sender) - One(t.src[s].sender),
           m + k = One(IsActive(e)) - One(IsActive(t.src[s])),
           NEW u, u = Put(t, s, e, n, m, k)
    PROVE  Good(u) /\ Grows(t, u) /\ u.src[s] = e
<1>1. t \in Table
  BY DEF Good
<1>2. /\ u \in Table /\ u.src[s] = e /\ u.own = t.own /\ u.total = t.total
      /\ u.senders = t.senders + n /\ u.active = t.active + m /\ u.missed = t.missed + k
      /\ \A r \in SSRC \ {s} : u.src[r] = t.src[r]
  BY <1>1, TableTypes DEF Put, Table
<1>3. /\ u.total = t.total + One(~t.src[s].present)
      /\ u.senders = t.senders + One(u.src[s].sender)
                       - One(t.src[s].present /\ t.src[s].sender)
      /\ u.active + u.missed = t.active + t.missed + One(IsActive(u.src[s]))
                                 - One(IsActive(t.src[s]))
  <2>1. u.total = t.total + One(~t.src[s].present)
    BY <1>1, <1>2, TableTypes DEF One
  <2>2. u.senders = t.senders + One(u.src[s].sender)
                       - One(t.src[s].present /\ t.src[s].sender)
    BY <1>1, <1>2, TableTypes DEF One
  <2>3. u.active + u.missed = t.active + t.missed + One(IsActive(u.src[s]))
                                 - One(IsActive(t.src[s]))
    <3>1. u.active + u.missed = t.active + t.missed + (m + k)
      BY <1>1, <1>2, TableTypes
    <3>2. t.active + t.missed \in Int
      BY <1>1, TableTypes
    <3>3. QED
      BY <1>2, <3>1, <3>2 DEF One
  <2>4. QED
    BY <2>1, <2>2, <2>3
<1>4. /\ u.src[s].present /\ Kept(t.src[s], u.src[s])
      /\ s = t.own => OursEntry(u.src[s])
  BY Zenon, <1>2
<1>5. u \in Table /\ u.own = t.own /\ \A r \in SSRC \ {s} : u.src[r] = t.src[r]
  BY <1>2
<1>6. Good(u) /\ Grows(t, u)
  BY <1>3, <1>4, <1>5, Update
<1>7. QED
  BY <1>2, <1>6

\* A table that differs in the note of the collision, or in history.
LEMMA SameSources ==
    ASSUME NEW t, Good(t), NEW u \in Table, u.src = t.src, u.own = t.own,
           u.total = t.total, u.senders = t.senders, u.active = t.active,
           u.missed = t.missed
    PROVE  Good(u) /\ Grows(t, u)
<1>1. /\ Members(u) = Members(t) /\ SendingMembers(u) = SendingMembers(t)
      /\ ActiveMembers(u) = ActiveMembers(t)
  BY DEF Members, SendingMembers, ActiveMembers
<1>2. QED
  BY <1>1 DEF Good, Counted, AbsentAreNew, Grows, Kept

LEMMA CollisionLemma ==
    ASSUME NEW t, Good(t), NEW s \in SSRC, t.src[s].present,
           NEW a \in Senders, NEW ch \in Channels,
           NEW u, u = CheckCollision(t, s, a, ch)
    PROVE  /\ Good(u) /\ Grows(t, u)
           /\ u.src[s].present /\ u.src[s].validated = t.src[s].validated
           /\ u.src[s].sender = t.src[s].sender /\ u.src[s].bye = t.src[s].bye
<1>1. t \in Table
  BY DEF Good
<1>2. CASE ~Fits(t.src[s], a, ch)
  <2>1. u = [t EXCEPT !.owncollision = @ \/ s = t.own]
    BY <1>2 DEF CheckCollision
  <2>2. /\ u \in Table /\ u.src = t.src /\ u.own = t.own /\ u.total = t.total
        /\ u.senders = t.senders /\ u.active = t.active /\ u.missed = t.missed
    BY <1>1, <2>1 DEF Table
  <2>3. QED
    BY <2>2, SameSources
<1>3. CASE Fits(t.src[s], a, ch)
  <2> DEFINE e == [t.src[s] EXCEPT ![ch] = a]
  <2>1. u = [t EXCEPT !.src[s] = e]
    BY <1>3 DEF CheckCollision
  <2>2. t.src[s] \in Entry
    BY <1>1, TableTypes
  <2>3. /\ e \in Entry /\ e.present = t.src[s].present /\ e.validated = t.src[s].validated
        /\ e.sender = t.src[s].sender /\ e.bye = t.src[s].bye
        /\ e.rtp = IF ch = "rtp" THEN a ELSE t.src[s].rtp
        /\ e.rtcp = IF ch = "rtcp" THEN a ELSE t.src[s].rtcp
    <3>1. CASE ch = "rtp"
      BY <2>2, <3>1 DEF Entry
    <3>2. CASE ch = "rtcp"
      BY <2>2, <3>2 DEF Entry
    <3>3. QED
      BY <3>1, <3>2 DEF Channels
  <2>4. /\ ch = "rtp" /\ t.src[s].rtp # Unset => t.src[s].rtp = a
        /\ ch = "rtcp" /\ t.src[s].rtcp # Unset => t.src[s].rtcp = a
    BY <1>3 DEF Fits
  <2> HIDE DEF e
  <2>5. Kept(t.src[s], e)
    BY <2>3, <2>4 DEF Kept, Channels
  <2>6. s = t.own => OursEntry(e)
    <3>1. s = t.own => OursEntry(t.src[s])
      BY RtpSourcesAssumption DEF Good
    <3>2. QED
      BY <2>3, <2>5, <3>1 DEF OursEntry, IsActive, Kept, Own, Unset
  <2>7. u = Put(t, s, e, 0, 0, 0)
    BY <1>1, <2>1, TableTypes DEF Table, Put
  <2>8. /\ 0 = One(e.sender) - One(t.src[s].sender)
        /\ 0 + 0 = One(IsActive(e)) - One(IsActive(t.src[s]))
    BY <2>3 DEF One, IsActive
  <2>9. e \in Entry /\ e.present
    BY <2>3
  <2>10. 0 \in Nat /\ 0 \in Int
    OBVIOUS
  <2>11. Good(u) /\ Grows(t, u) /\ u.src[s] = e
    BY <2>5, <2>6, <2>7, <2>8, <2>9, <2>10, PutLemma
  <2>12. QED
    BY <2>3, <2>11
<1>4. QED
  BY <1>2, <1>3

-----------------------------------------------------------------------------
(* Every packet keeps the table good, and lets it only grow.               *)

LEMMA GetLemma ==
    ASSUME NEW t, Good(t), NEW s \in SSRC, NEW a \in Senders,
           NEW u, u = GetRTCPSourceData(t, s, a)
    PROVE  Good(u) /\ Grows(t, u) /\ u.src[s].present
<1> DEFINE found == ObtainSourceDataInstance(t, s)
<1>1. Good(found) /\ Grows(t, found) /\ found.src[s].present
  BY ObtainLemma
<1>2. "rtcp" \in Channels /\ u = CheckCollision(found, s, a, "rtcp")
  BY DEF Channels, GetRTCPSourceData
<1> HIDE DEF found
<1>3. Good(u) /\ Grows(found, u) /\ u.src[s].present
  BY <1>1, <1>2, CollisionLemma
<1>4. QED
  BY <1>1, <1>3, GrowsTransitive

\* A change of the flags of s that leaves its addresses and its counts.
LEMMA FlagsLemma ==
    ASSUME NEW t, Good(t), NEW s \in SSRC, t.src[s].present,
           NEW e \in Entry, e.present,
           e.rtp = t.src[s].rtp, e.rtcp = t.src[s].rtcp,
           e.sender = t.src[s].sender, NEW m \in Int, NEW k \in Nat,
           m + k = One(IsActive(e)) - One(IsActive(t.src[s])),
           s = t.own => IsActive(e),
           NEW u, u = Put(t, s, e, 0, m, k)
    PROVE  Good(u) /\ Grows(t, u) /\ u.src[s] = e
<1>1. Kept(t.src[s], e)
  BY DEF Kept
<1>2. s = t.own => OursEntry(e)
  BY RtpSourcesAssumption DEF Good, OursEntry
<1>3. 0 \in Nat /\ 0 = One(e.sender) - One(t.src[s].sender)
  BY DEF One
<1>4. QED
  BY <1>1, <1>2, <1>3, PutLemma

LEMMA ReceiveLemma ==
    ASSUME NEW t, Good(t), NEW s \in SSRC, NEW a \in Senders,
           NEW u, u = UpdateReceiveTime(t, s, a)
    PROVE  Good(u) /\ Grows(t, u) /\ u.src[s].present
<1> DEFINE v == GetRTCPSourceData(t, s, a)
<1>1. Good(v) /\ Grows(t, v) /\ v.src[s].present
  BY GetLemma
<1>2. CASE u = v
  BY <1>1, <1>2
<1>3. CASE u = [v EXCEPT !.src[s].heard = TRUE]
  <2> DEFINE e == [v.src[s] EXCEPT !.heard = TRUE]
  <2> HIDE DEF v
  <2>1. v \in Table /\ v.src[s] \in Entry
    BY <1>1, TableTypes DEF Good
  <2>2. /\ e \in Entry /\ e.present /\ e.rtp = v.src[s].rtp /\ e.rtcp = v.src[s].rtcp
        /\ e.sender = v.src[s].sender /\ e.validated = v.src[s].validated
        /\ e.bye = v.src[s].bye
    BY <1>1, <2>1 DEF Entry
  <2>3. u = Put(v, s, e, 0, 0, 0)
    <3>1. u = [v EXCEPT !.src[s] = e]
      BY <1>3, <2>1 DEF Table
    <3> HIDE DEF e
    <3>2. QED
      BY <2>1, <3>1, TableTypes DEF Table, Put
  <2> HIDE DEF e
  <2>4. 0 \in Nat /\ 0 \in Int /\ 0 + 0 = One(IsActive(e)) - One(IsActive(v.src[s]))
    BY <1>1, <2>2 DEF One, IsActive
  <2>5. s = v.own => IsActive(e)
    BY <1>1, <2>2, RtpSourcesAssumption DEF Good, OursEntry, IsActive
  <2>6. Good(u) /\ Grows(v, u) /\ u.src[s] = e
    BY <1>1, <2>2, <2>3, <2>4, <2>5, FlagsLemma
  <2>7. QED
    BY <1>1, <2>2, <2>6, GrowsTransitive
<1>4. u = v \/ u = [v EXCEPT !.src[s].heard = TRUE]
  BY DEF UpdateReceiveTime, GetRTCPSourceData
<1>5. QED
  BY <1>2, <1>3, <1>4

LEMMA NameLemma ==
    ASSUME NEW t, Good(t), NEW s \in SSRC, NEW a \in Senders,
           NEW u, u = ProcessCNAME(t, s, a)
    PROVE  Good(u) /\ Grows(t, u)
<1> DEFINE v == UpdateReceiveTime(t, s, a)
           e == [v.src[s] EXCEPT !.validated = TRUE]
           m == One(~IsActive(v.src[s]) /\ ~v.src[s].bye)
<1>1. Good(v) /\ Grows(t, v) /\ v.src[s].present
  BY ReceiveLemma
<1>2. u = v \/ u = [v EXCEPT !.src[s].validated = TRUE, !.active = @ + m]
  BY DEF ProcessCNAME
<1> HIDE DEF v
<1>3. v \in Table /\ v.src[s] \in Entry
  BY <1>1, TableTypes DEF Good
<1>4. /\ e \in Entry /\ e.present /\ e.rtp = v.src[s].rtp /\ e.rtcp = v.src[s].rtcp
      /\ e.sender = v.src[s].sender /\ e.validated /\ e.bye = v.src[s].bye
  BY <1>1, <1>3 DEF Entry
<1>5. ASSUME u # v PROVE u = Put(v, s, e, 0, m, 0)
  <2>1. u = [v EXCEPT !.src[s] = e, !.active = @ + m]
    BY <1>2, <1>3, <1>5 DEF Table
  <2> HIDE DEF e, m
  <2>2. v.senders + 0 = v.senders /\ v.missed + 0 = v.missed
    BY <1>3, TableTypes
  <2>3. u = [src |-> [v.src EXCEPT ![s] = e], own |-> v.own, total |-> v.total,
             senders |-> v.senders, active |-> v.active + m, missed |-> v.missed,
             owncollision |-> v.owncollision, mine |-> v.mine]
    BY <1>3, <2>1 DEF Table
  <2>4. QED
    BY <2>2, <2>3 DEF Put
<1>6. m \in Int /\ 0 \in Nat /\ m + 0 = One(IsActive(e)) - One(IsActive(v.src[s]))
  BY <1>1, <1>4 DEF One, IsActive
<1>7. s = v.own => IsActive(e)
  BY <1>1, <1>4, RtpSourcesAssumption DEF Good, OursEntry, IsActive
<1> HIDE DEF e, m
<1>8. ASSUME u # v PROVE Good(u) /\ Grows(v, u)
  BY <1>1, <1>4, <1>5, <1>6, <1>7, <1>8, FlagsLemma
<1>9. QED
  BY <1>1, <1>8, GrowsTransitive

LEMMA ByeLemma ==
    ASSUME NEW t, Good(t), NEW s \in SSRC, NEW a \in Senders,
           NEW u, u = ProcessBYE(t, s, a)
    PROVE  Good(u) /\ Grows(t, u)
<1> DEFINE v == GetRTCPSourceData(t, s, a)
           e == [v.src[s] EXCEPT !.bye = TRUE, !.byeheard = TRUE, !.heard = TRUE]
           m == -One(IsActive(v.src[s]))
<1>1. Good(v) /\ Grows(t, v) /\ v.src[s].present
  BY GetLemma
<1>2. \/ u = v
      \/ /\ s # v.own
         /\ u = [v EXCEPT !.src[s].bye = TRUE, !.src[s].byeheard = TRUE,
                          !.src[s].heard = TRUE, !.active = @ - One(IsActive(v.src[s]))]
  BY DEF ProcessBYE
<1> HIDE DEF v
<1>3. v \in Table /\ v.src[s] \in Entry
  BY <1>1, TableTypes DEF Good
<1>4. /\ e \in Entry /\ e.present /\ e.rtp = v.src[s].rtp /\ e.rtcp = v.src[s].rtcp
      /\ e.sender = v.src[s].sender /\ e.validated = v.src[s].validated /\ e.bye
  BY <1>1, <1>3 DEF Entry
<1>5. One(IsActive(v.src[s])) \in Nat
  BY DEF One
<1>6. ASSUME u # v PROVE u = Put(v, s, e, 0, m, 0)
  <2>1. m \in Int
    BY <1>5
  <2>2. [v.src EXCEPT ![s].bye = TRUE, ![s].byeheard = TRUE, ![s].heard = TRUE]
          = [v.src EXCEPT ![s] = e]
    BY <1>3, TableTypes
  <2>3. u = [v EXCEPT !.src = [@ EXCEPT ![s].bye = TRUE, ![s].byeheard = TRUE,
                                       ![s].heard = TRUE],
                      !.active = @ - One(IsActive(v.src[s]))]
    BY <1>2, <1>3, <1>6 DEF Table
  <2>4. /\ u.src = [v.src EXCEPT ![s] = e] /\ u.active = v.active + m
        /\ u = [v EXCEPT !.src = u.src, !.active = u.active]
    BY <1>3, <1>5, <2>2, <2>3, TableTypes DEF Table
  <2> HIDE DEF e, m
  <2>5. v.senders + 0 = v.senders /\ v.missed + 0 = v.missed
    BY <1>3, TableTypes
  <2>6. u = [src |-> [v.src EXCEPT ![s] = e], own |-> v.own, total |-> v.total,
             senders |-> v.senders, active |-> v.active + m, missed |-> v.missed,
             owncollision |-> v.owncollision, mine |-> v.mine]
    BY <1>3, <2>4 DEF Table
  <2>7. QED
    BY <2>5, <2>6 DEF Put
<1>7. m \in Int /\ 0 \in Nat /\ m + 0 = One(IsActive(e)) - One(IsActive(v.src[s]))
  BY <1>1, <1>4 DEF One, IsActive
<1>8. u # v => (s = v.own => IsActive(e))
  BY <1>2
<1> HIDE DEF e, m
<1>9. ASSUME u # v PROVE Good(u) /\ Grows(v, u)
  BY <1>1, <1>4, <1>6, <1>7, <1>8, <1>9, FlagsLemma
<1>10. QED
  BY <1>1, <1>9, GrowsTransitive

LEMMA CompoundLemma ==
    ASSUME NEW t, Good(t), NEW s \in SSRC, NEW c \in SSRC, NEW a \in Senders,
           NEW kind \in {"report", "item", "CNAME", "BYE"},
           NEW u, u = ProcessRTCPCompoundPacket(t, s, kind, c, a)
    PROVE  Good(u) /\ Grows(t, u)
<1> DEFINE v == UpdateReceiveTime(t, s, a)
<1>1. Good(v) /\ Grows(t, v)
  BY ReceiveLemma
<1>2. u \in {v, UpdateReceiveTime(v, c, a), ProcessCNAME(v, c, a), ProcessBYE(v, c, a)}
  BY DEF ProcessRTCPCompoundPacket
<1> HIDE DEF v
<1>3. Good(u) /\ (u = v \/ Grows(v, u))
  BY <1>1, <1>2, ReceiveLemma, NameLemma, ByeLemma
<1>4. QED
  BY <1>1, <1>3, GrowsTransitive

\* The table with another entry for one source and other counts, as a record.
LEMMA PutForm ==
    ASSUME NEW t \in Table, NEW s \in SSRC, NEW e, NEW n \in Nat, NEW m \in Int,
           NEW u, u = [t EXCEPT !.src[s] = e, !.senders = @ + n, !.active = @ + m]
    PROVE  u = Put(t, s, e, n, m, 0)
<1>1. t.missed + 0 = t.missed
  BY TableTypes
<1>2. u = [src |-> [t.src EXCEPT ![s] = e], own |-> t.own, total |-> t.total,
           senders |-> t.senders + n, active |-> t.active + m, missed |-> t.missed,
           owncollision |-> t.owncollision, mine |-> t.mine]
  BY DEF Table
<1>3. QED
  BY <1>1, <1>2 DEF Put

LEMMA CSRCLemma ==
    ASSUME NEW t, Good(t), NEW c \in SSRC, NEW a \in Senders, NEW u, u = CSRC(t, c, a)
    PROVE  Good(u) /\ Grows(t, u)
<1>1. CASE ~t.src[c].present
  <2> DEFINE v == ObtainSourceDataInstance(t, c)
             e == [v.src[c] EXCEPT !.validated = TRUE]
             m == 1
  <2>1. Good(v) /\ Grows(t, v) /\ v.src[c].present
    BY <1>1, ObtainLemma
  <2>0. v.src[c] = [NewEntry EXCEPT !.present = TRUE]
    BY <1>1, ObtainLemma
  <2>2. u = [v EXCEPT !.src[c].validated = TRUE, !.active = @ + 1]
    BY <1>1 DEF CSRC
  <2> HIDE DEF v
  <2>3. v \in Table /\ v.src[c] \in Entry
    BY <2>1, TableTypes DEF Good
  <2>4. v.src[c].validated = FALSE /\ v.src[c].bye = FALSE
    BY <2>0 DEF NewEntry
  <2>5. /\ e \in Entry /\ e.present /\ e.rtp = v.src[c].rtp /\ e.rtcp = v.src[c].rtcp
        /\ e.sender = v.src[c].sender /\ e.validated /\ e.bye = v.src[c].bye
    BY <2>1, <2>3 DEF Entry
  <2>6. u = Put(v, c, e, 0, m, 0)
    <3>1. u = [v EXCEPT !.src[c] = e, !.active = @ + 1]
      BY <2>2, <2>3 DEF Table
    <3> HIDE DEF e
    <3>2. v.senders + 0 = v.senders /\ v.missed + 0 = v.missed
      BY <2>3, TableTypes
    <3>3. u = [src |-> [v.src EXCEPT ![c] = e], own |-> v.own, total |-> v.total,
               senders |-> v.senders, active |-> v.active + 1, missed |-> v.missed,
               owncollision |-> v.owncollision, mine |-> v.mine]
      BY <2>3, <3>1 DEF Table
    <3>4. QED
      BY <3>2, <3>3 DEF Put
  <2>7. m \in Int /\ 0 \in Nat /\ m + 0 = One(IsActive(e)) - One(IsActive(v.src[c]))
    BY <2>1, <2>4, <2>5 DEF One, IsActive
  <2>8. c = v.own => IsActive(e)
    BY <2>4, <2>5 DEF IsActive
  <2> HIDE DEF e, m
  <2>9. Good(u) /\ Grows(v, u)
    BY <2>1, <2>5, <2>6, <2>7, <2>8, FlagsLemma
  <2>10. QED
    BY <2>1, <2>9, GrowsTransitive
<1>2. CASE t.src[c].present
  <2> DEFINE v == CheckCollision(t, c, a, "rtp")
             e == [v.src[c] EXCEPT !.validated = TRUE]
             k == One(~t.src[c].validated /\ ~t.src[c].bye)
  <2>1. "rtp" \in Channels
    BY DEF Channels
  <2>2. /\ Good(v) /\ Grows(t, v)
        /\ v.src[c].present /\ v.src[c].validated = t.src[c].validated
        /\ v.src[c].bye = t.src[c].bye
    BY <1>2, <2>1, CollisionLemma
  <2>3. u = v \/ u = [v EXCEPT !.src[c].validated = TRUE, !.missed = @ + k]
    BY <1>2 DEF CSRC
  <2> HIDE DEF v
  <2>4. v \in Table /\ v.src[c] \in Entry /\ k \in Nat
    BY <2>2, TableTypes DEF Good, One
  <2>5. /\ e \in Entry /\ e.present /\ e.rtp = v.src[c].rtp /\ e.rtcp = v.src[c].rtcp
        /\ e.sender = v.src[c].sender /\ e.validated /\ e.bye = v.src[c].bye
    BY <2>2, <2>4 DEF Entry
  <2>6. ASSUME u # v PROVE u = Put(v, c, e, 0, 0, k)
    <3>1. u = [v EXCEPT !.src[c] = e, !.missed = @ + k]
      BY <2>3, <2>4, <2>6 DEF Table
    <3> HIDE DEF e, k
    <3>2. v.senders + 0 = v.senders /\ v.active + 0 = v.active
      BY <2>4, TableTypes
    <3>3. u = [src |-> [v.src EXCEPT ![c] = e], own |-> v.own, total |-> v.total,
               senders |-> v.senders, active |-> v.active, missed |-> v.missed + k,
               owncollision |-> v.owncollision, mine |-> v.mine]
      BY <2>4, <3>1 DEF Table
    <3>4. QED
      BY <3>2, <3>3 DEF Put
  <2>7. 0 \in Int /\ 0 + k = One(IsActive(e)) - One(IsActive(v.src[c]))
    BY <2>2, <2>5 DEF One, IsActive
  <2>8. c = v.own => IsActive(e)
    BY <2>2, <2>5, RtpSourcesAssumption DEF Good, OursEntry, IsActive
  <2> HIDE DEF e, k
  <2>9. ASSUME u # v PROVE Good(u) /\ Grows(v, u)
    BY <2>2, <2>4, <2>5, <2>6, <2>7, <2>8, <2>9, FlagsLemma
  <2>10. QED
    BY <2>2, <2>9, GrowsTransitive
<1>3. QED
  BY <1>1, <1>2

-----------------------------------------------------------------------------
(* The contributing sources of a packet, one after the other.              *)

\* A set of numbers that is not empty has a smallest one.
LEMMA Smallest ==
    ASSUME NEW T, T \subseteq Nat, T # {}
    PROVE  \E x \in T : \A y \in T : ~(y < x)
<1>1. \E x \in T : \A y \in T : ~(<<y, x>> \in OpToRel(<, Nat))
  BY NatLessThanWellFounded, WFMin, Zenon
<1>2. \A x, y \in Nat : y < x => <<y, x>> \in OpToRel(<, Nat)
  BY DEF OpToRel
<1>3. QED
  BY <1>1, <1>2

\* A set that holds 0 and the successors of its numbers holds all of them.
LEMMA SetInduction ==
    ASSUME NEW S, 0 \in S, \A n \in Nat : n \in S => n + 1 \in S
    PROVE  Nat \subseteq S
<1> SUFFICES ASSUME Nat \ S # {} PROVE FALSE
  OBVIOUS
<1>1. PICK x \in Nat \ S : \A y \in Nat \ S : ~(y < x)
  <2>1. Nat \ S \subseteq Nat
    OBVIOUS
  <2>2. QED
    BY <2>1, Smallest, Zenon
<1>2. x \in Nat /\ x # 0 /\ x - 1 \in Nat /\ x - 1 < x /\ (x - 1) + 1 = x
  BY <1>1
<1>3. x - 1 \in S
  BY <1>1, <1>2
<1>4. QED
  BY <1>1, <1>2, <1>3

\* One table per source processed, up to the n-th.
IsChain(g, t, csrcs, a, n) ==
    g = [k \in 0..n |-> IF k = 0 THEN t ELSE CSRC(g[k - 1], csrcs[k], a)]

LEMMA ChainExists ==
    ASSUME NEW t, NEW csrcs, NEW a, NEW n \in Nat
    PROVE  \E g : IsChain(g, t, csrcs, a, n)
<1> DEFINE S == {m \in Nat : \E g : IsChain(g, t, csrcs, a, m)}
<1>1. 0 \in S
  <2>1. IsChain([k \in 0..0 |-> t], t, csrcs, a, 0)
    BY DEF IsChain
  <2>2. QED
    BY <2>1
<1>2. ASSUME NEW m \in Nat, m \in S PROVE m + 1 \in S
  <2>1. PICK g : IsChain(g, t, csrcs, a, m)
    BY <1>2
  <2> DEFINE h == [k \in 0..(m + 1) |->
                      IF k = 0 THEN t ELSE CSRC(g[k - 1], csrcs[k], a)]
  <2>2. \A k \in 0..m : h[k] = g[k]
    BY <2>1 DEF IsChain
  <2>3. \A k \in 0..(m + 1) : k # 0 => h[k - 1] = g[k - 1]
    <3>1. \A k \in 0..(m + 1) : k # 0 => k - 1 \in 0..m
      OBVIOUS
    <3> HIDE DEF h
    <3>2. QED
      BY <2>2, <3>1
  <2>4. IsChain(h, t, csrcs, a, m + 1)
    BY <2>3 DEF IsChain
  <2>5. QED
    BY <2>4
<1>3. Nat \subseteq S
  <2> HIDE DEF S
  <2>1. QED
    BY <1>1, <1>2, SetInduction
<1>4. QED
  BY <1>3

\* The table after all of them is the end of a chain.
LEMMA ProcessCSRCsDef ==
    ASSUME NEW t, NEW csrcs \in Seq(SSRC), NEW a
    PROVE  \E g : /\ IsChain(g, t, csrcs, a, Len(csrcs))
                  /\ ProcessCSRCs(t, csrcs, a) = g[Len(csrcs)]
<1> DEFINE g == CHOOSE f : IsChain(f, t, csrcs, a, Len(csrcs))
<1>1. IsChain(g, t, csrcs, a, Len(csrcs))
  BY ChainExists
<1>2. ProcessCSRCs(t, csrcs, a) = g[Len(csrcs)]
  BY DEF ProcessCSRCs, IsChain
<1>3. QED
  BY <1>1, <1>2

LEMMA CSRCsLemma ==
    ASSUME NEW t, Good(t), NEW csrcs \in Seq(SSRC), NEW a \in Senders,
           NEW u, u = ProcessCSRCs(t, csrcs, a)
    PROVE  Good(u) /\ Grows(t, u)
<1>1. PICK g : IsChain(g, t, csrcs, a, Len(csrcs)) /\ u = g[Len(csrcs)]
  BY ProcessCSRCsDef
<1>2. Len(csrcs) \in Nat
  OBVIOUS
<1> DEFINE S == {m \in Nat : m <= Len(csrcs) => Good(g[m]) /\ Grows(t, g[m])}
<1>3. 0 \in S
  BY <1>1, <1>2 DEF IsChain, Grows, Kept
<1>4. ASSUME NEW m \in Nat, m \in S PROVE m + 1 \in S
  <2> SUFFICES ASSUME m + 1 <= Len(csrcs) PROVE Good(g[m + 1]) /\ Grows(t, g[m + 1])
    OBVIOUS
  <2>1. /\ m + 1 \in 0..Len(csrcs) /\ m + 1 # 0 /\ (m + 1) - 1 = m
        /\ m <= Len(csrcs) /\ csrcs[m + 1] \in SSRC
    BY <1>2
  <2>2. g[m + 1] = CSRC(g[m], csrcs[m + 1], a)
    BY <1>1, <2>1 DEF IsChain
  <2>3. Good(g[m]) /\ Grows(t, g[m])
    BY <1>4, <2>1
  <2>4. Good(g[m + 1]) /\ Grows(g[m], g[m + 1])
    BY <2>1, <2>2, <2>3, CSRCLemma
  <2>5. QED
    BY <2>3, <2>4, GrowsTransitive
<1>5. Nat \subseteq S
  <2> HIDE DEF S
  <2>1. QED
    BY <1>3, <1>4, SetInduction
<1>6. QED
  BY <1>1, <1>2, <1>5

LEMMA RTPLemma ==
    ASSUME NEW t, Good(t), NEW s \in SSRC, NEW a \in Senders, NEW csrcs \in Seq(SSRC),
           NEW accept \in BOOLEAN,
           NEW u, u = ProcessRTPPacket(t, s, a, csrcs, accept)
    PROVE  Good(u) /\ Grows(t, u)
<1> DEFINE found == ObtainSourceDataInstance(t, s)
           w == CheckCollision(found, s, a, "rtp")
           e == Received(w.src[s], s = w.own, accept)
           n == One(~w.src[s].sender /\ e.sender)
           m == One(~IsActive(w.src[s]) /\ IsActive(e))
           v == [w EXCEPT !.src[s] = e, !.senders = @ + n, !.active = @ + m]
<1>1. Good(found) /\ Grows(t, found) /\ found.src[s].present
  BY ObtainLemma
<1>2. "rtp" \in Channels
  BY DEF Channels
<1>3. \/ u = w \/ u = v \/ u = ProcessCSRCs(v, csrcs, a)
  BY DEF ProcessRTPPacket
<1> HIDE DEF found
<1>4. Good(w) /\ Grows(found, w) /\ w.src[s].present
  BY <1>1, <1>2, CollisionLemma
<1> HIDE DEF w
<1>5. w \in Table /\ w.src[s] \in Entry
  BY <1>4, TableTypes DEF Good
<1>6. /\ e \in Entry /\ e.present /\ e.bye = w.src[s].bye
      /\ e.rtp = w.src[s].rtp /\ e.rtcp = w.src[s].rtcp
      /\ w.src[s].validated => e.validated
      /\ w.src[s].sender => e.sender
  <2>1. CASE ~accept
    BY <1>4, <1>5, <2>1 DEF Received, Entry
  <2>2. CASE accept
    BY ZenonT(40), <1>4, <1>5, <2>2 DEF Received, Entry
  <2>3. QED
    BY <2>1, <2>2
<1> HIDE DEF e
<1>7. n \in Nat /\ m \in Int /\ 0 \in Nat
  BY DEF One
<1>8. v = Put(w, s, e, n, m, 0)
  <2> HIDE DEF n, m
  <2>1. QED
    BY <1>5, <1>7, PutForm
<1>9. n = One(e.sender) - One(w.src[s].sender)
  BY <1>6 DEF One
<1>10. m + 0 = One(IsActive(e)) - One(IsActive(w.src[s]))
  BY <1>4, <1>6 DEF One, IsActive
<1>11. Kept(w.src[s], e)
  BY <1>6 DEF Kept
<1>12. s = w.own => OursEntry(e)
  BY <1>4, <1>6, RtpSourcesAssumption DEF Good, OursEntry, IsActive
<1> HIDE DEF n, m, v
<1>13. Good(v) /\ Grows(w, v)
  BY <1>4, <1>6, <1>7, <1>8, <1>9, <1>10, <1>11, <1>12, PutLemma
<1>14. Grows(t, w) /\ Grows(t, v)
  BY <1>1, <1>4, <1>13, GrowsTransitive
<1>15. CASE u = ProcessCSRCs(v, csrcs, a)
  BY <1>13, <1>14, <1>15, CSRCsLemma, GrowsTransitive
<1>16. QED
  BY <1>3, <1>4, <1>13, <1>14, <1>15

-----------------------------------------------------------------------------
(* The calls of the session and the timeouts, which may remove sources.    *)

\* Nothing that is still there was moved.
Still(t, u) == \A s \in SSRC : u.src[s].present => Kept(t.src[s], u.src[s])

\* No source that was heard and has not said goodbye was removed.
Spares(t, u) == \A s \in SSRC :
    t.src[s].heard /\ t.src[s].present /\ ~t.src[s].bye /\ s # t.own
        => u.src[s].present

LEMMA GrowsIsSafe ==
    ASSUME NEW t, NEW u, Grows(t, u)
    PROVE  Still(t, u) /\ Spares(t, u)
  BY DEF Grows, Still, Spares, Kept

LEMMA CreateLemma ==
    ASSUME NEW t, Good(t), NEW s \in SSRC, NEW u, u = CreateOwnSSRC(t, s)
    PROVE  Good(u) /\ Still(t, u) /\ Spares(t, u)
<1>1. CASE t.own # NoSSRC \/ t.src[s].present
  BY <1>1 DEF CreateOwnSSRC, Still, Spares, Kept
<1>2. CASE t.own = NoSSRC /\ ~t.src[s].present
  <2> DEFINE v == ObtainSourceDataInstance(t, s)
             e == [v.src[s] EXCEPT !.validated = TRUE, !.rtp = Own, !.rtcp = Own]
             w == Put(v, s, e, 0, 1, 0)
  <2>1. Good(v) /\ Grows(t, v) /\ v.src[s].present
    BY ObtainLemma
  <2>2. v.src[s] = [NewEntry EXCEPT !.present = TRUE]
    BY <1>2, ObtainLemma
  <2>3. u = [v EXCEPT !.own = s, !.mine = @ \cup {s},
                      !.src[s].validated = TRUE, !.src[s].rtp = Own, !.src[s].rtcp = Own,
                      !.active = @ + 1]
    BY <1>2 DEF CreateOwnSSRC
  <2> HIDE DEF v
  <2>4. v \in Table /\ v.src[s] \in Entry /\ v.own = NoSSRC /\ s # NoSSRC
    BY <1>2, <2>1, TableTypes, RtpSourcesAssumption DEF Good, Grows
  <2>5. /\ v.src[s].validated = FALSE /\ v.src[s].bye = FALSE /\ v.src[s].sender = FALSE
        /\ v.src[s].rtp = Unset /\ v.src[s].rtcp = Unset
    BY <2>2 DEF NewEntry
  <2>6. /\ e \in Entry /\ e.present /\ e.rtp = Own /\ e.rtcp = Own
        /\ e.sender = FALSE /\ e.validated /\ e.bye = FALSE
    BY <2>1, <2>4, <2>5 DEF Entry, Senders
  <2>7. u = [src |-> [v.src EXCEPT ![s] = e], own |-> s, total |-> v.total,
             senders |-> v.senders, active |-> v.active + 1, missed |-> v.missed,
             owncollision |-> v.owncollision, mine |-> v.mine \cup {s}]
    <3>1. [v.src EXCEPT ![s].validated = TRUE, ![s].rtp = Own, ![s].rtcp = Own]
            = [v.src EXCEPT ![s] = e]
      BY <2>4, TableTypes
    <3>2. u = [v EXCEPT !.src = [@ EXCEPT ![s].validated = TRUE, ![s].rtp = Own,
                                          ![s].rtcp = Own],
                        !.own = s, !.mine = @ \cup {s}, !.active = @ + 1]
      BY <2>3, <2>4 DEF Table
    <3> HIDE DEF e
    <3>3. u = [v EXCEPT !.src = [v.src EXCEPT ![s] = e],
                        !.own = s, !.mine = @ \cup {s}, !.active = @ + 1]
      BY <2>4, <3>1, <3>2 DEF Table
    <3>4. QED
      BY <2>4, <3>3 DEF Table
  <2> HIDE DEF e
  <2>8. Good(w) /\ Grows(v, w) /\ w.src[s] = e
    <3>1. Kept(v.src[s], e) /\ (s = v.own => OursEntry(e))
      BY <2>4, <2>5, <2>6 DEF Kept
    <3> DEFINE m == 1
    <3>2. /\ 0 \in Nat /\ m \in Int
          /\ 0 = One(e.sender) - One(v.src[s].sender)
          /\ m + 0 = One(IsActive(e)) - One(IsActive(v.src[s]))
      BY <2>1, <2>5, <2>6 DEF One, IsActive
    <3>3. w = Put(v, s, e, 0, m, 0)
      OBVIOUS
    <3> HIDE DEF m, w
    <3>4. QED
      BY <2>1, <2>6, <3>1, <3>2, <3>3, PutLemma
  <2>9. /\ w.src = [v.src EXCEPT ![s] = e] /\ w.total = v.total
        /\ w.senders = v.senders /\ w.active = v.active + 1 /\ w.missed = v.missed
        /\ w.own = v.own /\ w.owncollision = v.owncollision /\ w.mine = v.mine
    BY <2>4, TableTypes DEF Put
  <2> HIDE DEF w
  <2>10. /\ u.src = w.src /\ u.own = s /\ u.total = w.total /\ u.senders = w.senders
         /\ u.active = w.active /\ u.missed = w.missed
    BY <2>7, <2>9
  <2>11. w \in Table /\ AbsentAreNew(w) /\ Counted(w)
    BY <2>8 DEF Good
  <2>12. u \in Table
    <3>1. /\ w.src \in [SSRC -> Entry] /\ w.total \in Nat /\ w.senders \in Nat
          /\ w.active \in Int /\ w.missed \in Nat /\ v.owncollision \in BOOLEAN
          /\ v.mine \cup {s} \in SUBSET SSRC
      BY <2>4, <2>11, TableTypes
    <3>2. QED
      BY <2>7, <2>9, <3>1 DEF Table
  <2>13. Counted(u) /\ AbsentAreNew(u)
    <3>1. /\ Members(u) = Members(w) /\ SendingMembers(u) = SendingMembers(w)
          /\ ActiveMembers(u) = ActiveMembers(w)
      BY <2>10 DEF Members, SendingMembers, ActiveMembers
    <3>2. QED
      BY <2>10, <2>11, <3>1 DEF Counted, AbsentAreNew
  <2>14. OursEntry(u.src[u.own])
    BY <2>6, <2>8, <2>10 DEF OursEntry, IsActive
  <2>15. Good(u)
    BY <2>12, <2>13, <2>14 DEF Good
  <2>16. Still(t, u) /\ Spares(t, u)
    <3>1. Grows(t, w)
      BY <2>1, <2>8, GrowsTransitive
    <3>2. QED
      BY <2>10, <3>1, GrowsIsSafe DEF Still, Spares
  <2>17. QED
    BY <2>15, <2>16
<1>3. QED
  BY <1>1, <1>2

LEMMA DeleteLemma ==
    ASSUME NEW t, Good(t), NEW u, u = DeleteOwnSSRC(t)
    PROVE  Good(u) /\ Still(t, u) /\ Spares(t, u)
<1>1. CASE t.own = NoSSRC
  BY <1>1 DEF DeleteOwnSSRC, Still, Spares, Kept
<1>2. CASE t.own # NoSSRC
  <2> DEFINE s == t.own
             e == t.src[s]
             w == [t EXCEPT !.src[s] = NewEntry, !.own = NoSSRC]
  <2>1. t \in Table /\ s \in SSRC /\ e \in Entry
    BY <1>2, TableTypes DEF Good, Table
  <2>2. OursEntry(e) /\ e.present
    BY <1>2 DEF Good, OursEntry, IsActive
  <2>3. NewEntry \in Entry /\ NewEntry.present = FALSE
    BY DEF NewEntry, Entry
  <2>4. /\ w \in Table /\ w.src = [t.src EXCEPT ![s] = NewEntry] /\ w.own = NoSSRC
        /\ w.active = t.active /\ w.missed = t.missed
    BY <2>1, <2>3 DEF Table
  <2>5. u = [src |-> w.src, own |-> NoSSRC,
             total |-> t.total - 1, senders |-> t.senders - One(e.sender),
             active |-> t.active - One(IsActive(e)), missed |-> t.missed,
             owncollision |-> t.owncollision, mine |-> t.mine]
    BY <1>2, <2>1, <2>4 DEF DeleteOwnSSRC, Table
  <2>6. /\ \A r \in SSRC \ {s} : w.src[r] = t.src[r]
        /\ w.src[s] = NewEntry
    BY <2>1, <2>4 DEF Table
  <2> HIDE DEF s, e, w
  <2>7. /\ Cardinality(Members(w)) = Cardinality(Members(t)) - 1
        /\ Cardinality(SendingMembers(w)) = Cardinality(SendingMembers(t)) - One(e.sender)
        /\ Cardinality(ActiveMembers(w)) = Cardinality(ActiveMembers(t)) - One(IsActive(e))
    <3>1. /\ Cardinality(Members(w)) = Cardinality(Members(t))
                + One(w.src[s].present) - One(t.src[s].present)
          /\ Cardinality(SendingMembers(w)) = Cardinality(SendingMembers(t))
                + One(w.src[s].present /\ w.src[s].sender)
                - One(t.src[s].present /\ t.src[s].sender)
          /\ Cardinality(ActiveMembers(w)) = Cardinality(ActiveMembers(t))
                + One(IsActive(w.src[s])) - One(IsActive(t.src[s]))
      BY <2>1, <2>4, <2>6, EntryChange DEF One
    <3>2. /\ w.src[s].present = FALSE /\ ~IsActive(w.src[s])
          /\ t.src[s] = e
      BY <2>3, <2>6 DEF IsActive, e
    <3>3. /\ Cardinality(Members(t)) \in Int /\ Cardinality(SendingMembers(t)) \in Int
          /\ Cardinality(ActiveMembers(t)) \in Int
      BY <2>1, CardinalitiesTyped
    <3>4. Cardinality(Members(w)) = Cardinality(Members(t)) - 1
      BY <2>2, <3>1, <3>2, <3>3 DEF One
    <3>5. Cardinality(SendingMembers(w)) = Cardinality(SendingMembers(t)) - One(e.sender)
      BY <2>2, <3>1, <3>2, <3>3 DEF One
    <3>6. Cardinality(ActiveMembers(w)) = Cardinality(ActiveMembers(t)) - One(IsActive(e))
      BY <2>2, <3>1, <3>2, <3>3 DEF One
    <3>7. QED
      BY <3>4, <3>5, <3>6
  <2>8. /\ Members(u) = Members(w) /\ SendingMembers(u) = SendingMembers(w)
        /\ ActiveMembers(u) = ActiveMembers(w)
    BY <2>5 DEF Members, SendingMembers, ActiveMembers
  <2>9. u \in Table
    <3>1. /\ t.total - 1 = Cardinality(Members(w))
          /\ t.senders - One(e.sender) = Cardinality(SendingMembers(w))
      BY <2>7, <1>2 DEF Good, Counted
    <3>2. t.total - 1 \in Nat /\ t.senders - One(e.sender) \in Nat
      BY <2>4, <3>1, CardinalitiesTyped
    <3>3. t.active - One(IsActive(e)) \in Int
      BY <2>1, TableTypes DEF One
    <3>4. w.src \in [SSRC -> Entry] /\ NoSSRC \in SSRC \cup {NoSSRC}
      BY <2>1, <2>4, TableTypes
    <3>5. t.missed \in Nat /\ t.owncollision \in BOOLEAN /\ t.mine \in SUBSET SSRC
      BY <2>1, TableTypes
    <3>6. QED
      BY <2>5, <3>2, <3>3, <3>4, <3>5 DEF Table
  <2>10. Counted(u)
    <3>1. t.active \in Int /\ t.missed \in Int /\ One(IsActive(e)) \in Int
      BY <2>1, TableTypes DEF One
    <3>2. /\ u.total = t.total - 1 /\ u.senders = t.senders - One(e.sender)
          /\ u.active + u.missed = (t.active + t.missed) - One(IsActive(e))
      BY <2>5, <3>1
    <3>3. Counted(t)
      BY DEF Good
    <3>4. QED
      BY <2>7, <2>8, <3>2, <3>3 DEF Counted
  <2>11. u.src = w.src /\ u.own = NoSSRC
    BY <2>5
  <2>12. AbsentAreNew(u)
    BY <2>6, <2>11 DEF Good, AbsentAreNew
  <2>13. Still(t, u) /\ Spares(t, u)
    BY <2>3, <2>6, <2>11 DEF Still, Spares, Kept, s
  <2>14. QED
    BY <2>9, <2>10, <2>11, <2>12, <2>13 DEF Good
<1>3. QED
  BY <1>1, <1>2

LEMMA SentLemma ==
    ASSUME NEW t, Good(t), NEW u, u = SentRTPPacket(t)
    PROVE  Good(u) /\ Grows(t, u)
<1>1. CASE t.own = NoSSRC
  BY <1>1 DEF SentRTPPacket, Grows, Kept
<1>2. CASE t.own # NoSSRC
  <2> DEFINE s == t.own
             e == [t.src[s] EXCEPT !.sender = TRUE, !.data = TRUE, !.heard = TRUE]
             n == One(~t.src[s].sender)
             m == 0
  <2>1. t \in Table /\ s \in SSRC /\ t.src[s] \in Entry
    BY <1>2, TableTypes DEF Good, Table
  <2>2. OursEntry(t.src[s]) /\ t.src[s].present
    BY <1>2 DEF Good, OursEntry, IsActive
  <2>3. u = [t EXCEPT !.src[s].sender = TRUE, !.src[s].data = TRUE,
                      !.src[s].heard = TRUE, !.senders = @ + n]
    BY <1>2 DEF SentRTPPacket
  <2> HIDE DEF s
  <2>4. /\ e \in Entry /\ e.validated = t.src[s].validated
        /\ e.bye = t.src[s].bye /\ e.rtp = t.src[s].rtp /\ e.rtcp = t.src[s].rtcp
    BY <2>1, <2>2 DEF Entry
  <2>11. e.present
    BY <2>1, <2>2 DEF Entry
  <2>12. e.sender
    BY <2>1 DEF Entry
  <2>5. n \in Nat /\ m \in Int /\ 0 \in Nat
    BY DEF One
  <2>6. u = Put(t, s, e, n, m, 0)
    <3>1. [t.src EXCEPT ![s].sender = TRUE, ![s].data = TRUE, ![s].heard = TRUE]
            = [t.src EXCEPT ![s] = e]
      BY <2>1, TableTypes
    <3>2. u = [t EXCEPT !.src = [@ EXCEPT ![s].sender = TRUE, ![s].data = TRUE,
                                          ![s].heard = TRUE], !.senders = @ + n]
      BY <2>1, <2>3 DEF Table
    <3> HIDE DEF e, n
    <3>3. t.active + m = t.active /\ t.missed + 0 = t.missed
      BY <2>1, TableTypes
    <3> HIDE DEF m
    <3>4. u = [src |-> [t.src EXCEPT ![s] = e], own |-> t.own, total |-> t.total,
               senders |-> t.senders + n, active |-> t.active, missed |-> t.missed,
               owncollision |-> t.owncollision, mine |-> t.mine]
      BY <2>1, <3>1, <3>2 DEF Table
    <3>5. QED
      BY <3>3, <3>4 DEF Put
  <2>7. n = One(e.sender) - One(t.src[s].sender)
    BY <2>12 DEF One
  <2>8. m + 0 = One(IsActive(e)) - One(IsActive(t.src[s]))
    BY <2>2, <2>4, <2>11 DEF One, IsActive
  <2>9. Kept(t.src[s], e) /\ (s = t.own => OursEntry(e))
    BY <2>2, <2>4, <2>11 DEF Kept, OursEntry, IsActive
  <2> HIDE DEF e, n, m
  <2>10. QED
    BY <2>1, <2>2, <2>4, <2>5, <2>6, <2>7, <2>8, <2>9, <2>11, PutLemma
<1>3. QED
  BY <1>1, <1>2

LEMMA ClearLemma ==
    ASSUME NEW t \in Table, NEW u, u = ClearSourceList(t)
    PROVE  Good(u) /\ Still(t, u)
<1>1. NewEntry \in Entry /\ NewEntry.present = FALSE
  BY DEF NewEntry, Entry
<1>2. /\ u.src = [s \in SSRC |-> NewEntry] /\ u.own = NoSSRC
      /\ u.total = 0 /\ u.senders = 0 /\ u.active = 0 /\ u.missed = 0
  BY DEF ClearSourceList, Table
<1>3. Members(u) = {} /\ SendingMembers(u) = {} /\ ActiveMembers(u) = {}
  BY <1>1, <1>2 DEF Members, SendingMembers, ActiveMembers, IsActive
<1>4. Counted(u)
  BY <1>2, <1>3, FS_EmptySet DEF Counted
<1>5. u \in Table
  <2> DEFINE f == [s \in SSRC |-> NewEntry]
  <2>1. f \in [SSRC -> Entry]
    BY <1>1
  <2>2. u = [src |-> f, own |-> NoSSRC, total |-> 0, senders |-> 0,
             active |-> 0, missed |-> 0,
             owncollision |-> t.owncollision, mine |-> t.mine]
    BY DEF ClearSourceList, Table
  <2>3. t.owncollision \in BOOLEAN /\ t.mine \in SUBSET SSRC
    BY DEF Table
  <2> HIDE DEF f
  <2>4. QED
    BY <2>1, <2>2, <2>3 DEF Table
<1>6. QED
  BY <1>1, <1>2, <1>4, <1>5 DEF Good, AbsentAreNew, Still

\* The counts made anew are right whatever they were.
LEMMA RecountLemma ==
    ASSUME NEW t \in Table, AbsentAreNew(t), t.own # NoSSRC => OursEntry(t.src[t.own]),
           NEW u, u = Recount(t)
    PROVE  Good(u) /\ u.src = t.src /\ u.own = t.own
<1>1. /\ u.src = t.src /\ u.own = t.own
      /\ u.total = Cardinality(Members(t)) /\ u.senders = Cardinality(SendingMembers(t))
      /\ u.active = Cardinality(ActiveMembers(t)) /\ u.missed = 0
  BY DEF Recount, Table
<1>2. u \in Table
  <2>1. /\ Cardinality(Members(t)) \in Nat /\ Cardinality(SendingMembers(t)) \in Nat
        /\ Cardinality(ActiveMembers(t)) \in Int
    BY CardinalitiesTyped
  <2>2. QED
    BY <2>1 DEF Recount, Table
<1>3. /\ Members(u) = Members(t) /\ SendingMembers(u) = SendingMembers(t)
      /\ ActiveMembers(u) = ActiveMembers(t)
  BY <1>1 DEF Members, SendingMembers, ActiveMembers
<1>4. Counted(u)
  <2>1. Cardinality(ActiveMembers(t)) + 0 = Cardinality(ActiveMembers(t))
    BY CardinalitiesTyped
  <2>2. QED
    BY <1>1, <1>3, <2>1 DEF Counted
<1>5. QED
  BY <1>1, <1>2, <1>4 DEF Good, AbsentAreNew

LEMMA WithoutLemma ==
    ASSUME NEW t, Good(t), NEW gone, t.own \notin gone,
           NEW u, u = Without(t, gone)
    PROVE  /\ Good(u) /\ Still(t, u) /\ u.own = t.own
           /\ \A s \in SSRC : u.src[s] = IF s \in gone THEN NewEntry ELSE t.src[s]
<1> DEFINE f == [s \in SSRC |-> IF s \in gone THEN NewEntry ELSE t.src[s]]
           v == [t EXCEPT !.src = f]
<1>1. NewEntry \in Entry /\ NewEntry.present = FALSE
  BY DEF NewEntry, Entry
<1>2. t \in Table /\ t.src \in [SSRC -> Entry]
  BY DEF Good, Table
<1>3. f \in [SSRC -> Entry]
  BY <1>1, <1>2
<1>4. u = Recount(v)
  BY DEF Without
<1>5. \A s \in SSRC : f[s] = IF s \in gone THEN NewEntry ELSE t.src[s]
  OBVIOUS
<1> HIDE DEF f
<1>6. v \in Table /\ v.src = f /\ v.own = t.own
  BY <1>2, <1>3 DEF Table
<1> HIDE DEF v
<1>7. AbsentAreNew(v)
  BY <1>5, <1>6 DEF Good, AbsentAreNew
<1>8. v.own # NoSSRC => OursEntry(v.src[v.own])
  BY <1>2, <1>5, <1>6 DEF Good, Table
<1>9. Good(u) /\ u.src = f /\ u.own = t.own
  BY <1>4, <1>6, <1>7, <1>8, RecountLemma
<1>10. Still(t, u)
  BY <1>1, <1>5, <1>9 DEF Still, Kept
<1>11. QED
  BY <1>5, <1>9, <1>10

LEMMA SameEntry ==
    ASSUME NEW e \in Entry, NEW f \in Entry,
           e.present = f.present, e.validated = f.validated, e.sender = f.sender,
           e.bye = f.bye, e.rtp = f.rtp, e.rtcp = f.rtcp, e.heard = f.heard,
           e.data = f.data, e.byeheard = f.byeheard
    PROVE  e = f
  BY DEF Entry

LEMMA SenderTimeoutLemma ==
    ASSUME NEW t, Good(t), NEW u, u = SenderTimeout(t)
    PROVE  Good(u) /\ Grows(t, u)
<1> DEFINE f == [s \in SSRC |-> [t.src[s] EXCEPT !.sender = @ /\ t.src[s].data]]
           v == [t EXCEPT !.src = f]
<1>1. t \in Table /\ t.src \in [SSRC -> Entry]
  BY DEF Good, Table
<1>2. \A s \in SSRC :
        /\ f[s] \in Entry
        /\ f[s].present = t.src[s].present /\ f[s].validated = t.src[s].validated
        /\ f[s].bye = t.src[s].bye /\ f[s].rtp = t.src[s].rtp /\ f[s].rtcp = t.src[s].rtcp
        /\ t.src[s] = NewEntry => f[s] = NewEntry
  <2> SUFFICES ASSUME NEW s \in SSRC
        PROVE /\ f[s] \in Entry
              /\ f[s].present = t.src[s].present /\ f[s].validated = t.src[s].validated
              /\ f[s].bye = t.src[s].bye /\ f[s].rtp = t.src[s].rtp /\ f[s].rtcp = t.src[s].rtcp
              /\ t.src[s] = NewEntry => f[s] = NewEntry
    OBVIOUS
  <2>1. t.src[s] \in Entry /\ f[s] = [t.src[s] EXCEPT !.sender = @ /\ t.src[s].data]
    BY <1>1
  <2> HIDE DEF f
  <2>2. ASSUME t.src[s] = NewEntry PROVE f[s] = NewEntry
    <3>1. f[s] \in Entry /\ NewEntry \in Entry
      BY <2>1 DEF Entry, NewEntry
    <3>2. /\ f[s].present = NewEntry.present /\ f[s].validated = NewEntry.validated
          /\ f[s].sender = NewEntry.sender /\ f[s].bye = NewEntry.bye
          /\ f[s].rtp = NewEntry.rtp /\ f[s].rtcp = NewEntry.rtcp
          /\ f[s].heard = NewEntry.heard /\ f[s].data = NewEntry.data
          /\ f[s].byeheard = NewEntry.byeheard
      BY <2>1, <2>2 DEF NewEntry, Entry
    <3>3. QED
      BY <3>1, <3>2, SameEntry
  <2>3. QED
    BY <2>1, <2>2 DEF Entry
<1>3. u = Recount(v)
  BY DEF SenderTimeout
<1>4. f \in [SSRC -> Entry]
  BY <1>2
<1> HIDE DEF f
<1>5. v \in Table /\ v.src = f /\ v.own = t.own
  BY <1>1, <1>4 DEF Table
<1> HIDE DEF v
<1>6. AbsentAreNew(v)
  BY <1>2, <1>5 DEF Good, AbsentAreNew
<1>7. v.own # NoSSRC => OursEntry(v.src[v.own])
  BY <1>1, <1>2, <1>5 DEF Good, Table, OursEntry, IsActive
<1>8. Good(u) /\ u.src = f /\ u.own = t.own
  BY <1>3, <1>5, <1>6, <1>7, RecountLemma
<1>9. Grows(t, u)
  BY <1>2, <1>8 DEF Grows, Kept
<1>10. QED
  BY <1>8, <1>9

LEMMA AgedLemma ==
    ASSUME NEW t, Good(t), NEW u, u = Aged(t)
    PROVE  Good(u) /\ Grows(t, u)
<1> DEFINE f == [s \in SSRC |-> [t.src[s] EXCEPT
                    !.heard = FALSE, !.data = FALSE, !.byeheard = FALSE]]
<1>1. t \in Table /\ t.src \in [SSRC -> Entry]
  BY DEF Good, Table
<1>2. \A s \in SSRC :
        /\ f[s] \in Entry
        /\ f[s].present = t.src[s].present /\ f[s].validated = t.src[s].validated
        /\ f[s].sender = t.src[s].sender
        /\ f[s].bye = t.src[s].bye /\ f[s].rtp = t.src[s].rtp /\ f[s].rtcp = t.src[s].rtcp
        /\ t.src[s] = NewEntry => f[s] = NewEntry
  <2> SUFFICES ASSUME NEW s \in SSRC
        PROVE /\ f[s] \in Entry
              /\ f[s].present = t.src[s].present /\ f[s].validated = t.src[s].validated
              /\ f[s].sender = t.src[s].sender
              /\ f[s].bye = t.src[s].bye /\ f[s].rtp = t.src[s].rtp /\ f[s].rtcp = t.src[s].rtcp
              /\ t.src[s] = NewEntry => f[s] = NewEntry
    OBVIOUS
  <2>1. /\ t.src[s] \in Entry
        /\ f[s] = [t.src[s] EXCEPT !.heard = FALSE, !.data = FALSE, !.byeheard = FALSE]
    BY <1>1
  <2> HIDE DEF f
  <2>2. ASSUME t.src[s] = NewEntry PROVE f[s] = NewEntry
    <3>1. f[s] \in Entry /\ NewEntry \in Entry
      BY <2>1 DEF Entry, NewEntry
    <3>2. /\ f[s].present = NewEntry.present /\ f[s].validated = NewEntry.validated
          /\ f[s].sender = NewEntry.sender /\ f[s].bye = NewEntry.bye
          /\ f[s].rtp = NewEntry.rtp /\ f[s].rtcp = NewEntry.rtcp
          /\ f[s].heard = NewEntry.heard /\ f[s].data = NewEntry.data
          /\ f[s].byeheard = NewEntry.byeheard
      BY <2>1, <2>2 DEF NewEntry, Entry
    <3>3. QED
      BY <3>1, <3>2, SameEntry
  <2>3. QED
    BY <2>1, <2>2 DEF Entry
<1>3. f \in [SSRC -> Entry] /\ u = [t EXCEPT !.src = f]
  BY <1>2 DEF Aged
<1> HIDE DEF f
<1>4. /\ u \in Table /\ u.src = f /\ u.own = t.own /\ u.total = t.total
      /\ u.senders = t.senders /\ u.active = t.active /\ u.missed = t.missed
  BY <1>1, <1>3 DEF Table
<1>5. /\ Members(u) = Members(t) /\ SendingMembers(u) = SendingMembers(t)
      /\ ActiveMembers(u) = ActiveMembers(t)
  BY <1>2, <1>4 DEF Members, SendingMembers, ActiveMembers, IsActive
<1>6. Counted(u) /\ AbsentAreNew(u)
  BY <1>2, <1>4, <1>5 DEF Good, Counted, AbsentAreNew
<1>7. u.own # NoSSRC => OursEntry(u.src[u.own])
  BY <1>1, <1>2, <1>4 DEF Good, Table, OursEntry, IsActive
<1>8. Grows(t, u)
  BY <1>2, <1>4 DEF Grows, Kept
<1>9. QED
  BY <1>4, <1>6, <1>7, <1>8 DEF Good

LEMMA TimeoutsLemma ==
    ASSUME NEW t, Good(t), NEW gone, gone \subseteq Silent(t) \cup Gone(t),
           NEW u, u = Without(t, gone)
    PROVE  Good(u) /\ Still(t, u) /\ Spares(t, u)
<1>1. t.own \notin gone
  BY DEF Silent, Gone
<1>2. /\ Good(u) /\ Still(t, u)
      /\ \A s \in SSRC : u.src[s] = IF s \in gone THEN NewEntry ELSE t.src[s]
  BY <1>1, WithoutLemma
<1>3. Spares(t, u)
  BY <1>2 DEF Spares, Silent, Gone
<1>4. QED
  BY <1>2, <1>3

LEMMA MultipleLemma ==
    ASSUME NEW t, Good(t), NEW which, NEW u, u = MultipleTimeouts(t, which)
    PROVE  Good(u) /\ Still(t, u) /\ Spares(t, u)
<1> DEFINE gone == (IF "bye" \in which THEN Gone(t) ELSE {})
                     \cup (IF "general" \in which THEN Silent(t) ELSE {})
           v == Without(t, gone)
<1>1. gone \subseteq Silent(t) \cup Gone(t)
  OBVIOUS
<1>2. u = v \/ u = SenderTimeout(v)
  BY DEF MultipleTimeouts
<1> HIDE DEF gone
<1>3. Good(v) /\ Still(t, v) /\ Spares(t, v)
  BY <1>1, TimeoutsLemma
<1> HIDE DEF v
<1>4. ASSUME u = SenderTimeout(v) PROVE Good(u) /\ Still(t, u) /\ Spares(t, u)
  <2>1. Good(u) /\ Grows(v, u)
    BY <1>3, <1>4, SenderTimeoutLemma
  <2>2. \A s \in SSRC : u.src[s].present => v.src[s].present
    <3>1. \A s \in SSRC : u.src[s].present = v.src[s].present
      BY <1>4, <1>3 DEF SenderTimeout, Recount, Good, Table, Entry
    <3>2. QED
      BY <3>1
  <2>3. QED
    BY <1>3, <2>1, <2>2 DEF Still, Spares, Grows, Kept
<1>5. QED
  BY <1>2, <1>3, <1>4

-----------------------------------------------------------------------------
(* The invariant of the table.                                             *)

LEMMA InvIsGood == Inv <=> Good(table)
  BY DEF Inv, TypeOK, CountedInv, OwnEntry, AbsentIsNew, Good, Counted,
         AbsentAreNew, OursEntry

LEMMA InitInv == Init => Inv
<1> SUFFICES ASSUME Init PROVE Inv
  OBVIOUS
<1>1. NewEntry \in Entry /\ NewEntry.present = FALSE
  BY DEF NewEntry, Entry
<1>2. Members(table) = {} /\ SendingMembers(table) = {} /\ ActiveMembers(table) = {}
  BY <1>1 DEF Init, Members, SendingMembers, ActiveMembers, IsActive
<1>3. CountedInv
  <2>1. /\ table.total = 0 /\ table.senders = 0
        /\ table.active = 0 /\ table.missed = 0
    BY DEF Init
  <2>2. QED
    BY <1>2, <2>1, FS_EmptySet DEF CountedInv
<1>4. TypeOK
  <2> DEFINE f == [s \in SSRC |-> NewEntry]
  <2>1. f \in [SSRC -> Entry]
    BY <1>1
  <2>2. table = [src |-> f, own |-> NoSSRC, total |-> 0, senders |-> 0,
                 active |-> 0, missed |-> 0, owncollision |-> FALSE, mine |-> {}]
    BY DEF Init
  <2> HIDE DEF f
  <2>3. QED
    BY <2>1, <2>2 DEF TypeOK, Table
<1>5. QED
  BY <1>3, <1>4 DEF Init, Inv, OwnEntry, AbsentIsNew

\* What every step does.
LEMMA StepLemma ==
    ASSUME Inv, Next
    PROVE  /\ Inv' /\ Still(table, table')
           /\ Spares(table, table') \/ table' = ClearSourceList(table)
<1> DEFINE Safe(u) == Good(u) /\ Still(table, u) /\ Spares(table, u)
<1>1. Good(table) /\ table \in Table
  BY InvIsGood DEF Good
<1>2. ASSUME ForeignRTP PROVE Safe(table')
  <2>1. PICK s \in SSRC, a \in Addrs, accept \in BOOLEAN :
          \E n \in 0 .. MaxCSRC : \E csrcs \in [1 .. n -> SSRC] :
            RTPPacket(s, a, csrcs, accept)
    BY <1>2 DEF ForeignRTP
  <2>2. PICK n \in 0 .. MaxCSRC : \E csrcs \in [1 .. n -> SSRC] :
            RTPPacket(s, a, csrcs, accept)
    BY <2>1
  <2>3. PICK csrcs \in [1 .. n -> SSRC] : RTPPacket(s, a, csrcs, accept)
    BY <2>2
  <2>4. n \in Nat
    BY RtpSourcesAssumption
  <2>5. csrcs \in Seq(SSRC)
    BY <2>4
  <2>6. a \in Senders
    BY DEF Senders
  <2>7. Good(table') /\ Grows(table, table')
    BY <1>1, <2>3, <2>5, <2>6, RTPLemma DEF RTPPacket
  <2>8. QED
    BY <2>7, GrowsIsSafe
<1>3. ASSUME OwnRTP PROVE Safe(table')
  <2>1. PICK s \in SSRC, accept \in BOOLEAN : RTPPacket(s, Own, <<>>, accept)
    BY <1>3 DEF OwnRTP
  <2>2. <<>> \in Seq(SSRC) /\ Own \in Senders
    BY DEF Senders
  <2>3. Good(table') /\ Grows(table, table')
    BY <1>1, <2>1, <2>2, RTPLemma DEF RTPPacket
  <2>4. QED
    BY <2>3, GrowsIsSafe
<1>4. ASSUME RTCP PROVE Safe(table')
  <2>1. PICK s \in SSRC, c \in SSRC, a \in Senders, kind \in {"report", "item", "CNAME", "BYE"} :
          RTCPPacket(s, kind, c, a)
    BY <1>4 DEF RTCP
  <2>2. table' = ProcessRTCPCompoundPacket(table, s, kind, c, a)
    BY <2>1 DEF RTCPPacket
  <2>3. Good(table') /\ Grows(table, table')
    BY <1>1, <2>2, CompoundLemma
  <2>4. QED
    BY <2>3, GrowsIsSafe
<1>5. ASSUME OwnSSRC PROVE Safe(table')
  <2>1. CASE \E s \in SSRC : table' = CreateOwnSSRC(table, s)
    BY <1>1, <2>1, CreateLemma
  <2>2. CASE table' = DeleteOwnSSRC(table)
    BY <1>1, <2>2, DeleteLemma
  <2>3. CASE table' = SentRTPPacket(table)
    BY <1>1, <2>3, SentLemma, GrowsIsSafe
  <2>4. QED
    BY <1>5, <2>1, <2>2, <2>3 DEF OwnSSRC
<1>6. ASSUME Clear PROVE Good(table') /\ Still(table, table')
  BY <1>1, <1>6, ClearLemma DEF Clear
<1>7. ASSUME Timeouts PROVE Safe(table')
  BY <1>1, <1>7, MultipleLemma DEF Timeouts
<1>8. ASSUME SingleTimeout PROVE Safe(table')
  <2>1. CASE table' = Timeout(table)
    <3>1. Silent(table) \subseteq Silent(table) \cup Gone(table)
      OBVIOUS
    <3>2. QED
      BY <1>1, <2>1, <3>1, TimeoutsLemma DEF Timeout
  <2>2. CASE table' = BYETimeout(table)
    <3>1. Gone(table) \subseteq Silent(table) \cup Gone(table)
      OBVIOUS
    <3>2. QED
      BY <1>1, <2>2, <3>1, TimeoutsLemma DEF BYETimeout
  <2>3. CASE table' = SenderTimeout(table)
    BY <1>1, <2>3, SenderTimeoutLemma, GrowsIsSafe
  <2>4. QED
    BY <1>8, <2>1, <2>2, <2>3 DEF SingleTimeout
<1>9. ASSUME Tick PROVE Safe(table')
  BY <1>1, <1>9, AgedLemma, GrowsIsSafe DEF Tick
<1>10. Safe(table') \/ (Clear /\ Good(table') /\ Still(table, table'))
  <2> HIDE DEF Safe
  <2>1. QED
    BY <1>2, <1>3, <1>4, <1>5, <1>6, <1>7, <1>8, <1>9 DEF Next
<1>11. Good(table') => Inv'
  BY DEF Inv, TypeOK, CountedInv, OwnEntry, AbsentIsNew, Good, Counted,
         AbsentAreNew, OursEntry
<1>12. QED
  BY <1>10, <1>11 DEF Clear

\* The inductive invariant: the counts are those of the table, our own entry
\* is complete, and what was removed is as if it had never been there.
THEOREM InvTheorem == Spec => []Inv
<1>1. Inv /\ [Next]_table => Inv'
  <2>1. CASE UNCHANGED table
    BY <2>1 DEF Inv, TypeOK, CountedInv, OwnEntry, AbsentIsNew
  <2>2. CASE Next
    BY <2>2, StepLemma
  <2>3. QED
    BY <2>1, <2>2
<1>2. QED
  BY <1>1, InitInv, PTL DEF Spec

\* The table keeps its type: the counts of members and senders never fall below 0.
THEOREM TypeCorrect == Spec => []TypeOK
<1>1. Inv => TypeOK
  BY DEF Inv
<1>2. QED
  BY <1>1, InvTheorem, PTL

\* After any sequence of packets, calls and timeouts the counts of members and
\* senders are those of the table, and the count of active members is never too
\* high, and exact as long as no mixer has named a source already known (CSRC).
THEOREM CountsTheorem == Spec => []CountsExact
<1>1. ASSUME Inv PROVE CountsExact
  <2>1. /\ table.total = Cardinality(Members(table))
        /\ table.senders = Cardinality(SendingMembers(table))
        /\ table.active + table.missed = Cardinality(ActiveMembers(table))
    BY <1>1 DEF Inv, CountedInv
  <2>2. table.active \in Int /\ table.missed \in Nat
    BY <1>1 DEF Inv, TypeOK, Table
  <2>3. /\ table.active <= Cardinality(ActiveMembers(table))
        /\ table.missed = 0 => table.active = Cardinality(ActiveMembers(table))
    BY <2>1, <2>2
  <2>4. QED
    BY <2>1, <2>3 DEF CountsExact
<1>2. QED
  BY <1>1, InvTheorem, PTL

\* No packet and no timeout damages the session's own entry.
THEOREM OwnEntryTheorem == Spec => []OwnEntry
<1>1. Inv => OwnEntry
  BY DEF Inv
<1>2. QED
  BY <1>1, InvTheorem, PTL

\* No call moves a source that stays in the table to another address.
THEOREM AddressKeptTheorem == Spec => AddressKept
<1> DEFINE Moved == \A s \in SSRC, ch \in Channels :
        table.src[s].present /\ table'.src[s].present /\ table.src[s][ch] # Unset
            => table'.src[s][ch] = table.src[s][ch]
<1>1. Inv /\ [Next]_table => [Moved]_table
  <2> SUFFICES ASSUME Inv, Next, NEW s \in SSRC, NEW ch \in Channels,
                      table'.src[s].present, table.src[s][ch] # Unset
               PROVE  table'.src[s][ch] = table.src[s][ch]
    OBVIOUS
  <2>1. Kept(table.src[s], table'.src[s])
    BY StepLemma DEF Still
  <2>2. CASE ch = "rtp"
    BY <2>1, <2>2 DEF Kept
  <2>3. CASE ch = "rtcp"
    BY <2>1, <2>3 DEF Kept
  <2>4. QED
    BY <2>2, <2>3 DEF Channels
<1>2. QED
  BY <1>1, InvTheorem, PTL DEF Spec, AddressKept

\* No timeout removes a source that was heard since the last tick and has not
\* said goodbye.
THEOREM HeardStaysTheorem == Spec => HeardStays
<1> DEFINE Stays == \A s \in SSRC :
        table.src[s].heard /\ table.src[s].present /\ ~table.src[s].bye
            /\ s # table.own /\ table' # ClearSourceList(table)
            => table'.src[s].present
<1>1. Inv /\ [Next]_table => [Stays]_table
  BY StepLemma DEF Spares
<1>2. QED
  BY <1>1, InvTheorem, PTL DEF Spec, HeardStays

-----------------------------------------------------------------------------
(* One source of the table, RtpSource: its list of packets.                *)

Ordered(list) == \A j, k \in DOMAIN list : j < k => list[j].ext < list[k].ext

\* Everything in the list is p or was in the list before.
FromOrNew(out, list, p) ==
    \A j \in DOMAIN out : out[j] = p \/ \E i \in DOMAIN list : out[j] = list[i]

LEMMA TailLemma ==
    ASSUME NEW list \in Seq(Packet), list # <<>>, Ordered(list)
    PROVE  /\ Tail(list) \in Seq(Packet) /\ Len(Tail(list)) = Len(list) - 1
           /\ Ordered(Tail(list))
           /\ \A j \in DOMAIN Tail(list) : \E i \in DOMAIN list : Tail(list)[j] = list[i]
<1> DEFINE out == Tail(list)
<1>1. /\ out \in Seq(Packet) /\ Len(out) = Len(list) - 1
      /\ \A j \in DOMAIN out : j + 1 \in DOMAIN list /\ out[j] = list[j + 1]
      /\ DOMAIN out \subseteq Nat
  OBVIOUS
<1> HIDE DEF out
<1>2. Ordered(out)
  BY <1>1 DEF Ordered
<1>3. QED
  BY <1>1, <1>2 DEF out

\* A set of places in a list that is not empty has a last one.
LEMMA Last ==
    ASSUME NEW n \in Nat, NEW T, T \subseteq 1 .. n, T # {}
    PROVE  \E j \in T : \A l \in T : l <= j
<1> DEFINE U == {n - j : j \in T}
<1>1. U \subseteq Nat /\ U # {}
  <2>1. \A j \in T : j \in 1 .. n /\ n - j \in Nat
    OBVIOUS
  <2>2. QED
    BY <2>1
<1>2. PICK x \in U : \A y \in U : ~(y < x)
  BY <1>1, Smallest, Zenon
<1>3. PICK j \in T : x = n - j
  OBVIOUS
<1>4. \A l \in T : l <= j
  <2> TAKE l \in T
  <2>1. n - l \in U
    OBVIOUS
  <2>2. ~(n - l < n - j)
    BY <1>2, <1>3, <2>1
  <2>3. j \in Int /\ l \in Int
    OBVIOUS
  <2>4. QED
    BY <2>2, <2>3
<1>5. QED
  BY <1>4

LEMMA InsertLemma ==
    ASSUME NEW list \in Seq(Packet), Ordered(list), NEW p \in Packet,
           NEW out, out = Insert(list, p)
    PROVE  /\ out \in Seq(Packet) /\ Len(out) <= Len(list) + 1
           /\ Ordered(out) /\ FromOrNew(out, list, p)
<1> DEFINE n == Len(list)
           below == {j \in DOMAIN list : list[j].ext <= p.ext}
           k == IF below = {} THEN 0 ELSE CHOOSE j \in below : \A l \in below : l <= j
           new == SubSeq(list, 1, k) \o <<p>> \o SubSeq(list, k + 1, n)
<1>1. n \in Nat /\ DOMAIN list = 1 .. n /\ below \subseteq 1 .. n
  OBVIOUS
<1>2. below # {} => k \in below /\ \A l \in below : l <= k
  <2>1. below # {} => \E j \in below : \A l \in below : l <= j
    <3> HIDE DEF below
    <3>1. QED
      BY <1>1, Last
  <2>2. QED
    BY <2>1
<1>3. k \in 0 .. n
  BY <1>1, <1>2
<1>4. \A j \in 1 .. n : list[j] \in Packet /\ list[j].ext \in Nat
  <2>1. \A j \in 1 .. n : list[j] \in Packet
    OBVIOUS
  <2>2. QED
    BY <2>1 DEF Packet
<1>5. p.ext \in Nat
  BY DEF Packet
<1>6. \A j \in 1 .. n : /\ j <= k => list[j].ext <= p.ext
                        /\ j > k => list[j].ext > p.ext
  <2> TAKE j \in 1 .. n
  <2>1. ASSUME j <= k PROVE list[j].ext <= p.ext
    <3>1. k \in below /\ k \in 1 .. n
      BY <1>1, <1>2, <1>3, <2>1
    <3>2. list[k].ext <= p.ext
      BY <3>1
    <3>3. list[j].ext <= list[k].ext
      <4> HIDE DEF k
      <4>1. CASE j = k
        BY <1>4, <4>1
      <4>2. CASE j < k
        BY <1>1, <1>4, <3>1, <4>2 DEF Ordered
      <4>3. QED
        BY <1>3, <2>1, <4>1, <4>2
    <3>4. QED
      BY <1>4, <1>5, <3>1, <3>2, <3>3
  <2>2. ASSUME j > k PROVE list[j].ext > p.ext
    <3>1. j \notin below
      BY <1>2, <1>3, <2>2
    <3>2. QED
      BY <1>1, <1>4, <1>5, <3>1
  <2>3. QED
    BY <2>1, <2>2
<1>7. out = IF k > 0 /\ list[k].ext = p.ext THEN list ELSE new
  BY DEF Insert
<1>8. CASE k > 0 /\ list[k].ext = p.ext
  <2> HIDE DEF k, below, new
  <2>1. out = list /\ n <= n + 1
    BY <1>1, <1>7, <1>8
  <2>2. QED
    BY <2>1 DEF FromOrNew
<1>9. CASE ~(k > 0 /\ list[k].ext = p.ext)
  <2> HIDE DEF k, below
  <2>1. /\ SubSeq(list, 1, k) \in Seq(Packet) /\ Len(SubSeq(list, 1, k)) = k
        /\ \A j \in 1 .. k : SubSeq(list, 1, k)[j] = list[j]
    BY <1>1, <1>3
  <2>2. /\ SubSeq(list, k + 1, n) \in Seq(Packet) /\ Len(SubSeq(list, k + 1, n)) = n - k
        /\ \A j \in 1 .. (n - k) : SubSeq(list, k + 1, n)[j] = list[k + j]
    <3>1. /\ k + 1 \in 1 .. (n + 1) /\ k \in Nat /\ k + 1 \in Int /\ n - (k + 1) + 1 = n - k
          /\ \A j \in 1 .. (n - k) : (k + 1) + j - 1 = k + j
      BY <1>1, <1>3
    <3>2. k + 1 \in Int /\ n \in Int /\ \A i \in (k + 1) .. n : list[i] \in Packet
      BY <1>1, <1>3, <1>4
    <3>3. /\ SubSeq(list, k + 1, n) \in Seq(Packet)
          /\ Len(SubSeq(list, k + 1, n)) = IF k + 1 <= n THEN n - (k + 1) + 1 ELSE 0
          /\ \A i \in 1 .. n - (k + 1) + 1 : SubSeq(list, k + 1, n)[i] = list[(k + 1) + i - 1]
      BY <3>2, SubSeqProperties
    <3>4. Len(SubSeq(list, k + 1, n)) = n - k
      <4>1. k \in Int /\ n \in Int /\ k <= n
        BY <1>1, <1>3
      <4>2. CASE k = n
        BY <3>3, <4>1, <4>2
      <4>3. CASE k < n
        BY <3>3, <4>1, <4>3
      <4>4. QED
        BY <4>1, <4>2, <4>3
    <3>5. QED
      BY <3>1, <3>3, <3>4
  <2>3. /\ new \in Seq(Packet) /\ Len(new) = n + 1
        /\ \A j \in 1 .. k : new[j] = list[j]
        /\ new[k + 1] = p
        /\ \A j \in (k + 2) .. (n + 1) : new[j] = list[j - 1]
    <3> DEFINE A == SubSeq(list, 1, k)
               B == SubSeq(list, k + 1, n)
    <3> HIDE DEF A, B
    <3>1. A \in Seq(Packet) /\ B \in Seq(Packet) /\ Len(A) = k /\ Len(B) = n - k
      BY <2>1, <2>2 DEF A, B
    <3>2. /\ A \o <<p>> \in Seq(Packet) /\ Len(A \o <<p>>) = k + 1
          /\ \A j \in 1 .. k : (A \o <<p>>)[j] = A[j]
          /\ (A \o <<p>>)[k + 1] = p
      BY <1>3, <3>1
    <3> DEFINE D == A \o <<p>>
    <3> HIDE DEF D
    <3>3. /\ D \o B \in Seq(Packet) /\ Len(D \o B) = n + 1
          /\ \A j \in 1 .. (k + 1) : (D \o B)[j] = D[j]
          /\ \A j \in (k + 2) .. (n + 1) : (D \o B)[j] = B[j - (k + 1)]
      <4>1. D \in Seq(Packet) /\ Len(D) = k + 1
        BY <3>2 DEF D
      <4>2. k \in Nat /\ n \in Nat /\ k <= n /\ Len(B) = n - k
        BY <1>1, <1>3, <3>1
      <4>3. /\ D \o B \in Seq(Packet) /\ Len(D \o B) = Len(D) + Len(B)
            /\ \A j \in 1 .. Len(D) + Len(B) :
                 (D \o B)[j] = IF j <= Len(D) THEN D[j] ELSE B[j - Len(D)]
        BY <3>1, <4>1, ConcatProperties
      <4>4. Len(D) + Len(B) = n + 1
        BY <4>1, <4>2
      <4>5. /\ \A j \in 1 .. (k + 1) : j \in 1 .. n + 1 /\ j <= k + 1
            /\ \A j \in (k + 2) .. (n + 1) : j \in 1 .. n + 1 /\ ~(j <= k + 1)
        BY <4>2
      <4>6. QED
        BY <4>1, <4>3, <4>4, <4>5
    <3>4. new = D \o B
      BY DEF A, B, D
    <3>5. \A j \in (k + 2) .. (n + 1) : B[j - (k + 1)] = list[j - 1]
      <4>1. \A j \in (k + 2) .. (n + 1) : /\ j - (k + 1) \in 1 .. (n - k)
                                          /\ k + (j - (k + 1)) = j - 1
        BY <1>1, <1>3
      <4>2. QED
        BY <2>2, <4>1 DEF B
    <3>6. \A j \in 1 .. k : D[j] = list[j]
      BY <2>1, <3>2 DEF A, D
    <3>7. /\ k + 1 \in 1 .. (k + 1) /\ D[k + 1] = p
          /\ \A j \in 1 .. k : j \in 1 .. (k + 1)
      BY <1>3, <3>2 DEF D
    <3> HIDE DEF new
    <3>8. QED
      BY <3>3, <3>4, <3>5, <3>6, <3>7
  <2> HIDE DEF new
  <2>4. DOMAIN new = 1 .. (n + 1)
    BY <1>1, <2>3
  <2>5. k > 0 => list[k].ext < p.ext
    BY <1>3, <1>4, <1>5, <1>6, <1>9
  <2>6. \A j \in 1 .. k : list[j].ext < p.ext
    <3> TAKE j \in 1 .. k
    <3>1. j \in 1 .. n /\ k \in 1 .. n
      BY <1>1, <1>3
    <3>2. CASE j = k
      BY <2>5, <3>1, <3>2
    <3>3. CASE j < k
      <4> HIDE DEF n
      <4>1. list[j].ext < list[k].ext
        BY <1>1, <3>1, <3>3 DEF Ordered
      <4>2. list[k].ext < p.ext
        BY <2>5, <3>1
      <4>3. QED
        BY <1>4, <1>5, <3>1, <4>1, <4>2
    <3>4. QED
      BY <3>1, <3>2, <3>3
  <2>7. Ordered(new)
    <3> SUFFICES ASSUME NEW i \in 1 .. (n + 1), NEW j \in 1 .. (n + 1), i < j
                 PROVE  new[i].ext < new[j].ext
      BY <2>4 DEF Ordered
    <3>1. CASE j <= k
      <4>1. new[i] = list[i] /\ new[j] = list[j] /\ i \in 1 .. n /\ j \in 1 .. n
        BY <1>1, <1>3, <2>3, <3>1
      <4>2. QED
        BY <1>1, <4>1 DEF Ordered
    <3>2. CASE j = k + 1
      <4>1. new[i] = list[i] /\ i \in 1 .. k /\ new[j] = p
        BY <1>1, <1>3, <2>3, <3>2
      <4>2. QED
        BY <2>6, <4>1
    <3>3. CASE j > k + 1 /\ i = k + 1
      <4>1. new[i] = p /\ new[j] = list[j - 1] /\ j - 1 \in 1 .. n /\ j - 1 > k
        BY <1>1, <1>3, <2>3, <3>3
      <4>2. QED
        BY <1>4, <1>5, <1>6, <4>1
    <3>4. CASE j > k + 1 /\ i <= k
      <4>1. new[i] = list[i] /\ new[j] = list[j - 1] /\ i \in 1 .. n /\ j - 1 \in 1 .. n /\ i < j - 1
        BY <1>1, <1>3, <2>3, <3>4
      <4>2. QED
        BY <1>1, <4>1 DEF Ordered
    <3>5. CASE i > k + 1
      <4>1. /\ new[i] = list[i - 1] /\ new[j] = list[j - 1]
            /\ i - 1 \in 1 .. n /\ j - 1 \in 1 .. n /\ i - 1 < j - 1
        BY <1>1, <1>3, <2>3, <3>5
      <4>2. QED
        BY <1>1, <4>1 DEF Ordered
    <3>6. QED
      BY <1>3, <3>1, <3>2, <3>3, <3>4, <3>5
  <2>8. FromOrNew(new, list, p)
    <3> SUFFICES ASSUME NEW j \in 1 .. (n + 1), new[j] # p
                 PROVE  \E i \in 1 .. n : new[j] = list[i]
      BY <1>1, <2>4 DEF FromOrNew
    <3>1. CASE j <= k
      BY <1>1, <1>3, <2>3, <3>1
    <3>2. CASE j > k + 1
      <4>1. j - 1 \in 1 .. n /\ new[j] = list[j - 1]
        BY <1>1, <1>3, <2>3, <3>2
      <4>2. QED
        BY <4>1
    <3>3. QED
      BY <1>3, <2>3, <3>1, <3>2
  <2>9. QED
    BY <1>1, <1>7, <1>9, <2>3, <2>7, <2>8
<1>10. QED
  BY <1>8, <1>9

\* A list on probation makes room first; the new packet finds its place.
LEMMA StoreLemma ==
    ASSUME NEW list \in Seq(Packet), Ordered(list), NEW p \in Packet,
           NEW w, w = list \/ w = Trim(list),
           NEW out, out = IF list = <<>> THEN <<p>> ELSE Insert(w, p)
    PROVE  /\ out \in Seq(Packet) /\ Ordered(out) /\ FromOrNew(out, list, p)
           /\ w = Trim(list) /\ Len(list) <= MaxProbation => Len(out) <= MaxProbation
<1>0. MaxProbation \in Nat /\ MaxProbation > 0
  BY RtpSourceAssumption
<1>1. CASE list = <<>>
  BY <1>0, <1>1 DEF Ordered, FromOrNew
<1>2. CASE list # <<>>
  <2>1. w = list \/ w = Tail(list)
    BY DEF Trim
  <2>2. /\ w \in Seq(Packet) /\ Ordered(w) /\ Len(w) <= Len(list)
        /\ \A j \in DOMAIN w : \E i \in DOMAIN list : w[j] = list[i]
    <3>1. CASE w = list
      BY <3>1
    <3>2. CASE w = Tail(list)
      <4>1. /\ w \in Seq(Packet) /\ Len(w) = Len(list) - 1 /\ Ordered(w)
            /\ \A j \in DOMAIN w : \E i \in DOMAIN list : w[j] = list[i]
        BY <1>2, <3>2, TailLemma
      <4>2. Len(list) \in Nat /\ Len(list) - 1 <= Len(list)
        OBVIOUS
      <4>3. QED
        BY <4>1, <4>2
    <3>3. QED
      BY <2>1, <3>1, <3>2
  <2>3. w = Trim(list) /\ Len(list) <= MaxProbation => Len(w) + 1 <= MaxProbation
    <3>1. CASE Len(list) = MaxProbation
      BY <1>0, <1>2, <3>1, TailLemma DEF Trim
    <3>2. CASE Len(list) # MaxProbation
      BY <1>0, <3>2 DEF Trim
    <3>3. QED
      BY <3>1, <3>2
  <2>4. out = Insert(w, p)
    BY <1>2
  <2>5. /\ out \in Seq(Packet) /\ Len(out) <= Len(w) + 1
        /\ Ordered(out) /\ FromOrNew(out, w, p)
    BY <2>2, <2>4, InsertLemma
  <2>6. FromOrNew(out, list, p)
    BY <2>2, <2>5 DEF FromOrNew
  <2>7. w = Trim(list) /\ Len(list) <= MaxProbation => Len(out) <= MaxProbation
    BY <1>0, <2>2, <2>3, <2>5
  <2>8. QED
    BY <2>5, <2>6, <2>7
<1>3. QED
  BY <1>1, <1>2

-----------------------------------------------------------------------------
(* The invariant of one source.                                            *)

LEMMA SeqTyped ==
    ASSUME SourceTypeOK, NEW i \in Positions
    PROVE  /\ i \in Nat /\ Seq16(i) \in Nat /\ Seq16(i) \in 0 .. Cycle - 1
           /\ Base(Seq16(i)) \in Nat
  BY RtpSourceAssumption DEF SourceTypeOK, Seq16, Positions, Base

\* The history of an arrival.
LEMMA ArrivedLemma ==
    ASSUME SourceTypeOK, NEW i \in Positions,
           MayArrive(i), Arrived(i)
    PROVE  /\ lastseq' = Seq16(i) /\ lastseq' \in 0 .. Cycle - 1
           /\ streak' \in 1 .. ProbationCount + 1 /\ strays' \in 0 .. MaxStrays
           /\ Newer(i) \in Positions
           /\ strays' = strays <=> ~Stray(i)
<1>1. lastseq' = Seq16(i) /\ lastseq' \in 0 .. Cycle - 1
  BY SeqTyped DEF Arrived
<1>2. streak' \in 1 .. ProbationCount + 1
  BY RtpSourceAssumption DEF Arrived, SourceTypeOK
<1>3. strays' \in 0 .. MaxStrays /\ (strays' = strays <=> ~Stray(i))
  BY RtpSourceAssumption DEF Arrived, MayArrive, SourceTypeOK
<1>4. Newer(i) \in Positions
  <2>1. i \in Nat /\ (newest \in Positions \/ newest = -1)
    BY RtpSourceAssumption DEF SourceTypeOK, Positions, None
  <2>2. newest = -1 => i > newest
    BY <2>1
  <2>3. QED
    BY <2>1, <2>2 DEF Newer
<1>5. QED
  BY <1>1, <1>2, <1>3, <1>4

LEMMA OnProbationStep ==
    ASSUME SourceInv, NEW i \in Positions,
           MayArrive(i), Arrived(i), OnProbation(i),
           UNCHANGED <<probationtype, first>>
    PROVE  SourceInv' /\ ~validated' /\ streak' <= ProbationCount
<1> DEFINE p == [ext |-> Seq16(i), id |-> i, raw |-> TRUE]
<1>1. SourceTypeOK /\ ListSorted /\ ProbationBounded /\ ProbationCounts
  BY DEF SourceInv
<1>2. p \in Packet
  BY <1>1, SeqTyped DEF Packet
<1>3. ~validated /\ ~validated' /\ ~sentdata' /\ probationtype # "NoProbation"
  BY DEF OnProbation, applyprobation
<1>4. /\ packetlist' \in Seq(Packet) /\ Ordered(packetlist')
      /\ Len(packetlist') <= IF probationtype = "ProbationStore" THEN MaxProbation ELSE 0
  <2>1. packetlist \in Seq(Packet) /\ Ordered(packetlist)
    BY <1>1 DEF SourceTypeOK, ListSorted, Ordered
  <2>2. Len(packetlist) <= IF probationtype = "ProbationStore" THEN MaxProbation ELSE 0
    BY <1>1, <1>3 DEF ProbationBounded
  <2>3. CASE probationtype = "ProbationStore"
    <3>1. packetlist' = IF packetlist = <<>> THEN <<p>>
                        ELSE Insert(Trim(packetlist), p)
      BY <2>3 DEF OnProbation, Store
    <3> HIDE DEF p
    <3>2. QED
      BY ZenonT(40), <1>2, <2>1, <2>2, <2>3, <3>1, StoreLemma
  <2>4. CASE probationtype # "ProbationStore"
    BY <2>1, <2>2, <2>4 DEF OnProbation
  <2>5. QED
    BY <2>3, <2>4
<1>5. SourceTypeOK'
  <2>1. probation' \in 0 .. ProbationCount /\ prevseqnr' \in 0 .. Cycle - 1
    BY <1>1, SeqTyped, RtpSourceAssumption DEF OnProbation, Expected, SourceTypeOK
  <2>2. newest' \in Positions /\ streak' \in 0 .. ProbationCount + 1
    BY <1>1, ArrivedLemma, RtpSourceAssumption DEF OnProbation
  <2>3. QED
    BY <1>1, <1>4, <2>1, <2>2, ArrivedLemma DEF OnProbation, SourceTypeOK
<1>6. ListSorted' /\ ProbationBounded'
  BY <1>4 DEF ListSorted, ProbationBounded, Ordered
<1>7. /\ streak' <= ProbationCount
      /\ prevseqnr' = lastseq' /\ probation' = ProbationCount + 1 - streak' /\ streak' # 0
  <2>1. /\ probation \in Nat /\ streak \in Nat /\ ProbationCount \in Nat /\ ProbationCount > 0
        /\ streak <= ProbationCount
        /\ IF streak = 0 THEN probation = 0
           ELSE prevseqnr = lastseq /\ probation = ProbationCount + 1 - streak
    BY <1>1, <1>3, RtpSourceAssumption DEF ProbationCounts, SourceTypeOK
  <2>2. /\ prevseqnr' = Seq16(i) /\ lastseq' = Seq16(i)
        /\ probation' = IF Expected(Seq16(i)) THEN probation - 1 ELSE ProbationCount
        /\ ~(Expected(Seq16(i)) /\ probation = 1)
        /\ streak' = IF streak = 0 \/ Seq16(i) # (lastseq + 1) % Cycle THEN 1
                     ELSE IF streak > ProbationCount THEN streak ELSE streak + 1
    BY DEF OnProbation, Arrived
  <2>3. CASE streak = 0
    BY <2>1, <2>2, <2>3 DEF Expected
  <2>4. CASE streak # 0 /\ Seq16(i) # (lastseq + 1) % Cycle
    BY <2>1, <2>2, <2>4 DEF Expected
  <2>5. CASE streak # 0 /\ Seq16(i) = (lastseq + 1) % Cycle
    BY <2>1, <2>2, <2>5 DEF Expected
  <2>6. QED
    BY <2>3, <2>4, <2>5
<1>8. ProbationCounts'
  BY <1>3, <1>7 DEF ProbationCounts
<1>9. QED
  BY <1>3, <1>5, <1>6, <1>7, <1>8 DEF SourceInv

\* An accepted packet is stored with a number, and makes the source valid.
LEMMA AcceptedStep ==
    ASSUME SourceInv, NEW i \in Positions,
           MayArrive(i), Arrived(i),
           FirstAccepted(i) \/ NextAccepted(i),
           UNCHANGED <<probationtype, first>>
    PROVE  SourceInv' /\ validated' /\ sentdata'
<1>1. SourceTypeOK /\ ListSorted
  BY DEF SourceInv
<1>2. validated' /\ sentdata'
  <2>1. CASE FirstAccepted(i)
    BY <2>1 DEF FirstAccepted
  <2>2. CASE NextAccepted(i)
    BY <2>2 DEF NextAccepted
  <2>3. QED
    BY <2>1, <2>2
<1>3. PICK ext \in Nat :
        packetlist' = IF packetlist = <<>> THEN <<[ext |-> ext, id |-> i, raw |-> FALSE]>>
                      ELSE Insert(packetlist, [ext |-> ext, id |-> i, raw |-> FALSE])
  <2>1. CASE FirstAccepted(i)
    <3>1. exthighseqnr' \in Nat
      BY <1>1, <2>1, SeqTyped DEF FirstAccepted
    <3>2. QED
      BY <2>1, <3>1 DEF FirstAccepted, Store
  <2>2. CASE NextAccepted(i)
    <3> DEFINE ext == numcycles' + Seq16(i)
    <3>1. ext \in Nat
      BY SMTT(30), <1>1, <2>2, SeqTyped, RtpSourceAssumption DEF NextAccepted, SourceTypeOK
    <3>2. QED
      BY <2>2, <3>1 DEF NextAccepted, Store
  <2>3. QED
    BY <2>1, <2>2
<1>4. packetlist' \in Seq(Packet) /\ Ordered(packetlist')
  <2> DEFINE p == [ext |-> ext, id |-> i, raw |-> FALSE]
  <2>1. p \in Packet
    BY DEF Packet
  <2>2. packetlist \in Seq(Packet) /\ Ordered(packetlist)
    BY <1>1 DEF SourceTypeOK, ListSorted, Ordered
  <2>3. packetlist' = IF packetlist = <<>> THEN <<p>> ELSE Insert(packetlist, p)
    BY <1>3
  <2> HIDE DEF p
  <2>4. QED
    BY <2>1, <2>2, <2>3, StoreLemma
<1>5. SourceTypeOK'
  <2>1. /\ probation' \in 0 .. ProbationCount /\ prevseqnr' \in 0 .. Cycle - 1
        /\ numcycles' \in Nat /\ baseseqnr' \in Nat /\ exthighseqnr' \in Nat
        /\ accepted' \in Positions \cup {None}
        /\ newest' \in Positions
    <3>1. CASE FirstAccepted(i)
      <4>1. probation' \in 0 .. ProbationCount /\ prevseqnr' \in 0 .. Cycle - 1
        BY <1>1, <3>1, SeqTyped, RtpSourceAssumption DEF FirstAccepted, SourceTypeOK
      <4>2. numcycles' \in Nat /\ baseseqnr' \in Nat /\ exthighseqnr' \in Nat
        <5>1. /\ baseseqnr' = Base(Seq16(i)) /\ exthighseqnr' = baseseqnr' + 1
              /\ numcycles' \in {Cycle, numcycles}
          BY <3>1 DEF FirstAccepted
        <5>2. QED
          BY <1>1, <5>1, SeqTyped, RtpSourceAssumption DEF SourceTypeOK
      <4>3. accepted' = i /\ newest' = i
        BY <3>1 DEF FirstAccepted
      <4>4. QED
        BY <4>1, <4>2, <4>3
    <3>2. CASE NextAccepted(i)
      <4>1. /\ numcycles' \in {numcycles, numcycles + Cycle}
            /\ exthighseqnr' \in {exthighseqnr, numcycles' + Seq16(i)}
            /\ UNCHANGED <<probation, prevseqnr, baseseqnr, accepted>>
            /\ newest' = Newer(i)
        BY <3>2 DEF NextAccepted
      <4>2. numcycles' \in Nat /\ exthighseqnr' \in Nat
        BY <1>1, <4>1, SeqTyped, RtpSourceAssumption DEF SourceTypeOK
      <4>3. QED
        BY <1>1, <4>1, <4>2, ArrivedLemma DEF SourceTypeOK
    <3>3. QED
      BY <3>1, <3>2
  <2>2. streak' \in 0 .. ProbationCount + 1
    BY <1>1, ArrivedLemma, RtpSourceAssumption
  <2>3. QED
    BY <1>1, <1>2, <1>4, <2>1, <2>2, ArrivedLemma DEF SourceTypeOK
<1>6. /\ ListSorted' /\ ProbationBounded' /\ ProbationCounts'
  BY <1>2, <1>4 DEF ListSorted, ProbationBounded, ProbationCounts, Ordered
<1>7. QED
  BY <1>2, <1>5, <1>6 DEF SourceInv

LEMMA SourceInitInv ==
    ASSUME SourceInit
    PROVE  SourceInv
<1>1. packetlist = <<>> /\ ~sentdata /\ streak = 0 /\ probation = 0
  BY DEF SourceInit
<1>2. SourceTypeOK
  <2>1. 0 \in 0 .. ProbationCount /\ 0 \in 0 .. Cycle - 1 /\ 0 \in 0 .. MaxStrays
        /\ 0 \in 0 .. ProbationCount + 1
    BY RtpSourceAssumption
  <2>2. <<>> \in Seq(Packet)
    OBVIOUS
  <2>3. QED
    BY <2>1, <2>2 DEF SourceInit, SourceTypeOK
<1>3. ListSorted /\ ProbationBounded /\ ProbationCounts
  BY <1>1, RtpSourceAssumption DEF ListSorted, ProbationBounded, ProbationCounts
<1>4. QED
  BY <1>2, <1>3 DEF SourceInv

LEMMA NameStep ==
    ASSUME SourceInv, SourceCNAME
    PROVE  SourceInv'
  BY DEF SourceCNAME, SourceInv, SourceTypeOK, ListSorted,
         ProbationBounded, ProbationCounts, statVars, historyVars

LEMMA TakeStep ==
    ASSUME SourceInv, GetNextPacket \/ FlushPackets
    PROVE  SourceInv'
<1>1. /\ packetlist \in Seq(Packet) /\ packetlist # <<>> /\ Ordered(packetlist)
      /\ packetlist' = Tail(packetlist) \/ packetlist' = <<>>
      /\ packetlist' = Tail(packetlist) => validated \/ packetlist' = <<>>
  BY DEF SourceInv, SourceTypeOK, ListSorted, GetNextPacket,
         FlushPackets, Ordered
<1>2. packetlist' \in Seq(Packet) /\ Ordered(packetlist')
  <2>1. CASE packetlist' = Tail(packetlist)
    BY <1>1, <2>1, TailLemma
  <2>2. CASE packetlist' = <<>>
    BY <2>2 DEF Ordered
  <2>3. QED
    BY <1>1, <2>1, <2>2
<1>3. UNCHANGED <<probationtype, validated, statVars, first, historyVars>>
  BY DEF GetNextPacket, FlushPackets
<1>4. SourceTypeOK' /\ ProbationCounts'
  BY <1>2, <1>3 DEF SourceInv, SourceTypeOK, ProbationCounts,
                    statVars, historyVars
<1>5. ListSorted'
  BY <1>2 DEF ListSorted, Ordered
<1>6. ProbationBounded'
  <2> SUFFICES ASSUME ~validated' PROVE packetlist' = <<>>
    <3>1. MaxProbation \in Nat /\ Len(<<>>) = 0
      BY RtpSourceAssumption
    <3>2. QED
      BY <3>1 DEF ProbationBounded
  <2>1. QED
    BY <1>1, <1>3
<1>7. QED
  BY <1>4, <1>5, <1>6 DEF SourceInv

LEMMA SourceStep ==
    ASSUME SourceInv, SourceNext
    PROVE  SourceInv'
<1>1. ASSUME NEW i \in Positions, SourceRTPPacket(i) PROVE SourceInv'
  BY <1>1, OnProbationStep, AcceptedStep DEF SourceRTPPacket
<1>2. QED
  BY <1>1, NameStep, TakeStep DEF SourceNext

\* The inductive invariant of one source, for any cycle, any sender and any
\* bounds of the network.
THEOREM SourceInvTheorem == SourceSpec => []SourceInv
<1>1. SourceInv /\ UNCHANGED sourceVars => SourceInv'
  BY DEF sourceVars, statVars, historyVars, SourceInv, SourceTypeOK,
         ListSorted, ProbationBounded, ProbationCounts
<1>2. SourceInv /\ [SourceNext]_sourceVars => SourceInv'
  BY <1>1, SourceStep
<1>3. QED
  BY <1>2, SourceInitInv, PTL DEF SourceSpec

\* Every variable of a source keeps its type.
THEOREM SourceTypeCorrect == SourceSpec => []SourceTypeOK
<1>1. SourceInv => SourceTypeOK
  BY DEF SourceInv
<1>2. QED
  BY <1>1, SourceInvTheorem, PTL

\* The list of packets is in order of numbers and holds none twice.
THEOREM ListSortedTheorem == SourceSpec => []ListSorted
<1>1. SourceInv => ListSorted
  BY DEF SourceInv
<1>2. QED
  BY <1>1, SourceInvTheorem, PTL

\* A source on probation never holds more than MaxProbation packets.
THEOREM ProbationBoundedTheorem == SourceSpec => []ProbationBounded
<1>1. SourceInv => ProbationBounded
  BY DEF SourceInv
<1>2. QED
  BY <1>1, SourceInvTheorem, PTL

\* Probation accepts a source exactly when ProbationCount + 1 packets in a row
\* have arrived.
THEOREM AcceptedAfterRunTheorem == SourceSpec => AcceptedAfterRun
<1> DEFINE Exact == ~validated /\ probationtype # "NoProbation" =>
                      (validated' /\ sentdata' <=> streak' > ProbationCount)
<1>1. ASSUME SourceInv, SourceNext, ~validated, probationtype # "NoProbation"
      PROVE  validated' /\ sentdata' <=> streak' > ProbationCount
  <2>1. /\ SourceTypeOK /\ ProbationCounts /\ ~sentdata
        /\ streak \in Nat /\ ProbationCount \in Nat /\ streak <= ProbationCount
    BY <1>1, RtpSourceAssumption DEF SourceInv, ProbationCounts, SourceTypeOK
  <2>2. ASSUME NEW i \in Positions, SourceRTPPacket(i)
        PROVE  validated' /\ sentdata' <=> streak' > ProbationCount
    <3>1. CASE OnProbation(i)
      <4>1. ~validated' /\ streak' <= ProbationCount
        BY <1>1, <2>2, <3>1, OnProbationStep DEF SourceRTPPacket
      <4>2. streak' \in Int
        BY <2>1, <2>2, ArrivedLemma, RtpSourceAssumption DEF SourceRTPPacket
      <4>3. QED
        BY <2>1, <4>1, <4>2
    <3>2. CASE FirstAccepted(i)
      <4>1. /\ validated' /\ sentdata' /\ probation = 1
            /\ Seq16(i) = (prevseqnr + 1) % Cycle
        BY <1>1, <3>2 DEF FirstAccepted, applyprobation, Expected
      <4>2. streak # 0 /\ prevseqnr = lastseq /\ streak = ProbationCount
        BY <1>1, <2>1, <4>1 DEF ProbationCounts
      <4>3. streak' = streak + 1
        BY <2>1, <2>2, <4>1, <4>2 DEF SourceRTPPacket, Arrived
      <4>4. QED
        BY <2>1, <4>1, <4>2, <4>3
    <3>3. CASE NextAccepted(i)
      BY <2>1, <3>3 DEF NextAccepted
    <3>4. QED
      BY <2>2, <3>1, <3>2, <3>3 DEF SourceRTPPacket
  <2>3. CASE SourceCNAME
    BY <2>1, <2>3 DEF SourceCNAME, statVars, historyVars
  <2>4. CASE GetNextPacket \/ FlushPackets
    BY <1>1, <2>1, <2>4 DEF GetNextPacket, FlushPackets, statVars, historyVars
  <2>5. QED
    BY <1>1, <2>2, <2>3, <2>4 DEF SourceNext
<1>2. SourceInv /\ [SourceNext]_sourceVars => [Exact]_sourceVars
  BY <1>1
<1>3. QED
  BY <1>2, SourceInvTheorem, PTL DEF SourceSpec, AcceptedAfterRun

-----------------------------------------------------------------------------
(* Division by the cycle.                                                  *)

LEMMA Apart ==
    ASSUME NEW C \in Nat \ {0}, NEW a \in Int, a > 0
    PROVE  C * a >= C
  OBVIOUS

LEMMA Multiple ==
    ASSUME NEW C \in Nat \ {0}, NEW q \in Int, NEW d \in Int, q > d
    PROVE  q * C \in Int /\ d * C \in Int /\ q * C >= d * C + C
<1> DEFINE x == q * C
           y == d * C
<1>1. x \in Int /\ y \in Int
  OBVIOUS
<1>2. C * (q - d) >= C
  BY Apart
<1>3. C * (q - d) = x - y
  OBVIOUS
<1> HIDE DEF x, y
<1>4. x >= y + C
  BY <1>1, <1>2, <1>3
<1>5. QED
  BY <1>1, <1>4 DEF x, y

\* Quotient and remainder are the only ones.
LEMMA Unique ==
    ASSUME NEW C \in Nat \ {0}, NEW q \in Int, NEW d \in Int,
           NEW r \in 0 .. C - 1, NEW m \in 0 .. C - 1, q * C + r = d * C + m
    PROVE  q = d /\ r = m
<1> DEFINE x == q * C
           y == d * C
<1>1. x \in Int /\ y \in Int /\ x + r = y + m /\ (q = d => x = y)
  OBVIOUS
<1>2. (q > d => x >= y + C) /\ (d > q => y >= x + C)
  BY Multiple
<1> HIDE DEF x, y
<1>3. q = d
  BY <1>1, <1>2
<1>4. QED
  BY <1>1, <1>3

LEMMA Divide ==
    ASSUME NEW C \in Nat \ {0}, NEW n \in Int
    PROVE  n % C \in 0 .. C - 1 /\ n \div C \in Int /\ n = (n \div C) * C + (n % C)
  OBVIOUS

LEMMA RemainderIs ==
    ASSUME NEW C \in Nat \ {0}, NEW q \in Int, NEW r \in 0 .. C - 1, NEW n, n = q * C + r
    PROVE  n % C = r
<1>1. n \in Int
  OBVIOUS
<1>2. n % C \in 0 .. C - 1 /\ n \div C \in Int /\ n = (n \div C) * C + (n % C)
  BY <1>1, Divide
<1> DEFINE d == n \div C
           m == n % C
<1> HIDE DEF d, m
<1>3. d \in Int /\ m \in 0 .. C - 1 /\ q * C + r = d * C + m
  BY <1>2 DEF d, m
<1>4. m = r
  BY <1>3, Unique
<1>5. QED
  BY <1>4 DEF m

\* A number is given a new low part, in its own cycle or in the next.
LEMMA NewLowPart ==
    ASSUME NEW C \in Nat \ {0}, NEW h \in Int, NEW s \in 0 .. C - 1,
           NEW e, e = h - (h % C) + s \/ e = h - (h % C) + C + s
    PROVE  e % C = s
<1> DEFINE q == h \div C
           m == h % C
           x == q * C
<1>1. q \in Int /\ m \in 0 .. C - 1 /\ x \in Int /\ h = x + m
  BY Divide
<1>2. q + 1 \in Int /\ (q + 1) * C = x + C
  BY <1>1
<1>3. e = h - m + s \/ e = h - m + C + s
  OBVIOUS
<1> HIDE DEF q, m
<1>4. \E d \in Int : e = d * C + s
  <2> HIDE DEF x
  <2>1. e = x + s \/ e = x + C + s
    BY <1>1, <1>3
  <2>2. QED
    BY <1>1, <1>2, <2>1 DEF x
<1>5. QED
  BY <1>4, RemainderIs

\* Of two numbers with quotients in order and less than half a cycle apart
\* forwards, the quotients are equal or next to each other.
LEMMA NextCycle ==
    ASSUME NEW C \in Nat \ {0}, NEW a \in Int, NEW b \in Int,
           a \div C >= b \div C, 2 * (a - b) < C
    PROVE  \/ a - b = (a % C) - (b % C)
           \/ a - b = C + (a % C) - (b % C)
<1> DEFINE q == a \div C
           d == b \div C
           s == a % C
           m == b % C
           x == q * C
           y == d * C
<1>1. /\ q \in Int /\ d \in Int /\ s \in 0 .. C - 1 /\ m \in 0 .. C - 1
      /\ x \in Int /\ y \in Int /\ a = x + s /\ b = y + m
  BY Divide
<1>2. q >= d
  OBVIOUS
<1> HIDE DEF q, d, s, m
<1>3. CASE q = d
  <2>1. x = y
    BY <1>3
  <2> HIDE DEF x, y
  <2>2. a - b = s - m
    BY <1>1, <2>1
  <2>3. QED
    BY <2>2 DEF s, m
<1>4. CASE q = d + 1
  <2>1. x = y + C
    BY <1>1, <1>4
  <2> HIDE DEF x, y
  <2>2. a - b = C + s - m
    BY <1>1, <2>1
  <2>3. QED
    BY <2>2 DEF s, m
<1>5. CASE q > d + 1
  <2>1. x >= (d + 1) * C + C
    BY <1>1, <1>5, Multiple
  <2>2. (d + 1) * C = y + C
    BY <1>1
  <2> HIDE DEF x, y
  <2>3. FALSE
    BY <1>1, <2>1, <2>2
  <2>4. QED
    BY <2>3
<1>6. QED
  BY <1>1, <1>2, <1>3, <1>4, <1>5

\* The test for a wrap, on two 16-bit numbers with s below m: half a cycle.
LEMMA WrappedIs ==
    ASSUME NEW C \in Nat \ {0}, NEW s \in 0 .. C - 1, NEW m \in 0 .. C - 1, s < m
    PROVE  (s - m) % C = C + s - m
<1>1. C + s - m \in 0 .. C - 1 /\ s - m = (-1) * C + (C + s - m)
  OBVIOUS
<1>2. QED
  BY <1>1, RemainderIs

-----------------------------------------------------------------------------
(* The numbers given to packets.  NearEnough is a hypothesis of the         *)
(* theorem: with packets from further away the code cannot tell a wrap.     *)

\* What the 16-bit numbers s of a packet and m of the newest tell of the
\* distance d between the two: above it, late, or behind a wrap.
Tells(d, s, m) ==
    \/ s >= m /\ ~Wrapped(s, m) /\ d >= 0 /\ d = s - m
    \/ s < m /\ ~Wrapped(s, m) /\ d < 0 /\ d = s - m
    \/ s < m /\ Wrapped(s, m) /\ d > 0 /\ d = Cycle + s - m

\* Packet a of the sender's count arrives when b is the newest: near it and
\* from no earlier cycle, as RTPSourceStats::ProcessPacket decides.
LEMMA Extended ==
    ASSUME NearEnough, NEW a \in Int, NEW b \in Int,
           a - b <= Ahead, b - a <= Behind, a \div Cycle >= b \div Cycle
    PROVE  Tells(a - b, a % Cycle, b % Cycle)
<1> DEFINE s == a % Cycle
           m == b % Cycle
           d == a - b
<1>1. /\ Cycle \in Nat \ {0} /\ Ahead \in Nat /\ Behind \in Nat
      /\ 2 * Ahead < Cycle /\ 2 * Behind <= Cycle
      /\ d <= Ahead /\ -d <= Behind /\ d \in Int
  BY RtpSourceAssumption DEF NearEnough
<1>2. s \in 0 .. Cycle - 1 /\ m \in 0 .. Cycle - 1
  BY <1>1, Divide
<1>3. 2 * d < Cycle
  BY <1>1
<1>4. d = s - m \/ d = Cycle + s - m
  BY <1>1, <1>3, NextCycle
<1>5. s < m => (s - m) % Cycle = Cycle + s - m
  BY <1>1, <1>2, WrappedIs
<1> HIDE DEF s, m, d
<1>6. CASE d = s - m /\ s >= m
  <2>1. d >= 0
    BY <1>2, <1>6
  <2>2. ~Wrapped(s, m)
    BY <1>2, <1>6 DEF Wrapped
  <2>3. Tells(d, s, m)
    BY <1>6, <2>1, <2>2 DEF Tells
  <2>4. QED
    BY <2>3 DEF s, m, d
<1>7. CASE d = s - m /\ s < m
  <2>1. d < 0 /\ 2 * (m - s) <= Cycle
    BY <1>1, <1>2, <1>7
  <2>2. ~(Cycle + s - m < m - s)
    BY <1>1, <1>2, <2>1
  <2>3. ~Wrapped(s, m)
    BY <1>5, <1>7, <2>2 DEF Wrapped
  <2>4. Tells(d, s, m)
    BY <1>7, <2>1, <2>3 DEF Tells
  <2>5. QED
    BY <2>4 DEF s, m, d
<1>8. CASE d = Cycle + s - m
  <2>1. s < m /\ d > 0 /\ Cycle + s - m < m - s
    BY <1>1, <1>2, <1>3, <1>8
  <2>2. Wrapped(s, m)
    BY <1>5, <2>1 DEF Wrapped
  <2>3. Tells(d, s, m)
    BY <1>8, <2>1, <2>2 DEF Tells
  <2>4. QED
    BY <2>3 DEF s, m, d
<1>9. QED
  <2>1. s >= m \/ s < m
    BY <1>2
  <2>2. QED
    BY <1>4, <1>6, <1>7, <1>8, <2>1

\* The other packets and calls leave the numbers alone.
LEMMA NumberedOther ==
    ASSUME SourceInv, CyclesCounted, Numbered,
           \/ /\ GetNextPacket \/ FlushPackets \/ SourceCNAME
           \/ /\ UNCHANGED sourceVars
    PROVE  CyclesCounted' /\ Numbered'
<1>1. UNCHANGED <<sentdata, numcycles, baseseqnr, exthighseqnr, first, newest, accepted, strays>>
  BY DEF GetNextPacket, FlushPackets, SourceCNAME,
         sourceVars, statVars, historyVars
<1>2. \A j \in DOMAIN packetlist' : \E i \in DOMAIN packetlist : packetlist'[j] = packetlist[i]
  <2>1. packetlist' = packetlist \/ packetlist' = <<>>
        \/ (packetlist # <<>> /\ packetlist' = Tail(packetlist))
    BY DEF GetNextPacket, FlushPackets, SourceCNAME, sourceVars
  <2>2. CASE packetlist # <<>> /\ packetlist' = Tail(packetlist)
    <3>1. packetlist \in Seq(Packet) /\ Ordered(packetlist)
      BY DEF SourceInv, SourceTypeOK, ListSorted, Ordered
    <3>2. \A j \in DOMAIN Tail(packetlist) :
             \E i \in DOMAIN packetlist : Tail(packetlist)[j] = packetlist[i]
      BY <2>2, <3>1, TailLemma
    <3>3. QED
      BY <2>2, <3>2
  <2>3. CASE packetlist' = <<>>
    BY <2>3
  <2>4. QED
    BY <2>1, <2>2, <2>3
<1>3. CyclesCounted'
  BY <1>1, <1>2 DEF CyclesCounted, Seq16
<1>4. Numbered'
  <2>1. ASSUME sentdata', strays' = 0, NEW j \in DOMAIN packetlist', ~packetlist'[j].raw
        PROVE  packetlist'[j].ext - packetlist'[j].id = baseseqnr' + 1 - accepted'
    <3>1. PICK i \in DOMAIN packetlist : packetlist'[j] = packetlist[i]
      BY <1>2, <2>1
    <3>2. packetlist[i].ext - packetlist[i].id = baseseqnr + 1 - accepted
      BY <1>1, <2>1, <3>1 DEF Numbered
    <3>3. QED
      BY <1>1, <3>1, <3>2
  <2>2. QED
    BY <1>1, <2>1 DEF Numbered
<1>5. QED
  BY <1>3, <1>4

LEMMA NumberedProbation ==
    ASSUME SourceInv, CyclesCounted,
           NEW i \in Positions, OnProbation(i)
    PROVE  CyclesCounted' /\ Numbered'
<1> DEFINE p == [ext |-> Seq16(i), id |-> i, raw |-> TRUE]
<1>1. ~sentdata' /\ numcycles' = 0 /\ \A j \in DOMAIN packetlist : packetlist[j].raw
  BY DEF OnProbation, CyclesCounted
<1>2. \A j \in DOMAIN packetlist' : packetlist'[j].raw
  <2>1. CASE packetlist' = packetlist
    BY <1>1, <2>1
  <2>2. CASE packetlist' # packetlist
    <3>1. packetlist' = IF packetlist = <<>> THEN <<p>>
                        ELSE Insert(Trim(packetlist), p)
      BY <2>2 DEF OnProbation, Store
    <3>2. p \in Packet /\ p.raw = TRUE
      BY SeqTyped DEF Packet, SourceInv
    <3>3. packetlist \in Seq(Packet) /\ Ordered(packetlist)
      BY DEF SourceInv, SourceTypeOK, ListSorted, Ordered
    <3> HIDE DEF p
    <3>4. FromOrNew(packetlist', packetlist, p)
      BY <3>1, <3>2, <3>3, StoreLemma
    <3>5. QED
      BY <1>1, <3>2, <3>4 DEF FromOrNew
  <2>3. QED
    BY <2>1, <2>2
<1>3. QED
  BY <1>1, <1>2 DEF CyclesCounted, Numbered

\* An accepted packet is stored among those that were there.
LEMMA AcceptedStored ==
    ASSUME SourceInv, NEW i \in Positions,
           NEW ext \in Nat, Store([ext |-> ext, id |-> i, raw |-> FALSE], TRUE),
           NEW offset,
           \A j \in DOMAIN packetlist : ~packetlist[j].raw =>
              packetlist[j].ext - packetlist[j].id = offset,
           ext - i = offset
    PROVE  \A j \in DOMAIN packetlist' : ~packetlist'[j].raw =>
              packetlist'[j].ext - packetlist'[j].id = offset
<1> DEFINE p == [ext |-> ext, id |-> i, raw |-> FALSE]
<1>1. packetlist' = IF packetlist = <<>> THEN <<p>> ELSE Insert(packetlist, p)
  BY DEF Store
<1>2. p \in Packet /\ p.ext = ext /\ p.id = i
  BY DEF Packet
<1>3. packetlist \in Seq(Packet) /\ Ordered(packetlist)
  BY DEF SourceInv, SourceTypeOK, ListSorted, Ordered
<1> HIDE DEF p
<1>4. FromOrNew(packetlist', packetlist, p)
  BY <1>1, <1>2, <1>3, StoreLemma
<1>5. QED
  BY <1>2, <1>4 DEF FromOrNew

LEMMA NumberedFirst ==
    ASSUME SourceInv, CyclesCounted,
           NEW i \in Positions, FirstAccepted(i), first' = first
    PROVE  CyclesCounted' /\ Numbered'
<1> DEFINE seq == Seq16(i)
<1>1. /\ sentdata' = TRUE /\ accepted' = i /\ newest' = i
      /\ baseseqnr' = Base(seq) /\ exthighseqnr' = baseseqnr' + 1
      /\ numcycles' = IF seq = 0 THEN Cycle ELSE numcycles
      /\ Store([ext |-> exthighseqnr', id |-> i, raw |-> FALSE], TRUE)
      /\ ~sentdata
  BY DEF FirstAccepted
<1>2. /\ numcycles = 0 /\ \A j \in DOMAIN packetlist : packetlist[j].raw
      /\ seq \in 0 .. Cycle - 1 /\ Base(seq) \in Nat /\ Cycle \in Nat \ {0} /\ i \in Nat
  BY <1>1, SeqTyped, RtpSourceAssumption DEF CyclesCounted, SourceInv
<1>3. Seq16(newest)' = seq
  BY <1>1 DEF Seq16
<1> HIDE DEF seq
<1>4. exthighseqnr' \in Nat /\ exthighseqnr' = numcycles' + seq
  BY <1>1, <1>2 DEF Base
<1>5. exthighseqnr' % Cycle = seq
  <2>1. exthighseqnr' = 0 * Cycle + seq \/ exthighseqnr' = 1 * Cycle + seq
    BY <1>1, <1>2, <1>4
  <2>2. QED
    BY <1>2, <2>1, RemainderIs
<1>6. numcycles' = exthighseqnr' - (exthighseqnr' % Cycle)
  <2>1. numcycles' = exthighseqnr' - seq
    BY <1>1, <1>2, <1>4
  <2>2. QED
    BY <1>5, <2>1
<1>7. CyclesCounted'
  BY <1>1, <1>3, <1>5, <1>6 DEF CyclesCounted
<1>8. \A j \in DOMAIN packetlist' : ~packetlist'[j].raw =>
         packetlist'[j].ext - packetlist'[j].id = exthighseqnr' - i
  BY <1>1, <1>2, <1>4, AcceptedStored
<1>9. Numbered'
  <2>1. exthighseqnr' - newest' = baseseqnr' + 1 - accepted'
    BY <1>1, <1>2
  <2>2. exthighseqnr' - i = baseseqnr' + 1 - accepted'
    BY <1>1, <1>2
  <2>3. QED
    BY <1>8, <2>1, <2>2 DEF Numbered
<1>10. QED
  BY <1>7, <1>9

LEMMA NumberedNext ==
    ASSUME NearEnough, SourceInv,
           CyclesCounted, Numbered, NEW i \in Positions,
           MayArrive(i), Arrived(i), NextAccepted(i), first' = first
    PROVE  CyclesCounted' /\ Numbered'
<1> DEFINE seq == Seq16(i)
           max == exthighseqnr % Cycle
           cycles == IF Wrapped(seq, max) THEN numcycles + Cycle ELSE numcycles
           ext == cycles + seq
<1>1. /\ sentdata /\ sentdata' = sentdata /\ UNCHANGED <<baseseqnr, accepted>>
      /\ numcycles' = cycles /\ newest' = Newer(i)
      /\ exthighseqnr' = IF seq >= max \/ Wrapped(seq, max) THEN ext ELSE exthighseqnr
      /\ Store([ext |-> ext, id |-> i, raw |-> FALSE], TRUE)
  BY DEF NextAccepted, AheadOf
<1>2. /\ newest \in Nat /\ accepted \in Nat /\ i \in Nat /\ first \in Nat
      /\ newest \in Positions /\ accepted \in Positions
      /\ exthighseqnr \in Nat /\ numcycles \in Nat /\ baseseqnr \in Nat
      /\ Cycle \in Nat \ {0} /\ strays \in Nat
  BY <1>1, RtpSourceAssumption
  DEF CyclesCounted, SourceInv, SourceTypeOK, Positions
<1>3. newest' \in Positions /\ accepted' \in Positions
  BY <1>1, <1>2, ArrivedLemma DEF SourceInv
<1>4. ASSUME strays' = 0
      PROVE  /\ exthighseqnr' % Cycle = Seq16(newest)'
             /\ numcycles' = exthighseqnr' - (exthighseqnr' % Cycle)
             /\ \A j \in DOMAIN packetlist' : ~packetlist'[j].raw =>
                   packetlist'[j].ext - packetlist'[j].id = baseseqnr' + 1 - accepted'
             /\ exthighseqnr' - newest' = baseseqnr' + 1 - accepted'
  <2>1. strays = 0 /\ ~Stray(i)
    BY <1>2, <1>4 DEF Arrived
  <2>2. /\ max = (first + newest) % Cycle /\ numcycles = exthighseqnr - max
        /\ exthighseqnr - newest = baseseqnr + 1 - accepted
        /\ \A j \in DOMAIN packetlist : ~packetlist[j].raw =>
              packetlist[j].ext - packetlist[j].id = baseseqnr + 1 - accepted
    BY <1>1, <2>1 DEF CyclesCounted, Numbered, Seq16
  <2>3. seq \in 0 .. Cycle - 1 /\ max \in 0 .. Cycle - 1 /\ seq = (first + i) % Cycle
    BY <1>2, SeqTyped, Divide DEF SourceInv, Seq16
  <2>4. i \in newest - Behind .. newest + Ahead
    <3>1. newest # None
      BY <1>2 DEF None
    <3>2. QED
      BY <3>1 DEF MayArrive
  <2>5. (first + i) \div Cycle >= (first + newest) \div Cycle
    <3>1. (first + i) \div Cycle \in Int /\ (first + newest) \div Cycle \in Int
      BY <1>2, Divide
    <3>2. QED
      BY <1>1, <2>1, <3>1 DEF Stray
  <2>6. Tells(i - newest, seq, max)
    <3> DEFINE a == first + i
               b == first + newest
    <3>1. a \in Int /\ b \in Int /\ a - b = i - newest /\ a - b <= Ahead /\ b - a <= Behind
      BY <1>2, <2>4, RtpSourceAssumption
    <3>2. a \div Cycle >= b \div Cycle
      BY <2>5
    <3>3. seq = a % Cycle /\ max = b % Cycle
      BY <2>2, <2>3
    <3> HIDE DEF a, b, seq, max
    <3>4. Tells(a - b, a % Cycle, b % Cycle)
      BY <3>1, <3>2, Extended
    <3>5. QED
      BY <3>1, <3>3, <3>4
  <2>7. Seq16(newest)' = IF i > newest THEN seq ELSE max
    BY <1>1, <2>2, <2>3 DEF Seq16, Newer
  <2>8. /\ Newer(i) = IF i > newest THEN i ELSE newest
        /\ (i = newest => seq = max)
    BY <2>2, <2>3 DEF Newer
  <2> HIDE DEF seq, max
  <2>9. ext \in Nat /\ ext - i = exthighseqnr - newest
    <3>1. CASE Wrapped(seq, max)
      <4>1. ext = numcycles + Cycle + seq /\ i - newest = Cycle + seq - max
        BY <2>6, <3>1 DEF Tells
      <4> HIDE DEF ext
      <4>2. QED
        BY <1>2, <2>2, <2>3, <4>1
    <3>2. CASE ~Wrapped(seq, max)
      <4>1. ext = numcycles + seq /\ i - newest = seq - max
        BY <2>6, <3>2 DEF Tells
      <4> HIDE DEF ext
      <4>2. QED
        BY <1>2, <2>2, <2>3, <4>1
    <3>3. QED
      BY <3>1, <3>2
  <2>10. exthighseqnr' - newest' = exthighseqnr - newest
    BY <1>1, <1>2, <2>3, <2>6, <2>8, <2>9 DEF Tells
  <2>11. exthighseqnr' = cycles + Seq16(newest)'
    BY <1>1, <1>2, <2>2, <2>3, <2>6, <2>7, <2>8 DEF Tells
  <2>12. exthighseqnr' % Cycle = Seq16(newest)'
    <3>1. CASE i >= newest
      <4>1. exthighseqnr' = ext
        BY <1>1, <1>2, <2>3, <2>6, <3>1 DEF Tells
      <4>2. Seq16(newest)' = seq
        BY <1>2, <2>7, <2>8, <3>1
      <4>3. ext % Cycle = seq
        <5>1. \/ ext = exthighseqnr - max + seq
              \/ ext = exthighseqnr - max + Cycle + seq
          BY <1>2, <2>2, <2>3, <2>6 DEF Tells
        <5> HIDE DEF ext
        <5>2. Cycle \in Nat \ {0} /\ exthighseqnr \in Int /\ seq \in 0 .. Cycle - 1
          BY <1>2, <2>3
        <5>3. \/ ext = exthighseqnr - (exthighseqnr % Cycle) + seq
              \/ ext = exthighseqnr - (exthighseqnr % Cycle) + Cycle + seq
          BY <5>1 DEF max
        <5>4. QED
          BY <5>2, <5>3, NewLowPart, Zenon
      <4>4. QED
        BY <4>1, <4>2, <4>3
    <3>2. CASE i < newest
      <4>1. exthighseqnr' = exthighseqnr
        BY <1>1, <1>2, <2>3, <2>6, <3>2 DEF Tells
      <4>2. Seq16(newest)' = max
        BY <1>2, <2>7, <3>2
      <4>3. QED
        BY <4>1, <4>2 DEF max
    <3>3. QED
      BY <1>2, <3>1, <3>2
  <2>13. numcycles' = exthighseqnr' - (exthighseqnr' % Cycle)
    <3>1. cycles \in Nat /\ Seq16(newest)' \in Int
      BY <1>2, <2>3, <2>7
    <3> HIDE DEF cycles
    <3>2. QED
      BY <1>1, <2>11, <2>12, <3>1
  <2>14. \A j \in DOMAIN packetlist' : ~packetlist'[j].raw =>
            packetlist'[j].ext - packetlist'[j].id = baseseqnr + 1 - accepted
    <3>1. ext - i = baseseqnr + 1 - accepted
      BY <2>2, <2>9
    <3> HIDE DEF ext
    <3>2. QED
      BY <1>1, <2>2, <2>9, <3>1, AcceptedStored
  <2>15. QED
    BY <1>1, <2>2, <2>10, <2>12, <2>13, <2>14
<1>5. QED
  BY <1>1, <1>3, <1>4 DEF CyclesCounted, Numbered

\* Every accepted packet is given the number its position asks for, for any
\* cycle, as long as no packet is from further away than half of one.
THEOREM NumberedTheorem ==
    ASSUME NearEnough
    PROVE  SourceSpec => []Numbered
<1> DEFINE AllCounted == CyclesCounted /\ Numbered
<1>1. SourceInit => AllCounted
  BY DEF SourceInit, CyclesCounted, Numbered
<1>2. ASSUME SourceInv, AllCounted, SourceNext PROVE AllCounted'
  <2>1. ASSUME NEW i \in Positions, SourceRTPPacket(i) PROVE AllCounted'
    <3>1. first' = first /\ MayArrive(i) /\ Arrived(i)
      BY <2>1 DEF SourceRTPPacket
    <3>2. CASE OnProbation(i)
      BY <1>2, <3>2, NumberedProbation
    <3>3. CASE FirstAccepted(i)
      BY <1>2, <3>1, <3>3, NumberedFirst
    <3>4. CASE NextAccepted(i)
      BY <1>2, <3>1, <3>4, NumberedNext
    <3>5. QED
      BY <2>1, <3>2, <3>3, <3>4 DEF SourceRTPPacket
  <2>2. CASE GetNextPacket \/ FlushPackets \/ SourceCNAME
    BY <1>2, <2>2, NumberedOther
  <2>3. QED
    BY <1>2, <2>1, <2>2 DEF SourceNext
<1>3. ASSUME SourceInv, AllCounted, UNCHANGED sourceVars PROVE AllCounted'
  BY <1>3, NumberedOther
<1>4. SourceInv /\ AllCounted /\ [SourceNext]_sourceVars => AllCounted'
  BY <1>2, <1>3
<1>5. AllCounted => Numbered
  OBVIOUS
<1> HIDE DEF AllCounted
<1>6. QED
  BY <1>1, <1>4, <1>5, SourceInvTheorem, PTL DEF SourceSpec

=============================================================================
