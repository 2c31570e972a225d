----------------------------- MODULE RtpSources -----------------------------
(***************************************************************************)
(* The source table of jrtplib (RTPSources): who takes part in a session,  *)
(* from which addresses, who sends, who said goodbye, and the counts of    *)
(* members, senders and active members that the RTCP interval is computed  *)
(* from.  Packets of any participant arrive in any order from any address. *)
(*                                                                         *)
(* An operator of the table takes the table t and yields the table after   *)
(* the call, so that a packet that makes several calls composes them.      *)
(* Time is a Tick: what has been heard since the last tick is recent, and  *)
(* a timeout removes what is not.                                          *)
(***************************************************************************)
EXTENDS Integers, Sequences, FiniteSets

CONSTANTS
    SSRC,               \* source identifiers
    NoSSRC,             \* owndata == 0
    Addrs, Hosts,       \* addresses of other participants, and their hosts
    HostOf,             \* host of an address
    AcceptOwn,          \* acceptownpackets
    Probation,          \* a new source may have to pass probation
    MaxCSRC             \* bound: contributing sources of a packet

ASSUME RtpSourcesAssumption ==
    /\ NoSSRC \notin SSRC /\ IsFiniteSet(SSRC)
    /\ HostOf \in [Addrs -> Hosts]
    /\ AcceptOwn \in BOOLEAN /\ Probation \in BOOLEAN
    /\ MaxCSRC \in Nat

VARIABLE table

\* The null address of the session's own packets; an address not set.
Own == "own"
Unset == "unset"
Senders == Addrs \cup {Own}
Channels == {"rtp", "rtcp"}

Entry == [present : BOOLEAN,                    \* in sourcelist
          validated : BOOLEAN, sender : BOOLEAN, bye : BOOLEAN,
          rtp : Senders \cup {Unset}, rtcp : Senders \cup {Unset},
          heard : BOOLEAN,                      \* lastmsgtime is recent
          data : BOOLEAN,                       \* lastrtptime is recent
          byeheard : BOOLEAN]                   \* byetime is recent

NewEntry == [present |-> FALSE, validated |-> FALSE, sender |-> FALSE,
             bye |-> FALSE, rtp |-> Unset, rtcp |-> Unset,
             heard |-> FALSE, data |-> FALSE, byeheard |-> FALSE]

Members(t) == {s \in SSRC : t.src[s].present}
IsActive(e) == e.present /\ e.validated /\ ~e.bye
ActiveMembers(t) == {s \in SSRC : IsActive(t.src[s])}
SendingMembers(t) == {s \in SSRC : t.src[s].present /\ t.src[s].sender}

Table == [src : [SSRC -> Entry], own : SSRC \cup {NoSSRC},
          total : Nat, senders : Nat, active : Int,
          missed : Nat,             \* history: see CSRC
          owncollision : BOOLEAN,   \* RTPSessionSources::owncollision
          mine : SUBSET SSRC]       \* history: identifiers of our own

TypeOK == table \in Table

Init ==
    table = [src |-> [s \in SSRC |-> NewEntry], own |-> NoSSRC,
             total |-> 0, senders |-> 0, active |-> 0, missed |-> 0,
             owncollision |-> FALSE, mine |-> {}]

-----------------------------------------------------------------------------
(* Finding a source, and whether a packet for it comes from where it was.  *)

One(b) == IF b THEN 1 ELSE 0

ObtainUncounted(t, s) ==
    IF t.src[s].present THEN t ELSE [t EXCEPT !.src[s].present = TRUE]
ObtainSourceDataInstance(t, s) ==
    IF t.src[s].present THEN t
    ELSE [t EXCEPT !.src[s].present = TRUE, !.total = @ + 1]

SameHost(a, b) == a = b \/ (a \in Addrs /\ b \in Addrs /\ HostOf[a] = HostOf[b])

OtherChannel(ch) == IF ch = "rtp" THEN "rtcp" ELSE "rtp"

\* The sender is the one this entry had on the channel or, when it had none,
\* is on the host of the other channel, if that is known.
FitsHostOnly(e, a, ch) ==
    /\ e[ch] = Unset \/ SameHost(e[ch], a)
    /\ e[OtherChannel(ch)] = Unset \/ SameHost(e[OtherChannel(ch)], a)
Fits(e, a, ch) ==
    IF e[ch] # Unset THEN e[ch] = a
    ELSE e[OtherChannel(ch)] = Unset \/ SameHost(e[OtherChannel(ch)], a)

\* CheckCollision: the address is noted, or the collision is.
CheckCollision(t, s, a, ch) ==
    IF Fits(t.src[s], a, ch) THEN [t EXCEPT !.src[s][ch] = a]
    ELSE [t EXCEPT !.owncollision = @ \/ s = t.own]

\* A packet of source s from address a: the entry is found or made.
GetRTCPSourceData(t, s, a) ==
    CheckCollision(ObtainSourceDataInstance(t, s), s, a, "rtcp")
Collides(t, s, a, ch) == ~Fits(t.src[s], a, ch)

-----------------------------------------------------------------------------
(* RTP packets.                                                            *)

\* Probation may refuse a packet of a source that is not valid yet.
MayRefuse(t, s) == Probation /\ ~t.src[s].validated

\* RTPInternalSourceData::ProcessRTPPacket, as far as the table goes.
Received(e, own, accept) ==
    IF ~accept THEN [e EXCEPT !.heard = TRUE]
    ELSE [e EXCEPT !.validated = TRUE, !.heard = TRUE,
                   !.sender = @ \/ ~own, !.data = @ \/ ~own]

\* A contributing source.  One that exists becomes valid without being counted as
\* active.  The history missed says how often, since the counts were made anew.
CSRC(t, c, a) ==
    IF ~t.src[c].present
    THEN [ObtainSourceDataInstance(t, c) EXCEPT
            !.src[c].validated = TRUE, !.active = @ + 1]
    ELSE IF Collides(t, c, a, "rtp") THEN CheckCollision(t, c, a, "rtp")
    ELSE [CheckCollision(t, c, a, "rtp") EXCEPT
            !.src[c].validated = TRUE,
            !.missed = @ + One(~t.src[c].validated /\ ~t.src[c].bye)]

\* All the contributing sources of a packet, one after the other.
ProcessCSRCs(t, csrcs, a) ==
    LET after[k \in 0..Len(csrcs)] ==
            IF k = 0 THEN t ELSE CSRC(after[k - 1], csrcs[k], a)
    IN  after[Len(csrcs)]

ProcessRTPPacket(t, s, a, csrcs, accept) ==
    LET found == ObtainSourceDataInstance(t, s)
        u == CheckCollision(found, s, a, "rtp")
        prev == u.src[s]
        e == Received(prev, s = u.own, accept)
        v == [u EXCEPT !.src[s] = e,
                       !.senders = @ + One(~prev.sender /\ e.sender),
                       !.active = @ + One(~IsActive(prev) /\ IsActive(e))]
    IN  IF Collides(found, s, a, "rtp") THEN u
        ELSE IF ~e.validated THEN v
        ELSE ProcessCSRCs(v, csrcs, a)

-----------------------------------------------------------------------------
(* RTCP packets: each part finds the source and notes that it was heard.   *)

\* A report, or an SDES item other than the name.
UpdateReceiveTime(t, s, a) ==
    LET found == ObtainSourceDataInstance(t, s) IN
    IF Collides(found, s, a, "rtcp") THEN CheckCollision(found, s, a, "rtcp")
    ELSE [GetRTCPSourceData(t, s, a) EXCEPT !.src[s].heard = TRUE]

\* The canonical name of a source makes it valid.
ProcessCNAME(t, s, a) ==
    LET u == UpdateReceiveTime(t, s, a)
        prev == u.src[s] IN
    IF Collides(ObtainSourceDataInstance(t, s), s, a, "rtcp") THEN u
    ELSE [u EXCEPT !.src[s].validated = TRUE,
                   !.active = @ + One(~IsActive(prev) /\ ~prev.bye)]

ProcessBYEAgain(t, s, a) ==
    LET u == UpdateReceiveTime(t, s, a) IN
    IF Collides(ObtainSourceDataInstance(t, s), s, a, "rtcp") \/ s = u.own THEN u
    ELSE [u EXCEPT !.src[s].bye = TRUE, !.src[s].byeheard = TRUE,
                   !.active = @ - One(u.src[s].validated)]
\* Our own goodbye is ignored.
ProcessBYE(t, s, a) ==
    LET u == GetRTCPSourceData(t, s, a) IN
    IF Collides(ObtainSourceDataInstance(t, s), s, a, "rtcp") \/ s = u.own THEN u
    ELSE [u EXCEPT !.src[s].bye = TRUE, !.src[s].byeheard = TRUE,
                   !.src[s].heard = TRUE,
                   !.active = @ - One(IsActive(u.src[s]))]

\* A compound packet: the report of s, and then at most one part about c.
ProcessRTCPCompoundPacket(t, s, kind, c, a) ==
    LET u == UpdateReceiveTime(t, s, a) IN
    CASE kind = "report" -> u
      [] kind = "item"   -> UpdateReceiveTime(u, c, a)
      [] kind = "CNAME"  -> ProcessCNAME(u, c, a)
      [] kind = "BYE"    -> ProcessBYE(u, c, a)

-----------------------------------------------------------------------------
(* The session's own identifier.                                           *)

CreateOwnSSRC(t, s) ==
    IF t.own # NoSSRC \/ t.src[s].present THEN t
    ELSE [ObtainSourceDataInstance(t, s) EXCEPT
            !.own = s, !.mine = @ \cup {s},
            !.src[s].validated = TRUE, !.src[s].rtp = Own, !.src[s].rtcp = Own,
            !.active = @ + 1]

DeleteOwnSSRC(t) ==
    IF t.own = NoSSRC THEN t
    ELSE LET e == t.src[t.own] IN
         [t EXCEPT !.src[t.own] = NewEntry, !.own = NoSSRC,
                   !.total = @ - 1, !.senders = @ - One(e.sender),
                   !.active = @ - One(IsActive(e))]

SentRTPPacket(t) ==
    IF t.own = NoSSRC THEN t
    ELSE [t EXCEPT !.src[t.own].sender = TRUE, !.src[t.own].data = TRUE,
                   !.src[t.own].heard = TRUE,
                   !.senders = @ + One(~t.src[t.own].sender)]

ClearSourceList(t) ==
    [t EXCEPT !.src = [s \in SSRC |-> NewEntry], !.own = NoSSRC,
              !.total = 0, !.senders = 0, !.active = 0, !.missed = 0]

-----------------------------------------------------------------------------
(* Timeouts.  The counts are made anew from what is left.                  *)

Recount(t) ==
    [t EXCEPT !.total = Cardinality(Members(t)),
              !.senders = Cardinality(SendingMembers(t)),
              !.active = Cardinality(ActiveMembers(t)), !.missed = 0]

Without(t, gone) ==
    Recount([t EXCEPT !.src = [s \in SSRC |-> IF s \in gone THEN NewEntry ELSE t.src[s]]])

SilentOrOwn(t) == {s \in Members(t) : ~t.src[s].heard}
NotSending(t) == {s \in Members(t) \ {t.own} : ~t.src[s].data}
Silent(t) == {s \in Members(t) \ {t.own} : ~t.src[s].heard}
Gone(t) == {s \in Members(t) \ {t.own} : t.src[s].bye /\ ~t.src[s].byeheard}

Timeout(t) == Without(t, Silent(t))
BYETimeout(t) == Without(t, Gone(t))
SenderTimeout(t) ==
    Recount([t EXCEPT !.src = [s \in SSRC |->
                [t.src[s] EXCEPT !.sender = @ /\ t.src[s].data]]])

\* Each of the three has its own time, which may not have passed.
MultipleTimeouts(t, which) ==
    LET gone == (IF "bye" \in which THEN Gone(t) ELSE {})
                  \cup (IF "general" \in which THEN Silent(t) ELSE {})
        u == Without(t, gone)
    IN  IF "sender" \in which THEN SenderTimeout(u) ELSE u

\* Time passes: nothing is recent any more.
Aged(t) ==
    [t EXCEPT !.src = [s \in SSRC |-> [t.src[s] EXCEPT
        !.heard = FALSE, !.data = FALSE, !.byeheard = FALSE]]]

-----------------------------------------------------------------------------
(* Actions.                                                                *)

\* ProcessRawPacket: a packet of our own comes back, or one of another.
Delivered(s, a) == a # Own \/ (AcceptOwn /\ s \in table.mine)

RTPPacket(s, a, csrcs, accept) ==
    /\ Delivered(s, a)
    /\ accept \/ MayRefuse(table, s)
    /\ table' = ProcessRTPPacket(table, s, a, csrcs, accept)

RTCPPacket(s, kind, c, a) ==
    /\ Delivered(s, a)
    /\ a = Own \/ kind = "report" => c = s
    /\ table' = ProcessRTCPCompoundPacket(table, s, kind, c, a)

ForeignRTP == \E s \in SSRC, a \in Addrs, accept \in BOOLEAN :
    \E n \in 0 .. MaxCSRC : \E csrcs \in [1 .. n -> SSRC] : RTPPacket(s, a, csrcs, accept)
OwnRTP == \E s \in SSRC, accept \in BOOLEAN : RTPPacket(s, Own, <<>>, accept)
RTCP == \E s, c \in SSRC, a \in Senders, kind \in {"report", "item", "CNAME", "BYE"} :
    RTCPPacket(s, kind, c, a)

OwnSSRC == \/ \E s \in SSRC : table' = CreateOwnSSRC(table, s)
           \/ table' = DeleteOwnSSRC(table)
           \/ table' = SentRTPPacket(table)
Clear == table' = ClearSourceList(table)
Timeouts == \E which \in SUBSET {"bye", "general", "sender"} :
    table' = MultipleTimeouts(table, which)
SingleTimeout == table' \in {Timeout(table), BYETimeout(table), SenderTimeout(table)}
Tick == table' = Aged(table)

Next == ForeignRTP \/ OwnRTP \/ RTCP \/ OwnSSRC \/ Clear \/ Timeouts \/ SingleTimeout \/ Tick

Spec == Init /\ [][Next]_table

-----------------------------------------------------------------------------
(* Properties.                                                             *)

\* The counts after any sequence of calls: members and senders are those of the
\* table, and no active member is counted that is not one.  The count of active
\* members is exact until a mixer names a source that the table knows and has not
\* found valid (missed); from then to the next recount it is too low, which is
\* what ActiveMembersCounted is violated by.
CountsExact ==
    /\ table.total = Cardinality(Members(table))
    /\ table.senders = Cardinality(SendingMembers(table))
    /\ table.active <= Cardinality(ActiveMembers(table))
    /\ table.missed = 0 => table.active = Cardinality(ActiveMembers(table))

\* rtpsources.h:285, GetActiveMemberCount() "returns the number of members which
\* have been validated and which haven't sent a BYE packet yet".
ActiveMembersCounted == table.active = Cardinality(ActiveMembers(table))

\* Our own entry is in the table, valid, never marked as gone, and bound to
\* our own address on both channels, whatever others send under its
\* identifier and however long it is silent.
OwnEntry ==
    table.own # NoSSRC =>
        LET e == table.src[table.own] IN
        IsActive(e) /\ e.rtp = Own /\ e.rtcp = Own

\* A source that was removed leaves nothing for the one that comes back.
AbsentIsNew == \A s \in SSRC : ~table.src[s].present => table.src[s] = NewEntry

\* The counts, with how far that of the active members is off.
CountedInv ==
    /\ table.total = Cardinality(Members(table))
    /\ table.senders = Cardinality(SendingMembers(table))
    /\ table.active + table.missed = Cardinality(ActiveMembers(table))

\* The inductive invariant.
Inv == TypeOK /\ CountedInv /\ OwnEntry /\ AbsentIsNew

\* While a source stays in the table, packets from elsewhere never move it to
\* another address.
AddressKept == [][\A s \in SSRC, ch \in Channels :
    table.src[s].present /\ table'.src[s].present /\ table.src[s][ch] # Unset
        => table'.src[s][ch] = table.src[s][ch]]_table

\* A source that was heard recently and has not said goodbye stays until the
\* table is cleared or, for our own, until the session deletes it.
HeardStays == [][\A s \in SSRC :
    table.src[s].heard /\ table.src[s].present /\ ~table.src[s].bye
        /\ s # table.own /\ table' # ClearSourceList(table)
        => table'.src[s].present]_table

=============================================================================
