---------------------------- MODULE RtcpReports ----------------------------
(***************************************************************************)
(* The RTCP packets a jrtplib session builds (RTCPPacketBuilder::          *)
(* BuildNextPacket): which sources it reports on and which SDES items of   *)
(* its own it adds, when neither all reports nor all items fit in one      *)
(* packet and the next packets have to go on where the last one stopped.   *)
(*                                                                         *)
(* A packet has Room for report blocks and items besides its header and    *)
(* the canonical name; a report block and an item each take one unit.      *)
(*                                                                         *)
(* Names that RtpSession also has begin with Reports, so that a module can *)
(* extend both.                                                            *)
(***************************************************************************)
EXTENDS Integers, FiniteSets, SequencesExt

CONSTANTS
    Sources, Own,       \* source identifiers, and the session's own
    Items,              \* sequence of the SDES items after the CNAME
    Interval,           \* item -> every how many rounds it goes out; 0: never
    Period,             \* bound: sdesbuildcount is counted modulo Period
    Room,               \* units a packet holds
    MaxPending          \* bound: packets counted in an interval

\* The elements of a sequence that are in S, in their order.
Among(seq, S) ==
    LET among[k \in 0 .. Len(seq)] ==
            IF k = 0 THEN <<>>
            ELSE IF seq[k] \in S THEN Append(among[k - 1], seq[k]) ELSE among[k - 1]
    IN  among[Len(seq)]

ItemNames == {Items[i] : i \in DOMAIN Items}

ASSUME RtcpReportsAssumption ==
    /\ Own \in Sources /\ IsFiniteSet(Sources)
    /\ Items \in Seq(ItemNames) /\ IsInjective(Items)
    /\ Interval \in [ItemNames -> Nat]
    /\ Period \in Nat \ {0}
    /\ \A n \in ItemNames : Interval[n] > 0 => Period % Interval[n] = 0
    /\ Room \in Nat \ {0} /\ MaxPending \in Nat \ {0}

VARIABLES
    list,           \* the source table, in its order
    csrc,           \* contributing sources of a mixer
    pending,        \* packets received in the source's interval
    sentdata,       \* INF_HasSentData
    fresh,          \* last packet received after prevbuildtime
    processed,      \* IsProcessedInRTCP
    firstpacket, processingsdes, sdesbuildcount,
    due,            \* doname, doemail, ...
    handled,        \* items with their processed flag set
    packet,         \* history: the last packet built
    round,          \* history: items sent in this round
    waited          \* history: packets built without the source's report, for
                    \* a marked source since another one came

tableVars == <<list, csrc, pending, sentdata, fresh>>
sdesVars == <<processingsdes, sdesbuildcount, due, handled, round>>
reportsVars == <<tableVars, sdesVars, processed, firstpacket, packet, waited>>

ReportBlock == [src : Sources, num : 0 .. MaxPending]

ReportsTypeOK ==
    /\ list \in Seq(Sources) /\ IsInjective(list)
    /\ csrc \subseteq Sources /\ sentdata \subseteq Sources
    /\ fresh \subseteq sentdata /\ processed \subseteq ToSet(list)
    /\ pending \in [Sources -> 0 .. MaxPending]
    /\ firstpacket \in BOOLEAN /\ processingsdes \in BOOLEAN
    /\ sdesbuildcount \in 0 .. Period - 1
    /\ due \subseteq ItemNames /\ handled \subseteq due
    /\ packet.reports \in Seq(ReportBlock) /\ packet.items \in Seq(ItemNames)
    /\ round \in Seq(ItemNames)
    /\ waited \in [Sources -> Nat]

ReportsInit ==
    /\ list = <<Own>> /\ csrc = {} /\ sentdata = {} /\ fresh = {}
    /\ pending = [s \in Sources |-> 0]
    /\ processed = {} /\ firstpacket = TRUE
    /\ processingsdes = FALSE /\ sdesbuildcount = 0
    /\ due = {} /\ handled = {}
    /\ packet = [reports |-> <<>>, items |-> <<>>]
    /\ round = <<>>
    /\ waited = [s \in Sources |-> 0]

-----------------------------------------------------------------------------
(* Sources come, send, and go.                                             *)

Join(s) ==
    /\ s \notin ToSet(list)
    /\ list' = Append(list, s)
    /\ waited' = [x \in Sources |-> IF x \in processed THEN 0 ELSE waited[x]]
    /\ UNCHANGED <<csrc, pending, sentdata, fresh, sdesVars, processed,
                   firstpacket, packet>>

Receive(s) ==
    /\ s \in ToSet(list)
    /\ pending' = [pending EXCEPT ![s] = IF @ < MaxPending THEN @ + 1 ELSE @]
    /\ sentdata' = sentdata \cup {s} /\ fresh' = fresh \cup {s}
    /\ UNCHANGED <<list, csrc, sdesVars, processed, firstpacket, packet, waited>>

SetCSRC(s) ==
    /\ s \in ToSet(list) \ csrc
    /\ csrc' = csrc \cup {s}
    /\ UNCHANGED <<list, pending, sentdata, fresh, sdesVars, processed,
                   firstpacket, packet, waited>>

Leave(s) ==
    /\ s \in ToSet(list) /\ s # Own
    /\ list' = Among(list, ToSet(list) \ {s})
    /\ csrc' = csrc \ {s} /\ sentdata' = sentdata \ {s} /\ fresh' = fresh \ {s}
    /\ processed' = processed \ {s}
    /\ pending' = [pending EXCEPT ![s] = 0] /\ waited' = [waited EXCEPT ![s] = 0]
    /\ UNCHANGED <<sdesVars, firstpacket, packet>>

-----------------------------------------------------------------------------
(* Filling a packet.                                                       *)

\* Sources to report on: not our own, no contributing sources, those that
\* sent since the last packet; at first, all that ever sent.
ShouldProcess(s) ==
    s # Own /\ s \notin csrc /\ s \in sentdata /\ (firstpacket \/ s \in fresh)

FirstOf(seq, n) == IF Len(seq) <= n THEN seq ELSE SubSeq(seq, 1, n)

\* FillInReportBlocks: in the order of the table, up to max sources that are
\* not marked, as far as there is room.
FillInReportBlocks(marked, max, room) ==
    LET open == Among(list, {s \in ToSet(list) : ShouldProcess(s)} \ marked)
        taken == FirstOf(open, IF max < room THEN max ELSE room)
    IN  [taken |-> taken,
         full |-> Len(open) > Len(taken) /\ Len(taken) < max,
         atend |-> Len(open) = Len(taken),
         skipped |-> Cardinality({s \in ToSet(list) : ShouldProcess(s) /\ s \in marked})]

\* FillInSDES: the items that are due and not handled yet.
FillAllSDES(items, flags, room) ==
    LET todo == Among(Items, items)
        taken == FirstOf(todo, room)
    IN  [taken |-> taken, processedall |-> Len(taken) = Len(todo)]
FillInSDES(items, flags, room) ==
    LET todo == Among(Items, items \ flags)
        taken == FirstOf(todo, room)
    IN  [taken |-> taken, processedall |-> Len(taken) = Len(todo)]

\* The items of round count.
Due(count) == {n \in ItemNames : Interval[n] > 0 /\ count % Interval[n] = 0}

\* The sources marked after a fill.
MarkedNone(marked, taken) == marked
Marked(marked, taken) == marked \cup ToSet(taken)

\* Reports on sources first, and then again (empty) on those in both lists.
ReportsFromBase(one, two) ==
    [i \in DOMAIN one |-> [src |-> one[i], num |-> pending[one[i]] + 1]] \o
    [i \in DOMAIN two |-> [src |-> two[i], num |-> pending[two[i]]]]
Reports(one, two) ==
    [i \in DOMAIN one |-> [src |-> one[i], num |-> pending[one[i]]]] \o
    [i \in DOMAIN two |-> [src |-> two[i],
                           num |-> IF two[i] \in ToSet(one) THEN 0 ELSE pending[two[i]]]]

\* What every packet does: the intervals of the sources in it start anew.
Built(one, two, items) ==
    LET reported == ToSet(one) \cup ToSet(two) IN
    /\ packet' = [reports |-> Reports(one, two), items |-> items]
    /\ pending' = [s \in Sources |-> IF s \in reported THEN 0 ELSE pending[s]]
    /\ waited' = [s \in Sources |->
                    IF ShouldProcess(s) /\ s \notin reported THEN waited[s] + 1 ELSE 0]
    /\ fresh' = {} /\ firstpacket' = FALSE
    /\ UNCHANGED <<list, csrc, sentdata>>

All == Cardinality(Sources)

\* The reports alone fill the packet.
BuildReports ==
    LET fill == FillInReportBlocks(processed, All, Room) IN
    /\ ~processingsdes /\ fill.full /\ fill.taken # <<>>
    /\ processed' = Marked(processed, fill.taken)
    /\ Built(fill.taken, <<>>, <<>>)
    /\ UNCHANGED sdesVars

\* All reports fit: the next round of items begins; if all of them fit too,
\* the sources skipped because an earlier packet reported them get a turn.
RoomAfter(one, items) == Room - Len(one) - Len(items)
BuildBoth ==
    LET fill == FillInReportBlocks(processed, All, Room)
        count == (sdesbuildcount + 1) % Period
        sdes == FillInSDES(Due(count), handled, Room - Len(fill.taken))
        again == IF sdes.processedall /\ fill.skipped > 0
                 THEN FillInReportBlocks({}, fill.skipped, RoomAfter(fill.taken, sdes.taken)).taken
                 ELSE <<>>
    IN  /\ ~processingsdes /\ ~fill.full
        /\ sdesbuildcount' = count /\ due' = Due(count)
        /\ processingsdes' = ~sdes.processedall
        /\ handled' = IF sdes.processedall THEN {} ELSE handled \cup ToSet(sdes.taken)
        /\ round' = sdes.taken
        /\ processed' = Marked({}, again)
        /\ Built(fill.taken, again, sdes.taken)

\* A round of items goes on; when it ends, reports fill what is left.
BuildItems ==
    LET sdes == FillInSDES(due, handled, Room)
        fill == FillInReportBlocks(processed, All, Room - Len(sdes.taken))
    IN  /\ processingsdes /\ sdes.taken # <<>>
        /\ round' = round \o sdes.taken
        /\ UNCHANGED <<sdesbuildcount, due>>
        /\ IF sdes.processedall
           THEN /\ processingsdes' = FALSE /\ handled' = {}
                /\ processed' = IF fill.atend THEN {} ELSE Marked(processed, fill.taken)
                /\ Built(fill.taken, <<>>, sdes.taken)
           ELSE /\ processingsdes' = TRUE /\ handled' = handled \cup ToSet(sdes.taken)
                /\ UNCHANGED processed
                /\ Built(<<>>, <<>>, sdes.taken)

BuildNextPacket == BuildReports \/ BuildBoth \/ BuildItems

ReportsNext ==
    \/ \E s \in Sources : Join(s) \/ Receive(s) \/ SetCSRC(s) \/ Leave(s)
    \/ BuildNextPacket

ReportsSpec == ReportsInit /\ [][ReportsNext]_reportsVars

-----------------------------------------------------------------------------
(* Properties.                                                             *)

\* In a round every item that is due goes out once, over however many packets.
ItemsOnce ==
    /\ IsInjective(round) /\ ToSet(round) \subseteq due
    /\ ~processingsdes => ToSet(round) = due

\* The processed flags mark what has gone out in the round under way.
FlagsTell == handled = IF processingsdes THEN ToSet(round) ELSE {}

\* The inductive invariant behind ItemsOnce.
ReportsInv == ReportsTypeOK /\ ItemsOnce /\ FlagsTell

\* The sources still without a mark, and those of them before s in the table.
Unmarked == ToSet(list) \ (processed \cup {Own})
Precedes(seq, x, y) == \E i, j \in DOMAIN seq : i < j /\ seq[i] = x /\ seq[j] = y
AheadOf(s) == {x \in Unmarked : Precedes(list, x, s)}

\* Two passes over the other sources, a round of items, and a packet more.
OtherSources == Cardinality(Sources) - 2
MaxWait == (2 * OtherSources + Cardinality(ItemNames)) \div Room + 1

\* A source that keeps sending is not passed over for ever: after MaxWait
\* packets without it the next one has its report, however the marks, the
\* rounds of items and the second pass over the table follow each other.  Only
\* newcomers go before a source that has a mark, as long as they keep coming.
WaitBounded == \A s \in Sources \ {Own} : waited[s] <= MaxWait

\* The inductive invariant behind it: what a source has waited is paid for by
\* the sources and items that no longer come before it.
WaitedFor(s) ==
    /\ s \notin ToSet(list) => waited[s] = 0
    /\ s \in processed =>
         Room * waited[s] + Cardinality(Unmarked) <= OtherSources
    /\ s \in ToSet(list) \ processed /\ processingsdes =>
         Room * waited[s] + Cardinality(due \ handled) + Cardinality(AheadOf(s))
             <= 2 * OtherSources + Cardinality(ItemNames)
    /\ s \in ToSet(list) \ processed /\ ~processingsdes =>
         Room * waited[s] + Cardinality(AheadOf(s))
             <= 2 * OtherSources + Cardinality(ItemNames) + Room

WaitInv ==
    /\ sentdata \subseteq ToSet(list)
    /\ processingsdes => processed = {}
    /\ \A s \in Sources \ {Own} : WaitedFor(s)

=============================================================================
