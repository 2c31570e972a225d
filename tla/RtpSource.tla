----------------------------- MODULE RtpSource -----------------------------
(***************************************************************************)
(* One remote source of jrtplib's source table: the extension of 16-bit    *)
(* RTP sequence numbers, the probation of a new source and the ordered     *)
(* list of packets held for the application (RTPSourceStats::              *)
(* ProcessPacket, RTPInternalSourceData::ProcessRTPPacket).                *)
(*                                                                         *)
(* The sender numbers its packets 0, 1, 2, ... (their position); packet i  *)
(* carries the sequence number (first + i) % Cycle.  The network loses,    *)
(* repeats and reorders: any packet near the newest that has arrived may   *)
(* arrive next, again and again.  Cycle stands for 2^16.                   *)
(*                                                                         *)
(* Names that RtpSources also has begin with Source, so that a module can  *)
(* extend both.                                                            *)
(***************************************************************************)
EXTENDS Integers, Sequences, FiniteSets

CONSTANTS
    Cycle,          \* number of sequence numbers: 2^16
    First,          \* sequence numbers a sender may start from
    Packets,        \* bound: packets the sender sends
    Ahead, Behind,  \* how far from the newest arrival a packet may arrive
    MaxStrays,      \* bound: late packets from before a wrap already counted
    ProbationCount, \* RTP_PROBATIONCOUNT
    MaxProbation    \* RTPINTERNALSOURCEDATA_MAXPROBATIONPACKETS

ASSUME RtpSourceAssumption ==
    /\ Cycle \in Nat /\ Cycle > 1
    /\ First \subseteq 0 .. Cycle - 1
    /\ Packets \in Nat /\ Ahead \in Nat /\ Behind \in Nat
    /\ MaxStrays \in Nat
    /\ ProbationCount \in Nat \ {0} /\ MaxProbation \in Nat \ {0}

VARIABLES
    probationtype,              \* RTPSources::ProbationType
    validated, sentdata,        \* may be read from; a packet was accepted
    probation, prevseqnr,       \* packets still wanted, last one seen
    numcycles, baseseqnr, exthighseqnr,
    packetlist,                 \* [ext, id, raw]: number, position, stored
                                \* during probation with its 16-bit number
    first,                      \* the sender's first sequence number
    newest,                     \* history: newest position that arrived; of
                                \* those accepted once there is one
    accepted,                   \* history: first position accepted, or None
    streak, lastseq,            \* history: arrivals in sequence, the last one
    strays                      \* history: late packets from before a wrap

statVars == <<sentdata, probation, prevseqnr, numcycles, baseseqnr, exthighseqnr>>
historyVars == <<newest, accepted, streak, lastseq, strays>>
sourceVars == <<probationtype, validated, statVars, packetlist, first, historyVars>>

None == -1
ProbationTypes == {"NoProbation", "ProbationDiscard", "ProbationStore"}
Positions == 0 .. Packets - 1
Seq16(i) == (first + i) % Cycle

Packet == [ext : Nat, id : Positions, raw : BOOLEAN]

SourceTypeOK ==
    /\ probationtype \in ProbationTypes
    /\ validated \in BOOLEAN /\ sentdata \in BOOLEAN
    /\ probation \in 0 .. ProbationCount /\ prevseqnr \in 0 .. Cycle - 1
    /\ numcycles \in Nat /\ baseseqnr \in Nat /\ exthighseqnr \in Nat
    /\ packetlist \in Seq(Packet)
    /\ first \in First
    /\ {newest, accepted} \subseteq Positions \cup {None}
    /\ streak \in 0 .. ProbationCount + 1 /\ lastseq \in 0 .. Cycle - 1
    /\ strays \in 0 .. MaxStrays

SourceInit ==
    /\ probationtype \in ProbationTypes
    /\ validated = FALSE /\ sentdata = FALSE
    /\ probation = 0 /\ prevseqnr = 0
    /\ numcycles = 0 /\ baseseqnr = 0 /\ exthighseqnr = 0
    /\ packetlist = <<>>
    /\ first \in First
    /\ newest = None /\ accepted = None /\ streak = 0 /\ lastseq = 0 /\ strays = 0

-----------------------------------------------------------------------------
(* The network.                                                            *)

\* Packet i comes from before a wrap that an accepted packet has shown.
Stray(i) == sentdata /\ (first + i) \div Cycle < (first + newest) \div Cycle

\* Packet i may arrive next: near the newest one.
MayArrive(i) ==
    /\ IF newest = None THEN i <= Ahead ELSE i \in newest - Behind .. newest + Ahead
    /\ Stray(i) => strays < MaxStrays

Newer(i) == IF i > newest THEN i ELSE newest

\* History kept of the arrival of packet i.
Arrived(i) ==
    /\ lastseq' = Seq16(i)
    /\ streak' = IF streak = 0 \/ Seq16(i) # (lastseq + 1) % Cycle THEN 1
                 ELSE IF streak > ProbationCount THEN streak ELSE streak + 1
    /\ strays' = IF Stray(i) THEN strays + 1 ELSE strays

-----------------------------------------------------------------------------
(* RTPInternalSourceData::ProcessRTPPacket and RTPSourceStats::ProcessPacket *)

applyprobation == ~validated /\ probationtype # "NoProbation"

\* The packet is the one probation waits for.
ExpectedAny(seq) == probation > 0 /\ seq # prevseqnr
Expected(seq) == probation > 0 /\ seq = (prevseqnr + 1) % Cycle

\* Insert that does not look for an equal number.
InsertTwice(list, p) ==
    LET k == Cardinality({j \in DOMAIN list : list[j].ext <= p.ext})
    IN  SubSeq(list, 1, k) \o <<p>> \o SubSeq(list, k + 1, Len(list))

\* Where the packet goes in the list: walking back from the end, past every
\* packet with a higher number.  A packet with an equal number is dropped.
Insert(list, p) ==
    LET below == {j \in DOMAIN list : list[j].ext <= p.ext}
        k == IF below = {} THEN 0 ELSE CHOOSE j \in below : \A l \in below : l <= j
    IN  IF k > 0 /\ list[k].ext = p.ext THEN list
        ELSE SubSeq(list, 1, k) \o <<p>> \o SubSeq(list, k + 1, Len(list))

\* A source on probation holds MaxProbation packets: the oldest goes.
TrimLate(list) == IF Len(list) > MaxProbation THEN Tail(list) ELSE list
Trim(list) == IF Len(list) = MaxProbation THEN Tail(list) ELSE list

Store(p, valid) ==
    packetlist' = IF packetlist = <<>> THEN <<p>>
                  ELSE Insert(IF valid THEN packetlist ELSE Trim(packetlist), p)

\* A packet on probation: counted, or the count starts again.
OnProbation(i) ==
    /\ ~sentdata /\ applyprobation
    /\ ~ (Expected(Seq16(i)) /\ probation = 1)
    /\ probation' = IF Expected(Seq16(i)) THEN probation - 1 ELSE ProbationCount
    /\ prevseqnr' = Seq16(i)
    /\ IF probationtype = "ProbationStore"
       THEN Store([ext |-> Seq16(i), id |-> i, raw |-> TRUE], FALSE)
       ELSE UNCHANGED packetlist
    /\ newest' = Newer(i)
    /\ UNCHANGED <<validated, sentdata, numcycles, baseseqnr, exthighseqnr, accepted>>

\* The first packet accepted: the base of all numbers.
BaseUnguarded(seq) == seq - 1
Base(seq) == IF seq = 0 THEN Cycle - 1 ELSE seq - 1

FirstAccepted(i) ==
    LET seq == Seq16(i) IN
    /\ ~sentdata
    /\ IF applyprobation
       THEN /\ Expected(seq) /\ probation = 1
            /\ probation' = 0 /\ prevseqnr' = seq
       ELSE UNCHANGED <<probation, prevseqnr>>
    /\ sentdata' = TRUE /\ validated' = TRUE
    /\ baseseqnr' = Base(seq)
    /\ numcycles' = IF seq = 0 THEN Cycle ELSE numcycles
    /\ exthighseqnr' = baseseqnr' + 1
    /\ Store([ext |-> exthighseqnr', id |-> i, raw |-> FALSE], TRUE)
    /\ accepted' = i /\ newest' = i

\* A later packet: above the highest low part, behind a wrap, or late.
AheadOf(seq, max) == seq >= max
WrappedAlways(seq, max) == seq < max
Wrapped(seq, max) == seq < max /\ (seq - max) % Cycle < max - seq
NextAccepted(i) ==
    LET seq == Seq16(i)
        max == exthighseqnr % Cycle
        cycles == IF Wrapped(seq, max) THEN numcycles + Cycle ELSE numcycles
        ext == cycles + seq IN
    /\ sentdata
    /\ numcycles' = cycles
    /\ exthighseqnr' = IF AheadOf(seq, max) \/ Wrapped(seq, max) THEN ext ELSE exthighseqnr
    /\ validated' = TRUE
    /\ Store([ext |-> ext, id |-> i, raw |-> FALSE], TRUE)
    /\ newest' = Newer(i)
    /\ UNCHANGED <<sentdata, probation, prevseqnr, baseseqnr, accepted>>

SourceRTPPacket(i) ==
    /\ MayArrive(i)
    /\ OnProbation(i) \/ FirstAccepted(i) \/ NextAccepted(i)
    /\ Arrived(i)
    /\ UNCHANGED <<probationtype, first>>

-----------------------------------------------------------------------------

\* A CNAME arrives for the source, or it is named as a contributing source.
SourceCNAME ==
    /\ ~validated
    /\ validated' = TRUE
    /\ UNCHANGED <<probationtype, statVars, packetlist, first, historyVars>>

\* The application takes the first packet.
GetNextPacket ==
    /\ validated /\ packetlist # <<>>
    /\ packetlist' = Tail(packetlist)
    /\ UNCHANGED <<probationtype, validated, statVars, first, historyVars>>

\* The application throws all packets away.
FlushPackets ==
    /\ packetlist # <<>>
    /\ packetlist' = <<>>
    /\ UNCHANGED <<probationtype, validated, statVars, first, historyVars>>

SourceNext ==
    \/ \E i \in Positions : SourceRTPPacket(i)
    \/ SourceCNAME
    \/ GetNextPacket
    \/ FlushPackets

SourceSpec == SourceInit /\ [][SourceNext]_sourceVars

-----------------------------------------------------------------------------
(* Properties.                                                             *)

\* Every accepted packet is given the number its position asks for, and the
\* highest number is that of the newest one: RTPSourceStats::ProcessPacket
\* counts each wrap of the 16 bits once, whatever is lost, repeated or
\* reordered on either side of it.  Once a packet from before a wrap has come
\* after it, which the code takes for one far ahead, this is over for good.
Numbered ==
    sentdata /\ strays = 0 =>
        /\ \A j \in DOMAIN packetlist : ~packetlist[j].raw =>
              packetlist[j].ext - packetlist[j].id = baseseqnr + 1 - accepted
        /\ exthighseqnr - newest = baseseqnr + 1 - accepted

\* How far from the newest packet another may arrive for that: the test for a
\* wrap takes what is half a cycle away for the nearer of the two.
NearEnough == 2 * Ahead < Cycle /\ 2 * Behind <= Cycle

\* What Numbered rests on: the low part of the highest number is what the newest
\* packet carries, the rest are the wraps counted; nothing stored on probation
\* passes for a number.
CyclesCounted ==
    /\ ~sentdata =>
        /\ numcycles = 0
        /\ \A j \in DOMAIN packetlist : packetlist[j].raw
    /\ sentdata => newest \in Positions /\ accepted \in Positions
    /\ sentdata /\ strays = 0 =>
        /\ exthighseqnr % Cycle = Seq16(newest)
        /\ numcycles = exthighseqnr - (exthighseqnr % Cycle)

\* The list given to the application is in order of numbers and holds no
\* number twice: the search of RTPInternalSourceData::ProcessRTPPacket.
ListSorted ==
    \A j, k \in DOMAIN packetlist : j < k => packetlist[j].ext < packetlist[k].ext

\* A source on probation makes the library hold no more than a fixed number
\* of packets, and none unless they are to be stored.
ProbationBounded ==
    ~validated => Len(packetlist) <= IF probationtype = "ProbationStore" THEN MaxProbation ELSE 0

\* While a source is on probation, what is left of it and the last number seen
\* are those of the run of packets that has arrived.
ProbationCounts ==
    /\ sentdata => validated
    /\ ~validated /\ probationtype # "NoProbation" =>
         /\ streak <= ProbationCount
         /\ IF streak = 0 THEN probation = 0
            ELSE prevseqnr = lastseq /\ probation = ProbationCount + 1 - streak

\* The inductive invariant behind all but Numbered.
SourceInv == SourceTypeOK /\ ListSorted /\ ProbationBounded /\ ProbationCounts

\* With probation a source nobody vouches for is accepted exactly when
\* ProbationCount + 1 packets in a row have arrived, however the attempts
\* before ended.
AcceptedAfterRun ==
    [][~validated /\ probationtype # "NoProbation" =>
         (validated' /\ sentdata' <=> streak' > ProbationCount)]_sourceVars

=============================================================================
