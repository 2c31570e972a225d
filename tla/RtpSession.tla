------------------------------ MODULE RtpSession ------------------------------
(***************************************************************************)
(* The session of jrtplib: RTPSession (rtpsession.cpp) with the scheduler  *)
(* of its RTCP packets (rtcpscheduler.cpp) and its list of colliding       *)
(* addresses (rtpcollisionlist.cpp).  The library is built without threads *)
(* (rtpconfig.h), so each call of the application is one step.             *)
(*                                                                         *)
(* When a packet shows that another participant uses the session's own     *)
(* SSRC, the session says BYE for it, if it has sent anything, and takes   *)
(* another one.  The BYE waits in a queue until the scheduler lets it go.  *)
(*                                                                         *)
(* The SSRCs are the numbers 1..MaxSsrc in the order they are drawn, the   *)
(* random draw excludes what the source table holds.  Time is the flag     *)
(* sched.due: the clock has reached nextrtcptime.  What the intervals      *)
(* depend on (bandwidth, packet sizes, number of members) is a free choice *)
(* between "it is time" and "wait on".  Memory is never exhausted.         *)
(***************************************************************************)
EXTENDS Integers, Sequences, Functions, FiniteSets

CONSTANTS
    Addrs,       \* addresses packets come from
    MaxSsrc,     \* bound: SSRCs drawn in a behaviour
    MaxPolled    \* bound: packets handled by one poll

ASSUME SessionAssumption == IsFiniteSet(Addrs) /\ {MaxSsrc, MaxPolled} \subseteq Nat

VARIABLES
    created,        \* the session is open
    parts,          \* the members that are initialised
    ssrc,           \* packetbuilder's SSRC, also the one of the own source entry
    sentpackets,    \* something was sent since the SSRC was chosen
    byepackets,     \* the BYEs waiting, each the SSRC it was built with
    collisionlist,  \* the addresses collisions came from, until they time out
    sched,          \* firstcall, byescheduled, sendbyenow of the scheduler, and due
    \* History of the open (or last) session:
    used,           \* the SSRCs some packet went out with
    taken,          \* the SSRCs of the BYEs taken from the queue to be sent, in order
    refused,        \* those of them the transmitter did not send: they are deleted
    carried,        \* the SSRCs in use when a BYE of an earlier one was sent
    stranded        \* a BYE could not be sent and the rest was not scheduled

history == <<used, taken, refused, carried, stranded>>

vars == <<created, parts, ssrc, sentpackets, byepackets, collisionlist, sched, history>>

Components == {"rtptrans", "packetbuilder", "sources", "rtcpbuilder"}

Reset == [firstcall |-> TRUE, byescheduled |-> FALSE, sendbyenow |-> FALSE, due |-> FALSE]

Init ==
    /\ created = FALSE
    /\ parts = {}
    /\ ssrc = 0
    /\ sentpackets = FALSE
    /\ byepackets = <<>>
    /\ collisionlist = {}
    /\ sched = Reset
    /\ used = {}
    /\ taken = <<>>
    /\ refused = {}
    /\ carried = {}
    /\ stranded = FALSE

-----------------------------------------------------------------------------
(* Opening and closing. *)

\* What InternalCreate goes through, each stage able to fail.
Stages == <<"rtptrans", "packetbuilder", "sources", "receivemode", "rtcpbuilder",
            "schedparams">>

\* The members that exist when stage i fails: the transmitter from its creation on.
Before(i) == {"rtptrans"} \cup (Components \cap {Stages[j] : j \in 1..(i - 1)})

\* What the error path of stage i destroys.
CleanUpWithoutRtcp(i) ==
    CASE Stages[i] \in {"rtptrans", "packetbuilder"} -> {"rtptrans"}
      [] Stages[i] = "sources" -> {"rtptrans", "packetbuilder"}
      [] OTHER -> {"rtptrans", "packetbuilder", "sources"}
CleanUp(i) ==
    CASE Stages[i] \in {"rtptrans", "packetbuilder"} -> {"rtptrans"}
      [] Stages[i] = "sources" -> {"rtptrans", "packetbuilder"}
      [] Stages[i] \in {"receivemode", "rtcpbuilder"} -> {"rtptrans", "packetbuilder", "sources"}
      [] OTHER -> Components

\* packetbuilder.Init draws an SSRC, and refuses to run twice.
Create ==
    /\ ~created
    /\ "packetbuilder" \notin parts
    /\ ssrc < MaxSsrc
    /\ created' = TRUE
    /\ parts' = Components
    /\ ssrc' = ssrc + 1
    /\ sentpackets' = FALSE
    /\ sched' = Reset
    /\ used' = {}
    /\ taken' = <<>>
    /\ refused' = {}
    /\ carried' = {}
    /\ UNCHANGED <<byepackets, collisionlist, stranded>>

CreateFails ==
    \E i \in DOMAIN Stages :
        /\ ~created
        /\ "packetbuilder" \notin parts
        /\ parts' = (parts \cup Before(i)) \ CleanUp(i)
        /\ sentpackets' = FALSE
        /\ IF "packetbuilder" \in Before(i)
           THEN ssrc < MaxSsrc /\ ssrc' = ssrc + 1
           ELSE UNCHANGED ssrc
        /\ UNCHANGED <<created, byepackets, collisionlist, sched, history>>

\* The tail of Destroy and BYEDestroy, which leaves sentpackets and the SSRC.
Closed ==
    /\ created
    /\ created' = FALSE
    /\ parts' = {}
    /\ byepackets' = <<>>
    /\ collisionlist' = {}
    /\ sched' = Reset
    /\ stranded' = FALSE
    /\ UNCHANGED <<ssrc, sentpackets, used, carried>>

Destroy == Closed /\ UNCHANGED <<taken, refused>>

\* Waits, without reading packets, until the BYEs are sent or the time is over.
\* Whether a send failed is not looked at.
BYEDestroy ==
    LET farewells == IF sentpackets THEN Append(byepackets, ssrc) ELSE byepackets
    IN \E n \in 0..Len(farewells) :
           /\ Closed
           /\ taken' = taken \o SubSeq(farewells, 1, n)
           /\ \E lost \in SUBSET Range(SubSeq(farewells, 1, n)) : refused' = refused \cup lost

-----------------------------------------------------------------------------
(* The scheduler: functions from its state to its state. *)

ScheduleUnlessQueued(sc, now) ==
    IF sc.byescheduled THEN sc ELSE [sc EXCEPT !.due = now]

\* now: an immediate BYE is asked for and there are fewer than 50 members.
ScheduleBYEPacket(sc, now) ==
    IF sc.byescheduled THEN sc
    ELSE [firstcall |-> FALSE, byescheduled |-> TRUE, sendbyenow |-> now, due |-> now]

IntervalStartsAgain(sc) ==
    LET waits  == [sc EXCEPT !.firstcall = FALSE, !.due = FALSE]
        passes == [waits EXCEPT !.byescheduled = FALSE]
    IN  IF sc.firstcall \/ ~sc.due \/ (sc.byescheduled /\ ~sc.sendbyenow)
        THEN {<<FALSE, waits>>} ELSE {<<TRUE, passes>>}

\* The first call starts the timer; an expired one is checked again against an
\* interval drawn anew, which is zero for an immediate BYE.
IsTime(sc) ==
    LET waits  == [sc EXCEPT !.firstcall = FALSE, !.due = FALSE]
        passes == [waits EXCEPT !.byescheduled = FALSE]
    IN  CASE sc.firstcall -> {<<FALSE, waits>>}
          [] ~sc.firstcall /\ ~sc.due -> {<<FALSE, sc>>}
          [] ~sc.firstcall /\ sc.due /\ sc.byescheduled /\ sc.sendbyenow -> {<<TRUE, passes>>}
          [] OTHER -> {<<TRUE, passes>>, <<FALSE, waits>>}

\* The clock reaches nextrtcptime.
Wait ==
    /\ created
    /\ ~sched.firstcall
    /\ ~sched.due
    /\ sched' = [sched EXCEPT !.due = TRUE]
    /\ UNCHANGED <<created, parts, ssrc, sentpackets, byepackets, collisionlist, history>>

-----------------------------------------------------------------------------
(* The own SSRC is seen in a packet of somebody else. *)

Session == [ssrc |-> ssrc, sent |-> sentpackets, byes |-> byepackets,
            coll |-> collisionlist, sched |-> sched]

\* HandleOwnCollision, other ways to write it.
ChangedEveryTime(s, from, now) ==
    LET byes == IF s.sent THEN Append(s.byes, s.ssrc) ELSE s.byes
    IN [ssrc |-> s.ssrc + 1, sent |-> FALSE, byes |-> byes, coll |-> s.coll \cup {from},
        sched |-> IF s.sent /\ Len(byes) = 1 THEN ScheduleBYEPacket(s.sched, now) ELSE s.sched]
ChangedTooSoon(s, from, now) ==
    LET byes == IF s.sent THEN Append(s.byes, s.ssrc + 1) ELSE s.byes
    IN IF from \in s.coll THEN s
       ELSE [ssrc |-> s.ssrc + 1, sent |-> FALSE, byes |-> byes, coll |-> s.coll \cup {from},
             sched |-> IF s.sent /\ Len(byes) = 1 THEN ScheduleBYEPacket(s.sched, now) ELSE s.sched]

\* ProcessRawPacket has found a packet of the address with the session's SSRC, as
\* source or as contributing source.  UpdateAddress finds the sender in the
\* collision list, or adds it; only then the BYE is queued, scheduled if it is
\* alone, and the SSRC changed.
HandleOwnCollision(s, from, now) ==
    LET byes == IF s.sent THEN Append(s.byes, s.ssrc) ELSE s.byes
    IN IF from \in s.coll THEN s
       ELSE [ssrc |-> s.ssrc + 1, sent |-> FALSE, byes |-> byes, coll |-> s.coll \cup {from},
             sched |-> IF s.sent /\ Len(byes) = 1 THEN ScheduleBYEPacket(s.sched, now) ELSE s.sched]

\* What a poll finds: the senders of the packets that collide when they are handled
\* (the others change the source table only, see RtpSources).
Colliding == UNION {[1..n -> Addrs] : n \in 0..MaxPolled}

AfterPackets(packs, now) ==
    LET after[k \in 0..Len(packs)] ==
            IF k = 0 THEN Session ELSE HandleOwnCollision(after[k - 1], packs[k], now)
    IN  after[Len(packs)]

-----------------------------------------------------------------------------
(* Polling. *)

\* ProcessRawPacket fails: the call returns with what was handled until then.
PollFails ==
    \E packs \in Colliding, now \in BOOLEAN :
        LET s == AfterPackets(packs, now)
        IN  /\ created
            /\ s.ssrc <= MaxSsrc
            /\ ssrc' = s.ssrc
            /\ sentpackets' = s.sent
            /\ byepackets' = s.byes
            /\ collisionlist' = s.coll
            /\ sched' = s.sched
            /\ UNCHANGED <<created, parts, history>>

\* IsTime says yes: a report if no BYE waits, else the first BYE, which has left the
\* queue when the send fails.  That ends the call before the next BYE is scheduled.
\* A BYE that was sent counts as something sent with the SSRC in use.
Report(s, sc, ok, now) ==
    IF s.byes = <<>>
    THEN /\ sentpackets' = (s.sent \/ ok)
         /\ used' = IF ok THEN used \cup {s.ssrc} ELSE used
         /\ byepackets' = s.byes
         /\ sched' = sc
         /\ UNCHANGED <<taken, refused, carried, stranded>>
    ELSE LET rest == Tail(s.byes)
         IN /\ sentpackets' = (s.sent \/ ok)
            /\ taken' = Append(taken, Head(s.byes))
            /\ refused' = IF ok THEN refused ELSE refused \cup {Head(s.byes)}
            /\ carried' = IF ok THEN carried \cup {s.ssrc} ELSE carried
            /\ byepackets' = rest
            /\ sched' = IF ok /\ rest # <<>> THEN ScheduleBYEPacket(sc, now) ELSE sc
            /\ stranded' = (~ok /\ rest # <<>>)
            /\ UNCHANGED used

\* old: the addresses whose last collision is too long ago.
ProcessPolledData(ok) ==
    \E packs \in Colliding, now \in BOOLEAN :
        LET s == AfterPackets(packs, now)
        IN  /\ created
            /\ s.ssrc <= MaxSsrc
            /\ \E old \in SUBSET (s.coll \ Range(packs)) :
                   collisionlist' = s.coll \ old
            /\ ssrc' = s.ssrc
            /\ \E t \in IsTime(s.sched), again \in BOOLEAN :
                   IF t[1] THEN Report(s, t[2], ok, again)
                   ELSE /\ sentpackets' = s.sent
                        /\ byepackets' = s.byes
                        /\ sched' = t[2]
                        /\ UNCHANGED history
            /\ UNCHANGED <<created, parts>>

\* SendPacket, SendPacketEx, SendRTCPAPPPacket, when the transmitter takes it.
SendPacket ==
    /\ created
    /\ sentpackets' = TRUE
    /\ used' = used \cup {ssrc}
    /\ UNCHANGED <<created, parts, ssrc, byepackets, collisionlist, sched,
                   taken, refused, carried, stranded>>

Next ==
    \/ Create
    \/ CreateFails
    \/ SendPacket
    \/ ProcessPolledData(TRUE)
    \/ ProcessPolledData(FALSE)
    \/ PollFails
    \/ Destroy
    \/ BYEDestroy
    \/ Wait

\* rtpsession.h asks the application to poll regularly.  A poll that comes to its
\* end and takes a BYE from the queue is not put off for ever: the interval drawn
\* is at most 1.5 / 1.21828 of the deterministic one.
TakesBye == ProcessPolledData(TRUE) /\ Len(taken') > Len(taken)

Spec == Init /\ [][Next]_vars

FairSpec == Spec /\ WF_vars(Wait) /\ WF_vars(ProcessPolledData(TRUE)) /\ SF_vars(TakesBye)

-----------------------------------------------------------------------------
Sched == [firstcall : BOOLEAN, byescheduled : BOOLEAN, sendbyenow : BOOLEAN, due : BOOLEAN]

\* Every variable has its type.
TypeOK ==
    /\ created \in BOOLEAN
    /\ parts \subseteq Components
    /\ ssrc \in 0..MaxSsrc
    /\ sentpackets \in BOOLEAN
    /\ byepackets \in Seq(1..MaxSsrc)
    /\ collisionlist \subseteq Addrs
    /\ sched \in Sched
    /\ used \subseteq 1..MaxSsrc
    /\ taken \in Seq(1..MaxSsrc)
    /\ refused \subseteq 1..MaxSsrc
    /\ carried \subseteq 1..MaxSsrc
    /\ stranded \in BOOLEAN

\* A session that is not open holds nothing, whichever stage of Create failed:
\* otherwise the transmitter's socket is lost, or no later Create can succeed.
AllOrNothing == parts = IF created THEN Components ELSE {}

\* The scheduler runs the BYE timer exactly while a BYE waits, except after a BYE
\* that could not be sent: then the others wait for the time of a report.
ByeModeAsQueued == sched.byescheduled <=> (byepackets # <<>> /\ ~stranded)

\* Each SSRC that is given up has at most one BYE, offered to the transmitter in the
\* order of use and never for the SSRC in use.  Of the SSRCs something was sent with,
\* the participants have been told, or will be when the queue gets to it, except where
\* that one send was refused: such a BYE is lost.  And a BYE is for one of those, or
\* for an SSRC under which nothing was sent but the BYE of an earlier one: more than
\* the code means to say BYE for, "if we've actually sent data using this SSRC".
Increasing(q) == \A i \in 2..Len(q) : q[i - 1] < q[i]
OneFarewell ==
    LET all  == taken \o byepackets
        told == Range(taken) \ refused
    IN  /\ Increasing(all)
        /\ refused \subseteq Range(taken)
        /\ created => /\ \A i \in DOMAIN all : all[i] < ssrc
                      /\ used \ {ssrc} \subseteq told \cup Range(byepackets) \cup refused
                      /\ Range(all) \subseteq used \cup carried

\* The inductive invariant behind these: a closed session waits for nothing, a
\* stranded BYE is one that waits, and sentpackets tells of the SSRC in use.
ClosedIsQuiet == ~created => byepackets = <<>> /\ ~sched.byescheduled
StrandedWaits == stranded => byepackets # <<>>
UsedWhenSent ==
    created => /\ ssrc > 0
               /\ used \subseteq 1..ssrc
               /\ sentpackets => ssrc \in used \cup carried
               /\ ~sentpackets => ssrc \notin used
Inv == /\ TypeOK /\ AllOrNothing /\ ByeModeAsQueued /\ OneFarewell
       /\ ClosedIsQuiet /\ StrandedWaits /\ UsedWhenSent

\* An address that was already seen colliding (a translator that sends the
\* session's packets back to it) does not make it change its SSRC again.
LoopEnds ==
    [][created /\ created' => ssrc' - ssrc <= Cardinality(Addrs \ collisionlist)]_vars

\* Every BYE leaves the queue.
FarewellsLeave == byepackets # <<>> ~> byepackets = <<>>
=============================================================================
