-------------------------- MODULE RtpUdpTransmitter --------------------------
(***************************************************************************)
(* The UDP transmitter of jrtplib (RTPUDPv4Transmitter) as its session     *)
(* uses it, one call at a time: creation on sockets of its own or of the   *)
(* application, destinations, multicast groups, the filter on the sender   *)
(* of a packet, and the queue of received packets.                         *)
(*                                                                         *)
(* An address is <<ip, port>>; in the filter's lists port 0 stands for all *)
(* ports of the host.                                                      *)
(***************************************************************************)
EXTENDS Integers, FiniteSets, SequencesExt

CONSTANTS
    IPs, Ports,         \* senders: hosts and their ports
    Dests,              \* addresses the session sends to
    Groups,             \* multicast addresses
    MaxQueue            \* bound: packets waiting in a socket or in the list

ASSUME RtpUdpTransmitterAssumption ==
    0 \notin Ports /\ Ports \subseteq Nat /\ MaxQueue \in Nat

VARIABLES
    created,
    closesocketswhendone,   \* FALSE: the application's sockets
    multiplexed,            \* rtpsock == rtcpsock
    destinations, multicastgroups,
    receivemode,
    acceptignoreinfo,       \* ip -> [entry, all, portlist]
    listed,                 \* history: addresses added and not deleted
    rawpacketlist,          \* packets received, not yet taken
    member,                 \* external: groups each socket is a member of
    arrived                 \* external: packets in each socket

groupVars == <<multicastgroups, member>>
filterVars == <<receivemode, acceptignoreinfo, listed>>
socketVars == <<closesocketswhendone, multiplexed>>
vars == <<created, socketVars, destinations, groupVars, filterVars,
          rawpacketlist, arrived>>

Modes == {"AcceptAll", "AcceptSome", "IgnoreSome"}
Sockets == {"rtp", "rtcp"}
Addresses == IPs \X Ports
Packets == [socket : Sockets, from : Addresses]
PortInfo == [entry : BOOLEAN, all : BOOLEAN, portlist : SUBSET Ports]

NoInfo == [entry |-> FALSE, all |-> FALSE, portlist |-> {}]
NewInfo == [entry |-> TRUE, all |-> FALSE, portlist |-> {}]
Empty == [ip \in IPs |-> NoInfo]

TypeOK ==
    /\ created \in BOOLEAN
    /\ closesocketswhendone \in BOOLEAN /\ multiplexed \in BOOLEAN
    /\ destinations \subseteq Dests /\ multicastgroups \subseteq Groups
    /\ receivemode \in Modes
    /\ acceptignoreinfo \in [IPs -> PortInfo] /\ listed \subseteq Addresses
    /\ rawpacketlist \in Seq(Packets)
    /\ member \in [Sockets -> SUBSET Groups]
    /\ arrived \in [Sockets -> Seq(Addresses)]

Init ==
    /\ created = FALSE
    /\ closesocketswhendone \in BOOLEAN /\ multiplexed = FALSE
    /\ destinations = {} /\ multicastgroups = {}
    /\ receivemode = "AcceptAll" /\ acceptignoreinfo = Empty /\ listed = {}
    /\ rawpacketlist = <<>>
    /\ member = [s \in Sockets |-> {}]
    /\ arrived = [s \in Sockets |-> <<>>]

\* The sockets in use: one when RTP and RTCP share it.
InUse == IF multiplexed THEN {"rtp"} ELSE Sockets

-----------------------------------------------------------------------------
(* Creation and destruction.                                               *)

\* A creation that fails closes what it opened.  The application's sockets
\* are made once and are the same each time.
Create ==
    /\ ~created
    /\ created' = TRUE
    /\ \/ closesocketswhendone /\ multiplexed' \in BOOLEAN
       \/ ~closesocketswhendone /\ multiplexed' = multiplexed
    /\ receivemode' = "AcceptAll"
    /\ UNCHANGED <<closesocketswhendone, destinations, groupVars, acceptignoreinfo,
                   listed, rawpacketlist, arrived>>

Closed(f, empty) == IF closesocketswhendone THEN [s \in Sockets |-> empty] ELSE f

DestroyWithoutFlush ==
    /\ created
    /\ created' = FALSE
    /\ destinations' = {} /\ multicastgroups' = {}
    /\ acceptignoreinfo' = Empty /\ listed' = {}
    /\ member' = Closed(member, {})
    /\ arrived' = Closed(arrived, <<>>)
    /\ UNCHANGED <<socketVars, receivemode, rawpacketlist>>
Destroy ==
    /\ created
    /\ created' = FALSE
    /\ destinations' = {} /\ multicastgroups' = {}
    /\ acceptignoreinfo' = Empty /\ listed' = {} /\ rawpacketlist' = <<>>
    /\ member' = Closed(member, {})
    /\ arrived' = Closed(arrived, <<>>)
    /\ UNCHANGED <<socketVars, receivemode>>

-----------------------------------------------------------------------------
(* Destinations.                                                           *)

AddDestination(d) ==
    /\ created /\ destinations' = destinations \cup {d}
    /\ UNCHANGED <<created, socketVars, groupVars, filterVars, rawpacketlist, arrived>>

DeleteDestination(d) ==
    /\ created /\ destinations' = destinations \ {d}
    /\ UNCHANGED <<created, socketVars, groupVars, filterVars, rawpacketlist, arrived>>

ClearDestinations ==
    /\ created /\ destinations' = {}
    /\ UNCHANGED <<created, socketVars, groupVars, filterVars, rawpacketlist, arrived>>

-----------------------------------------------------------------------------
(* Multicast groups.  The kernel may refuse a membership (fails); it does  *)
(* refuse one that the socket already has.                                 *)

Joins(s, g, fails) == s \notin fails /\ g \notin member[s]

JoinKeepsFirst(g, fails) ==
    LET ok == \A s \in InUse : Joins(s, g, fails) IN
    /\ created /\ g \notin multicastgroups
    /\ multicastgroups' = IF ok THEN multicastgroups \cup {g} ELSE multicastgroups
    /\ member' = [s \in Sockets |-> IF s \in InUse /\ Joins(s, g, fails)
                                    THEN member[s] \cup {g} ELSE member[s]]
    /\ UNCHANGED <<created, socketVars, destinations, filterVars, rawpacketlist, arrived>>

\* The RTP socket joins first; if the RTCP socket cannot, it leaves again.
JoinMulticastGroup(g, fails) ==
    LET ok == \A s \in InUse : Joins(s, g, fails) IN
    /\ created /\ g \notin multicastgroups
    /\ IF ok
       THEN /\ multicastgroups' = multicastgroups \cup {g}
            /\ member' = [s \in Sockets |-> IF s \in InUse THEN member[s] \cup {g} ELSE member[s]]
       ELSE UNCHANGED groupVars
    /\ UNCHANGED <<created, socketVars, destinations, filterVars, rawpacketlist, arrived>>

Leaving(gs) == [s \in Sockets |-> IF s \in InUse THEN member[s] \ gs ELSE member[s]]

LeaveMulticastGroup(g) ==
    /\ created /\ g \in multicastgroups
    /\ multicastgroups' = multicastgroups \ {g}
    /\ member' = Leaving({g})
    /\ UNCHANGED <<created, socketVars, destinations, filterVars, rawpacketlist, arrived>>

LeaveAllMulticastGroups ==
    /\ created
    /\ multicastgroups' = {}
    /\ member' = Leaving(multicastgroups)
    /\ UNCHANGED <<created, socketVars, destinations, filterVars, rawpacketlist, arrived>>

-----------------------------------------------------------------------------
(* The filter: the addresses to accept or, in the other mode, to ignore.   *)

\* An address is listed: named by its port, or with all ports and not taken
\* out again.
Listed(info, a) ==
    LET inf == info[a[1]] IN
    inf.entry /\ (IF inf.all THEN a[2] \notin inf.portlist ELSE a[2] \in inf.portlist)

ShouldAcceptData(mode, info, a) ==
    CASE mode = "AcceptAll"  -> TRUE
      [] mode = "AcceptSome" -> Listed(info, a)
      [] mode = "IgnoreSome" -> ~Listed(info, a)

Forget == acceptignoreinfo' = Empty /\ listed' = {}

SetReceiveMode(m) ==
    /\ created
    /\ receivemode' = m
    /\ IF m = receivemode THEN UNCHANGED <<acceptignoreinfo, listed>> ELSE Forget
    /\ UNCHANGED <<created, socketVars, destinations, groupVars, rawpacketlist, arrived>>

\* The entry of a host after an address of it is added.  Under "all ports"
\* a single port changes nothing.
AddedTo(inf, port) ==
    LET old == IF inf.entry THEN inf ELSE NewInfo IN
    CASE port = 0                -> [old EXCEPT !.all = TRUE, !.portlist = {}]
      [] port # 0 /\ old.all     -> old
      [] port # 0 /\ ~old.all    -> [old EXCEPT !.portlist = @ \cup {port}]

\* The addresses an entry is about.
Covers(ip, port) == {a \in Addresses : a[1] = ip /\ port \in {0, a[2]}}

ProcessAddAcceptIgnoreEntry(ip, port) ==
    /\ listed' = listed \cup Covers(ip, port)
    /\ acceptignoreinfo' = [acceptignoreinfo EXCEPT ![ip] = AddedTo(@, port)]

\* The call finds what it is to delete.
Deletable(inf, port) ==
    inf.entry /\ (port = 0 \/ (IF inf.all THEN port \notin inf.portlist ELSE port \in inf.portlist))

DeletedFromForgetful(inf, port) ==
    IF port = 0 THEN [inf EXCEPT !.portlist = {}]
    ELSE [inf EXCEPT !.portlist = IF inf.all THEN @ \cup {port} ELSE @ \ {port}]
DeletedFrom(inf, port) ==
    IF port = 0 THEN [inf EXCEPT !.all = FALSE, !.portlist = {}]
    ELSE [inf EXCEPT !.portlist = IF inf.all THEN @ \cup {port} ELSE @ \ {port}]

ProcessDeleteAcceptIgnoreEntry(ip, port) ==
    /\ listed' = listed \ Covers(ip, port)
    /\ IF Deletable(acceptignoreinfo[ip], port)
       THEN acceptignoreinfo' = [acceptignoreinfo EXCEPT ![ip] = DeletedFrom(@, port)]
       ELSE UNCHANGED acceptignoreinfo

FilterCall(m) ==
    /\ created /\ receivemode = m
    /\ UNCHANGED <<created, socketVars, destinations, groupVars, receivemode,
                   rawpacketlist, arrived>>

AddToIgnoreList(ip, port) ==
    FilterCall("IgnoreSome") /\ ProcessAddAcceptIgnoreEntry(ip, port)
DeleteFromIgnoreList(ip, port) ==
    FilterCall("IgnoreSome") /\ ProcessDeleteAcceptIgnoreEntry(ip, port)
ClearIgnoreList == FilterCall("IgnoreSome") /\ Forget
AddToAcceptList(ip, port) ==
    FilterCall("AcceptSome") /\ ProcessAddAcceptIgnoreEntry(ip, port)
DeleteFromAcceptList(ip, port) ==
    FilterCall("AcceptSome") /\ ProcessDeleteAcceptIgnoreEntry(ip, port)
ClearAcceptList == FilterCall("AcceptSome") /\ Forget

-----------------------------------------------------------------------------
(* Receiving.                                                              *)

\* A packet reaches a socket.
Arrive(s, a) ==
    /\ s \in InUse /\ created
    /\ Len(arrived[s]) < MaxQueue
    /\ arrived' = [arrived EXCEPT ![s] = Append(@, a)]
    /\ UNCHANGED <<created, socketVars, destinations, groupVars, filterVars, rawpacketlist>>

\* The senders, in the order of their packets, that the filter lets through.
LetThrough(senders) ==
    LET through[k \in 0 .. Len(senders)] ==
            IF k = 0 THEN <<>>
            ELSE IF ShouldAcceptData(receivemode, acceptignoreinfo, senders[k])
                 THEN Append(through[k - 1], senders[k]) ELSE through[k - 1]
    IN  through[Len(senders)]

\* What a socket yields: everything in it that the filter lets through.  On
\* a shared socket the packet tells its kind; either may come.
PollSocket(s) ==
    LET taken == LetThrough(arrived[s]) IN
    [i \in DOMAIN taken |-> [socket |-> s, from |-> taken[i]]]

Poll ==
    /\ created
    /\ Len(rawpacketlist) < MaxQueue
    /\ rawpacketlist' = rawpacketlist \o PollSocket("rtp")
                          \o (IF multiplexed THEN <<>> ELSE PollSocket("rtcp"))
    /\ arrived' = [s \in Sockets |-> IF s \in InUse THEN <<>> ELSE arrived[s]]
    /\ UNCHANGED <<created, socketVars, destinations, groupVars, filterVars>>

GetNextPacket ==
    /\ created /\ rawpacketlist # <<>>
    /\ rawpacketlist' = Tail(rawpacketlist)
    /\ UNCHANGED <<created, socketVars, destinations, groupVars, filterVars, arrived>>

-----------------------------------------------------------------------------

FilterActions == \E ip \in IPs, port \in Ports \cup {0} :
    \/ AddToIgnoreList(ip, port) \/ DeleteFromIgnoreList(ip, port)
    \/ AddToAcceptList(ip, port) \/ DeleteFromAcceptList(ip, port)

Next ==
    \/ Create \/ Destroy
    \/ \E d \in Dests : AddDestination(d) \/ DeleteDestination(d)
    \/ ClearDestinations
    \/ \E g \in Groups, fails \in SUBSET Sockets : JoinMulticastGroup(g, fails)
    \/ \E g \in Groups : LeaveMulticastGroup(g)
    \/ LeaveAllMulticastGroups
    \/ \E m \in Modes : SetReceiveMode(m)
    \/ FilterActions
    \/ ClearIgnoreList \/ ClearAcceptList
    \/ \E s \in Sockets, a \in Addresses : Arrive(s, a)
    \/ Poll \/ GetNextPacket

Spec == Init /\ [][Next]_vars

-----------------------------------------------------------------------------
(* Properties.                                                             *)

\* On sockets of its own the transmitter is, on each socket, a member of the
\* groups it lists and of no other, whichever memberships were refused: a
\* group joined by one socket only would deliver data without reports.
GroupsAgree ==
    created /\ closesocketswhendone =>
        \A s \in InUse : member[s] = multicastgroups

\* Nothing of an earlier life shows after Create: no destination, no group,
\* no filter entry, no packet.
FreshAfterCreate == [][~created /\ created' =>
    /\ destinations' = {} /\ multicastgroups' = {} /\ rawpacketlist' = <<>>
    /\ \A a \in Addresses :
           ShouldAcceptData(receivemode', acceptignoreinfo', a)]_vars

\* The filter holds nothing that was not added or was deleted again, though
\* the one list of a host's ports changes its meaning with "all"; for a host
\* without an entry for all ports it holds exactly what was added.
FilterAsListed ==
    \A a \in Addresses :
        /\ Listed(acceptignoreinfo, a) => a \in listed
        /\ ~acceptignoreinfo[a[1]].all /\ a \in listed => Listed(acceptignoreinfo, a)

=============================================================================
