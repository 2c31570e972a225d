----------------------- MODULE RtpUdpTransmitterProofs -----------------------
(***************************************************************************)
(* Proofs about the UDP transmitter, for any hosts, ports and groups: the  *)
(* groups it lists are those its sockets are members of, the filter is     *)
(* what was listed, and nothing of an earlier life shows after Create.     *)
(*                                                                         *)
(* Each property needs to know what Destroy leaves behind (ClosedInv), and *)
(* the filter that a host without an entry has no flag set (FilterInv).    *)
(***************************************************************************)
EXTENDS RtpUdpTransmitter, SequenceTheorems, WellFoundedInduction, TLAPS

\* The types of the groups and of the filter.
TypeInv ==
    /\ multiplexed \in BOOLEAN /\ closesocketswhendone \in BOOLEAN
    /\ acceptignoreinfo \in [IPs -> PortInfo]
    /\ listed \subseteq Addresses
    /\ multicastgroups \subseteq Groups
    /\ member \in [Sockets -> SUBSET Groups]

\* A transmitter that is not created holds nothing.
ClosedInv == ~created =>
    /\ destinations = {} /\ multicastgroups = {} /\ rawpacketlist = <<>>
    /\ closesocketswhendone => member = [s \in Sockets |-> {}]

FilterInv ==
    /\ \A ip \in IPs : ~acceptignoreinfo[ip].entry => ~acceptignoreinfo[ip].all
    /\ FilterAsListed

Inv == TypeInv /\ ClosedInv /\ GroupsAgree /\ FilterInv

-----------------------------------------------------------------------------

\* The initial state satisfies the invariant.
LEMMA InitInv == Init => Inv
<1> SUFFICES ASSUME Init PROVE Inv
    OBVIOUS
<1> USE DEF Init, Empty, NoInfo
<1>1. TypeInv BY DEF TypeInv, PortInfo
<1>2. ClosedInv /\ GroupsAgree BY DEF ClosedInv, GroupsAgree
<1>3. FilterInv BY DEF FilterInv, FilterAsListed, Addresses, Listed
<1> QED BY <1>1, <1>2, <1>3 DEF Inv

\* The entry made or changed by an added address is an entry.
LEMMA AddedType ==
    ASSUME NEW inf \in PortInfo, NEW port \in Ports \cup {0}
    PROVE  AddedTo(inf, port) \in PortInfo
BY RtpUdpTransmitterAssumption DEF PortInfo, AddedTo, NewInfo

\* So is the entry left by a deleted address.
LEMMA DeletedType ==
    ASSUME NEW inf \in PortInfo, NEW port \in Ports \cup {0}
    PROVE  DeletedFrom(inf, port) \in PortInfo
BY RtpUdpTransmitterAssumption DEF PortInfo, DeletedFrom

-----------------------------------------------------------------------------
(* The filter.                                                             *)

\* ProcessAddAcceptIgnoreEntry keeps the list and the entries in agreement.
LEMMA AddStep ==
    ASSUME TypeInv, FilterInv, NEW ip \in IPs, NEW port \in Ports \cup {0},
           ProcessAddAcceptIgnoreEntry(ip, port)
    PROVE  acceptignoreinfo' \in [IPs -> PortInfo] /\ listed' \subseteq Addresses /\ FilterInv'
<1> USE RtpUdpTransmitterAssumption
<1> DEFINE old == acceptignoreinfo[ip]  new == AddedTo(old, port)
<1>1. old \in PortInfo /\ new \in PortInfo
    BY AddedType DEF TypeInv
<1>2. acceptignoreinfo' = [acceptignoreinfo EXCEPT ![ip] = new]
    BY DEF ProcessAddAcceptIgnoreEntry
<1>3. listed' = listed \cup Covers(ip, port)
    BY DEF ProcessAddAcceptIgnoreEntry
<1>4. acceptignoreinfo' \in [IPs -> PortInfo] /\ listed' \subseteq Addresses
    BY <1>1, <1>2, <1>3 DEF TypeInv, Covers
<1>5. /\ new.entry
      /\ old.all => new.all
      /\ new.all => old.all \/ port = 0
      /\ port = 0 => new.all /\ new.portlist = {}
      /\ port # 0 /\ old.all => new = old
      /\ port # 0 /\ ~old.all =>
             ~new.all /\ new.portlist = (IF old.entry THEN old.portlist ELSE {}) \cup {port}
    BY <1>1 DEF AddedTo, NewInfo, PortInfo, FilterInv
<1>6. ASSUME NEW a \in Addresses
      PROVE  /\ Listed(acceptignoreinfo', a) => a \in listed'
             /\ ~acceptignoreinfo'[a[1]].all /\ a \in listed' => Listed(acceptignoreinfo', a)
    <2>1. a[1] \in IPs /\ a[2] \in Ports /\ a[2] # 0
        BY DEF Addresses
    <2>2. /\ Listed(acceptignoreinfo, a) => a \in listed
          /\ ~acceptignoreinfo[a[1]].all /\ a \in listed => Listed(acceptignoreinfo, a)
        BY DEF FilterInv, FilterAsListed
    <2>3. a \in Covers(ip, port) <=> a[1] = ip /\ port \in {0, a[2]}
        BY DEF Covers
    <2>4. CASE a[1] # ip
        BY <1>2, <1>3, <2>1, <2>2, <2>3, <2>4 DEF Listed, TypeInv
    <2>5. CASE a[1] = ip
        <3>1. acceptignoreinfo'[a[1]] = new
            BY <1>2, <2>5 DEF TypeInv
        <3>2. old.entry \/ ~old.all
            BY DEF FilterInv
        <3> QED BY <1>3, <1>5, <2>1, <2>2, <2>3, <2>5, <3>1, <3>2 DEF Listed
    <2> QED BY <2>4, <2>5
<1>7. \A i \in IPs : ~acceptignoreinfo'[i].entry => ~acceptignoreinfo'[i].all
    BY <1>2, <1>5 DEF FilterInv, TypeInv
<1> QED BY <1>4, <1>6, <1>7 DEF FilterInv, FilterAsListed, Listed

\* ProcessDeleteAcceptIgnoreEntry does, whether it finds the address or not.
LEMMA DeleteStep ==
    ASSUME TypeInv, FilterInv, NEW ip \in IPs, NEW port \in Ports \cup {0},
           ProcessDeleteAcceptIgnoreEntry(ip, port)
    PROVE  acceptignoreinfo' \in [IPs -> PortInfo] /\ listed' \subseteq Addresses /\ FilterInv'
<1> USE RtpUdpTransmitterAssumption
<1> DEFINE old == acceptignoreinfo[ip]
           new == IF Deletable(old, port) THEN DeletedFrom(old, port) ELSE old
<1>1. old \in PortInfo /\ new \in PortInfo
    BY DeletedType DEF TypeInv
<1>2. acceptignoreinfo' = [acceptignoreinfo EXCEPT ![ip] = new]
    BY DEF ProcessDeleteAcceptIgnoreEntry, TypeInv
<1>3. listed' = listed \ Covers(ip, port)
    BY DEF ProcessDeleteAcceptIgnoreEntry
<1>4. acceptignoreinfo' \in [IPs -> PortInfo] /\ listed' \subseteq Addresses
    BY <1>1, <1>2, <1>3 DEF TypeInv
<1>5. /\ new.entry = old.entry
      /\ new.all => old.all
      /\ old.entry /\ port = 0 => ~new.all /\ new.portlist = {}
      /\ port # 0 => new.all = old.all
      /\ port # 0 /\ old.entry /\ old.all => new.portlist = old.portlist \cup {port}
      /\ port # 0 /\ old.entry /\ ~old.all => new.portlist = old.portlist \ {port}
    BY <1>1 DEF Deletable, DeletedFrom, PortInfo
<1>6. ASSUME NEW a \in Addresses
      PROVE  /\ Listed(acceptignoreinfo', a) => a \in listed'
             /\ ~acceptignoreinfo'[a[1]].all /\ a \in listed' => Listed(acceptignoreinfo', a)
    <2>1. a[1] \in IPs /\ a[2] \in Ports /\ a[2] # 0
        BY DEF Addresses
    <2>2. /\ Listed(acceptignoreinfo, a) => a \in listed
          /\ ~acceptignoreinfo[a[1]].all /\ a \in listed => Listed(acceptignoreinfo, a)
        BY DEF FilterInv, FilterAsListed
    <2>3. a \in Covers(ip, port) <=> a[1] = ip /\ port \in {0, a[2]}
        BY DEF Covers
    <2>4. CASE a[1] # ip
        BY <1>2, <1>3, <2>1, <2>2, <2>3, <2>4 DEF Listed, TypeInv
    <2>5. CASE a[1] = ip
        <3>1. acceptignoreinfo'[a[1]] = new
            BY <1>2, <2>5 DEF TypeInv
        <3>2. old.entry \/ ~old.all
            BY DEF FilterInv
        <3> QED BY <1>3, <1>5, <2>1, <2>2, <2>3, <2>5, <3>1, <3>2 DEF Listed
    <2> QED BY <2>4, <2>5
<1>7. \A i \in IPs : ~acceptignoreinfo'[i].entry => ~acceptignoreinfo'[i].all
    BY <1>2, <1>5 DEF FilterInv, TypeInv
<1> QED BY <1>4, <1>6, <1>7 DEF FilterInv, FilterAsListed, Listed

\* An emptied filter agrees with an emptied list.
LEMMA ForgetStep ==
    ASSUME Forget
    PROVE  acceptignoreinfo' \in [IPs -> PortInfo] /\ listed' \subseteq Addresses /\ FilterInv'
BY DEF Forget, Empty, NoInfo, PortInfo, FilterInv, FilterAsListed, Addresses, Listed

-----------------------------------------------------------------------------
(* The groups.                                                             *)

\* What the calls that do not touch groups, sockets or creation preserve.
LEMMA Elsewhere ==
    ASSUME Inv, UNCHANGED <<created, socketVars, groupVars>>, created,
           acceptignoreinfo' \in [IPs -> PortInfo], listed' \subseteq Addresses, FilterInv'
    PROVE  Inv'
BY DEF Inv, TypeInv, ClosedInv, GroupsAgree, InUse, socketVars, groupVars

\* A filter left alone stays in agreement.
LEMMA SameFilter ==
    ASSUME Inv, UNCHANGED <<acceptignoreinfo, listed>>
    PROVE  acceptignoreinfo' \in [IPs -> PortInfo] /\ listed' \subseteq Addresses /\ FilterInv'
BY DEF Inv, TypeInv, FilterInv, FilterAsListed, Listed

\* A join is undone on the first socket when the second refuses.
LEMMA GroupStep ==
    ASSUME Inv, NEW g \in Groups, NEW fails \in SUBSET Sockets,
           JoinMulticastGroup(g, fails) \/ LeaveMulticastGroup(g) \/ LeaveAllMulticastGroups
    PROVE  Inv'
<1>1. acceptignoreinfo' \in [IPs -> PortInfo] /\ listed' \subseteq Addresses /\ FilterInv'
    BY SameFilter DEF JoinMulticastGroup, LeaveMulticastGroup, LeaveAllMulticastGroups, filterVars
<1>2. created /\ UNCHANGED <<created, closesocketswhendone, multiplexed>>
    BY DEF JoinMulticastGroup, LeaveMulticastGroup, LeaveAllMulticastGroups, socketVars
<1>3. TypeInv /\ GroupsAgree /\ InUse \subseteq Sockets /\ InUse' = InUse
    BY <1>2 DEF Inv, InUse, Sockets
<1>4. CASE JoinMulticastGroup(g, fails)
    <2>1. \/ /\ multicastgroups' = multicastgroups \cup {g}
             /\ member' = [s \in Sockets |-> IF s \in InUse THEN member[s] \cup {g} ELSE member[s]]
          \/ UNCHANGED <<multicastgroups, member>>
        BY <1>4 DEF JoinMulticastGroup, groupVars
    <2> QED BY <1>1, <1>2, <1>3, <2>1 DEF Inv, TypeInv, ClosedInv, GroupsAgree
<1>5. CASE LeaveMulticastGroup(g)
    BY <1>1, <1>2, <1>3, <1>5 DEF LeaveMulticastGroup, Leaving, Inv, TypeInv, ClosedInv, GroupsAgree
<1>6. CASE LeaveAllMulticastGroups
    BY <1>1, <1>2, <1>3, <1>6 DEF LeaveAllMulticastGroups, Leaving, Inv, TypeInv, ClosedInv,
       GroupsAgree
<1> QED BY <1>4, <1>5, <1>6

-----------------------------------------------------------------------------

\* Every call preserves the invariant.
LEMMA InvStep == Inv /\ [Next]_vars => Inv'
<1> SUFFICES ASSUME Inv, [Next]_vars PROVE Inv'
    OBVIOUS
<1>1. CASE Create
    <2>1. UNCHANGED <<acceptignoreinfo, listed, closesocketswhendone, multicastgroups, member>>
        BY <1>1 DEF Create, groupVars
    <2>2. acceptignoreinfo' \in [IPs -> PortInfo] /\ listed' \subseteq Addresses /\ FilterInv'
        BY <2>1, SameFilter
    <2>3. ~created /\ created' /\ multiplexed' \in BOOLEAN
        BY <1>1 DEF Create, Inv, TypeInv
    <2> QED BY <2>1, <2>2, <2>3 DEF Inv, TypeInv, ClosedInv, GroupsAgree, InUse, Sockets
<1>2. CASE Destroy
    <2>1. acceptignoreinfo' \in [IPs -> PortInfo] /\ listed' \subseteq Addresses /\ FilterInv'
        BY <1>2, ForgetStep DEF Destroy, Forget
    <2> QED BY <1>2, <2>1 DEF Destroy, Closed, Inv, TypeInv, ClosedInv, GroupsAgree, socketVars
<1>3. ASSUME NEW d \in Dests, AddDestination(d) \/ DeleteDestination(d) PROVE Inv'
    BY <1>3, SameFilter, Elsewhere DEF AddDestination, DeleteDestination, filterVars
<1>4. CASE ClearDestinations
    BY <1>4, SameFilter, Elsewhere DEF ClearDestinations, filterVars
<1>5. ASSUME NEW g \in Groups, NEW fails \in SUBSET Sockets, JoinMulticastGroup(g, fails) PROVE Inv'
    BY <1>5, GroupStep
<1>6. ASSUME NEW g \in Groups, LeaveMulticastGroup(g) PROVE Inv'
    BY <1>6, GroupStep
<1>7. CASE LeaveAllMulticastGroups
    <2>1. acceptignoreinfo' \in [IPs -> PortInfo] /\ listed' \subseteq Addresses /\ FilterInv'
        BY <1>7, SameFilter DEF LeaveAllMulticastGroups, filterVars
    <2> QED BY <1>7, <2>1 DEF LeaveAllMulticastGroups, Leaving, Inv, TypeInv, ClosedInv, GroupsAgree,
            InUse, Sockets, socketVars
<1>8. ASSUME NEW m \in Modes, SetReceiveMode(m) PROVE Inv'
    <2>1. acceptignoreinfo' \in [IPs -> PortInfo] /\ listed' \subseteq Addresses /\ FilterInv'
        BY <1>8, SameFilter, ForgetStep DEF SetReceiveMode
    <2> QED BY <1>8, <2>1, Elsewhere DEF SetReceiveMode
<1>9. ASSUME NEW ip \in IPs, NEW port \in Ports \cup {0},
             \/ AddToIgnoreList(ip, port) \/ DeleteFromIgnoreList(ip, port)
             \/ AddToAcceptList(ip, port) \/ DeleteFromAcceptList(ip, port)
      PROVE  Inv'
    <2>1. TypeInv /\ FilterInv
        BY DEF Inv
    <2>2. acceptignoreinfo' \in [IPs -> PortInfo] /\ listed' \subseteq Addresses /\ FilterInv'
        BY <1>9, <2>1, AddStep, DeleteStep DEF AddToIgnoreList, DeleteFromIgnoreList,
           AddToAcceptList, DeleteFromAcceptList
    <2> QED BY <1>9, <2>2, Elsewhere DEF FilterCall, AddToIgnoreList, DeleteFromIgnoreList,
            AddToAcceptList, DeleteFromAcceptList
<1>10. CASE ClearIgnoreList \/ ClearAcceptList
    BY <1>10, ForgetStep, Elsewhere DEF ClearIgnoreList, ClearAcceptList, FilterCall
<1>11. ASSUME NEW s \in Sockets, NEW a \in Addresses, Arrive(s, a) PROVE Inv'
    BY <1>11, SameFilter, Elsewhere DEF Arrive, filterVars
<1>12. CASE Poll
    BY <1>12, SameFilter, Elsewhere DEF Poll, filterVars
<1>13. CASE GetNextPacket
    BY <1>13, SameFilter, Elsewhere DEF GetNextPacket, filterVars
<1>14. CASE UNCHANGED vars
    <2>1. acceptignoreinfo' \in [IPs -> PortInfo] /\ listed' \subseteq Addresses /\ FilterInv'
        BY <1>14, SameFilter DEF vars, filterVars
    <2> QED BY <1>14, <2>1 DEF vars, Inv, TypeInv, ClosedInv, GroupsAgree, InUse, socketVars, groupVars
<1> QED BY <1>1, <1>2, <1>3, <1>4, <1>5, <1>6, <1>7, <1>8, <1>9, <1>10, <1>11, <1>12, <1>13, <1>14
        DEF Next, FilterActions

\* The inductive invariant of the transmitter.
THEOREM InvTheorem == Spec => []Inv
BY InitInv, InvStep, PTL DEF Spec

\* The transmitter is a member of the groups it lists, on each of its sockets.
THEOREM GroupsAgreeTheorem == Spec => []GroupsAgree
<1>1. Inv => GroupsAgree
    BY DEF Inv
<1> QED BY InvTheorem, <1>1, PTL

\* The filter holds nothing that was not added or was deleted again.
THEOREM FilterTheorem == Spec => []FilterAsListed
<1>1. Inv => FilterAsListed
    BY DEF Inv, FilterInv
<1> QED BY InvTheorem, <1>1, PTL

\* Nothing of an earlier life shows after Create.
THEOREM FreshTheorem == Spec => FreshAfterCreate
<1>1. Inv /\ [Next]_vars => [~created /\ created' =>
          /\ destinations' = {} /\ multicastgroups' = {} /\ rawpacketlist' = <<>>
          /\ \A a \in Addresses :
                 ShouldAcceptData(receivemode', acceptignoreinfo', a)]_vars
    <2> SUFFICES ASSUME Inv, [Next]_vars, ~created, created'
                 PROVE  /\ destinations' = {} /\ multicastgroups' = {} /\ rawpacketlist' = <<>>
                        /\ \A a \in Addresses :
                               ShouldAcceptData(receivemode', acceptignoreinfo', a)
        OBVIOUS
    <2>1. CASE Create
        BY <2>1 DEF Create, Inv, ClosedInv, groupVars, ShouldAcceptData
    <2>2. CASE ~Create
        BY <2>2 DEF Next, Destroy, AddDestination, DeleteDestination, ClearDestinations,
           JoinMulticastGroup, LeaveMulticastGroup, LeaveAllMulticastGroups, SetReceiveMode,
           FilterActions, FilterCall, AddToIgnoreList, DeleteFromIgnoreList, AddToAcceptList,
           DeleteFromAcceptList, ClearIgnoreList, ClearAcceptList, Arrive, Poll, GetNextPacket, vars
    <2> QED BY <2>1, <2>2
<1> QED BY InvTheorem, <1>1, PTL DEF Spec, FreshAfterCreate

-----------------------------------------------------------------------------
(* The types of the variables the invariant above does not speak of.       *)

\* A set of numbers that is not empty has a smallest one.
LEMMA Smallest ==
    ASSUME NEW T, T \subseteq Nat, T # {}
    PROVE  \E x \in T : \A y \in T : ~(y < x)
<1>1. \E x \in T : \A y \in T : ~(<<y, x>> \in OpToRel(<, Nat))
    BY NatLessThanWellFounded, WFMin, Zenon
<1>2. \A x, y \in Nat : y < x => <<y, x>> \in OpToRel(<, Nat)
    BY DEF OpToRel
<1> QED BY <1>1, <1>2

\* A set that holds 0 and the successors of its numbers holds all of them.
LEMMA SetInduction ==
    ASSUME NEW S, 0 \in S, \A n \in Nat : n \in S => n + 1 \in S
    PROVE  Nat \subseteq S
<1> SUFFICES ASSUME Nat \ S # {} PROVE FALSE
    OBVIOUS
<1>1. PICK x \in Nat \ S : \A y \in Nat \ S : ~(y < x)
    <2>1. Nat \ S \subseteq Nat
        OBVIOUS
    <2> QED BY <2>1, Smallest, Zenon
<1>2. x \in Nat /\ x # 0 /\ x - 1 \in Nat /\ x - 1 < x /\ (x - 1) + 1 = x
    BY <1>1
<1>3. x - 1 \in S
    BY <1>1, <1>2
<1> QED BY <1>1, <1>2, <1>3

\* What the filter lets through of the first k senders, up to the n-th.
Through(h, a) ==
    IF ShouldAcceptData(receivemode, acceptignoreinfo, a) THEN Append(h, a) ELSE h
IsThrough(g, senders, n) ==
    g = [k \in 0 .. n |-> IF k = 0 THEN <<>> ELSE Through(g[k - 1], senders[k])]

\* There is such a list for every number of senders, with senders only.
LEMMA ThroughExists ==
    ASSUME NEW senders \in Seq(Addresses), NEW n \in 0 .. Len(senders)
    PROVE  /\ \E g : IsThrough(g, senders, n)
           /\ \A g : IsThrough(g, senders, n) => g[n] \in Seq(Addresses)
<1> DEFINE T == {m \in Nat : m <= Len(senders) =>
                    /\ \E g : IsThrough(g, senders, m)
                    /\ \A g : IsThrough(g, senders, m) => g[m] \in Seq(Addresses)}
<1>1. 0 \in T
    <2>1. IsThrough([k \in 0 .. 0 |-> <<>>], senders, 0)
        BY DEF IsThrough
    <2>2. \A g : IsThrough(g, senders, 0) => g[0] \in Seq(Addresses)
        BY DEF IsThrough
    <2> QED BY <2>1, <2>2
<1>2. ASSUME NEW m \in Nat, m \in T PROVE m + 1 \in T
    <2> SUFFICES ASSUME m + 1 <= Len(senders)
                 PROVE  /\ \E g : IsThrough(g, senders, m + 1)
                        /\ \A g : IsThrough(g, senders, m + 1) => g[m + 1] \in Seq(Addresses)
        OBVIOUS
    <2>1. m <= Len(senders) /\ m + 1 \in 1 .. Len(senders)
        OBVIOUS
    <2>2. /\ \E g : IsThrough(g, senders, m)
          /\ \A g : IsThrough(g, senders, m) => g[m] \in Seq(Addresses)
        BY <1>2, <2>1
    <2>3. \E g : IsThrough(g, senders, m + 1)
        <3>1. PICK g : IsThrough(g, senders, m)
            BY <2>2
        <3> DEFINE h == [k \in 0 .. (m + 1) |->
                            IF k = 0 THEN <<>> ELSE Through(g[k - 1], senders[k])]
        <3>2. \A k \in 0 .. m : h[k] = g[k]
            BY <3>1 DEF IsThrough
        <3>3. \A k \in 0 .. (m + 1) : k # 0 => h[k - 1] = g[k - 1]
            <4>1. \A k \in 0 .. (m + 1) : k # 0 => k - 1 \in 0 .. m
                OBVIOUS
            <4> HIDE DEF h
            <4> QED BY <3>2, <4>1
        <3>4. IsThrough(h, senders, m + 1)
            BY <3>3 DEF IsThrough
        <3> QED BY <3>4
    <2>4. ASSUME NEW g, IsThrough(g, senders, m + 1) PROVE g[m + 1] \in Seq(Addresses)
        <3> DEFINE h == [k \in 0 .. m |-> g[k]]
        <3>1. /\ \A k \in 0 .. (m + 1) :
                    g[k] = IF k = 0 THEN <<>> ELSE Through(g[k - 1], senders[k])
              /\ \A k \in 0 .. m : k \in 0 .. (m + 1)
              /\ \A k \in 0 .. m : k # 0 => k - 1 \in 0 .. m
              /\ m \in 0 .. m /\ m + 1 \in 0 .. (m + 1) /\ (m + 1) - 1 = m /\ m + 1 # 0
            BY <2>4 DEF IsThrough
        <3>2. IsThrough(h, senders, m)
            BY <3>1 DEF IsThrough
        <3>3. g[m] \in Seq(Addresses)
            <4>1. h[m] = g[m]
                BY <3>1
            <4> HIDE DEF h
            <4> QED BY <2>2, <3>2, <4>1
        <3>4. g[m + 1] = Through(g[m], senders[m + 1]) /\ senders[m + 1] \in Addresses
            BY <2>1, <3>1
        <3> QED BY <3>3, <3>4 DEF Through
    <2> QED BY <2>3, <2>4
<1>3. Nat \subseteq T
    <2> HIDE DEF T
    <2> QED BY <1>1, <1>2, SetInduction
<1> QED BY <1>3

\* What a socket yields is a sequence of packets.
LEMMA PollSocketType ==
    ASSUME arrived \in [Sockets -> Seq(Addresses)], NEW s \in Sockets
    PROVE  PollSocket(s) \in Seq(Packets)
<1> DEFINE senders == arrived[s]
           g == CHOOSE f : IsThrough(f, senders, Len(senders))
           taken == LetThrough(senders)
<1>1. senders \in Seq(Addresses) /\ Len(senders) \in 0 .. Len(senders)
    OBVIOUS
<1>2. taken = g[Len(senders)]
    BY DEF LetThrough, IsThrough, Through
<1>3. taken \in Seq(Addresses)
    <2>1. IsThrough(g, senders, Len(senders))
        BY <1>1, ThroughExists
    <2> QED BY <1>1, <1>2, <2>1, ThroughExists
<1>4. PollSocket(s) = [i \in DOMAIN taken |-> [socket |-> s, from |-> taken[i]]]
    BY DEF PollSocket
<1> HIDE DEF taken
<1>5. \A i \in 1 .. Len(taken) : [socket |-> s, from |-> taken[i]] \in Packets
    BY <1>3 DEF Packets
<1> QED BY <1>3, <1>4, <1>5

\* What Inv leaves out of TypeOK.
RestTyped ==
    /\ created \in BOOLEAN /\ destinations \subseteq Dests /\ receivemode \in Modes
    /\ rawpacketlist \in Seq(Packets)
    /\ arrived \in [Sockets -> Seq(Addresses)]

\* Every call keeps it.
LEMMA RestStep ==
    ASSUME Inv, RestTyped, [Next]_vars
    PROVE  RestTyped'
<1>1. CASE Create \/ Destroy
    <2>1. CASE Create
        BY <2>1 DEF RestTyped, Create, Modes
    <2>2. CASE Destroy
        <3>1. <<>> \in Seq(Packets) /\ <<>> \in Seq(Addresses)
            OBVIOUS
        <3>2. arrived' \in [Sockets -> Seq(Addresses)]
            BY <2>2, <3>1 DEF RestTyped, Destroy, Closed
        <3> QED BY <2>2, <3>1, <3>2 DEF RestTyped, Destroy
    <2> QED BY <1>1, <2>1, <2>2
<1>2. ASSUME NEW d \in Dests, AddDestination(d) \/ DeleteDestination(d) PROVE RestTyped'
    BY <1>2 DEF RestTyped, AddDestination, DeleteDestination, filterVars
<1>3. CASE ClearDestinations
    BY <1>3 DEF RestTyped, ClearDestinations, filterVars
<1>4. ASSUME NEW g \in Groups, NEW fails \in SUBSET Sockets,
             JoinMulticastGroup(g, fails) \/ LeaveMulticastGroup(g) \/ LeaveAllMulticastGroups
      PROVE  RestTyped'
    BY <1>4 DEF RestTyped, JoinMulticastGroup, LeaveMulticastGroup, LeaveAllMulticastGroups,
       filterVars
<1>5. ASSUME NEW m \in Modes, SetReceiveMode(m) PROVE RestTyped'
    BY <1>5 DEF RestTyped, SetReceiveMode
<1>6. CASE FilterActions \/ ClearIgnoreList \/ ClearAcceptList
    BY <1>6 DEF RestTyped, FilterActions, FilterCall, AddToIgnoreList, DeleteFromIgnoreList,
       AddToAcceptList, DeleteFromAcceptList, ClearIgnoreList, ClearAcceptList
<1>7. ASSUME NEW s \in Sockets, NEW a \in Addresses, Arrive(s, a) PROVE RestTyped'
    BY <1>7 DEF RestTyped, Arrive, filterVars
<1>8. CASE Poll
    <2>1. PollSocket("rtp") \in Seq(Packets) /\ PollSocket("rtcp") \in Seq(Packets)
        BY PollSocketType DEF RestTyped, Sockets
    <2>2. rawpacketlist' \in Seq(Packets)
        BY <1>8, <2>1 DEF RestTyped, Poll
    <2>3. arrived' \in [Sockets -> Seq(Addresses)]
        BY <1>8 DEF RestTyped, Poll
    <2> QED BY <1>8, <2>2, <2>3 DEF RestTyped, Poll, filterVars
<1>9. CASE GetNextPacket
    BY <1>9 DEF RestTyped, GetNextPacket, filterVars
<1>10. CASE UNCHANGED vars
    BY <1>10 DEF RestTyped, vars, filterVars
<1> QED
    <2>1. CASE LeaveAllMulticastGroups
        BY <2>1 DEF RestTyped, LeaveAllMulticastGroups, filterVars
    <2>2. ASSUME NEW g \in Groups, LeaveMulticastGroup(g) PROVE RestTyped'
        BY <2>2, <1>4
    <2> QED BY <1>1, <1>2, <1>3, <1>4, <1>5, <1>6, <1>7, <1>8, <1>9, <1>10, <2>1, <2>2 DEF Next

\* Every variable keeps its type: the calls and the network leave nothing in
\* the lists, the filter or the sockets that is no packet, port or group.
THEOREM TypeCorrect == Spec => []TypeOK
<1>1. Init => RestTyped
    <2>1. <<>> \in Seq(Packets) /\ <<>> \in Seq(Addresses)
        OBVIOUS
    <2> QED BY <2>1 DEF Init, RestTyped, Modes
<1>2. Inv /\ RestTyped => TypeOK
    BY DEF Inv, TypeInv, RestTyped, TypeOK
<1> QED BY InvTheorem, RestStep, <1>1, <1>2, PTL DEF Spec
=============================================================================
