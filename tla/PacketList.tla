----------------------------- MODULE PacketList -----------------------------
(***************************************************************************)
(* _videoPacketList of src/ffmpeg/examples/screenout/Player.cpp: a         *)
(* std::list that the player thread fills and the video thread empties     *)
(* with no lock.  The operations are those of libstdc++ (a circular chain  *)
(* of nodes through a head inside the list object, and an element count),  *)
(* one load or store to shared memory per step, as the -O0 build on x86    *)
(* executes them.  AvPlayer has the whole player around the same list.     *)
(***************************************************************************)
EXTENDS Integers, Sequences

CONSTANT MaxPackets     \* bound: the video packets of the file

VARIABLES
    next, prev,     \* the links of the head and of the nodes
    count,          \* the element count that size() returns
    ppc, pnode, pload,          \* player thread: push_back, then the wait
    vpc, vnode, vload,          \* video thread: size, front, pop_front
    taken,          \* history: the packets front() has copied
    quit            \* _quit

pVars == <<ppc, pnode, pload, quit>>
vVars == <<vpc, vnode, vload, taken>>
vars == <<next, prev, count, pVars, vVars>>

ListHead == -1
Packets == 0 .. MaxPackets - 1
Nodes == Packets \cup {ListHead}

Init ==
    /\ next = [n \in Nodes |-> ListHead]
    /\ prev = [n \in Nodes |-> ListHead]
    /\ count = 0
    /\ ppc = "hookSelf" /\ pnode = 0 /\ pload = 0 /\ quit = FALSE
    /\ vpc = "size" /\ vnode = ListHead /\ vload = 0 /\ taken = <<>>

-----------------------------------------------------------------------------
(* push_back: a new node is hooked in before the head, then counted.       *)

HookSelf ==
    /\ ppc = "hookSelf" /\ pnode \in Packets
    /\ next' = [next EXCEPT ![pnode] = ListHead]
    /\ prev' = [prev EXCEPT ![pnode] = prev[ListHead]]
    /\ ppc' = "hookLast"
    /\ UNCHANGED <<vVars, count, pnode, pload, quit>>

HookLast ==
    /\ ppc = "hookLast"
    /\ next' = [next EXCEPT ![prev[ListHead]] = pnode]
    /\ ppc' = "hookHead"
    /\ UNCHANGED <<vVars, prev, count, pnode, pload, quit>>

HookHead ==
    /\ ppc = "hookHead"
    /\ prev' = [prev EXCEPT ![ListHead] = pnode]
    /\ ppc' = "incLoad"
    /\ UNCHANGED <<vVars, next, count, pnode, pload, quit>>

IncLoad ==
    /\ ppc = "incLoad"
    /\ pload' = count
    /\ ppc' = "incStore"
    /\ UNCHANGED <<vVars, next, prev, count, pnode, quit>>

IncStore ==
    /\ ppc = "incStore"
    /\ count' = pload + 1
    /\ pnode' = pnode + 1
    /\ ppc' = "hookSelf"
    /\ UNCHANGED <<vVars, next, prev, pload, quit>>

\* The file is read: playerThread waits for size() to be 0 and quits (the
\* audio half of its test is left to AvPlayer).
WaitAndQuit ==
    /\ ppc = "hookSelf" /\ pnode = MaxPackets
    /\ count = 0
    /\ quit' = TRUE
    /\ ppc' = "exited"
    /\ UNCHANGED <<vVars, next, prev, count, pnode, pload>>

-----------------------------------------------------------------------------
(* The video thread: if (size()) { pkt = front(); pop_front(); ... }       *)

TestSize ==
    /\ vpc = "size" /\ ~quit /\ count # 0
    /\ vpc' = "front"
    /\ UNCHANGED <<pVars, next, prev, count, vnode, vload, taken>>

\* front() copies the packet of the node after the head.  On an empty chain
\* that is the head itself: what follows is undefined and not modelled.
Front ==
    /\ vpc = "front"
    /\ IF next[ListHead] = ListHead
       THEN vpc' = "undefined" /\ UNCHANGED taken
       ELSE vpc' = "begin" /\ taken' = Append(taken, next[ListHead])
    /\ UNCHANGED <<pVars, next, prev, count, vnode, vload>>

\* pop_front(): erase(begin()) counts down and unhooks the node.
Begin ==
    /\ vpc = "begin"
    /\ vnode' = next[ListHead]
    /\ vpc' = "decLoad"
    /\ UNCHANGED <<pVars, next, prev, count, vload, taken>>

DecLoad ==
    /\ vpc = "decLoad"
    /\ vload' = count
    /\ vpc' = "decStore"
    /\ UNCHANGED <<pVars, next, prev, count, vnode, taken>>

DecStore ==
    /\ vpc = "decStore"
    /\ count' = vload - 1
    /\ vpc' = "unhook"
    /\ UNCHANGED <<pVars, next, prev, vnode, vload, taken>>

UnhookNext ==
    /\ vpc = "unhook"
    /\ next' = [next EXCEPT ![prev[vnode]] = next[vnode]]
    /\ vpc' = "unhookPrev"
    /\ UNCHANGED <<pVars, prev, count, vnode, vload, taken>>

UnhookPrev ==
    /\ vpc = "unhookPrev"
    /\ prev' = [prev EXCEPT ![next[vnode]] = prev[vnode]]
    /\ vpc' = "size"
    /\ UNCHANGED <<pVars, next, count, vnode, vload, taken>>

-----------------------------------------------------------------------------
Player == HookSelf \/ HookLast \/ HookHead \/ IncLoad \/ IncStore \/ WaitAndQuit
Video == \/ TestSize \/ Front \/ Begin \/ DecLoad \/ DecStore
         \/ UnhookNext \/ UnhookPrev

Next == Player \/ Video
Spec == Init /\ [][Next]_vars

-----------------------------------------------------------------------------
\* Player.cpp:512, "wait until all video/audio frames are processed": when the
\* wait has ended, front() has delivered every packet that was pushed.
NothingStranded == quit => Len(taken) = MaxPackets
=============================================================================
