--------------------------- MODULE AvPlayerProofs ---------------------------
(***************************************************************************)
(* Proofs about the four threads of the player, for files and queues of    *)
(* any size: the type invariant with the bounds of the queues, the order   *)
(* of packets and pictures, what has drained when quit is requested, and   *)
(* that the four threads are never all waiting before the end.             *)
(*                                                                         *)
(* Order is a matter of counting: CountInv and Order say where every       *)
(* packet, every picture and every byte of audio is.  ListInv is about the *)
(* unlocked std::list: how far the element count may be from the length of *)
(* the chain while both threads are inside it, and that the video thread   *)
(* never counts down from 0, even after an update was lost.  The wait at   *)
(* the end tests the count before the audio; WaitInv says why the first    *)
(* answer is still true when the second is given.  StartInv says that      *)
(* play() starts a thread only once.                                       *)
(***************************************************************************)
EXTENDS AvPlayer, TLAPS

\* Where the packets, the pictures and the bytes of audio are.
CountInv ==
    /\ npackets + file <= MaxPackets
    /\ nframes = Len(shown) + Len(vpq) + (IF vpc = "push" THEN 1 ELSE 0)
    /\ naudio = played + aqueue + (IF ppc = "put" THEN psize ELSE 0)
    /\ ppc = "put" => psize \in FrameSizes

\* InOrder, which holds of the variables also when the chain is given up.
Order ==
    /\ \A i \in 1 .. Len(list) : list[i] = ndecoded + Unlinked + i - 1
    /\ vpkt # NoPacket => vpkt = ndecoded
    /\ npackets = ndecoded + Unlinked + Len(list) + (IF ppc = "hook" THEN 1 ELSE 0)
    /\ \A i \in 1 .. Len(shown) : shown[i] = i - 1
    /\ \A i \in 1 .. Len(vpq) : vpq[i] = Len(shown) + i - 1

\* The count and the chain, and the video thread's way through pop_front().
ListInv ==
    /\ vpc \in {"front", "decLoad", "decStore"} => count > 0
    /\ vpc = "decStore" => vload > 0
    /\ vpkt = NoPacket <=> vpc \notin {"decLoad", "decStore", "unhook", "decode", "push"}
    /\ vpc \in {"decLoad", "decStore", "unhook"} => list # <<>>
    /\ ~clobbered => Len(list) = count + (IF ppc \in {"incLoad", "incStore"} THEN 1 ELSE 0)
                                       + (IF vpc = "unhook" THEN 1 ELSE 0)

StartInv ==
    /\ mpc # "display" => ppc = "unborn"
    /\ mpc \in {"openAudio", "startVideo"} => vpc = "unborn"

WaitInv ==
    /\ ppc \in {"waitAudio", "requestQuit", "exited"} => count = 0
    /\ ppc \in {"requestQuit", "exited"} => aqueue = 0
    /\ quit => ppc = "exited"

Inv == TypeOK /\ StartInv /\ CountInv /\ Order /\ ListInv /\ WaitInv

-----------------------------------------------------------------------------
(* Facts about the constants and about sequences.                          *)

\* The bounds are natural numbers.
LEMMA Bounds ==
    /\ MaxPackets \in Nat /\ MaxFrames \in Nat /\ MaxAudio \in Nat
    /\ DeviceLen \in Nat /\ DeviceLen > 0 /\ AudioSize \in Nat /\ VpqSize \in Nat
    /\ AudioSize > 0 /\ VpqSize > 0
    /\ \A n \in FrameSizes : n \in Nat /\ n > 0
<1>1. /\ MaxPackets \in Nat /\ MaxFrames \in Nat /\ MaxAudio \in Nat
      /\ DeviceLen \in Nat \ {0} /\ AudioSize \in Nat \ {0} /\ VpqSize \in Nat \ {0}
      /\ \A n \in FrameSizes : n \in Nat \ {0}
    BY Zenon, PlayerAssumption DEF PlayerAssumption
<1> QED BY <1>1

\* What taking the first element of a sequence yields and leaves.
LEMMA HeadTail ==
    ASSUME NEW S, NEW s \in Seq(S), s # <<>>
    PROVE  /\ Len(s) \in Nat /\ Len(s) > 0 /\ Head(s) = s[1] /\ Head(s) \in S
           /\ Tail(s) \in Seq(S) /\ Len(Tail(s)) = Len(s) - 1
           /\ \A i \in 1 .. Len(s) - 1 : Tail(s)[i] = s[i + 1]
    OBVIOUS

\* What adding an element at the end yields.
LEMMA Appended ==
    ASSUME NEW S, NEW s \in Seq(S), NEW e \in S
    PROVE  /\ Len(s) \in Nat /\ Append(s, e) \in Seq(S) /\ Len(Append(s, e)) = Len(s) + 1
           /\ \A i \in 1 .. Len(s) : Append(s, e)[i] = s[i]
           /\ Append(s, e)[Len(s) + 1] = e
    OBVIOUS

-----------------------------------------------------------------------------

\* The initial state satisfies the invariant.
LEMMA InitInv == Init => Inv
<1> SUFFICES ASSUME Init PROVE Inv
    OBVIOUS
<1>1. TypeOK
    <2>1. /\ list \in Seq(0 .. MaxPackets - 1) /\ vpq \in Seq(0 .. MaxFrames - 1)
          /\ shown \in Seq(0 .. MaxFrames - 1) /\ Len(vpq) = 0
        BY DEF Init
    <2>2. /\ Len(vpq) <= VpqSize
          /\ file \in 0 .. MaxPackets /\ npackets \in 0 .. MaxPackets /\ naudio \in 0 .. MaxAudio
          /\ ndecoded \in 0 .. MaxPackets /\ nframes \in 0 .. MaxFrames
          /\ aqueue \in 0 .. AudioSize /\ played \in Nat
        BY <2>1, Bounds DEF Init
    <2>3. psize \in FrameSizes \cup {0} /\ vpkt \in 0 .. MaxPackets - 1 \cup {NoPacket}
        BY DEF Init
    <2> QED BY <2>1, <2>2, <2>3 DEF Init, TypeOK
<1>2. CountInv
    BY Bounds DEF Init, CountInv
<1>3. Order
    BY DEF Init, Order, Unlinked, NoPacket
<1>4. ListInv
    BY DEF Init, ListInv, NoPacket
<1>5. WaitInv
    BY DEF Init, WaitInv
<1>6. StartInv
    BY DEF Init, StartInv
<1> QED BY <1>1, <1>2, <1>3, <1>4, <1>5, <1>6 DEF Inv

\* The main thread starts the others and moves pictures to the screen.
LEMMA MainStep == Inv /\ Main => Inv'
<1> SUFFICES ASSUME Inv, Main PROVE Inv'
    OBVIOUS
<1>a. TypeOK /\ StartInv /\ CountInv /\ Order /\ ListInv /\ WaitInv
    BY DEF Inv
<1>1. CASE OpenAudio
    <2>1. TypeOK'
        BY <1>a, <1>1
        DEF TypeOK, OpenAudio, playerVars, videoVars, listVars, countVars
    <2>2. CountInv'
        BY <1>a, <1>1
        DEF CountInv, OpenAudio, playerVars, videoVars, listVars, countVars
    <2>3. Order'
        BY <1>a, <1>1
        DEF Order, Unlinked, OpenAudio, playerVars, videoVars, listVars, countVars
    <2>4. ListInv'
        BY <1>a, <1>1
        DEF ListInv, OpenAudio, playerVars, videoVars, listVars, countVars
    <2>5. WaitInv'
        BY <1>a, <1>1
        DEF WaitInv, OpenAudio, playerVars, videoVars, listVars, countVars
    <2>6. StartInv'
        BY <1>a, <1>1
        DEF StartInv, OpenAudio, playerVars, videoVars, listVars, countVars
    <2> QED BY <2>1, <2>2, <2>3, <2>4, <2>5, <2>6 DEF Inv
<1>2. CASE StartVideoThread
    <2>1. TypeOK'
        BY <1>a, <1>2
        DEF TypeOK, StartVideoThread, playerVars, videoVars, listVars, countVars
    <2>2. CountInv'
        BY <1>a, <1>2
        DEF CountInv, StartInv, StartVideoThread, playerVars, videoVars, listVars, countVars
    <2>3. Order'
        BY <1>a, <1>2
        DEF Order, Unlinked, StartInv, StartVideoThread, playerVars, videoVars, listVars, countVars
    <2>4. ListInv'
        BY <1>a, <1>2
        DEF ListInv, StartInv, StartVideoThread, playerVars, videoVars, listVars, countVars
    <2>5. WaitInv'
        BY <1>a, <1>2
        DEF WaitInv, StartVideoThread, playerVars, videoVars, listVars, countVars
    <2>6. StartInv'
        BY <1>a, <1>2
        DEF StartInv, StartVideoThread, playerVars, videoVars, listVars, countVars
    <2> QED BY <2>1, <2>2, <2>3, <2>4, <2>5, <2>6 DEF Inv
<1>3. CASE StartPlayerThread
    <2>1. TypeOK'
        BY <1>a, <1>3
        DEF TypeOK, StartPlayerThread, playerVars, videoVars, listVars, countVars
    <2>2. CountInv'
        BY <1>a, <1>3
        DEF CountInv, StartInv, StartPlayerThread, playerVars, videoVars, listVars, countVars
    <2>3. Order'
        BY <1>a, <1>3
        DEF Order, Unlinked, StartInv, StartPlayerThread, playerVars, videoVars, listVars, countVars
    <2>4. ListInv'
        BY <1>a, <1>3
        DEF ListInv, StartInv, StartPlayerThread, playerVars, videoVars, listVars, countVars
    <2>5. WaitInv'
        BY <1>a, <1>3
        DEF WaitInv, StartInv, StartPlayerThread, playerVars, videoVars, listVars, countVars
    <2>6. StartInv'
        BY <1>a, <1>3
        DEF StartInv, StartPlayerThread, playerVars, videoVars, listVars, countVars
    <2> QED BY <2>1, <2>2, <2>3, <2>4, <2>5, <2>6 DEF Inv
<1>4. CASE DisplayVideo
    <2>1. /\ vpq \in Seq(0 .. MaxFrames - 1) /\ shown \in Seq(0 .. MaxFrames - 1)
          /\ Len(vpq) <= VpqSize
        BY <1>a DEF TypeOK
    <2>2. /\ shown' = Append(shown, Head(vpq)) /\ vpq' = Tail(vpq) /\ vpq # <<>>
          /\ UNCHANGED <<quit, mpc, playerVars, listVars, videoVars, apc, aqueue, played>>
        BY <1>4 DEF DisplayVideo
    <2>3. /\ Len(vpq) \in Nat /\ Len(vpq) > 0 /\ Head(vpq) = vpq[1] /\ Head(vpq) \in 0 .. MaxFrames - 1
          /\ vpq' \in Seq(0 .. MaxFrames - 1) /\ Len(vpq') = Len(vpq) - 1
          /\ \A i \in 1 .. Len(vpq) - 1 : vpq'[i] = vpq[i + 1]
        BY <2>1, <2>2, HeadTail
    <2>4. /\ Len(shown) \in Nat /\ shown' \in Seq(0 .. MaxFrames - 1) /\ Len(shown') = Len(shown) + 1
          /\ \A i \in 1 .. Len(shown) : shown'[i] = shown[i]
          /\ shown'[Len(shown) + 1] = Head(vpq)
        BY <2>1, <2>2, <2>3, Appended
    <2>5. /\ \A i \in 1 .. Len(shown) : shown[i] = i - 1
          /\ \A i \in 1 .. Len(vpq) : vpq[i] = Len(shown) + i - 1
        BY <1>a DEF Order
    <2>6. \A i \in 1 .. Len(shown') : shown'[i] = i - 1
        <3> SUFFICES ASSUME NEW i \in 1 .. Len(shown') PROVE shown'[i] = i - 1
            OBVIOUS
        <3>1. CASE i \in 1 .. Len(shown) BY <3>1, <2>4, <2>5
        <3>2. CASE i = Len(shown) + 1 BY <3>2, <2>3, <2>4, <2>5
        <3> QED BY <3>1, <3>2, <2>4
    <2>7. \A i \in 1 .. Len(vpq') : vpq'[i] = Len(shown') + i - 1
        BY <2>3, <2>4, <2>5
    <2>8. TypeOK'
        BY <1>a, <2>1, <2>2, <2>3, <2>4, Bounds DEF TypeOK, playerVars, videoVars, listVars, countVars
    <2>9. CountInv'
        BY <1>a, <2>2, <2>3, <2>4 DEF CountInv, TypeOK, playerVars, videoVars, listVars, countVars
    <2>10. Order'
        BY <1>a, <2>2, <2>6, <2>7 DEF Order, Unlinked, playerVars, videoVars, listVars, countVars
    <2>11. ListInv'
        BY <1>a, <2>2 DEF ListInv, playerVars, videoVars, listVars, countVars
    <2>12. WaitInv'
        BY <1>a, <2>2 DEF WaitInv, playerVars, videoVars, listVars, countVars
    <2>13. StartInv'
        BY <1>a, <2>2 DEF StartInv, playerVars, videoVars, listVars, countVars
    <2> QED BY <2>8, <2>9, <2>10, <2>11, <2>12, <2>13 DEF Inv
<1> QED BY <1>1, <1>2, <1>3, <1>4 DEF Main

\* The player thread reads, fills the list and the audio queue, and waits.
LEMMA PlayerStep == Inv /\ Player => Inv'
<1> SUFFICES ASSUME Inv, Player PROVE Inv'
    OBVIOUS
<1>a. TypeOK /\ StartInv /\ CountInv /\ Order /\ ListInv /\ WaitInv
    BY DEF Inv
<1>1. CASE ReadVideoPacket
    <2>1. TypeOK'
        BY <1>a, <1>1, Bounds
        DEF TypeOK, CountInv, ReadVideoPacket, playerVars, videoVars, listVars, countVars
    <2>2. CountInv'
        BY <1>a, <1>1, Bounds
        DEF CountInv, TypeOK, ReadVideoPacket, playerVars, videoVars, listVars, countVars
    <2>3. Order'
        BY <1>a, <1>1, Bounds
        DEF Order, Unlinked, TypeOK, ReadVideoPacket, playerVars, videoVars, listVars, countVars
    <2>4. ListInv'
        BY <1>a, <1>1
        DEF ListInv, ReadVideoPacket, playerVars, videoVars, listVars, countVars
    <2>5. WaitInv'
        BY <1>a, <1>1
        DEF WaitInv, ReadVideoPacket, playerVars, videoVars, listVars, countVars
    <2>6. StartInv'
        BY <1>a, <1>1
        DEF StartInv, ReadVideoPacket, playerVars, videoVars, listVars, countVars
    <2> QED BY <2>1, <2>2, <2>3, <2>4, <2>5, <2>6 DEF Inv
<1>2. CASE Hook
    <2>1. /\ list \in Seq(0 .. MaxPackets - 1) /\ npackets \in 0 .. MaxPackets /\ ndecoded \in Nat
          /\ Unlinked \in Nat /\ Len(list) \in Nat /\ count \in Nat
        BY <1>a, Bounds DEF TypeOK, Unlinked
    <2>2. /\ ppc = "hook" /\ list' = Append(list, npackets - 1) /\ broken' \in {FALSE, Overlap}
          /\ ppc' = "incLoad"
          /\ UNCHANGED <<quit, mpc, psize, file, npackets, naudio, countVars, videoVars,
                         vpq, shown, apc, aqueue, played>>
        BY <1>2 DEF Hook
    <2>3. npackets = ndecoded + Unlinked + Len(list) + 1 /\ Unlinked' = Unlinked
        BY <1>a, <2>2 DEF Order, Unlinked, videoVars
    <2>4. npackets - 1 \in 0 .. MaxPackets - 1
        BY <2>1, <2>3, Bounds
    <2>5. /\ list' \in Seq(0 .. MaxPackets - 1) /\ Len(list') = Len(list) + 1
          /\ \A i \in 1 .. Len(list) : list'[i] = list[i]
          /\ list'[Len(list) + 1] = npackets - 1
        BY <2>1, <2>2, <2>4, Appended
    <2>6. \A i \in 1 .. Len(list') : list'[i] = ndecoded + Unlinked + i - 1
        <3> SUFFICES ASSUME NEW i \in 1 .. Len(list')
                     PROVE  list'[i] = ndecoded + Unlinked + i - 1
            OBVIOUS
        <3>1. CASE i \in 1 .. Len(list) BY <3>1, <1>a, <2>5 DEF Order
        <3>2. CASE i = Len(list) + 1 BY <3>2, <2>1, <2>3, <2>5
        <3> QED BY <3>1, <3>2, <2>1, <2>5
    <2>7. TypeOK'
        <3>1. broken' \in BOOLEAN
            BY <2>2 DEF Overlap
        <3> QED BY <1>a, <2>2, <2>5, <3>1 DEF TypeOK, videoVars, countVars
    <2>8. CountInv'
        BY <1>a, <2>2 DEF CountInv, videoVars
    <2>9. Order'
        BY <1>a, <2>1, <2>2, <2>3, <2>5, <2>6 DEF Order, videoVars
    <2>10. ListInv'
        <3>1. UNCHANGED <<vpc, vpkt, count, vload, clobbered>>
            BY <2>2 DEF videoVars, countVars
        <3>2. ~clobbered' => Len(list') = count'
                  + (IF ppc' \in {"incLoad", "incStore"} THEN 1 ELSE 0)
                  + (IF vpc' = "unhook" THEN 1 ELSE 0)
            BY <1>a, <2>1, <2>2, <2>5, <3>1 DEF ListInv
        <3>3. /\ list' # <<>>
              /\ vpc' \in {"front", "decLoad", "decStore"} => count' > 0
              /\ vpc' = "decStore" => vload' > 0
              /\ vpkt' = NoPacket
                    <=> vpc' \notin {"decLoad", "decStore", "unhook", "decode", "push"}
            BY <1>a, <2>1, <2>5, <3>1 DEF ListInv
        <3> QED BY <3>2, <3>3 DEF ListInv
    <2>11. WaitInv'
        BY <1>a, <2>2 DEF WaitInv, countVars
    <2>12. StartInv'
        BY <1>a, <2>2 DEF StartInv, videoVars
    <2> QED BY <2>7, <2>8, <2>9, <2>10, <2>11, <2>12 DEF Inv
<1>3. CASE IncLoad
    <2>1. TypeOK'
        BY <1>a, <1>3, Bounds
        DEF TypeOK, IncLoad, playerVars, videoVars, listVars, countVars
    <2>2. CountInv'
        BY <1>a, <1>3
        DEF CountInv, IncLoad, playerVars, videoVars, listVars, countVars
    <2>3. Order'
        BY <1>a, <1>3
        DEF Order, Unlinked, IncLoad, playerVars, videoVars, listVars, countVars
    <2>4. ListInv'
        BY <1>a, <1>3
        DEF ListInv, IncLoad, playerVars, videoVars, listVars, countVars
    <2>5. WaitInv'
        BY <1>a, <1>3
        DEF WaitInv, IncLoad, playerVars, videoVars, listVars, countVars
    <2>6. StartInv'
        BY <1>a, <1>3
        DEF StartInv, IncLoad, playerVars, videoVars, listVars, countVars
    <2> QED BY <2>1, <2>2, <2>3, <2>4, <2>5, <2>6 DEF Inv
<1>4. CASE IncStore
    <2>1. TypeOK'
        BY <1>a, <1>4, Bounds
        DEF TypeOK, IncStore, playerVars, videoVars, listVars, countVars
    <2>2. CountInv'
        BY <1>a, <1>4
        DEF CountInv, IncStore, playerVars, videoVars, listVars, countVars
    <2>3. Order'
        BY <1>a, <1>4
        DEF Order, Unlinked, IncStore, playerVars, videoVars, listVars, countVars
    <2>4. ListInv'
        <3>1. ASSUME ~clobbered'
              PROVE  Len(list') = count' + (IF ppc' \in {"incLoad", "incStore"} THEN 1 ELSE 0)
                                         + (IF vpc' = "unhook" THEN 1 ELSE 0)
            <4>1. ~clobbered /\ count = pload
                BY <1>4, <3>1, Zenon DEF IncStore
            <4> QED BY <1>a, <1>4, <4>1 DEF ListInv, TypeOK, IncStore, videoVars
        <3>2. ppc' = "read" /\ count' > 0 /\ UNCHANGED <<list, vload, videoVars>>
            BY <1>a, <1>4 DEF TypeOK, IncStore
        <3>3. UNCHANGED <<list, vload, vpc, vpkt>> /\ ppc' \notin {"incLoad", "incStore"}
            BY <3>2 DEF videoVars
        <3>4. /\ vpc' \in {"front", "decLoad", "decStore"} => count' > 0
              /\ vpc' = "decStore" => vload' > 0
              /\ vpkt' = NoPacket <=> vpc' \notin {"decLoad", "decStore", "unhook", "decode", "push"}
              /\ vpc' \in {"decLoad", "decStore", "unhook"} => list' # <<>>
            BY <1>a, <3>2, <3>3 DEF ListInv
        <3> QED BY <3>1, <3>3, <3>4 DEF ListInv
    <2>5. WaitInv'
        BY <1>a, <1>4
        DEF WaitInv, IncStore, playerVars, videoVars, listVars, countVars
    <2>6. StartInv'
        BY <1>a, <1>4
        DEF StartInv, IncStore, playerVars, videoVars, listVars, countVars
    <2> QED BY <2>1, <2>2, <2>3, <2>4, <2>5, <2>6 DEF Inv
<1>5. CASE ReadAudioPacket
    <2>1. TypeOK'
        BY <1>a, <1>5, Bounds
        DEF TypeOK, ReadAudioPacket, playerVars, videoVars, listVars, countVars
    <2>2. CountInv'
        BY <1>a, <1>5, Bounds
        DEF CountInv, TypeOK, ReadAudioPacket, playerVars, videoVars, listVars, countVars
    <2>3. Order'
        BY <1>a, <1>5
        DEF Order, Unlinked, ReadAudioPacket, playerVars, videoVars, listVars, countVars
    <2>4. ListInv'
        BY <1>a, <1>5
        DEF ListInv, ReadAudioPacket, playerVars, videoVars, listVars, countVars
    <2>5. WaitInv'
        BY <1>a, <1>5
        DEF WaitInv, ReadAudioPacket, playerVars, videoVars, listVars, countVars
    <2>6. StartInv'
        BY <1>a, <1>5
        DEF StartInv, ReadAudioPacket, playerVars, videoVars, listVars, countVars
    <2> QED BY <2>1, <2>2, <2>3, <2>4, <2>5, <2>6 DEF Inv
<1>6. CASE DecodeAudioFrame
    <2>1. TypeOK'
        BY <1>a, <1>6, Bounds
        DEF TypeOK, DecodeAudioFrame, playerVars, videoVars, listVars, countVars
    <2>2. CountInv'
        BY <1>a, <1>6, Bounds
        DEF CountInv, TypeOK, DecodeAudioFrame, playerVars, videoVars, listVars, countVars
    <2>3. Order'
        BY <1>a, <1>6
        DEF Order, Unlinked, DecodeAudioFrame, playerVars, videoVars, listVars, countVars
    <2>4. ListInv'
        BY <1>a, <1>6
        DEF ListInv, DecodeAudioFrame, playerVars, videoVars, listVars, countVars
    <2>5. WaitInv'
        BY <1>a, <1>6
        DEF WaitInv, DecodeAudioFrame, playerVars, videoVars, listVars, countVars
    <2>6. StartInv'
        BY <1>a, <1>6
        DEF StartInv, DecodeAudioFrame, playerVars, videoVars, listVars, countVars
    <2> QED BY <2>1, <2>2, <2>3, <2>4, <2>5, <2>6 DEF Inv
<1>7. CASE PutAudio
    <2>1. /\ psize \in Nat /\ psize > 0 /\ aqueue \in 0 .. AudioSize /\ naudio \in Nat /\ played \in Nat
        BY <1>a, <1>7, Bounds DEF TypeOK, CountInv, PutAudio
    <2>2. /\ ppc = "put" /\ psize <= AudioSize - aqueue /\ aqueue' = aqueue + psize /\ ppc' = "audio"
          /\ UNCHANGED <<quit, mpc, psize, file, npackets, naudio, listVars, videoVars,
                         vpq, shown, apc, played>>
        BY <1>7 DEF PutAudio
    <2>3. aqueue' \in 0 .. AudioSize
        BY <2>1, <2>2, Bounds
    <2>4. naudio = played + aqueue'
        BY <1>a, <2>1, <2>2 DEF CountInv
    <2>5. TypeOK'
        BY <1>a, <2>2, <2>3 DEF TypeOK, playerVars, videoVars, listVars, countVars
    <2>6. CountInv'
        BY <1>a, <2>2, <2>4 DEF CountInv, playerVars, videoVars, listVars, countVars
    <2>7. Order'
        BY <1>a, <2>2 DEF Order, Unlinked, playerVars, videoVars, listVars, countVars
    <2>8. ListInv'
        BY <1>a, <2>2 DEF ListInv, playerVars, videoVars, listVars, countVars
    <2>9. WaitInv'
        BY <1>a, <2>2 DEF WaitInv, playerVars, videoVars, listVars, countVars
    <2>10. StartInv'
        BY <1>a, <2>2 DEF StartInv, playerVars, videoVars, listVars, countVars
    <2> QED BY <2>5, <2>6, <2>7, <2>8, <2>9, <2>10 DEF Inv
<1>8. CASE AudioPacketDone
    <2>1. TypeOK'
        BY <1>a, <1>8
        DEF TypeOK, AudioPacketDone, playerVars, videoVars, listVars, countVars
    <2>2. CountInv'
        BY <1>a, <1>8
        DEF CountInv, AudioPacketDone, playerVars, videoVars, listVars, countVars
    <2>3. Order'
        BY <1>a, <1>8
        DEF Order, Unlinked, AudioPacketDone, playerVars, videoVars, listVars, countVars
    <2>4. ListInv'
        BY <1>a, <1>8
        DEF ListInv, AudioPacketDone, playerVars, videoVars, listVars, countVars
    <2>5. WaitInv'
        BY <1>a, <1>8
        DEF WaitInv, AudioPacketDone, playerVars, videoVars, listVars, countVars
    <2>6. StartInv'
        BY <1>a, <1>8
        DEF StartInv, AudioPacketDone, playerVars, videoVars, listVars, countVars
    <2> QED BY <2>1, <2>2, <2>3, <2>4, <2>5, <2>6 DEF Inv
<1>9. CASE EndOfFile
    <2>1. TypeOK'
        BY <1>a, <1>9
        DEF TypeOK, EndOfFile, playerVars, videoVars, listVars, countVars
    <2>2. CountInv'
        BY <1>a, <1>9
        DEF CountInv, EndOfFile, playerVars, videoVars, listVars, countVars
    <2>3. Order'
        BY <1>a, <1>9
        DEF Order, Unlinked, EndOfFile, playerVars, videoVars, listVars, countVars
    <2>4. ListInv'
        BY <1>a, <1>9
        DEF ListInv, EndOfFile, playerVars, videoVars, listVars, countVars
    <2>5. WaitInv'
        BY <1>a, <1>9
        DEF WaitInv, EndOfFile, playerVars, videoVars, listVars, countVars
    <2>6. StartInv'
        BY <1>a, <1>9
        DEF StartInv, EndOfFile, playerVars, videoVars, listVars, countVars
    <2> QED BY <2>1, <2>2, <2>3, <2>4, <2>5, <2>6 DEF Inv
<1>10. CASE WaitList
    <2>1. TypeOK'
        BY <1>a, <1>10
        DEF TypeOK, WaitList, playerVars, videoVars, listVars, countVars
    <2>2. CountInv'
        BY <1>a, <1>10
        DEF CountInv, WaitList, playerVars, videoVars, listVars, countVars
    <2>3. Order'
        BY <1>a, <1>10
        DEF Order, Unlinked, WaitList, playerVars, videoVars, listVars, countVars
    <2>4. ListInv'
        BY <1>a, <1>10
        DEF ListInv, WaitList, playerVars, videoVars, listVars, countVars
    <2>5. WaitInv'
        BY <1>a, <1>10
        DEF WaitInv, WaitList, playerVars, videoVars, listVars, countVars
    <2>6. StartInv'
        BY <1>a, <1>10
        DEF StartInv, WaitList, playerVars, videoVars, listVars, countVars
    <2> QED BY <2>1, <2>2, <2>3, <2>4, <2>5, <2>6 DEF Inv
<1>11. CASE WaitAudio
    <2>1. TypeOK'
        BY <1>a, <1>11
        DEF TypeOK, WaitAudio, playerVars, videoVars, listVars, countVars
    <2>2. CountInv'
        BY <1>a, <1>11
        DEF CountInv, WaitAudio, playerVars, videoVars, listVars, countVars
    <2>3. Order'
        BY <1>a, <1>11
        DEF Order, Unlinked, WaitAudio, playerVars, videoVars, listVars, countVars
    <2>4. ListInv'
        BY <1>a, <1>11
        DEF ListInv, WaitAudio, playerVars, videoVars, listVars, countVars
    <2>5. WaitInv'
        BY <1>a, <1>11
        DEF WaitInv, WaitAudio, playerVars, videoVars, listVars, countVars
    <2>6. StartInv'
        BY <1>a, <1>11
        DEF StartInv, WaitAudio, playerVars, videoVars, listVars, countVars
    <2> QED BY <2>1, <2>2, <2>3, <2>4, <2>5, <2>6 DEF Inv
<1>12. CASE RequestQuit
    <2>1. TypeOK'
        BY <1>a, <1>12
        DEF TypeOK, RequestQuit, playerVars, videoVars, listVars, countVars
    <2>2. CountInv'
        BY <1>a, <1>12
        DEF CountInv, RequestQuit, playerVars, videoVars, listVars, countVars
    <2>3. Order'
        BY <1>a, <1>12
        DEF Order, Unlinked, RequestQuit, playerVars, videoVars, listVars, countVars
    <2>4. ListInv'
        BY <1>a, <1>12
        DEF ListInv, RequestQuit, playerVars, videoVars, listVars, countVars
    <2>5. WaitInv'
        BY <1>a, <1>12
        DEF WaitInv, RequestQuit, playerVars, videoVars, listVars, countVars
    <2>6. StartInv'
        BY <1>a, <1>12
        DEF StartInv, RequestQuit, playerVars, videoVars, listVars, countVars
    <2> QED BY <2>1, <2>2, <2>3, <2>4, <2>5, <2>6 DEF Inv
<1> QED BY <1>1, <1>2, <1>3, <1>4, <1>5, <1>6, <1>7, <1>8, <1>9, <1>10, <1>11, <1>12
    DEF Player

\* The video thread takes packets in order and makes pictures of them.
LEMMA VideoStep == Inv /\ Video => Inv'
<1> SUFFICES ASSUME Inv, Video PROVE Inv'
    OBVIOUS
<1>a. TypeOK /\ StartInv /\ CountInv /\ Order /\ ListInv /\ WaitInv
    BY DEF Inv
<1>1. CASE VideoQuit
    <2>1. TypeOK'
        BY <1>a, <1>1
        DEF TypeOK, VideoQuit, playerVars, videoVars, listVars, countVars
    <2>2. CountInv'
        BY <1>a, <1>1
        DEF CountInv, VideoQuit, playerVars, videoVars, listVars, countVars
    <2>3. Order'
        BY <1>a, <1>1
        DEF Order, Unlinked, VideoQuit, playerVars, videoVars, listVars, countVars
    <2>4. ListInv'
        BY <1>a, <1>1
        DEF ListInv, VideoQuit, playerVars, videoVars, listVars, countVars
    <2>5. WaitInv'
        BY <1>a, <1>1
        DEF WaitInv, VideoQuit, playerVars, videoVars, listVars, countVars
    <2>6. StartInv'
        BY <1>a, <1>1
        DEF StartInv, VideoQuit, playerVars, videoVars, listVars, countVars
    <2> QED BY <2>1, <2>2, <2>3, <2>4, <2>5, <2>6 DEF Inv
<1>2. CASE TestSize
    <2>1. TypeOK'
        BY <1>a, <1>2
        DEF TypeOK, TestSize, playerVars, videoVars, listVars, countVars
    <2>2. CountInv'
        BY <1>a, <1>2
        DEF CountInv, TestSize, playerVars, videoVars, listVars, countVars
    <2>3. Order'
        BY <1>a, <1>2
        DEF Order, Unlinked, TestSize, playerVars, videoVars, listVars, countVars
    <2>4. ListInv'
        BY <1>a, <1>2
        DEF ListInv, TypeOK, TestSize, playerVars, videoVars, listVars, countVars
    <2>5. WaitInv'
        BY <1>a, <1>2
        DEF WaitInv, TestSize, playerVars, videoVars, listVars, countVars
    <2>6. StartInv'
        BY <1>a, <1>2
        DEF StartInv, TestSize, playerVars, videoVars, listVars, countVars
    <2> QED BY <2>1, <2>2, <2>3, <2>4, <2>5, <2>6 DEF Inv
<1>3. CASE Front
    <2>1. /\ vpc = "front" /\ count > 0 /\ vpkt = NoPacket /\ list \in Seq(0 .. MaxPackets - 1)
          /\ ndecoded \in Nat
        BY <1>a, <1>3 DEF Front, ListInv, TypeOK
    <2>2. UNCHANGED <<quit, mpc, playerVars, list, countVars, ndecoded, nframes,
                      vpq, shown, apc, aqueue, played>>
        BY <1>3 DEF Front
    <2>3. CASE list = <<>>
        <3>1. broken' = TRUE /\ UNCHANGED <<vpkt, vpc>>
            BY <1>3, <2>3 DEF Front
        <3>2. TypeOK' /\ CountInv'
            BY <1>a, <2>2, <3>1 DEF TypeOK, CountInv, playerVars, videoVars, listVars, countVars
        <3>3. Order' /\ ListInv'
            BY <1>a, <2>2, <3>1 DEF Order, Unlinked, ListInv, playerVars, videoVars, listVars, countVars
        <3>4. WaitInv' /\ StartInv'
            BY <1>a, <2>2, <3>1 DEF WaitInv, StartInv, playerVars, videoVars, listVars, countVars
        <3> QED BY <3>2, <3>3, <3>4 DEF Inv
    <2>4. CASE list # <<>>
        <3>1. vpkt' = Head(list) /\ vpc' = "decLoad" /\ UNCHANGED broken
            BY <1>3, <2>4 DEF Front
        <3>2. /\ vpkt' = list[1] /\ vpkt' \in 0 .. MaxPackets - 1 /\ Len(list) > 0 /\ Len(list) \in Nat
            BY <2>1, <2>4, <3>1, HeadTail
        <3>3. Unlinked = 0 /\ Unlinked' = 0
            BY <2>1, <3>1 DEF Unlinked
        <3>4. vpkt' = ndecoded /\ vpkt' # NoPacket
            BY <1>a, <2>1, <3>2, <3>3 DEF Order, NoPacket
        <3>5. TypeOK'
            BY <1>a, <2>2, <3>1, <3>2 DEF TypeOK, playerVars, videoVars, listVars, countVars
        <3>6. CountInv'
            BY <1>a, <2>1, <2>2, <3>1 DEF CountInv, playerVars, videoVars, listVars, countVars
        <3>7. Order'
            BY <1>a, <2>2, <3>3, <3>4 DEF Order, playerVars, videoVars, listVars, countVars
        <3>8. ListInv'
            BY <1>a, <2>1, <2>2, <2>4, <3>1, <3>4 DEF ListInv, playerVars, videoVars, listVars, countVars
        <3>9. WaitInv'
            BY <1>a, <2>2 DEF WaitInv, playerVars, videoVars, listVars, countVars
        <3>10. StartInv'
            BY <1>a, <2>1, <2>2, <3>1 DEF StartInv, playerVars, videoVars, listVars, countVars
        <3> QED BY <3>5, <3>6, <3>7, <3>8, <3>9, <3>10 DEF Inv
    <2> QED BY <2>3, <2>4
<1>4. CASE DecLoad
    <2>1. TypeOK'
        BY <1>a, <1>4, Bounds
        DEF TypeOK, DecLoad, playerVars, videoVars, listVars, countVars
    <2>2. CountInv'
        BY <1>a, <1>4
        DEF CountInv, DecLoad, playerVars, videoVars, listVars, countVars
    <2>3. Order'
        BY <1>a, <1>4
        DEF Order, Unlinked, DecLoad, playerVars, videoVars, listVars, countVars
    <2>4. ListInv'
        BY <1>a, <1>4
        DEF ListInv, TypeOK, DecLoad, playerVars, videoVars, listVars, countVars
    <2>5. WaitInv'
        BY <1>a, <1>4
        DEF WaitInv, DecLoad, playerVars, videoVars, listVars, countVars
    <2>6. StartInv'
        BY <1>a, <1>4
        DEF StartInv, DecLoad, playerVars, videoVars, listVars, countVars
    <2> QED BY <2>1, <2>2, <2>3, <2>4, <2>5, <2>6 DEF Inv
<1>5. CASE DecStore
    <2>1. TypeOK'
        BY <1>a, <1>5
        DEF TypeOK, ListInv, DecStore, playerVars, videoVars, listVars, countVars
    <2>2. CountInv'
        BY <1>a, <1>5
        DEF CountInv, DecStore, playerVars, videoVars, listVars, countVars
    <2>3. Order'
        BY <1>a, <1>5
        DEF Order, Unlinked, DecStore, playerVars, videoVars, listVars, countVars
    <2>4. ListInv'
        <3>1. ASSUME ~clobbered'
              PROVE  Len(list') = count' + (IF ppc \in {"incLoad", "incStore"} THEN 1 ELSE 0) + 1
            <4>1. ~clobbered /\ count = vload
                BY <1>5, <3>1, Zenon DEF DecStore
            <4> QED BY <1>a, <1>5, <4>1 DEF ListInv, TypeOK, DecStore
        <3>2. vpc = "decStore" /\ vpc' = "unhook" /\ UNCHANGED <<list, vpkt, ppc>>
            BY <1>5 DEF DecStore, playerVars
        <3> QED BY <1>a, <3>1, <3>2 DEF ListInv
    <2>5. WaitInv'
        BY <1>a, <1>5
        DEF WaitInv, ListInv, TypeOK, DecStore, playerVars, videoVars, listVars, countVars
    <2>6. StartInv'
        BY <1>a, <1>5
        DEF StartInv, DecStore, playerVars, videoVars, listVars, countVars
    <2> QED BY <2>1, <2>2, <2>3, <2>4, <2>5, <2>6 DEF Inv
<1>6. CASE Unhook
    <2>1. /\ vpc = "unhook" /\ list \in Seq(0 .. MaxPackets - 1) /\ list # <<>> /\ vpkt # NoPacket
          /\ ndecoded \in Nat /\ npackets \in Nat /\ count \in Nat
        BY <1>a, <1>6, Bounds DEF Unhook, ListInv, TypeOK
    <2>2. /\ list' = Tail(list) /\ broken' \in {FALSE, Overlap} /\ vpc' = "decode"
          /\ UNCHANGED <<quit, mpc, playerVars, countVars, vpkt, ndecoded, nframes,
                         vpq, shown, apc, aqueue, played>>
        BY <1>6 DEF Unhook
    <2>3. /\ Len(list) \in Nat /\ Len(list) > 0
          /\ list' \in Seq(0 .. MaxPackets - 1) /\ Len(list') = Len(list) - 1
          /\ \A i \in 1 .. Len(list) - 1 : list'[i] = list[i + 1]
        BY <2>1, <2>2, HeadTail
    <2>4. Unlinked = 0 /\ Unlinked' = 1
        BY <2>1, <2>2 DEF Unlinked
    <2>5. \A i \in 1 .. Len(list') : list'[i] = ndecoded + 1 + i - 1
        BY <1>a, <2>1, <2>3, <2>4 DEF Order
    <2>6. TypeOK'
        <3>1. broken' \in BOOLEAN
            BY <2>2 DEF Overlap
        <3> QED BY <1>a, <2>2, <2>3, <3>1 DEF TypeOK, playerVars, countVars
    <2>7. CountInv'
        BY <1>a, <2>1, <2>2 DEF CountInv, playerVars
    <2>8. Order'
        <3>1. npackets = ndecoded + 1 + Len(list') + (IF ppc = "hook" THEN 1 ELSE 0)
            BY <1>a, <2>1, <2>3, <2>4 DEF Order
        <3> QED BY <1>a, <2>2, <2>4, <2>5, <3>1 DEF Order, playerVars
    <2>9. ListInv'
        <3>1. ~clobbered => Len(list') = count + (IF ppc \in {"incLoad", "incStore"} THEN 1 ELSE 0)
            BY <1>a, <2>1, <2>3 DEF ListInv
        <3>2. UNCHANGED <<ppc, count, vload, clobbered, vpkt>> /\ vpc' = "decode"
            BY <2>2 DEF playerVars, countVars
        <3>3. vpkt' # NoPacket
            BY <2>1, <3>2
        <3> QED BY <3>1, <3>2, <3>3 DEF ListInv
    <2>10. WaitInv'
        BY <1>a, <2>2 DEF WaitInv, playerVars, countVars
    <2>11. StartInv'
        BY <1>a, <2>1, <2>2 DEF StartInv, playerVars
    <2> QED BY <2>6, <2>7, <2>8, <2>9, <2>10, <2>11 DEF Inv
<1>7. CASE DecodeVideoFrame
    <2>1. TypeOK'
        BY <1>a, <1>7, Bounds
        DEF TypeOK, DecodeVideoFrame, playerVars, videoVars, listVars, countVars
    <2>2. CountInv'
        BY <1>a, <1>7, Bounds
        DEF CountInv, TypeOK, DecodeVideoFrame, playerVars, videoVars, listVars, countVars
    <2>3. Order'
        BY <1>a, <1>7
        DEF Order, Unlinked, DecodeVideoFrame, playerVars, videoVars, listVars, countVars
    <2>4. ListInv'
        BY <1>a, <1>7
        DEF ListInv, DecodeVideoFrame, playerVars, videoVars, listVars, countVars
    <2>5. WaitInv'
        BY <1>a, <1>7
        DEF WaitInv, DecodeVideoFrame, playerVars, videoVars, listVars, countVars
    <2>6. StartInv'
        BY <1>a, <1>7
        DEF StartInv, DecodeVideoFrame, playerVars, videoVars, listVars, countVars
    <2> QED BY <2>1, <2>2, <2>3, <2>4, <2>5, <2>6 DEF Inv
<1>8. CASE PushPicture
    <2>1. /\ vpq \in Seq(0 .. MaxFrames - 1) /\ nframes \in 0 .. MaxFrames
          /\ Len(shown) \in Nat /\ Len(vpq) \in Nat
        BY SMTT(30), <1>a, <1>8, Bounds DEF TypeOK, CountInv, PushPicture
    <2>2. /\ vpc = "push" /\ Len(vpq) < VpqSize /\ vpq' = Append(vpq, nframes - 1)
          /\ vpc' = "decode"
          /\ UNCHANGED <<quit, mpc, playerVars, listVars, vpkt, ndecoded, nframes, shown, apc, aqueue,
                         played>>
        BY <1>8 DEF PushPicture
    <2>3. nframes = Len(shown) + Len(vpq) + 1
        BY <1>a, <2>2 DEF CountInv
    <2>4. nframes - 1 \in 0 .. MaxFrames - 1
        BY <2>1, <2>3, Bounds
    <2>5. /\ vpq' \in Seq(0 .. MaxFrames - 1) /\ Len(vpq') = Len(vpq) + 1
          /\ \A i \in 1 .. Len(vpq) : vpq'[i] = vpq[i]
          /\ vpq'[Len(vpq) + 1] = nframes - 1
        BY <2>1, <2>2, <2>4, Appended
    <2>6. \A i \in 1 .. Len(vpq) : vpq[i] = Len(shown) + i - 1
        BY <1>a DEF Order
    <2>7. \A i \in 1 .. Len(vpq') : vpq'[i] = Len(shown) + i - 1
        <3> SUFFICES ASSUME NEW i \in 1 .. Len(vpq') PROVE vpq'[i] = Len(shown) + i - 1
            OBVIOUS
        <3>1. CASE i \in 1 .. Len(vpq) BY <3>1, <2>5, <2>6
        <3>2. CASE i = Len(vpq) + 1 BY <3>2, <2>1, <2>3, <2>5
        <3> QED BY <3>1, <3>2, <2>1, <2>5
    <2>8. TypeOK'
        BY <1>a, <2>1, <2>2, <2>5, Bounds DEF TypeOK, playerVars, videoVars, listVars, countVars
    <2>9. CountInv'
        <3>1. nframes = Len(shown) + Len(vpq')
            BY <2>1, <2>3, <2>5
        <3> QED BY <1>a, <2>1, <2>2, <3>1 DEF CountInv, playerVars, videoVars, listVars, countVars
    <2>10. Order'
        BY <1>a, <2>2, <2>7 DEF Order, Unlinked, playerVars, videoVars, listVars, countVars
    <2>11. ListInv'
        BY <1>a, <2>2 DEF ListInv, playerVars, videoVars, listVars, countVars
    <2>12. WaitInv'
        BY <1>a, <2>2 DEF WaitInv, playerVars, videoVars, listVars, countVars
    <2>13. StartInv'
        BY <1>a, <2>2 DEF StartInv, playerVars, videoVars, listVars, countVars
    <2> QED BY <2>8, <2>9, <2>10, <2>11, <2>12, <2>13 DEF Inv
<1>9. CASE VideoPacketDone
    <2>1. /\ ndecoded \in Nat /\ npackets \in 0 .. MaxPackets /\ Len(list) \in Nat
        BY <1>a, Bounds DEF TypeOK
    <2>2. /\ vpc = "decode" /\ ndecoded' = ndecoded + 1 /\ vpkt' = NoPacket /\ vpc' = "loop"
          /\ UNCHANGED <<quit, mpc, playerVars, listVars, nframes, vpq, shown, apc, aqueue, played>>
        BY <1>9 DEF VideoPacketDone
    <2>3. Unlinked = 1 /\ Unlinked' = 0
        BY <2>2 DEF Unlinked
    <2>4. npackets = ndecoded' + Len(list) + (IF ppc = "hook" THEN 1 ELSE 0)
        BY <1>a, <2>1, <2>2, <2>3 DEF Order
    <2>5. ndecoded' \in 0 .. MaxPackets
        BY <2>1, <2>2, <2>4, Bounds
    <2>6. TypeOK'
        BY <1>a, <2>2, <2>5 DEF TypeOK, playerVars, videoVars, listVars, countVars
    <2>7. CountInv'
        BY <1>a, <2>2 DEF CountInv, playerVars, videoVars, listVars, countVars
    <2>8. Order'
        <3>1. \A i \in 1 .. Len(list) : list[i] = ndecoded' + i - 1
            BY <1>a, <2>1, <2>2, <2>3 DEF Order
        <3> QED BY <1>a, <2>1, <2>2, <2>3, <2>4, <2>5, <3>1 DEF Order, playerVars, videoVars, listVars, countVars
    <2>9. ListInv'
        BY <1>a, <2>2 DEF ListInv, playerVars, videoVars, listVars, countVars
    <2>10. WaitInv'
        BY <1>a, <2>2 DEF WaitInv, playerVars, videoVars, listVars, countVars
    <2>11. StartInv'
        BY <1>a, <2>2 DEF StartInv, playerVars, videoVars, listVars, countVars
    <2> QED BY <2>6, <2>7, <2>8, <2>9, <2>10, <2>11 DEF Inv
<1> QED BY <1>1, <1>2, <1>3, <1>4, <1>5, <1>6, <1>7, <1>8, <1>9 DEF Video

\* SDL's thread takes whole buffers.
LEMMA AudioStep == Inv /\ Audio => Inv'
<1> SUFFICES ASSUME Inv, Audio PROVE Inv'
    OBVIOUS
<1>a. TypeOK /\ StartInv /\ CountInv /\ Order /\ ListInv /\ WaitInv
    BY DEF Inv
<1>1. CASE AudioCallback
    <2>1. TypeOK'
        BY <1>a, <1>1
        DEF TypeOK, AudioCallback, playerVars, videoVars, listVars, countVars
    <2>2. CountInv'
        BY <1>a, <1>1
        DEF CountInv, AudioCallback, playerVars, videoVars, listVars, countVars
    <2>3. Order'
        BY <1>a, <1>1
        DEF Order, Unlinked, AudioCallback, playerVars, videoVars, listVars, countVars
    <2>4. ListInv'
        BY <1>a, <1>1
        DEF ListInv, AudioCallback, playerVars, videoVars, listVars, countVars
    <2>5. WaitInv'
        BY <1>a, <1>1
        DEF WaitInv, AudioCallback, playerVars, videoVars, listVars, countVars
    <2>6. StartInv'
        BY <1>a, <1>1
        DEF StartInv, AudioCallback, playerVars, videoVars, listVars, countVars
    <2> QED BY <2>1, <2>2, <2>3, <2>4, <2>5, <2>6 DEF Inv
<1>2. CASE GetAudio
    <2>1. TypeOK'
        BY <1>a, <1>2, Bounds
        DEF TypeOK, GetAudio, playerVars, videoVars, listVars, countVars
    <2>2. CountInv'
        BY <1>a, <1>2, Bounds
        DEF CountInv, TypeOK, GetAudio, playerVars, videoVars, listVars, countVars
    <2>3. Order'
        BY <1>a, <1>2
        DEF Order, Unlinked, GetAudio, playerVars, videoVars, listVars, countVars
    <2>4. ListInv'
        BY <1>a, <1>2
        DEF ListInv, GetAudio, playerVars, videoVars, listVars, countVars
    <2>5. WaitInv'
        BY <1>a, <1>2, Bounds
        DEF WaitInv, TypeOK, GetAudio, playerVars, videoVars, listVars, countVars
    <2>6. StartInv'
        BY <1>a, <1>2
        DEF StartInv, GetAudio, playerVars, videoVars, listVars, countVars
    <2> QED BY <2>1, <2>2, <2>3, <2>4, <2>5, <2>6 DEF Inv
<1> QED BY <1>1, <1>2 DEF Audio

\* The inductive invariant of the player.
THEOREM InvTheorem == Spec => []Inv
<1>1. Inv /\ UNCHANGED vars => Inv'
    <2> SUFFICES ASSUME Inv, UNCHANGED vars PROVE Inv'
        OBVIOUS
    <2>1. TypeOK'
        BY DEF Inv, TypeOK, vars, playerVars, videoVars, listVars, countVars
    <2>2. CountInv' /\ Order'
        BY DEF Inv, CountInv, Order, Unlinked, vars, playerVars, videoVars, listVars, countVars
    <2>3. ListInv' /\ WaitInv' /\ StartInv'
        BY DEF Inv, ListInv, WaitInv, StartInv, vars, playerVars, videoVars, listVars, countVars
    <2> QED BY <2>1, <2>2, <2>3 DEF Inv
<1>2. Inv /\ [Next]_vars => Inv'
    BY <1>1, MainStep, PlayerStep, VideoStep, AudioStep DEF Next
<1> QED BY InitInv, <1>2, PTL DEF Spec

\* Every variable keeps its type, no queue grows above its capacity, and
\* pop_front() never counts the unsigned element count below 0, although the two
\* threads may lose each other's updates of it.
THEOREM TypeCorrect == Spec => []TypeOK
<1>1. Inv => TypeOK
    BY DEF Inv
<1> QED BY InvTheorem, <1>1, PTL

\* Packets are decoded in the order of the file and none twice, whatever updates
\* of the count are lost, until the chain itself is corrupted; pictures are shown
\* in order, none skipped or repeated.
THEOREM InOrderTheorem == Spec => []InOrder
<1>1. Inv => InOrder
    BY DEF Inv, Order, InOrder
<1> QED BY InvTheorem, <1>1, PTL

\* When quit is requested all audio was played, and every packet is decoded or in
\* the video thread's hands unless the list lost an update of its count.
THEOREM QuitAfterDrainTheorem == Spec => []QuitAfterDrain
<1>1. Inv => QuitAfterDrain
    <2> SUFFICES ASSUME Inv, quit
                 PROVE  /\ aqueue = 0 /\ played = naudio
                        /\ ~clobbered /\ ~broken =>
                             npackets = ndecoded + (IF vpkt = NoPacket THEN 0 ELSE 1)
        BY DEF QuitAfterDrain
    <2>a. TypeOK /\ CountInv /\ Order /\ ListInv /\ WaitInv
        BY DEF Inv
    <2>1. ppc = "exited" /\ count = 0 /\ aqueue = 0
        BY <2>a DEF WaitInv
    <2>2. played = naudio
        BY <2>1, <2>a DEF CountInv, TypeOK
    <2>3. vpc \notin {"front", "decLoad", "decStore"}
        BY <2>1, <2>a DEF ListInv
    <2>4. ASSUME ~clobbered PROVE Len(list) = IF vpc = "unhook" THEN 1 ELSE 0
        BY <2>1, <2>4, <2>a DEF ListInv
    <2>5. vpkt = NoPacket <=> vpc \notin {"unhook", "decode", "push"}
        BY <2>3, <2>a DEF ListInv
    <2>6. /\ npackets = ndecoded + Unlinked + Len(list)
          /\ ndecoded \in Nat
        BY <2>1, <2>a DEF Order, TypeOK, Unlinked
    <2>7. ASSUME ~clobbered
          PROVE  npackets = ndecoded + (IF vpkt = NoPacket THEN 0 ELSE 1)
        <3>1. Len(list) = IF vpc = "unhook" THEN 1 ELSE 0
            BY <2>4, <2>7
        <3>2. CASE vpc \in {"unhook", "decode", "push"}
            <4>1. vpkt # NoPacket
                BY <2>5, <3>2
            <4> QED BY <2>6, <3>1, <3>2, <4>1 DEF Unlinked
        <3>3. CASE vpc \notin {"unhook", "decode", "push"}
            BY <2>5, <2>6, <3>1, <3>3 DEF Unlinked
        <3> QED BY <3>2, <3>3
    <2> QED BY <2>1, <2>2, <2>7
<1> QED BY InvTheorem, <1>1, PTL

-----------------------------------------------------------------------------
(* Where the player can stop.                                              *)

\* Who has been started, and who has ended.
StartedInv ==
    /\ ppc = "unborn" <=> mpc # "display"
    /\ vpc = "unborn" <=> mpc \in {"openAudio", "startVideo"}
    /\ apc = "unborn" <=> mpc = "openAudio"
    /\ ppc = "exited" => quit
    /\ vpc = "exited" => quit

LEMMA StartedStep == Inv /\ StartedInv /\ [Next]_vars => StartedInv'
<1> SUFFICES ASSUME Inv, StartedInv, [Next]_vars PROVE StartedInv'
    OBVIOUS
<1>a. mpc \in {"openAudio", "startVideo", "startPlayer", "display"}
    BY DEF Inv, TypeOK
<1>1. CASE Main
    BY <1>a, <1>1 DEF Main, OpenAudio, StartVideoThread, StartPlayerThread,
       DisplayVideo, StartedInv, playerVars, videoVars
<1>2. CASE Player
    <2>1. CASE ReadVideoPacket \/ Hook \/ IncLoad \/ IncStore
        BY <2>1 DEF ReadVideoPacket, Hook, IncLoad, IncStore, StartedInv, videoVars
    <2>2. CASE ReadAudioPacket \/ DecodeAudioFrame \/ PutAudio \/ AudioPacketDone
        BY <2>2 DEF ReadAudioPacket, DecodeAudioFrame, PutAudio, AudioPacketDone,
           StartedInv, videoVars
    <2>3. CASE EndOfFile \/ WaitList \/ WaitAudio
        BY <2>3 DEF EndOfFile, WaitList, WaitAudio, StartedInv, videoVars
    <2>4. CASE RequestQuit
        BY <2>4 DEF RequestQuit, StartedInv, videoVars
    <2> QED BY <1>2, <2>1, <2>2, <2>3, <2>4 DEF Player
<1>3. CASE Video
    <2>1. CASE VideoQuit \/ TestSize \/ Front
        BY <2>1 DEF VideoQuit, TestSize, Front, StartedInv, playerVars
    <2>2. CASE DecLoad \/ DecStore \/ Unhook
        BY <2>2 DEF DecLoad, DecStore, Unhook, StartedInv, playerVars
    <2>3. CASE DecodeVideoFrame \/ PushPicture \/ VideoPacketDone
        BY <2>3 DEF DecodeVideoFrame, PushPicture, VideoPacketDone, StartedInv, playerVars
    <2> QED BY <1>3, <2>1, <2>2, <2>3 DEF Video
<1>4. CASE Audio
    BY <1>4 DEF Audio, AudioCallback, GetAudio, StartedInv, playerVars, videoVars
<1>5. CASE UNCHANGED vars
    BY <1>5 DEF StartedInv, vars, playerVars, videoVars
<1> QED BY <1>1, <1>2, <1>3, <1>4, <1>5 DEF Next

\* A thread does not wait: the guard of one of its actions holds.
CanGo ==
    \/ mpc # "display" \/ vpq # <<>>
    \/ ppc \in {"read", "hook", "incLoad", "incStore", "audio", "waitAudio", "requestQuit"}
    \/ ppc = "put" /\ psize <= AudioSize - aqueue
    \/ ppc = "waitList" /\ count = 0
    \/ vpc \in {"front", "decLoad", "decStore", "unhook", "decode"}
    \/ vpc = "loop" /\ (quit \/ count # 0)
    \/ vpc = "push" /\ Len(vpq) < VpqSize
    \/ apc = "idle"
    \/ apc = "get" /\ aqueue >= DeviceLen

\* The end of play: both threads gone, all shown and played, and all decoded
\* unless an update of the count was lost.
Finished ==
    /\ quit /\ ppc = "exited" /\ vpc = "exited"
    /\ Len(shown) = nframes /\ played = naudio
    /\ ~clobbered => ndecoded = npackets

\* The four threads never wait for each other in a circle over the three
\* queues, nor on a wrong element count of the unlocked list: until the end of play
\* somebody can go on, or the chain is corrupted.
NeverStuck == CanGo \/ Finished \/ broken

LEMMA NotStuck == Inv /\ StartedInv => NeverStuck
<1> SUFFICES ASSUME Inv, StartedInv, ~CanGo PROVE Finished
    BY DEF NeverStuck
<1>a. TypeOK /\ CountInv /\ Order /\ ListInv /\ WaitInv
    BY DEF Inv
<1>1. mpc = "display" /\ vpq = <<>>
    BY DEF CanGo
<1>2. ppc # "unborn" /\ vpc # "unborn" /\ apc # "unborn"
    BY <1>1 DEF StartedInv
<1>3. vpc \in {"loop", "exited"}
    <2>1. vpc = "push" => Len(vpq) < VpqSize
        BY <1>1, Bounds
    <2> QED BY <1>a, <1>2, <2>1 DEF CanGo, TypeOK
<1>4. ppc # "put"
    <2> SUFFICES ASSUME ppc = "put" PROVE FALSE
        OBVIOUS
    <2>1. psize \in FrameSizes /\ psize > AudioSize - aqueue /\ aqueue \in Nat
        BY <1>a, Bounds DEF CountInv, CanGo, TypeOK
    <2>2. psize + DeviceLen <= AudioSize + 1 /\ psize \in Nat
        BY <2>1, AudioFits, Bounds
    <2>3. aqueue >= DeviceLen
        BY <2>1, <2>2, Bounds
    <2> QED BY <1>a, <1>2, <2>3 DEF CanGo, TypeOK
<1>5. ppc # "waitList"
    <2> SUFFICES ASSUME ppc = "waitList" PROVE FALSE
        OBVIOUS
    <2>1. count # 0 /\ ~quit
        BY <1>a DEF CanGo, WaitInv
    <2> QED BY <1>3, <2>1 DEF CanGo, StartedInv
<1>6. ppc = "exited" /\ quit
    BY <1>a, <1>2, <1>4, <1>5 DEF CanGo, TypeOK, StartedInv
<1>7. vpc = "exited"
    BY <1>3, <1>6 DEF CanGo
<1>8. Len(shown) = nframes /\ played = naudio
    BY <1>a, <1>1, <1>6, <1>7 DEF CountInv, WaitInv, TypeOK
<1>9. ASSUME ~clobbered PROVE ndecoded = npackets
    <2>1. Len(list) = 0
        BY <1>a, <1>6, <1>7, <1>9 DEF WaitInv, ListInv
    <2> QED BY <1>a, <1>6, <1>7, <2>1 DEF Order, Unlinked, TypeOK
<1> QED BY <1>6, <1>7, <1>8, <1>9 DEF Finished

\* play(), playerThread(), videoThread() and audioCallback() never all wait for
\* one another before the file is shown and played to its end, for any file and
\* any sizes of the queues and of the device's buffer that fit (AudioFits): not
\* even on an element count that a lost update left too low or too high.
THEOREM NeverStuckTheorem == Spec => []NeverStuck
<1>1. Init => StartedInv
    BY DEF Init, StartedInv
<1> QED BY <1>1, StartedStep, NotStuck, InvTheorem, PTL DEF Spec
=============================================================================
