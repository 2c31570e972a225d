------------------------------ MODULE AvPlayer ------------------------------
(***************************************************************************)
(* The four threads of the player in src/ffmpeg/examples/screenout and the *)
(* three queues between them (Player.cpp):                                 *)
(*                                                                         *)
(*   player thread  playerThread: reads packets, keeps the video packets   *)
(*                  in _videoPacketList, decodes the audio packets itself  *)
(*                  into _audioStreamQueue, then waits for both to drain   *)
(*                  and asks everybody to quit                             *)
(*   video thread   videoThread: decodes the listed packets into _vpq      *)
(*   main thread    play: opens the audio device, starts the two threads,  *)
(*                  then shows the pictures of _vpq for ever               *)
(*   audio thread   SDL's: calls audioCallback, which waits for its bytes  *)
(*                                                                         *)
(* The audio and picture queues are the FIFOs that StreamQueue and         *)
(* VideoPictureQueue are shown to implement.                               *)
(*                                                                         *)
(* _videoPacketList is a std::list that two threads change with no lock:   *)
(* its chain of nodes and its element count are separate words, and the    *)
(* count is loaded, changed and stored in separate steps.  Linking a node  *)
(* and unlinking one are single steps as long as the chain has two nodes   *)
(* or more, where they touch different words; when they overlap on a       *)
(* single node the chain may be corrupted, which ends the behaviour here   *)
(* (broken) and is followed store by store in PacketList.                  *)
(***************************************************************************)
EXTENDS Integers, Sequences

CONSTANTS
    MaxPackets, \* bound: the packets of the file
    MaxFrames,  \* bound: the pictures decoded from them
    MaxAudio,   \* bound: the audio bytes decoded from the file
    FrameSizes, \* the bytes of a decoded audio frame
    DeviceLen,  \* the bytes one audioCallback must fill
    AudioSize,  \* the capacity of _audioStreamQueue
    VpqSize     \* the capacity of _vpq

ASSUME PlayerAssumption ==
    /\ {MaxPackets, MaxFrames, MaxAudio} \subseteq Nat
    /\ {DeviceLen, AudioSize, VpqSize} \subseteq Nat \ {0}
    /\ FrameSizes \subseteq Nat \ {0}

\* put() and get() never refuse each other for good (StreamQueue!SizesFit).
ASSUME AudioFits == \A n \in FrameSizes : n + DeviceLen <= AudioSize + 1

VARIABLES
    quit,               \* _quit
    mpc,                \* main thread: how far play() is
    ppc, psize,         \* player thread; the frame its put() offers
    file,               \* packets av_read_frame can still return
    npackets, naudio,   \* player thread: video packets and audio bytes read
    list,               \* _videoPacketList: the packets in its chain of nodes
    count,              \* _videoPacketList: the element count that size() returns
    pload, vload,       \* what push_back and pop_front have loaded of the count
    clobbered,          \* history: a store of the count overwrote the other thread's
    broken,             \* the chain is corrupted: what follows is undefined
    vpc, vpkt,          \* video thread; the packet front() has copied
    ndecoded, nframes,  \* video thread: packets finished, pictures decoded
    vpq,                \* _vpq
    shown,              \* history: the pictures displayed
    apc, aqueue,        \* audio thread; bytes in _audioStreamQueue
    played              \* history: bytes handed to the device

playerVars == <<ppc, psize, file, npackets, naudio>>
videoVars == <<vpc, vpkt, ndecoded, nframes>>
countVars == <<count, pload, vload, clobbered>>
listVars == <<list, countVars, broken>>
vars == <<quit, mpc, playerVars, listVars, videoVars, vpq, shown, apc, aqueue, played>>

NoPacket == -1

Init ==
    /\ quit = FALSE
    /\ mpc = "openAudio"
    /\ ppc = "unborn" /\ psize = 0 /\ file = MaxPackets /\ npackets = 0 /\ naudio = 0
    /\ list = <<>> /\ count = 0 /\ pload = 0 /\ vload = 0
    /\ clobbered = FALSE /\ broken = FALSE
    /\ vpc = "unborn" /\ vpkt = NoPacket /\ ndecoded = 0 /\ nframes = 0
    /\ vpq = <<>> /\ shown = <<>>
    /\ apc = "unborn" /\ aqueue = 0 /\ played = 0

-----------------------------------------------------------------------------
(* The main thread: play().                                                *)

\* The device runs, and calls back, before there is anything to play.
OpenAudio ==
    /\ mpc = "openAudio"
    /\ apc' = "idle"
    /\ mpc' = "startVideo"
    /\ UNCHANGED <<quit, playerVars, listVars, videoVars, vpq, shown, aqueue, played>>

StartVideoThread ==
    /\ mpc = "startVideo"
    /\ vpc' = "loop"
    /\ mpc' = "startPlayer"
    /\ UNCHANGED <<quit, playerVars, listVars, vpkt, ndecoded, nframes,
                   vpq, shown, apc, aqueue, played>>

StartPlayerThread ==
    /\ mpc = "startPlayer"
    /\ ppc' = "read"
    /\ mpc' = "display"
    /\ UNCHANGED <<quit, psize, file, npackets, naudio, listVars, videoVars,
                   vpq, shown, apc, aqueue, played>>

\* displayVideo(), in a loop that looks at no flag.
DisplayVideo ==
    /\ mpc = "display"
    /\ vpq # <<>>
    /\ shown' = Append(shown, Head(vpq))
    /\ vpq' = Tail(vpq)
    /\ UNCHANGED <<quit, mpc, playerVars, listVars, videoVars, apc, aqueue, played>>

\* No thread goes on once the chain is corrupted: nothing is said about it then.
Main == ~broken /\ (OpenAudio \/ StartVideoThread \/ StartPlayerThread \/ DisplayVideo)

-----------------------------------------------------------------------------
(* The player thread: playerThread() and the decode_audio() it calls.      *)

\* av_read_frame yields a packet of the video stream, for which decode_packet
\* calls push_back ...
ReadVideoPacket ==
    /\ ppc = "read" /\ ~quit /\ file > 0
    /\ file' = file - 1
    /\ npackets' = npackets + 1
    /\ ppc' = "hook"
    /\ UNCHANGED <<quit, mpc, psize, naudio, listVars, videoVars,
                   vpq, shown, apc, aqueue, played>>

\* An unhook under way and a hook use the same links when there is one node:
\* one may come after the other, or their stores mix.
Overlap == ppc = "hook" /\ vpc = "unhook" /\ Len(list) = 1

\* ... which links a new node to the end of the chain ...
Hook ==
    /\ ppc = "hook"
    /\ list' = Append(list, npackets - 1)
    /\ broken' \in {FALSE, Overlap}
    /\ ppc' = "incLoad"
    /\ UNCHANGED <<quit, mpc, psize, file, npackets, naudio, countVars, videoVars,
                   vpq, shown, apc, aqueue, played>>

\* ... and adds one to the element count.
IncLoad ==
    /\ ppc = "incLoad"
    /\ pload' = count
    /\ ppc' = "incStore"
    /\ UNCHANGED <<quit, mpc, psize, file, npackets, naudio, list, count, vload,
                   clobbered, broken, videoVars, vpq, shown, apc, aqueue, played>>

IncStore ==
    /\ ppc = "incStore"
    /\ count' = pload + 1
    /\ clobbered' = (clobbered \/ count # pload)
    /\ ppc' = "read"
    /\ UNCHANGED <<quit, mpc, psize, file, npackets, naudio, list, pload, vload,
                   broken, videoVars, vpq, shown, apc, aqueue, played>>

\* It yields one of the audio stream: decode_audio, while (packet.size) ...
ReadAudioPacket ==
    /\ ppc = "read" /\ ~quit /\ file > 0
    /\ file' = file - 1
    /\ ppc' = "audio"
    /\ UNCHANGED <<quit, mpc, psize, npackets, naudio, listVars, videoVars,
                   vpq, shown, apc, aqueue, played>>

\* ... the decoder gives a frame ...
DecodeAudioFrame ==
    /\ ppc = "audio"
    /\ \E n \in FrameSizes : /\ naudio + n <= MaxAudio
                             /\ psize' = n /\ naudio' = naudio + n
    /\ ppc' = "put"
    /\ UNCHANGED <<quit, mpc, file, npackets, listVars, videoVars,
                   vpq, shown, apc, aqueue, played>>

\* ... which is offered until it is accepted.  No flag ends this loop.
PutAudioDropped ==
    /\ ppc = "put"
    /\ aqueue' = IF psize <= AudioSize - aqueue THEN aqueue + psize ELSE aqueue
    /\ ppc' = "audio"
    /\ UNCHANGED <<quit, mpc, psize, file, npackets, naudio, listVars, videoVars,
                   vpq, shown, apc, played>>
PutAudio ==
    /\ ppc = "put"
    /\ psize <= AudioSize - aqueue
    /\ aqueue' = aqueue + psize
    /\ ppc' = "audio"
    /\ UNCHANGED <<quit, mpc, psize, file, npackets, naudio, listVars, videoVars,
                   vpq, shown, apc, played>>

\* The packet is used up, or the decoder reports an error.
AudioPacketDone ==
    /\ ppc = "audio"
    /\ ppc' = "read"
    /\ UNCHANGED <<quit, mpc, psize, file, npackets, naudio, listVars, videoVars,
                   vpq, shown, apc, aqueue, played>>

\* av_read_frame fails: the end of the file.
EndOfFile ==
    /\ ppc = "read"
    /\ ppc' = "waitList"
    /\ UNCHANGED <<quit, mpc, psize, file, npackets, naudio, listVars, videoVars,
                   vpq, shown, apc, aqueue, played>>

\* while ((list.size() || audio.dataSize()) && !_quit) sleep(100);
WaitListSkipped ==
    /\ ppc = "waitList"
    /\ ppc' = "waitAudio"
    /\ UNCHANGED <<quit, mpc, psize, file, npackets, naudio, listVars, videoVars,
                   vpq, shown, apc, aqueue, played>>
WaitList ==
    /\ ppc = "waitList" /\ count = 0
    /\ ppc' = "waitAudio"
    /\ UNCHANGED <<quit, mpc, psize, file, npackets, naudio, listVars, videoVars,
                   vpq, shown, apc, aqueue, played>>

WaitAudioOrBlocked ==
    /\ ppc = "waitAudio"
    /\ ppc' = IF aqueue < DeviceLen THEN "requestQuit" ELSE "waitList"
    /\ UNCHANGED <<quit, mpc, psize, file, npackets, naudio, listVars, videoVars,
                   vpq, shown, apc, aqueue, played>>
WaitAudio ==
    /\ ppc = "waitAudio"
    /\ ppc' = IF aqueue = 0 THEN "requestQuit" ELSE "waitList"
    /\ UNCHANGED <<quit, mpc, psize, file, npackets, naudio, listVars, videoVars,
                   vpq, shown, apc, aqueue, played>>

RequestQuit ==
    /\ ppc = "requestQuit"
    /\ quit' = TRUE
    /\ ppc' = "exited"
    /\ UNCHANGED <<mpc, psize, file, npackets, naudio, listVars, videoVars,
                   vpq, shown, apc, aqueue, played>>

Player ==
    /\ ~broken
    /\ \/ ReadVideoPacket \/ Hook \/ IncLoad \/ IncStore
       \/ ReadAudioPacket \/ DecodeAudioFrame \/ PutAudio \/ AudioPacketDone
       \/ EndOfFile \/ WaitList \/ WaitAudio \/ RequestQuit

-----------------------------------------------------------------------------
(* The video thread: videoThread() and the decode_video() it calls.        *)

\* while (!isQuit())
VideoQuit ==
    /\ vpc = "loop" /\ quit
    /\ vpc' = "exited"
    /\ UNCHANGED <<quit, mpc, playerVars, listVars, vpkt, ndecoded, nframes,
                   vpq, shown, apc, aqueue, played>>

\* if (list.size())
TestSize ==
    /\ vpc = "loop" /\ ~quit /\ count # 0
    /\ vpc' = "front"
    /\ UNCHANGED <<quit, mpc, playerVars, listVars, vpkt, ndecoded, nframes,
                   vpq, shown, apc, aqueue, played>>

\* front() copies the packet of the first node.  Where the count is not 0 but
\* the chain is empty there is none: it reads the head of the list object as a
\* packet, and pop_front goes on to free that head.
FrontLast ==
    /\ vpc = "front"
    /\ IF list = <<>> THEN broken' = TRUE /\ UNCHANGED <<vpkt, vpc>>
       ELSE vpkt' = list[Len(list)] /\ vpc' = "decLoad" /\ UNCHANGED broken
    /\ UNCHANGED <<quit, mpc, playerVars, list, countVars, ndecoded, nframes,
                   vpq, shown, apc, aqueue, played>>
Front ==
    /\ vpc = "front"
    /\ IF list = <<>> THEN broken' = TRUE /\ UNCHANGED <<vpkt, vpc>>
       ELSE vpkt' = Head(list) /\ vpc' = "decLoad" /\ UNCHANGED broken
    /\ UNCHANGED <<quit, mpc, playerVars, list, countVars, ndecoded, nframes,
                   vpq, shown, apc, aqueue, played>>

\* pop_front(): erase(begin()) takes one from the element count ...
DecLoad ==
    /\ vpc = "decLoad"
    /\ vload' = count
    /\ vpc' = "decStore"
    /\ UNCHANGED <<quit, mpc, playerVars, list, count, pload, clobbered, broken,
                   vpkt, ndecoded, nframes, vpq, shown, apc, aqueue, played>>

DecStore ==
    /\ vpc = "decStore"
    /\ count' = vload - 1
    /\ clobbered' = (clobbered \/ count # vload)
    /\ vpc' = "unhook"
    /\ UNCHANGED <<quit, mpc, playerVars, list, pload, vload, broken,
                   vpkt, ndecoded, nframes, vpq, shown, apc, aqueue, played>>

\* ... and then unlinks the node.
Unhook ==
    /\ vpc = "unhook"
    /\ list' = Tail(list)
    /\ broken' \in {FALSE, Overlap}
    /\ vpc' = "decode"
    /\ UNCHANGED <<quit, mpc, playerVars, countVars, vpkt, ndecoded, nframes,
                   vpq, shown, apc, aqueue, played>>

\* decode_video: the packet yields a picture, for which a slot is awaited ...
DecodeVideoFrame ==
    /\ vpc = "decode" /\ nframes < MaxFrames
    /\ nframes' = nframes + 1
    /\ vpc' = "push"
    /\ UNCHANGED <<quit, mpc, playerVars, listVars, vpkt, ndecoded,
                   vpq, shown, apc, aqueue, played>>

PushPicture ==
    /\ vpc = "push"
    /\ Len(vpq) < VpqSize
    /\ vpq' = Append(vpq, nframes - 1)
    /\ vpc' = "decode"
    /\ UNCHANGED <<quit, mpc, playerVars, listVars, vpkt, ndecoded, nframes,
                   shown, apc, aqueue, played>>

\* ... until the packet is used up.
VideoPacketDone ==
    /\ vpc = "decode"
    /\ ndecoded' = ndecoded + 1
    /\ vpkt' = NoPacket
    /\ vpc' = "loop"
    /\ UNCHANGED <<quit, mpc, playerVars, listVars, nframes,
                   vpq, shown, apc, aqueue, played>>

Video ==
    /\ ~broken
    /\ \/ VideoQuit \/ TestSize \/ Front \/ DecLoad \/ DecStore \/ Unhook
       \/ DecodeVideoFrame \/ PushPicture \/ VideoPacketDone

-----------------------------------------------------------------------------
(* SDL's audio thread.                                                     *)

AudioCallback ==
    /\ apc = "idle"
    /\ apc' = "get"
    /\ UNCHANGED <<quit, mpc, playerVars, listVars, videoVars, vpq, shown, aqueue, played>>

\* while (!get(stream, len)) sleep(30): no flag ends this loop either.
GetAudio ==
    /\ apc = "get" /\ aqueue >= DeviceLen
    /\ aqueue' = aqueue - DeviceLen
    /\ played' = played + DeviceLen
    /\ apc' = "idle"
    /\ UNCHANGED <<quit, mpc, playerVars, listVars, videoVars, vpq, shown>>

Audio == ~broken /\ (AudioCallback \/ GetAudio)

-----------------------------------------------------------------------------
Next == Main \/ Player \/ Video \/ Audio

\* Four threads, each run by the operating system.
Spec == /\ Init /\ [][Next]_vars
        /\ WF_vars(Main) /\ WF_vars(Player) /\ WF_vars(Video) /\ WF_vars(Audio)

-----------------------------------------------------------------------------
(* Properties                                                              *)

\* Every variable holds a value of its type; the queues keep their bounds.
TypeOK ==
    /\ quit \in BOOLEAN
    /\ mpc \in {"openAudio", "startVideo", "startPlayer", "display"}
    /\ ppc \in {"unborn", "read", "hook", "incLoad", "incStore", "audio", "put",
                "waitList", "waitAudio", "requestQuit", "exited"}
    /\ psize \in FrameSizes \cup {0}
    /\ file \in 0 .. MaxPackets /\ npackets \in 0 .. MaxPackets
    /\ naudio \in 0 .. MaxAudio
    /\ list \in Seq(0 .. MaxPackets - 1)
    /\ count \in Nat /\ pload \in Nat /\ vload \in Nat
    /\ clobbered \in BOOLEAN /\ broken \in BOOLEAN
    /\ vpc \in {"unborn", "loop", "front", "decLoad", "decStore", "unhook",
                "decode", "push", "exited"}
    /\ vpkt \in 0 .. MaxPackets - 1 \cup {NoPacket}
    /\ ndecoded \in 0 .. MaxPackets /\ nframes \in 0 .. MaxFrames
    /\ vpq \in Seq(0 .. MaxFrames - 1) /\ Len(vpq) <= VpqSize
    /\ shown \in Seq(0 .. MaxFrames - 1)
    /\ apc \in {"unborn", "idle", "get"}
    /\ aqueue \in 0 .. AudioSize /\ played \in Nat

\* The packet in hand is out of the chain: pop_front() has unlinked its node.
Unlinked == IF vpc \in {"decode", "push"} THEN 1 ELSE 0

\* Packets are decoded in the order of the file and none twice, also after an
\* update of the element count was lost: the chain, the packet in hand and the
\* one push_back is about to link are exactly what was read and not finished,
\* until a node of the chain itself is corrupted.  Pictures reach the screen in
\* decoding order, none skipped or repeated.
InOrder ==
    ~broken =>
      /\ \A i \in 1 .. Len(list) : list[i] = ndecoded + Unlinked + i - 1
      /\ vpkt # NoPacket => vpkt = ndecoded
      /\ npackets = ndecoded + Unlinked + Len(list) + (IF ppc = "hook" THEN 1 ELSE 0)
      /\ \A i \in 1 .. Len(shown) : shown[i] = i - 1
      /\ \A i \in 1 .. Len(vpq) : vpq[i] = Len(shown) + i - 1

\* When the threads are told to quit, every byte of audio has gone to the device;
\* and every video packet has been decoded or is the one in the video thread's
\* hands, unless a lost update made size() answer 0 too early (clobbered: the
\* finding of PacketList) or the chain was corrupted.
QuitAfterDrain ==
    quit => /\ aqueue = 0 /\ played = naudio
            /\ ~clobbered /\ ~broken =>
                 npackets = ndecoded + (IF vpkt = NoPacket THEN 0 ELSE 1)

\* Every picture decoded is shown, also when quit was requested, and every packet
\* read is decoded in the end.  The unlocked list limits the second: a lost
\* update of the count can leave packets behind, and a corrupted chain ends all.
AllShown ==
    /\ \A k \in 0 .. MaxPackets - 1 :
          npackets > k ~> ndecoded > k \/ clobbered \/ broken
    /\ \A k \in 0 .. MaxFrames - 1 : nframes > k ~> Len(shown) > k \/ broken

\* The wait at the end of the stream ends, and the video thread with it, when the
\* audio is a whole number of device buffers.  It ends also when updates of the
\* count were lost: a count too low is 0 all the sooner, and one too high makes
\* the video thread take a packet that is not there, which is the only other
\* way out (broken); the wait on a wrong count is never for ever.
WholeStreamQuits ==
    (ppc = "waitList" /\ naudio % DeviceLen = 0) ~> (quit /\ vpc = "exited") \/ broken
=============================================================================
