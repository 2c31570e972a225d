------------------------- MODULE VideoPictureQueue -------------------------
(***************************************************************************)
(* The ring of decoded pictures between the video thread, which decodes   *)
(* and converts (Player::decode_video), and the main thread, which shows   *)
(* them (the display loop of Player::play and Player::displayVideo), in    *)
(* src/ffmpeg/examples/screenout/VideoPictureQueue.cpp.                    *)
(*                                                                         *)
(* A mutex guards the indices and _size, but only inside one call: getEmpty *)
(* and peek return a pointer into the ring that its caller fills or reads  *)
(* after the lock is released, size() is read with no lock at all, and the *)
(* callers test and act in different critical sections.  push and pop are  *)
(* split into their loads and stores, the conversion and the texture       *)
(* upload into a beginning and an end.                                     *)
(*                                                                         *)
(* The k-th picture decoded is represented by the number k.                *)
(***************************************************************************)
EXTENDS Integers, Sequences

CONSTANTS
    VpqSize,    \* VPQ_SIZE, the slots of the ring
    WaitCnt,    \* the 1 ms polls of the display loop between two refreshes
    MaxFrames   \* bound: the pictures the video thread decodes

ASSUME VpqAssumption == VpqSize \in Nat \ {0} /\ WaitCnt \in Nat
ASSUME FramesAssumption == MaxFrames \in Nat

VARIABLES
    slots,              \* _queue: the picture in each slot, Blank if incomplete
    rIndex, wIndex, size,
    mutex,              \* the thread that holds _mutex, or "free"
    wpc, wpic, wload,   \* video thread: place, pic, the loaded _size
    frame,              \* video thread: the next picture to decode
    rpc, rpic, rload,   \* main thread: place, pic, the loaded _size
    waitCnt,            \* main thread: polls left
    seen,               \* main thread: what the upload began to read
    shown               \* history: the pictures uploaded to the texture

wVars == <<wIndex, wpc, wpic, wload, frame>>
rVars == <<rIndex, rpc, rpic, rload, waitCnt, seen, shown>>
vars == <<slots, rIndex, wIndex, size, mutex, wpc, wpic, wload, frame,
          rpc, rpic, rload, waitCnt, seen, shown>>

Slots == 0 .. VpqSize - 1
Blank == -1             \* a slot allocated, or being written
NoPicture == -1         \* nullptr

\* The full test and the index arithmetic, each preceded by a plausible slip.
FullNever(n) == n > VpqSize
Full(n) == n = VpqSize

Advance(i) == (i + 1) % VpqSize

Init ==
    /\ slots = [s \in Slots |-> Blank]
    /\ rIndex = 0 /\ wIndex = 0 /\ size = 0
    /\ mutex = "free"
    /\ wpc = "decode" /\ wpic = NoPicture /\ wload = 0 /\ frame = 0
    /\ rpc = "poll" /\ rpic = NoPicture /\ rload = 0
    /\ waitCnt = WaitCnt /\ seen = Blank /\ shown = <<>>

-----------------------------------------------------------------------------
(* The video thread: decode_video on the packets of the stream.            *)

\* avcodec_decode_video2 yields a picture.
DecodeFrame ==
    /\ wpc = "decode" /\ frame < MaxFrames
    /\ wpc' = "wait"
    /\ UNCHANGED <<rVars, slots, wIndex, size, mutex, wpic, wload, frame>>

\* while (getEmpty() == nullptr) sleep(10): leaves when a slot is empty.
WaitEmptyAny ==
    /\ wpc = "wait" /\ mutex = "free"
    /\ wpc' = "getEmpty"
    /\ UNCHANGED <<rVars, slots, wIndex, size, mutex, wpic, wload, frame>>
WaitEmpty ==
    /\ wpc = "wait" /\ mutex = "free"
    /\ ~Full(size)
    /\ wpc' = "getEmpty"
    /\ UNCHANGED <<rVars, slots, wIndex, size, mutex, wpic, wload, frame>>

\* The second getEmpty(), whose result is used without a test.
GetEmpty ==
    /\ wpc = "getEmpty" /\ mutex = "free"
    /\ wpic' = IF Full(size) THEN NoPicture ELSE wIndex
    /\ wpc' = "scale"
    /\ UNCHANGED <<rVars, slots, wIndex, size, mutex, wload, frame>>

\* sws_scale writes the slot, outside the lock.
ScaleBegin ==
    /\ wpc = "scale" /\ wpic # NoPicture
    /\ slots' = [slots EXCEPT ![wpic] = Blank]
    /\ wpc' = "scaling"
    /\ UNCHANGED <<rVars, wIndex, size, mutex, wpic, wload, frame>>

ScaleEnd ==
    /\ wpc = "scaling"
    /\ slots' = [slots EXCEPT ![wpic] = frame]
    /\ wpc' = "push"
    /\ UNCHANGED <<rVars, wIndex, size, mutex, wpic, wload, frame>>

\* push(): if (_size == VPQ_SIZE) return false; the caller ignores the result.
PushEnterNoLock ==
    /\ wpc = "push"
    /\ wpc' = "pushIndex"
    /\ UNCHANGED <<rVars, slots, wIndex, size, mutex, wpic, wload, frame>>
PushEnter ==
    /\ wpc = "push" /\ mutex = "free"
    /\ IF Full(size)
       THEN wpc' = "decode" /\ frame' = frame + 1 /\ UNCHANGED mutex
       ELSE wpc' = "pushIndex" /\ mutex' = "video" /\ UNCHANGED frame
    /\ UNCHANGED <<rVars, slots, wIndex, size, wpic, wload>>

PushIndex ==
    /\ wpc = "pushIndex"
    /\ wIndex' = Advance(wIndex)
    /\ wpc' = "pushLoad"
    /\ UNCHANGED <<rVars, slots, size, mutex, wpic, wload, frame>>

\* _size++ is a load and a store; the destructor of the guard unlocks.
PushLoad ==
    /\ wpc = "pushLoad"
    /\ wload' = size
    /\ wpc' = "pushStore"
    /\ UNCHANGED <<rVars, slots, wIndex, size, mutex, wpic, frame>>

PushStore ==
    /\ wpc = "pushStore"
    /\ size' = wload + 1
    /\ mutex' = "free"
    /\ wpc' = "decode" /\ frame' = frame + 1
    /\ UNCHANGED <<rVars, slots, wIndex, wpic, wload>>

Video == \/ DecodeFrame \/ WaitEmpty \/ GetEmpty \/ ScaleBegin \/ ScaleEnd
         \/ PushEnter \/ PushIndex \/ PushLoad \/ PushStore

-----------------------------------------------------------------------------
(* The main thread: the endless display loop.  full() only chooses how long *)
(* the loop sleeps.                                                        *)

\* while (!size() && waitCnt) { sleep(1); waitCnt--; }
Poll ==
    /\ rpc = "poll"
    /\ IF size = 0 /\ waitCnt > 0
       THEN waitCnt' = waitCnt - 1 /\ UNCHANGED rpc
       ELSE rpc' = "display" /\ UNCHANGED waitCnt
    /\ UNCHANGED <<wVars, slots, rIndex, size, mutex, rpic, rload, seen, shown>>

\* displayVideo(): if (size()) ..., read without the lock.
Display ==
    /\ rpc = "display"
    /\ IF size # 0
       THEN rpc' = "peek" /\ UNCHANGED waitCnt
       ELSE rpc' = "poll" /\ waitCnt' = WaitCnt
    /\ UNCHANGED <<wVars, slots, rIndex, size, mutex, rpic, rload, seen, shown>>

Peek ==
    /\ rpc = "peek" /\ mutex = "free"
    /\ rpic' = IF size = 0 THEN NoPicture ELSE rIndex
    /\ rpc' = "upload"
    /\ UNCHANGED <<wVars, slots, rIndex, size, mutex, rload, waitCnt, seen, shown>>

\* updateTexture reads the slot, outside the lock.
UploadBegin ==
    /\ rpc = "upload" /\ rpic # NoPicture
    /\ seen' = slots[rpic]
    /\ rpc' = "uploading"
    /\ UNCHANGED <<wVars, slots, rIndex, size, mutex, rpic, rload, waitCnt, shown>>

UploadEnd ==
    /\ rpc = "uploading"
    /\ shown' = Append(shown, IF slots[rpic] = seen THEN seen ELSE Blank)
    /\ rpc' = "pop"
    /\ UNCHANGED <<wVars, slots, rIndex, size, mutex, rpic, rload, waitCnt, seen>>

\* pop(): if (_size == 0) return false; the caller ignores the result.
PopEnter ==
    /\ rpc = "pop" /\ mutex = "free"
    /\ IF size = 0
       THEN rpc' = "poll" /\ waitCnt' = WaitCnt /\ UNCHANGED mutex
       ELSE rpc' = "popIndex" /\ mutex' = "main" /\ UNCHANGED waitCnt
    /\ UNCHANGED <<wVars, slots, rIndex, size, rpic, rload, seen, shown>>

PopIndex ==
    /\ rpc = "popIndex"
    /\ rIndex' = Advance(rIndex)
    /\ rpc' = "popLoad"
    /\ UNCHANGED <<wVars, slots, size, mutex, rpic, rload, waitCnt, seen, shown>>

PopLoad ==
    /\ rpc = "popLoad"
    /\ rload' = size
    /\ rpc' = "popStore"
    /\ UNCHANGED <<wVars, slots, rIndex, size, mutex, rpic, waitCnt, seen, shown>>

PopStoreKeepsLock ==
    /\ rpc = "popStore"
    /\ size' = rload - 1
    /\ rpc' = "poll" /\ waitCnt' = WaitCnt
    /\ UNCHANGED <<wVars, slots, rIndex, mutex, rpic, rload, seen, shown>>
PopStore ==
    /\ rpc = "popStore"
    /\ size' = rload - 1
    /\ mutex' = "free"
    /\ rpc' = "poll" /\ waitCnt' = WaitCnt
    /\ UNCHANGED <<wVars, slots, rIndex, rpic, rload, seen, shown>>

Main == \/ Poll \/ Display \/ Peek \/ UploadBegin \/ UploadEnd
        \/ PopEnter \/ PopIndex \/ PopLoad \/ PopStore

-----------------------------------------------------------------------------
Next == Video \/ Main

Spec == Init /\ [][Next]_vars

\* The scheduler runs both threads.  Weak fairness is enough although the
\* mutex is not a fair one: a thread that waits for it is passed over only as
\* long as the other one has pictures, or empty slots, left.
FairSpec == Spec /\ WF_vars(Video) /\ WF_vars(Main)

-----------------------------------------------------------------------------
(* Properties                                                              *)

WPcSet == {"decode", "wait", "getEmpty", "scale", "scaling", "push",
           "pushIndex", "pushLoad", "pushStore"}
RPcSet == {"poll", "display", "peek", "upload", "uploading", "pop",
           "popIndex", "popLoad", "popStore"}

\* Every variable holds a value of its type; both indices are slots.
TypeOK ==
    /\ slots \in [Slots -> Nat \cup {Blank}]
    /\ rIndex \in Slots /\ wIndex \in Slots
    /\ size \in 0 .. VpqSize
    /\ mutex \in {"free", "video", "main"}
    /\ wpc \in WPcSet /\ wpic \in Slots \cup {NoPicture}
    /\ wload \in 0 .. VpqSize /\ frame \in Nat
    /\ rpc \in RPcSet /\ rpic \in Slots \cup {NoPicture}
    /\ rload \in 0 .. VpqSize /\ waitCnt \in 0 .. WaitCnt
    /\ seen \in Nat \cup {Blank} /\ shown \in Seq(Nat \cup {Blank})

\* The pointers that peek and getEmpty hand out of the critical section never
\* name the same slot while it is being converted into and uploaded from.
NoTearing == (wpc = "scaling" /\ rpc = "uploading") => wpic # rpic

\* What a thread tested in one critical section (or with no lock) still holds
\* when it acts in a later one: pic is never null where it is dereferenced,
\* and the ignored results of push and pop are never false.
TestsStillHold ==
    /\ wpc = "scale" => wpic # NoPicture
    /\ rpc = "upload" => rpic # NoPicture
    /\ wpc = "push" => size # VpqSize
    /\ rpc = "pop" => size # 0

\* The pictures shown are the pictures decoded: complete, in order, none
\* skipped or shown twice.
ShownInOrder == \A i \in 1 .. Len(shown) : shown[i] = i - 1

-----------------------------------------------------------------------------
(* The inductive invariant behind the safety properties.                   *)

\* The lock is held exactly by the thread inside push() or pop().
LockInv == /\ mutex = "video" <=> wpc \in {"pushIndex", "pushLoad", "pushStore"}
           /\ mutex = "main" <=> rpc \in {"popIndex", "popLoad", "popStore"}

\* The pictures between the two indices; _size catches up with them.
Entering == IF wpc \in {"pushLoad", "pushStore"} THEN 1 ELSE 0
Leaving == IF rpc \in {"popLoad", "popStore"} THEN 1 ELSE 0
Occupied == size + Entering - Leaving

RingFrom(i, n) == IF i + n < VpqSize THEN i + n ELSE i + n - VpqSize
Ring(n) == RingFrom(rIndex, n)
IndexInv == wIndex = Ring(Occupied)

\* A thread past its test relies on the other one moving _size its way only.
WriterInv ==
    /\ wpc \notin {"decode", "wait"} => size < VpqSize
    /\ wpc \in {"scale", "scaling", "push", "pushIndex"} => wpic = wIndex
    /\ wpc \in {"push", "pushIndex"} => slots[wpic] = frame
    /\ wpc = "pushStore" => wload = size

ReaderInv ==
    /\ rpc \notin {"poll", "display"} => size > 0
    /\ rpc \in {"upload", "uploading", "pop", "popIndex"} => rpic = rIndex
    /\ rpc = "uploading" => seen = slots[rpic]
    /\ rpc = "popStore" => rload = size

\* The occupied slots hold the decoded pictures not shown yet, in order (the
\* one that is shown and not yet popped included).
Oldest == Len(shown) - (IF rpc \in {"pop", "popIndex"} THEN 1 ELSE 0)
ContentInv ==
    /\ frame + Entering = Oldest + Occupied
    /\ \A i \in 0 .. Occupied - 1 : slots[Ring(i)] = Oldest + i

Inv == /\ TypeOK /\ LockInv /\ IndexInv /\ WriterInv /\ ReaderInv
       /\ ContentInv /\ ShownInOrder

-----------------------------------------------------------------------------
\* The video thread's wait for an empty slot ends and the picture gets in, and
\* every picture it has queued is shown in the end.
PicturesMove ==
    /\ wpc = "wait" ~> wpc = "decode"
    /\ \A k \in 0 .. MaxFrames - 1 : frame > k ~> Len(shown) > k
=============================================================================
