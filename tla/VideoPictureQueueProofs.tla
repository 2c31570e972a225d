---------------------- MODULE VideoPictureQueueProofs ----------------------
(***************************************************************************)
(* Proofs about VideoPictureQueue for every number of slots, of polls and  *)
(* of pictures.  Inv is inductive: the lock gives one thread at a time the *)
(* right to change the indices and _size, and between its critical         *)
(* sections each thread keeps its claim on one slot because the other one  *)
(* can move _size in one direction only.                                   *)
(***************************************************************************)
EXTENDS MCVideoPictureQueue, SequenceTheorems, TLAPS

\* (index + 1) % VPQ_SIZE on a slot.
LEMMA AdvanceLemma ==
    ASSUME NEW i \in Slots
    PROVE  /\ Advance(i) = IF i + 1 = VpqSize THEN 0 ELSE i + 1
           /\ Advance(i) \in Slots
  BY VpqAssumption DEF Slots, Advance

\* The occupied slots and the slot after them.
LEMMA OccupiedLemma ==
    ASSUME Inv
    PROVE  /\ Occupied \in 0 .. VpqSize
           /\ Entering = 1 => mutex = "video" /\ Leaving = 0
           /\ Leaving = 1 => mutex = "main" /\ Entering = 0
           /\ Entering \in {0, 1} /\ Leaving \in {0, 1}
           /\ Occupied = size + Entering - Leaving
<1>1. /\ Entering \in {0, 1} /\ Leaving \in {0, 1}
      /\ Entering = 1 => wpc \in {"pushLoad", "pushStore"}
      /\ Leaving = 1 => rpc \in {"popLoad", "popStore"}
  BY DEF Entering, Leaving
<1>2. /\ Entering = 1 => mutex = "video" /\ Leaving = 0 /\ size < VpqSize
      /\ Leaving = 1 => mutex = "main" /\ Entering = 0 /\ size > 0
  BY <1>1 DEF Inv, LockInv, WriterInv, ReaderInv
<1>3. QED
  BY <1>1, <1>2, VpqAssumption DEF Occupied, Inv, TypeOK

LEMMA RingLemma ==
    ASSUME TypeOK, NEW n \in 0 .. VpqSize
    PROVE  /\ Ring(n) \in Slots
           /\ \A m \in 0 .. VpqSize - 1 :
                 n < VpqSize /\ m # n => Ring(m) # Ring(n)
           /\ 0 < n /\ n < VpqSize => Ring(n) # rIndex
           /\ Ring(0) = rIndex
  BY VpqAssumption DEF TypeOK, Slots, Ring, RingFrom

LEMMA InitInv == Init => Inv
<1> SUFFICES ASSUME Init PROVE Inv
  OBVIOUS
<1>1. TypeOK
  BY VpqAssumption DEF Init, TypeOK, Slots, WPcSet, RPcSet
<1>2. Entering = 0 /\ Leaving = 0 /\ Occupied = 0 /\ Oldest = 0
  BY DEF Init, Entering, Leaving, Occupied, Oldest
<1>3. LockInv /\ WriterInv /\ ReaderInv /\ ShownInOrder
  BY DEF Init, LockInv, WriterInv, ReaderInv, ShownInOrder
<1>4. IndexInv
  BY <1>1, <1>2, VpqAssumption DEF Init, IndexInv, Ring, RingFrom
<1>5. ContentInv
  BY <1>2 DEF Init, ContentInv
<1>6. QED
  BY <1>1, <1>3, <1>4, <1>5 DEF Inv

\* A step that changes no index, no size and no slot, enters or leaves no
\* half-done push or pop and shows nothing keeps what Inv says of the ring.
LEMMA RingQuiet ==
    ASSUME Inv, UNCHANGED <<slots, rIndex, wIndex, size, frame, shown>>,
           Entering' = Entering, Leaving' = Leaving, Oldest' = Oldest
    PROVE  /\ Occupied' = Occupied
           /\ IndexInv' /\ ContentInv' /\ ShownInOrder'
  BY DEF Inv, Occupied, IndexInv, Ring, ContentInv, ShownInOrder

-----------------------------------------------------------------------------
\* The steps of the video thread that leave the ring as it is.
LEMMA VideoQuiet ==
    ASSUME Inv, DecodeFrame \/ WaitEmpty \/ GetEmpty \/ PushLoad
    PROVE  Inv'
<1> USE DEF Inv
<1>1. /\ UNCHANGED <<slots, rIndex, wIndex, size, frame, shown, mutex>>
      /\ UNCHANGED <<rpc, rpic, rload, waitCnt, seen>>
  BY DEF DecodeFrame, WaitEmpty, GetEmpty, PushLoad, rVars
<1>2. Entering' = Entering /\ Leaving' = Leaving /\ Oldest' = Oldest
  BY <1>1 DEF DecodeFrame, WaitEmpty, GetEmpty, PushLoad, Entering, Leaving, Oldest
<1>3. IndexInv' /\ ContentInv' /\ ShownInOrder'
  BY <1>1, <1>2, RingQuiet
<1>4. ReaderInv'
  BY <1>1 DEF ReaderInv
<1>5. LockInv'
  BY <1>1 DEF LockInv, DecodeFrame, WaitEmpty, GetEmpty, PushLoad
<1>6. TypeOK' /\ WriterInv'
  <2>1. CASE DecodeFrame
    BY <1>1, <2>1 DEF DecodeFrame, TypeOK, WPcSet, WriterInv
  <2>2. CASE WaitEmpty
    BY <1>1, <2>2, VpqAssumption DEF WaitEmpty, Full, TypeOK, WPcSet, WriterInv
  <2>3. CASE GetEmpty
    BY <1>1, <2>3 DEF GetEmpty, Full, TypeOK, WPcSet, WriterInv
  <2>4. CASE PushLoad
    BY <1>1, <2>4 DEF PushLoad, TypeOK, WPcSet, WriterInv
  <2>5. QED
    BY <2>1, <2>2, <2>3, <2>4
<1>7. QED
  BY <1>3, <1>4, <1>5, <1>6

\* The conversion writes the slot after the occupied ones only.
LEMMA ScaleStep ==
    ASSUME Inv, ScaleBegin \/ ScaleEnd
    PROVE  Inv'
<1> USE DEF Inv
<1>1. /\ UNCHANGED <<rIndex, wIndex, size, frame, shown, mutex>>
      /\ UNCHANGED <<rpc, rpic, rload, waitCnt, seen, wpic, wload>>
      /\ wpc \in {"scale", "scaling"} /\ wpc' \in {"scaling", "push"}
      /\ wpc' = "push" => slots'[wpic] = frame
      /\ slots' \in [Slots -> Nat \cup {Blank}]
      /\ \A s \in Slots : s # wpic => slots'[s] = slots[s]
  <2>1. wpic \in Slots
    BY DEF ScaleBegin, ScaleEnd, WriterInv, TypeOK
  <2>2. CASE ScaleBegin
    BY <2>1, <2>2 DEF ScaleBegin, rVars, TypeOK
  <2>3. CASE ScaleEnd
    BY <2>1, <2>3 DEF ScaleEnd, rVars, TypeOK
  <2>4. QED
    BY <2>2, <2>3
<1>2. /\ wpic = wIndex /\ size < VpqSize
      /\ Entering = 0 /\ wIndex = Ring(Occupied)
  BY <1>1 DEF WriterInv, Entering, IndexInv
<1>3. /\ Entering' = Entering /\ Leaving' = Leaving /\ Oldest' = Oldest
      /\ Occupied' = Occupied
  BY <1>1, <1>2 DEF Entering, Leaving, Oldest, Occupied
<1>4. LockInv' /\ WriterInv' /\ TypeOK' /\ IndexInv' /\ ShownInOrder'
  <2>1. LockInv' /\ IndexInv' /\ ShownInOrder'
    BY <1>1, <1>3 DEF LockInv, IndexInv, Ring, ShownInOrder
  <2>2. TypeOK' /\ WriterInv'
    BY <1>1, <1>2 DEF TypeOK, WPcSet, WriterInv
  <2>3. QED
    BY <2>1, <2>2
<1>5. ContentInv'
  <2>1. Occupied < VpqSize /\ Occupied \in 0 .. VpqSize
    BY <1>2, OccupiedLemma, VpqAssumption DEF TypeOK
  <2>2. ASSUME NEW i \in 0 .. Occupied - 1
        PROVE  slots'[Ring(i)] = slots[Ring(i)]
    <3>1. i \in 0 .. VpqSize - 1 /\ i # Occupied /\ i \in 0 .. VpqSize
      BY <2>1, VpqAssumption
    <3>2. Ring(i) # wpic /\ Ring(i) \in Slots
      BY <1>2, <2>1, <3>1, RingLemma
    <3>3. QED
      BY <1>1, <3>2
  <2>3. QED
    BY <1>1, <1>3, <2>2 DEF ContentInv, Ring
<1>6. ReaderInv'
  <2>1. CASE rpc = "uploading"
    <3>1. rpic = rIndex /\ 0 < size /\ Leaving = 0
      BY <2>1 DEF ReaderInv, Leaving
    <3>2. rIndex \in Slots /\ rIndex # wpic
      BY <1>2, <3>1, OccupiedLemma, RingLemma DEF TypeOK
    <3>3. slots'[rpic] = slots[rpic]
      BY <1>1, <3>1, <3>2
    <3>4. QED
      BY <1>1, <2>1, <3>3 DEF ReaderInv
  <2>2. CASE rpc # "uploading"
    BY <1>1, <2>2 DEF ReaderInv
  <2>3. QED
    BY <2>1, <2>2
<1>7. QED
  BY <1>4, <1>5, <1>6

\* push() takes the lock: it is never refused.
LEMMA PushEnterStep ==
    ASSUME Inv, PushEnter
    PROVE  Inv'
<1> USE DEF Inv
<1>1. /\ UNCHANGED <<slots, rIndex, wIndex, size, frame, shown>>
      /\ UNCHANGED <<rpc, rpic, rload, waitCnt, seen, wpic, wload>>
      /\ wpc = "push" /\ wpc' = "pushIndex"
      /\ mutex = "free" /\ mutex' = "video"
  BY DEF PushEnter, Full, rVars, WriterInv, TypeOK
<1>2. Entering' = Entering /\ Leaving' = Leaving /\ Oldest' = Oldest
  BY <1>1 DEF Entering, Leaving, Oldest
<1>3. IndexInv' /\ ContentInv' /\ ShownInOrder'
  BY <1>1, <1>2, RingQuiet
<1>4. TypeOK' /\ LockInv' /\ WriterInv' /\ ReaderInv'
  BY <1>1 DEF TypeOK, WPcSet, LockInv, WriterInv, ReaderInv
<1>5. QED
  BY <1>3, <1>4

\* The store to _wIndex makes the converted picture the last one of the ring.
LEMMA PushIndexStep ==
    ASSUME Inv, PushIndex
    PROVE  Inv'
<1> USE DEF Inv
<1>1. /\ UNCHANGED <<slots, rIndex, size, frame, shown, mutex>>
      /\ UNCHANGED <<rpc, rpic, rload, waitCnt, seen, wpic, wload>>
      /\ wpc = "pushIndex" /\ wpc' = "pushLoad"
      /\ wIndex' = Advance(wIndex)
  BY DEF PushIndex, rVars
<1>2. /\ mutex = "video" /\ Leaving = 0 /\ Leaving' = 0
      /\ Entering = 0 /\ Entering' = 1
      /\ Oldest' = Oldest /\ size < VpqSize
      /\ slots[wIndex] = frame
  BY <1>1 DEF LockInv, Leaving, Entering, Oldest, WriterInv
<1>3. Occupied = size /\ Occupied' = size + 1 /\ size \in 0 .. VpqSize - 1
  BY <1>1, <1>2, VpqAssumption DEF Occupied, TypeOK
<1>4. wIndex = Ring(size)
  BY <1>3 DEF IndexInv
<1>5. IndexInv'
  BY <1>1, <1>3, <1>4, AdvanceLemma, VpqAssumption
  DEF IndexInv, Ring, RingFrom, TypeOK, Slots
<1>6. ContentInv'
  <2>1. frame = Oldest + size
    BY <1>2, <1>3 DEF ContentInv, TypeOK
  <2>2. frame' + Entering' = Oldest' + Occupied'
    BY <1>1, <1>2, <1>3, <2>1 DEF TypeOK, Oldest
  <2>3. ASSUME NEW i \in 0 .. size
        PROVE  slots[Ring(i)] = Oldest + i
    <3>1. CASE i = size
      BY <1>2, <1>4, <2>1, <3>1
    <3>2. CASE i # size
      BY <1>3, <3>2 DEF ContentInv
    <3>3. QED
      BY <3>1, <3>2
  <2>4. 0 .. Occupied' - 1 = 0 .. size
    BY <1>3
  <2>5. QED
    BY <1>1, <1>2, <2>2, <2>3, <2>4 DEF ContentInv, Ring
<1>7. TypeOK' /\ LockInv' /\ WriterInv' /\ ReaderInv' /\ ShownInOrder'
  BY <1>1, AdvanceLemma
  DEF TypeOK, WPcSet, LockInv, WriterInv, ReaderInv, ShownInOrder
<1>8. QED
  BY <1>5, <1>6, <1>7

\* The store to _size publishes it.
LEMMA PushStoreStep ==
    ASSUME Inv, PushStore
    PROVE  Inv'
<1> USE DEF Inv
<1>1. /\ UNCHANGED <<slots, rIndex, wIndex, shown>>
      /\ UNCHANGED <<rpc, rpic, rload, waitCnt, seen, wpic, wload>>
      /\ wpc = "pushStore" /\ wpc' = "decode"
      /\ mutex = "video" /\ mutex' = "free"
      /\ size' = size + 1 /\ frame' = frame + 1 /\ size < VpqSize
  BY DEF PushStore, rVars, LockInv, WriterInv
<1>2. /\ Leaving = 0 /\ Leaving' = 0 /\ Entering = 1 /\ Entering' = 0
      /\ Oldest' = Oldest
  BY <1>1 DEF LockInv, Leaving, Entering, Oldest
<1>3. Occupied' = Occupied
  BY <1>1, <1>2 DEF Occupied, TypeOK
<1>4. IndexInv' /\ ShownInOrder'
  BY <1>1, <1>3 DEF IndexInv, Ring, ShownInOrder
<1>5. ContentInv'
  <2>1. frame' + Entering' = frame + Entering
    BY <1>1, <1>2 DEF TypeOK
  <2>2. QED
    BY <1>1, <1>2, <1>3, <2>1 DEF ContentInv, Ring
<1>6. TypeOK' /\ LockInv' /\ WriterInv' /\ ReaderInv'
  <2>1. ReaderInv'
    BY <1>1 DEF ReaderInv, LockInv, TypeOK
  <2>2. size' \in 0 .. VpqSize /\ frame' \in Nat
    BY <1>1, VpqAssumption DEF TypeOK
  <2>3. TypeOK' /\ LockInv' /\ WriterInv'
    BY <1>1, <2>2 DEF TypeOK, WPcSet, LockInv, WriterInv
  <2>4. QED
    BY <2>1, <2>3
<1>7. QED
  BY <1>4, <1>5, <1>6

LEMMA VideoInv ==
    ASSUME Inv, Video
    PROVE  Inv'
  BY VideoQuiet, ScaleStep, PushEnterStep, PushIndexStep, PushStoreStep DEF Video

-----------------------------------------------------------------------------
\* The steps of the main thread that leave the ring as it is.
LEMMA MainQuiet ==
    ASSUME Inv, Poll \/ Display \/ Peek \/ UploadBegin \/ PopLoad
    PROVE  Inv'
<1> USE DEF Inv
<1>1. /\ UNCHANGED <<slots, rIndex, wIndex, size, frame, shown, mutex>>
      /\ UNCHANGED <<wpc, wpic, wload>>
  BY DEF Poll, Display, Peek, UploadBegin, PopLoad, wVars
<1>2. Entering' = Entering /\ Leaving' = Leaving /\ Oldest' = Oldest
  BY <1>1 DEF Poll, Display, Peek, UploadBegin, PopLoad, Entering, Leaving, Oldest
<1>3. IndexInv' /\ ContentInv' /\ ShownInOrder'
  BY <1>1, <1>2, RingQuiet
<1>4. WriterInv'
  BY <1>1 DEF WriterInv
<1>5. LockInv'
  BY <1>1 DEF LockInv, Poll, Display, Peek, UploadBegin, PopLoad
<1>6. TypeOK' /\ ReaderInv'
  <2>1. CASE Poll
    BY <1>1, <2>1, VpqAssumption DEF Poll, TypeOK, RPcSet, ReaderInv
  <2>2. CASE Display
    BY <1>1, <2>2, VpqAssumption DEF Display, TypeOK, RPcSet, ReaderInv
  <2>3. CASE Peek
    BY <1>1, <2>3, VpqAssumption DEF Peek, TypeOK, RPcSet, ReaderInv
  <2>4. CASE UploadBegin
    BY <1>1, <2>4 DEF UploadBegin, TypeOK, RPcSet, ReaderInv
  <2>5. CASE PopLoad
    BY <1>1, <2>5 DEF PopLoad, TypeOK, RPcSet, ReaderInv
  <2>6. QED
    BY <2>1, <2>2, <2>3, <2>4, <2>5
<1>7. QED
  BY <1>3, <1>4, <1>5, <1>6

\* The upload reads the oldest picture, complete and unchanged.
LEMMA UploadEndStep ==
    ASSUME Inv, UploadEnd
    PROVE  Inv'
<1> USE DEF Inv
<1>1. /\ UNCHANGED <<slots, rIndex, wIndex, size, frame, mutex>>
      /\ UNCHANGED <<wpc, wpic, wload, rpic, rload, waitCnt, seen>>
      /\ rpc = "uploading" /\ rpc' = "pop"
      /\ shown' = Append(shown, slots[rIndex])
      /\ size > 0 /\ rpic = rIndex
  BY DEF UploadEnd, wVars, ReaderInv
<1>2. /\ Leaving = 0 /\ Leaving' = 0 /\ Entering' = Entering
      /\ Occupied' = Occupied /\ Oldest = Len(shown)
  BY <1>1 DEF Leaving, Entering, Oldest, Occupied, TypeOK
<1>3. Occupied > 0
  BY <1>1, <1>2, OccupiedLemma DEF TypeOK
<1>4. slots[rIndex] = Len(shown)
  <2>1. 0 \in 0 .. Occupied - 1 /\ Ring(0) = rIndex
    BY <1>3, OccupiedLemma, RingLemma, VpqAssumption
  <2>2. slots[Ring(0)] = Oldest + 0
    BY <2>1 DEF ContentInv
  <2>3. QED
    BY <1>2, <2>1, <2>2 DEF TypeOK
<1>5. /\ shown' \in Seq(Nat \cup {Blank})
      /\ Len(shown') = Len(shown) + 1
      /\ \A i \in 1 .. Len(shown) : shown'[i] = shown[i]
      /\ shown'[Len(shown) + 1] = Len(shown)
  <2>1. shown \in Seq(Nat \cup {Blank}) /\ slots[rIndex] \in Nat \cup {Blank}
    BY DEF TypeOK
  <2>2. /\ shown' = Append(shown, Len(shown))
        /\ Len(shown) \in Nat \cup {Blank}
    BY <1>1, <1>4, <2>1
  <2>3. QED
    BY <2>1, <2>2, AppendProperties
<1>6. ShownInOrder'
  BY <1>5 DEF ShownInOrder, TypeOK
<1>7. Oldest' = Oldest
  BY <1>1, <1>2, <1>5 DEF Oldest, TypeOK
<1>8. IndexInv' /\ ContentInv'
  BY <1>1, <1>2, <1>7 DEF IndexInv, ContentInv, Ring
<1>9. TypeOK' /\ LockInv' /\ WriterInv' /\ ReaderInv'
  BY <1>1, <1>5 DEF TypeOK, RPcSet, LockInv, WriterInv, ReaderInv
<1>10. QED
  BY <1>6, <1>8, <1>9

\* pop() takes the lock: it is never refused.
LEMMA PopEnterStep ==
    ASSUME Inv, PopEnter
    PROVE  Inv'
<1> USE DEF Inv
<1>1. /\ UNCHANGED <<slots, rIndex, wIndex, size, frame, shown>>
      /\ UNCHANGED <<wpc, wpic, wload, rpic, rload, waitCnt, seen>>
      /\ rpc = "pop" /\ rpc' = "popIndex"
      /\ mutex = "free" /\ mutex' = "main"
  BY DEF PopEnter, wVars, ReaderInv, TypeOK
<1>2. Entering' = Entering /\ Leaving' = Leaving /\ Oldest' = Oldest
  BY <1>1 DEF Entering, Leaving, Oldest
<1>3. IndexInv' /\ ContentInv' /\ ShownInOrder'
  BY <1>1, <1>2, RingQuiet
<1>4. TypeOK' /\ LockInv' /\ WriterInv' /\ ReaderInv'
  BY <1>1 DEF TypeOK, RPcSet, LockInv, WriterInv, ReaderInv
<1>5. QED
  BY <1>3, <1>4

\* The store to _rIndex gives up the slot of the picture just shown.
LEMMA PopIndexStep ==
    ASSUME Inv, PopIndex
    PROVE  Inv'
<1> USE DEF Inv
<1>1. /\ UNCHANGED <<slots, wIndex, size, frame, shown, mutex>>
      /\ UNCHANGED <<wpc, wpic, wload, rpic, rload, waitCnt, seen>>
      /\ rpc = "popIndex" /\ rpc' = "popLoad"
      /\ rIndex' = Advance(rIndex)
  BY DEF PopIndex, wVars
<1>2. /\ mutex = "main" /\ Entering = 0 /\ Entering' = 0
      /\ Leaving = 0 /\ Leaving' = 1
      /\ Oldest = Len(shown) - 1 /\ Oldest' = Len(shown)
      /\ size > 0
  BY <1>1 DEF LockInv, Leaving, Entering, Oldest, ReaderInv
<1>3. Occupied = size /\ Occupied' = size - 1 /\ size \in 1 .. VpqSize
  BY <1>1, <1>2, VpqAssumption DEF Occupied, TypeOK
<1>4. ASSUME NEW n \in 0 .. size - 1
      PROVE  RingFrom(rIndex', n) = Ring(n + 1)
  <2>1. rIndex \in 0 .. VpqSize - 1 /\ VpqSize \in Nat /\ VpqSize > 0
    BY VpqAssumption DEF TypeOK, Slots
  <2>2. rIndex' = IF rIndex + 1 = VpqSize THEN 0 ELSE rIndex + 1
    BY <1>1, AdvanceLemma DEF TypeOK
  <2>3. n \in Nat /\ n + 1 <= VpqSize
    BY <1>3, <2>1
  <2>4. QED
    BY <2>1, <2>2, <2>3 DEF Ring, RingFrom
<1>5. IndexInv'
  <2>1. RingFrom(rIndex', size - 1) = Ring(size)
    BY <1>3, <1>4, (size - 1) + 1 = size
  <2>2. wIndex = Ring(size)
    BY <1>3 DEF IndexInv
  <2>3. QED
    BY <1>1, <1>3, <2>1, <2>2 DEF IndexInv, Ring
<1>6. ContentInv'
  <2>1. frame' + Entering' = Oldest' + Occupied'
    BY <1>1, <1>2, <1>3 DEF ContentInv, TypeOK
  <2>2. ASSUME NEW i \in 0 .. size - 1 - 1
        PROVE  slots[RingFrom(rIndex', i)] = Len(shown) + i
    <3>1. i + 1 \in 0 .. Occupied - 1 /\ i \in 0 .. size - 1
      BY <1>3
    <3>2. slots[Ring(i + 1)] = Oldest + (i + 1)
      BY <3>1 DEF ContentInv
    <3>3. QED
      BY <1>2, <1>4, <3>1, <3>2 DEF TypeOK
  <2>3. QED
    BY <1>1, <1>2, <1>3, <2>1, <2>2 DEF ContentInv, Ring
<1>7. TypeOK' /\ LockInv' /\ WriterInv' /\ ReaderInv' /\ ShownInOrder'
  BY <1>1, AdvanceLemma
  DEF TypeOK, RPcSet, LockInv, WriterInv, ReaderInv, ShownInOrder
<1>8. QED
  BY <1>5, <1>6, <1>7

\* The store to _size makes the slot empty for the video thread.
LEMMA PopStoreStep ==
    ASSUME Inv, PopStore
    PROVE  Inv'
<1> USE DEF Inv
<1>1. /\ UNCHANGED <<slots, rIndex, wIndex, frame, shown>>
      /\ UNCHANGED <<wpc, wpic, wload, rpic, rload, seen>>
      /\ rpc = "popStore" /\ rpc' = "poll" /\ waitCnt' = WaitCnt
      /\ mutex = "main" /\ mutex' = "free"
      /\ size' = size - 1 /\ size > 0
  BY DEF PopStore, wVars, LockInv, ReaderInv
<1>2. /\ Leaving = 1 /\ Leaving' = 0 /\ Entering = 0 /\ Entering' = 0
      /\ Oldest' = Oldest
  BY <1>1 DEF LockInv, Leaving, Entering, Oldest
<1>3. Occupied' = Occupied
  BY <1>1, <1>2 DEF Occupied, TypeOK
<1>4. IndexInv' /\ ContentInv' /\ ShownInOrder'
  BY <1>1, <1>2, <1>3 DEF IndexInv, ContentInv, Ring, ShownInOrder
<1>5. size' \in 0 .. VpqSize /\ size' < size
  BY <1>1, VpqAssumption DEF TypeOK
<1>6. WriterInv' /\ ReaderInv'
  BY <1>1, <1>5, VpqAssumption DEF TypeOK, LockInv, WriterInv, ReaderInv
<1>7. TypeOK' /\ LockInv'
  BY <1>1, <1>5, VpqAssumption DEF TypeOK, RPcSet, LockInv
<1>8. QED
  BY <1>4, <1>6, <1>7

LEMMA MainInv ==
    ASSUME Inv, Main
    PROVE  Inv'
  BY MainQuiet, UploadEndStep, PopEnterStep, PopIndexStep, PopStoreStep DEF Main

-----------------------------------------------------------------------------
(* The theorems.                                                           *)

\* Inv holds in every reachable state of the two threads.
THEOREM InvTheorem == Spec => []Inv
<1>1. Inv /\ UNCHANGED vars => Inv'
  <2> SUFFICES ASSUME Inv, UNCHANGED vars PROVE Inv'
    OBVIOUS
  <2>1. Entering' = Entering /\ Leaving' = Leaving /\ Oldest' = Oldest
    BY DEF vars, Entering, Leaving, Oldest
  <2>2. IndexInv' /\ ContentInv' /\ ShownInOrder'
    BY <2>1, RingQuiet DEF vars
  <2>3. TypeOK' /\ LockInv' /\ WriterInv' /\ ReaderInv'
    BY DEF vars, Inv, TypeOK, LockInv, WriterInv, ReaderInv
  <2>4. QED
    BY <2>2, <2>3 DEF Inv
<1>2. Inv /\ [Next]_vars => Inv'
  BY <1>1, VideoInv, MainInv DEF Next
<1>3. QED
  BY InitInv, <1>2, PTL DEF Spec

\* Type correctness: both indices always name a slot.
THEOREM TypeCorrect == Spec => []TypeOK
  BY InvTheorem, PTL DEF Inv

\* The picture being converted and the one being uploaded are different slots.
THEOREM NoTearingTheorem == Spec => []NoTearing
<1>1. Inv => NoTearing
  <2> SUFFICES ASSUME Inv, wpc = "scaling", rpc = "uploading"
               PROVE  wpic # rpic
    BY DEF NoTearing
  <2>1. /\ wpic = wIndex /\ rpic = rIndex /\ 0 < size /\ size < VpqSize
        /\ wIndex = Ring(size)
    BY DEF Inv, TypeOK, WriterInv, ReaderInv, IndexInv, Occupied, Entering, Leaving
  <2>2. size \in 0 .. VpqSize /\ TypeOK
    BY DEF Inv, TypeOK
  <2>3. QED
    BY <2>1, <2>2, RingLemma
<1>2. QED
  BY <1>1, InvTheorem, PTL

\* No null picture is dereferenced and no push or pop is refused.
THEOREM TestsStillHoldTheorem == Spec => []TestsStillHold
<1>1. Inv => TestsStillHold
  BY VpqAssumption
  DEF Inv, TypeOK, Slots, NoPicture, WriterInv, ReaderInv, TestsStillHold
<1>2. QED
  BY <1>1, InvTheorem, PTL

\* The pictures shown are the pictures decoded, complete and in order.
THEOREM ShownTheorem == Spec => []ShownInOrder
  BY InvTheorem, PTL DEF Inv

-----------------------------------------------------------------------------
(* The refinement of the FIFO.                                             *)

\* n pictures of the film, from the picture a on.
Pictures(a, n) == [i \in 1 .. n |-> a + i - 1]

\* Joining two successive pieces of the film, and cutting one in two.
LEMMA PicturesLemma ==
    ASSUME NEW a \in Nat, NEW n \in Nat, NEW m \in 0 .. n
    PROVE  /\ Pictures(a, n) \in Seq(Nat) /\ Len(Pictures(a, n)) = n
           /\ SubSeq(Pictures(a, n), 1, m) = Pictures(a, m)
           /\ SubSeq(Pictures(a, n), m + 1, n) = Pictures(a + m, n - m)
           /\ Pictures(a, m) \o Pictures(a + m, n - m) = Pictures(a, n)
  BY DEF Pictures

\* The mapping's index arithmetic is that of the ring.
LEMMA WrapLemma ==
    ASSUME NEW s \in Slots, NEW n \in Slots
    PROVE  (s + n) % VpqSize = RingFrom(s, n)
<1>1. CASE s + n < VpqSize
  BY <1>1, VpqAssumption DEF RingFrom, Slots
<1>2. CASE s + n >= VpqSize
  <2>1. s + n - VpqSize \in 0 .. VpqSize - 1 /\ s + n = VpqSize + (s + n - VpqSize)
    BY <1>2, VpqAssumption DEF Slots
  <2>2. (s + n) % VpqSize = s + n - VpqSize
    BY <1>2, <2>1, VpqAssumption DEF Slots
  <2>3. QED
    BY <1>2, <2>2, VpqAssumption DEF RingFrom, Slots
<1>3. QED
  BY <1>1, <1>2, VpqAssumption DEF Slots

\* In a state of the invariant the abstract queue holds the pictures pushed and
\* not uploaded, however far a push() or a pop() has come.
Mapping ==
    /\ Len(shown) \in Nat /\ frame \in Nat
    /\ frame - Len(shown) \in 0 .. VpqSize
    /\ shown = Pictures(0, Len(shown))
    /\ Unshown = Pictures(Len(shown), frame - Len(shown))

LEMMA MappingLemma == Inv => Mapping
<1> SUFFICES ASSUME Inv PROVE Mapping
  OBVIOUS
<1> USE DEF Inv
<1> DEFINE popped == IF rpc \in {"pop", "popIndex"} THEN 1 ELSE 0
<1>1. /\ size \in 0 .. VpqSize /\ rIndex \in Slots /\ frame \in Nat
      /\ shown \in Seq(Nat \cup {Blank}) /\ Len(shown) \in Nat
      /\ Occupied \in 0 .. VpqSize /\ Entering \in {0, 1}
      /\ frame + Entering = Len(shown) - popped + Occupied
      /\ Oldest = Len(shown) - popped
  BY OccupiedLemma DEF TypeOK, ContentInv, Oldest
<1>2. /\ Queued \in 0 .. VpqSize
      /\ Queued + popped = Occupied - Entering
  <2>1. CASE rpc \in {"pop", "popIndex"}
    <3>1. popped = 1 /\ Leaving = 0 /\ Queued = size - 1 /\ size > 0
      BY <2>1 DEF Leaving, Queued, ReaderInv
    <3>2. QED
      BY <1>1, <3>1, VpqAssumption DEF Occupied
  <2>2. CASE rpc \in {"popLoad", "popStore"}
    <3>1. popped = 0 /\ Leaving = 1 /\ Queued = size - 1 /\ size > 0
      BY <2>2 DEF Leaving, Queued, ReaderInv
    <3>2. QED
      BY <1>1, <3>1, VpqAssumption DEF Occupied
  <2>3. CASE rpc \notin {"pop", "popIndex", "popLoad", "popStore"}
    <3>1. popped = 0 /\ Leaving = 0 /\ Queued = size
      BY <2>3 DEF Leaving, Queued
    <3>2. QED
      BY <1>1, <3>1 DEF Occupied
  <2>4. QED
    BY <2>1, <2>2, <2>3
<1>3. /\ frame - Len(shown) = Queued
      /\ frame - Len(shown) \in 0 .. VpqSize
  BY <1>1, <1>2
<1>4. shown = Pictures(0, Len(shown))
  <2>1. \A i \in 1 .. Len(shown) : shown[i] = 0 + i - 1
    BY DEF ShownInOrder
  <2>2. QED
    BY <1>1, <2>1 DEF Pictures
<1>5. ASSUME NEW i \in 1 .. Queued
      PROVE  slots[(First + i - 1) % VpqSize] = Len(shown) + i - 1
  <2> DEFINE j == i - 1
  <2>1. j \in Slots /\ j + popped \in 0 .. Occupied - 1
    BY <1>1, <1>2, VpqAssumption DEF Slots
  <2>2. First \in Slots /\ RingFrom(First, j) = Ring(j + popped)
    <3>1. CASE rpc \in {"pop", "popIndex"}
      <4>1. /\ popped = 1 /\ First \in Slots
            /\ First = IF rIndex + 1 = VpqSize THEN 0 ELSE rIndex + 1
        BY <1>1, <3>1, AdvanceLemma DEF First
      <4>2. QED
        BY <1>1, <2>1, <4>1, VpqAssumption DEF Slots, Ring, RingFrom
    <3>2. CASE rpc \notin {"pop", "popIndex"}
      <4>1. popped = 0 /\ First = rIndex
        BY <3>2 DEF First
      <4>2. QED
        BY <1>1, <2>1, <4>1 DEF Slots, Ring
    <3>3. QED
      BY <3>1, <3>2
  <2>3. First + i - 1 = First + j
    BY <2>2 DEF Slots
  <2>4. slots[Ring(j + popped)] = Oldest + (j + popped)
    BY <2>1 DEF ContentInv
  <2>5. Oldest + (j + popped) = Len(shown) + i - 1
    BY <1>1
  <2> HIDE DEF j
  <2>6. (First + j) % VpqSize = RingFrom(First, j)
    BY <2>1, <2>2, WrapLemma
  <2>7. QED
    BY <2>2, <2>3, <2>4, <2>5, <2>6, Zenon
<1>6. Unshown = Pictures(Len(shown), frame - Len(shown))
  <2>1. Unshown = [i \in 1 .. Queued |-> Len(shown) + i - 1]
    BY <1>5 DEF Unshown
  <2>2. QED
    BY <1>3, <2>1 DEF Pictures
<1>7. QED
  BY <1>1, <1>3, <1>4, <1>6, Zenon DEF Mapping

\* A step that neither counts a picture as queued nor shows one leaves the
\* abstract queue.
LEMMA QuietMapping ==
    ASSUME Mapping, Mapping', UNCHANGED <<frame, shown>>
    PROVE  UNCHANGED F!fifoVars
<1>1. Unshown' = Unshown
  BY DEF Mapping, Pictures
<1>2. QED
  BY <1>1 DEF F!fifoVars

\* The end of push(): one picture enters, and there is room for it.
LEMMA PushEnters ==
    ASSUME Inv, Mapping, Mapping', PushStore
    PROVE  F!Enter
<1> DEFINE d == Len(shown)
           k == frame - d
<1>1. UNCHANGED shown /\ frame' = frame + 1
  BY DEF PushStore, rVars
<1>2. /\ d \in Nat /\ frame \in Nat
      /\ k \in 0 .. VpqSize /\ k + 1 \in 0 .. VpqSize
      /\ d + k = frame /\ frame + 1 - d = k + 1
  BY <1>1, VpqAssumption DEF Mapping
<1>3. Unshown = Pictures(d, k) /\ Unshown' = Pictures(d, k + 1)
  BY <1>1, <1>2 DEF Mapping
<1> HIDE DEF d, k
<1>4. /\ Len(Pictures(d, k)) = k
      /\ Pictures(d, k) \o Pictures(frame, 1) = Pictures(d, k + 1)
  <2>1. k \in 0 .. k + 1 /\ (k + 1) - k = 1 /\ k \in 0 .. k
        /\ k \in Nat /\ k + 1 \in Nat
    BY <1>2
  <2>2. Len(Pictures(d, k)) = k
    BY <1>2, <2>1, PicturesLemma
  <2>3. Pictures(d, k) \o Pictures(d + k, (k + 1) - k) = Pictures(d, k + 1)
    BY <1>2, <2>1, PicturesLemma
  <2>4. QED
    BY <1>2, <2>1, <2>2, <2>3
<1>5. 1 \in 1 .. VpqSize - k
  BY <1>2, VpqAssumption
<1>6. QED
  BY <1>1, <1>3, <1>4, <1>5 DEF F!Enter, Pictures

\* The end of the upload: the oldest picture leaves.
LEMMA UploadLeaves ==
    ASSUME Inv, Mapping, Mapping', UploadEnd
    PROVE  F!Leave
<1> DEFINE d == Len(shown)
           k == frame - d
<1>1. /\ UNCHANGED frame
      /\ Len(shown') = d + 1
  BY DEF UploadEnd, wVars, Inv, TypeOK
<1>2. /\ d \in Nat /\ frame \in Nat
      /\ k \in 0 .. VpqSize /\ k - 1 \in 0 .. VpqSize
      /\ frame - (d + 1) = k - 1
  BY <1>1, VpqAssumption DEF Mapping
<1>3. /\ Unshown = Pictures(d, k) /\ Unshown' = Pictures(d + 1, k - 1)
      /\ shown = Pictures(0, d) /\ shown' = Pictures(0, d + 1)
  BY <1>1, <1>2 DEF Mapping
<1> HIDE DEF d, k
<1>4. /\ Len(Pictures(d, k)) = k
      /\ SubSeq(Pictures(d, k), 1, 1) = Pictures(d, 1)
      /\ SubSeq(Pictures(d, k), 1 + 1, k) = Pictures(d + 1, k - 1)
  <2>1. 1 \in 0 .. k /\ k \in Nat
    BY <1>2, VpqAssumption
  <2>2. QED
    BY <1>2, <2>1, PicturesLemma
<1>5. Pictures(0, d) \o Pictures(d, 1) = Pictures(0, d + 1)
  <2>1. d \in 0 .. d + 1 /\ (d + 1) - d = 1 /\ 0 + d = d /\ d + 1 \in Nat
    BY <1>2
  <2>2. Pictures(0, d) \o Pictures(0 + d, (d + 1) - d) = Pictures(0, d + 1)
    BY <2>1, PicturesLemma
  <2>3. QED
    BY <2>1, <2>2
<1>6. 1 \in 1 .. k
  BY <1>2, VpqAssumption
<1>7. QED
  BY <1>1, <1>3, <1>4, <1>5, <1>6 DEF F!Leave

\* The ring whose slots are filled and read outside the lock implements the
\* bounded FIFO of pictures: push() adds one, the end of the upload removes one.
THEOREM RefinementTheorem == Spec => ImplementsFifo
<1>1. Init => F!Init
  BY DEF Init, F!Init, Unshown, Queued
<1>2. ASSUME Inv, Inv', Mapping, Mapping', [Next]_vars
      PROVE  [F!Next]_F!fifoVars
  <2>1. CASE PushStore
    BY <1>2, <2>1, PushEnters DEF F!Next
  <2>2. CASE UploadEnd
    BY <1>2, <2>2, UploadLeaves DEF F!Next
  <2>3. CASE UNCHANGED <<frame, shown>>
    BY <1>2, <2>3, QuietMapping
  <2>4. ASSUME PushEnter PROVE UNCHANGED <<frame, shown>>
    BY <1>2, <2>4, VpqAssumption DEF PushEnter, Full, Inv, TypeOK, WriterInv, rVars
  <2>5. \/ PushStore \/ UploadEnd \/ PushEnter
        \/ UNCHANGED <<frame, shown>>
    <3>1. CASE Video
      BY <3>1 DEF Video, rVars, DecodeFrame, WaitEmpty, GetEmpty, ScaleBegin,
                  ScaleEnd, PushIndex, PushLoad
    <3>2. CASE Main
      BY <3>2 DEF Main, wVars, Poll, Display, Peek, UploadBegin, PopEnter,
                  PopIndex, PopLoad, PopStore
    <3>3. CASE UNCHANGED vars
      BY <3>3 DEF vars
    <3>4. QED
      BY <1>2, <3>1, <3>2, <3>3 DEF Next
  <2>6. QED
    BY <2>1, <2>2, <2>3, <2>4, <2>5
<1>3. QED
  BY <1>1, <1>2, InvTheorem, MappingLemma, PTL DEF Spec, ImplementsFifo, F!Spec
=============================================================================
