-------------------------- MODULE StreamQueueProofs --------------------------
(***************************************************************************)
(* Proofs about StreamQueue for every buffer size, every set of request    *)
(* sizes (also sizes that never fit) and every length of the stream.       *)
(*                                                                         *)
(* Inv is inductive: the producer relies on "what I still have to write    *)
(* fits in the free space", which only the producer's own publications     *)
(* consume, the consumer on the mirror image.  Each thread's steps are     *)
(* shown to preserve Inv in a lemma of their own.                          *)
(***************************************************************************)
EXTENDS MCStreamQueue, SequenceTheorems, TLAPS

\* (cursor + copylen) % _size for a chunk that ends with the array at most.
LEMMA WrapLemma ==
    ASSUME NEW c \in Cells, NEW n \in Nat, c + n <= Size
    PROVE  Advance(c, n) = IF c + n = Size THEN 0 ELSE c + n
  BY SizeAssumption DEF Cells, Advance

\* The bytes between the cursors, and what is left of the buffer.
LEMMA SizesLemma ==
    ASSUME TypeOK
    PROVE  /\ DataSize \in 0 .. Size - 1
           /\ FreeSize = Size - 1 - DataSize
           /\ front <= rear => FreeSize = Size - 1 - (rear - front)
           /\ rear < front  => FreeSize = front - rear - 1
  BY SizeAssumption DEF TypeOK, Cells, DataSize, FreeSize, Free

LEMMA InitInv == Init => Inv
  BY SizeAssumption
  DEF Init, Inv, TypeOK, Cells, PcSet, Occupancy, DataSize, Stored, Cell,
      ProducerInv, ConsumerInv, DeliveredInv, DeliveredInOrder, Refusable

\* A step of either thread that stores to no cursor, cell or history keeps the
\* parts of Inv that mention only those.
LEMMA QuietStep ==
    ASSUME Inv, UNCHANGED <<front, rear, buf, sent, taken>>
    PROVE  /\ DataSize' = DataSize /\ FreeSize' = FreeSize
           /\ Occupancy' /\ Stored'
  BY DEF Inv, Occupancy, Stored, Cell, DataSize, FreeSize, Free

\* The producer's steps that only read: they move its own program counter.
LEMMA PutQuiet ==
    ASSUME Inv, PutCall \/ PutCompare \/ PutCheck \/ PutRetry
                \/ PutChunk \/ PutReturn
    PROVE  Inv'
<1> USE DEF Inv
<1>1. /\ UNCHANGED <<front, rear, buf, sent, taken>>
      /\ UNCHANGED getVars
  BY DEF PutCall, PutCompare, PutCheck, PutRetry, PutChunk, PutReturn, getVars
<1>2. /\ DataSize' = DataSize /\ FreeSize' = FreeSize
      /\ Occupancy' /\ Stored'
  BY <1>1, QuietStep
<1>3. ConsumerInv' /\ DeliveredInv'
  BY <1>1, <1>2 DEF getVars, ConsumerInv, DeliveredInv, DeliveredInOrder
<1>4. TypeOK' /\ ProducerInv'
  <2>1. CASE PutCall
    BY <1>1, <2>1, RequestAssumption
    DEF PutCall, getVars, TypeOK, PcSet, ProducerInv, Refusable
  <2>2. CASE PutCompare
    BY <1>1, <2>2 DEF PutCompare, getVars, TypeOK, PcSet, ProducerInv, Refusable
  <2>3. CASE PutCheck
    BY SMTT(30), <1>1, <1>2, <2>3, SizesLemma, SizeAssumption
    DEF PutCheck, Refused, Free, getVars, TypeOK, Cells, PcSet, ProducerInv, Refusable
  <2>4. CASE PutRetry
    BY <1>1, <2>4 DEF PutRetry, getVars, TypeOK, PcSet, ProducerInv, Refusable
  <2>5. CASE PutChunk
    BY <1>1, <1>2, <2>5, SizesLemma, SizeAssumption
    DEF PutChunk, getVars, TypeOK, Cells, PcSet, ProducerInv, Refusable, Smaller
  <2>6. CASE PutReturn
    BY <1>1, <2>6 DEF PutReturn, getVars, TypeOK, PcSet, ProducerInv, Refusable
  <2>7. QED
    BY <2>1, <2>2, <2>3, <2>4, <2>5, <2>6
<1>5. QED
  BY <1>2, <1>3, <1>4

\* The memcpy of put() writes free cells only.
LEMMA PutCopyStep ==
    ASSUME Inv, PutCopy
    PROVE  Inv'
<1> USE DEF Inv
<1>1. /\ UNCHANGED <<front, rear, sent, taken>>
      /\ UNCHANGED getVars
  BY DEF PutCopy, getVars
<1>2. DataSize' = DataSize /\ FreeSize' = FreeSize /\ Occupancy'
  BY <1>1 DEF DataSize, FreeSize, Free, Occupancy
<1>3. TypeOK'
  BY <1>1, SizeAssumption DEF PutCopy, getVars, TypeOK, Cells, PcSet
<1>4. ConsumerInv' /\ DeliveredInv'
  BY <1>1, <1>2 DEF getVars, ConsumerInv, DeliveredInv, DeliveredInOrder
<1>5. ProducerInv'
  <2>1. \A i \in 0 .. pcopy - 1 : buf'[rear + i] = sent + i
    <3> SUFFICES ASSUME NEW i \in 0 .. pcopy - 1
                 PROVE  buf'[rear + i] = sent + i
      OBVIOUS
    <3>1. /\ rear + i \in Cells /\ rear + i \in rear .. rear + pcopy - 1
          /\ (rear + i) - rear = i
      BY SizeAssumption DEF PutCopy, TypeOK, Cells, ProducerInv
    <3>2. QED
      BY <3>1 DEF PutCopy
  <2>2. QED
    BY <1>1, <1>2, <2>1 DEF PutCopy, ProducerInv, Refusable
<1>6. Stored'
  <2> SUFFICES ASSUME NEW i \in 0 .. DataSize - 1
               PROVE  buf'[Cell(i)] = taken + i
    BY <1>1, <1>2 DEF Stored, Cell
  <2>1. Cell(i) \in Cells /\ Cell(i) \notin rear .. rear + pcopy - 1
    <3>1. /\ 0 < pcopy /\ pcopy <= FreeSize /\ rear + pcopy <= Size
      BY SizesLemma, SizeAssumption DEF PutCopy, TypeOK, ProducerInv
    <3>2. CASE front <= rear
      BY <3>1, <3>2, SizesLemma, SizeAssumption DEF TypeOK, Cells, Cell, DataSize
    <3>3. CASE rear < front
      BY <3>1, <3>3, SizesLemma, SizeAssumption DEF TypeOK, Cells, Cell, DataSize
    <3>4. QED
      BY <3>2, <3>3 DEF TypeOK, Cells
  <2>2. QED
    BY <2>1 DEF PutCopy, Stored
<1>7. QED
  BY <1>2, <1>3, <1>4, <1>5, <1>6

\* The store to _rear turns the bytes just written into unread ones.
LEMMA PutPublishStep ==
    ASSUME Inv, PutPublish
    PROVE  Inv'
<1> USE DEF Inv
<1>1. /\ UNCHANGED <<front, buf, taken, psize, pcopy>>
      /\ UNCHANGED getVars
      /\ premained' = premained - pcopy /\ sent' = sent + pcopy
      /\ ppc = "publish" /\ ppc' = "loop"
  BY DEF PutPublish, getVars
<1>2. rear' = IF rear + pcopy = Size THEN 0 ELSE rear + pcopy
  BY WrapLemma DEF PutPublish, TypeOK, ProducerInv
<1>3. /\ 0 < pcopy /\ pcopy <= premained /\ premained <= FreeSize
      /\ rear + pcopy <= Size
  BY <1>1 DEF ProducerInv
<1>4. DataSize' = DataSize + pcopy /\ FreeSize' = FreeSize - pcopy
  BY <1>1, <1>2, <1>3, SizesLemma, SizeAssumption
  DEF TypeOK, Cells, DataSize, FreeSize, Free
<1>5. TypeOK' /\ Occupancy'
  BY <1>1, <1>2, <1>3, <1>4, SizeAssumption
  DEF getVars, TypeOK, Cells, PcSet, Occupancy
<1>6. ProducerInv'
  BY SMTT(30), <1>1, <1>3, <1>4, SizesLemma, SizeAssumption
  DEF TypeOK, ProducerInv, Refusable
<1>7. ConsumerInv' /\ DeliveredInv'
  <2>1. rear < front => rear' < front
    BY <1>1, <1>2, <1>3, SizesLemma, SizeAssumption DEF TypeOK, Cells
  <2>2. QED
    BY SMTT(30), <1>1, <1>3, <1>4, <2>1, SizesLemma
    DEF getVars, TypeOK, ConsumerInv, DeliveredInv, DeliveredInOrder
<1>8. Stored'
  <2> SUFFICES ASSUME NEW i \in 0 .. DataSize + pcopy - 1
               PROVE  buf[Cell(i)] = taken + i
    BY <1>1, <1>4, SizesLemma DEF Stored, Cell, TypeOK
  <2>1. CASE i < DataSize
    BY <2>1, SizesLemma DEF Stored, TypeOK
  <2>2. CASE i >= DataSize
    <3>1. i - DataSize \in 0 .. pcopy - 1
      BY <2>2, SizesLemma DEF TypeOK
    <3>2. Cell(i) = rear + (i - DataSize)
      BY <1>3, <2>2, SizesLemma, SizeAssumption
      DEF TypeOK, Cells, Cell, DataSize
    <3>3. buf[rear + (i - DataSize)] = sent + (i - DataSize)
      BY <1>1, <3>1 DEF ProducerInv
    <3>4. QED
      BY <3>2, <3>3, SizesLemma DEF Occupancy, TypeOK
  <2>3. QED
    BY <2>1, <2>2, SizesLemma DEF TypeOK
<1>9. QED
  BY <1>5, <1>6, <1>7, <1>8

LEMMA PutInv ==
    ASSUME Inv, Put
    PROVE  Inv'
  BY PutQuiet, PutCopyStep, PutPublishStep DEF Put

-----------------------------------------------------------------------------
\* The consumer's steps that only read.
LEMMA GetQuiet ==
    ASSUME Inv, GetCall \/ GetCompare \/ GetCheck \/ GetRetry
                \/ GetChunk \/ GetReturn
    PROVE  Inv'
<1> USE DEF Inv
<1>1. /\ UNCHANGED <<front, rear, buf, sent, taken>>
      /\ UNCHANGED putVars /\ UNCHANGED delivered
  BY DEF GetCall, GetCompare, GetCheck, GetRetry, GetChunk, GetReturn, putVars
<1>2. /\ DataSize' = DataSize /\ FreeSize' = FreeSize
      /\ Occupancy' /\ Stored'
  BY <1>1, QuietStep
<1>3. ProducerInv'
  BY <1>1, <1>2 DEF putVars, ProducerInv
<1>4. gpc # "publish" /\ gpc' # "publish"
  BY DEF GetCall, GetCompare, GetCheck, GetRetry, GetChunk, GetReturn
<1>5. DeliveredInv'
  BY <1>1, <1>4 DEF DeliveredInv, DeliveredInOrder
<1>6. TypeOK' /\ ConsumerInv'
  <2>1. CASE GetCall
    BY <1>1, <2>1, RequestAssumption
    DEF GetCall, putVars, TypeOK, PcSet, ConsumerInv, Refusable
  <2>2. CASE GetCompare
    BY <1>1, <2>2
    DEF GetCompare, putVars, TypeOK, Cells, PcSet, ConsumerInv, Refusable
  <2>3. CASE GetCheck
    BY <1>1, <1>2, <2>3, SizesLemma, SizeAssumption
    DEF GetCheck, Refused, putVars, TypeOK, Cells, PcSet, ConsumerInv, Refusable, DataSize
  <2>4. CASE GetRetry
    BY <1>1, <2>4 DEF GetRetry, putVars, TypeOK, PcSet, ConsumerInv, Refusable
  <2>5. CASE GetChunk
    BY <1>1, <1>2, <2>5, SizesLemma, SizeAssumption
    DEF GetChunk, putVars, TypeOK, Cells, PcSet, ConsumerInv, Refusable,
        Smaller, DataSize
  <2>6. CASE GetReturn
    BY <1>1, <2>6 DEF GetReturn, putVars, TypeOK, PcSet, ConsumerInv, Refusable
  <2>7. QED
    BY <2>1, <2>2, <2>3, <2>4, <2>5, <2>6
<1>7. QED
  BY <1>2, <1>3, <1>5, <1>6

\* The memcpy of get() reads unread cells only, so it delivers the next bytes.
LEMMA GetCopyStep ==
    ASSUME Inv, GetCopy
    PROVE  Inv'
<1> USE DEF Inv
<1>1. /\ UNCHANGED <<front, rear, buf, sent, taken>>
      /\ UNCHANGED putVars
      /\ UNCHANGED <<gsize, gremained, gcopy>>
      /\ gpc = "copy" /\ gpc' = "publish"
  BY DEF GetCopy, putVars
<1>2. /\ DataSize' = DataSize /\ FreeSize' = FreeSize
      /\ Occupancy' /\ Stored'
  BY <1>1, QuietStep
<1>3. ProducerInv' /\ ConsumerInv'
  BY <1>1, <1>2 DEF putVars, ProducerInv, ConsumerInv, Refusable
<1>4. /\ gcopy \in Nat /\ 0 < gcopy /\ gcopy <= DataSize
      /\ front + gcopy <= Size
  BY <1>1, SizesLemma DEF TypeOK, ConsumerInv
<1> DEFINE chunk == [i \in 1 .. gcopy |-> taken + i - 1]
<1>5. delivered' = delivered \o chunk
  <2>1. ASSUME NEW i \in 1 .. gcopy
        PROVE  /\ front + i - 1 \in Cells
               /\ buf[front + i - 1] = taken + i - 1
    <3>1. /\ i - 1 \in 0 .. DataSize - 1
          /\ Cell(i - 1) = front + i - 1
          /\ front + i - 1 \in Cells
      BY <1>4, SizesLemma, SizeAssumption DEF TypeOK, Cells, Cell
    <3>2. buf[Cell(i - 1)] = taken + (i - 1)
      BY <3>1 DEF Stored
    <3>3. QED
      BY <3>1, <3>2 DEF TypeOK
  <2>2. QED
    BY <2>1 DEF GetCopy
<1>6. chunk \in Seq(Int) /\ Len(chunk) = gcopy
  BY <1>4 DEF TypeOK
<1>7. delivered \in Seq(Int) /\ Len(delivered) = taken
  BY <1>1 DEF TypeOK, DeliveredInv
<1>8. /\ delivered' \in Seq(Int)
      /\ Len(delivered') = taken + gcopy
      /\ \A i \in 1 .. taken : delivered'[i] = delivered[i]
      /\ \A i \in taken + 1 .. taken + gcopy : delivered'[i] = chunk[i - taken]
  <2> HIDE DEF chunk, Inv
  <2>1. taken \in Nat /\ gcopy \in Nat
    BY <1>4 DEF Inv, TypeOK
  <2>2. /\ delivered \o chunk \in Seq(Int)
        /\ Len(delivered \o chunk) = Len(delivered) + Len(chunk)
        /\ \A i \in 1 .. Len(delivered) + Len(chunk) : (delivered \o chunk)[i] =
               IF i <= Len(delivered) THEN delivered[i]
                                      ELSE chunk[i - Len(delivered)]
    BY <1>6, <1>7, ConcatProperties, Zenon
  <2>3. /\ Len(delivered') = taken + gcopy
        /\ \A i \in 1 .. taken + gcopy : delivered'[i] =
               IF i <= taken THEN delivered[i] ELSE chunk[i - taken]
    BY <1>5, <1>6, <1>7, <2>2, Zenon
  <2>4. /\ \A i \in 1 .. taken : i \in 1 .. taken + gcopy /\ i <= taken
        /\ \A i \in taken + 1 .. taken + gcopy :
               i \in 1 .. taken + gcopy /\ ~(i <= taken)
    BY <2>1
  <2>5. QED
    BY <1>5, <2>2, <2>3, <2>4, Zenon
<1>9. DeliveredInv'
  <2> SUFFICES ASSUME NEW i \in 1 .. taken + gcopy
               PROVE  delivered'[i] = i - 1
    BY <1>1, <1>8 DEF DeliveredInv, DeliveredInOrder
  <2>1. CASE i <= taken
    BY <1>7, <1>8, <2>1 DEF TypeOK, DeliveredInv, DeliveredInOrder
  <2>2. CASE i > taken
    <3>1. /\ i \in taken + 1 .. taken + gcopy
          /\ i - taken \in 1 .. gcopy
          /\ taken + (i - taken) - 1 = i - 1
      BY <1>4, <2>2 DEF TypeOK
    <3>2. QED
      BY <1>8, <3>1
  <2>3. QED
    BY <2>1, <2>2, <1>4 DEF TypeOK
<1>10. TypeOK'
  BY <1>1, <1>8 DEF putVars, TypeOK, PcSet
<1>11. QED
  BY <1>2, <1>3, <1>9, <1>10

\* The store to _front gives the cells just copied out back to the producer.
LEMMA GetPublishStep ==
    ASSUME Inv, GetPublish
    PROVE  Inv'
<1> USE DEF Inv
<1>1. /\ UNCHANGED <<rear, buf, sent, gsize, gcopy, delivered>>
      /\ UNCHANGED putVars
      /\ gremained' = gremained - gcopy /\ taken' = taken + gcopy
      /\ gpc = "publish" /\ gpc' = "loop"
  BY DEF GetPublish, putVars
<1>2. front' = IF front + gcopy = Size THEN 0 ELSE front + gcopy
  BY WrapLemma DEF GetPublish, TypeOK, ConsumerInv
<1>3. /\ 0 < gcopy /\ gcopy <= gremained /\ gremained <= DataSize
      /\ front + gcopy <= Size
  BY <1>1 DEF ConsumerInv
<1>4. DataSize' = DataSize - gcopy /\ FreeSize' = FreeSize + gcopy
  BY <1>1, <1>2, <1>3, SizesLemma, SizeAssumption
  DEF TypeOK, Cells, DataSize, FreeSize, Free
<1>5. TypeOK' /\ Occupancy'
  <2>1. front' \in Cells /\ gremained' \in Nat /\ taken' \in Nat
    BY <1>1, <1>2, <1>3, SizesLemma, SizeAssumption DEF TypeOK, Cells
  <2>2. Occupancy'
    BY <1>1, <1>4, SizesLemma DEF TypeOK, Occupancy
  <2>3. QED
    BY <1>1, <2>1, <2>2 DEF putVars, TypeOK, PcSet
<1>6. ConsumerInv'
  BY <1>1, <1>3, <1>4, SizesLemma DEF TypeOK, ConsumerInv, Refusable
<1>7. DeliveredInv'
  BY <1>1 DEF TypeOK, DeliveredInv, DeliveredInOrder
<1>8. ProducerInv'
  <2>1. front <= rear => front' <= rear
    BY <1>1, <1>2, <1>3, SizesLemma, SizeAssumption DEF TypeOK, Cells, DataSize
  <2>2. QED
    BY <1>1, <1>3, <1>4, <2>1, SizesLemma, SizeAssumption
    DEF putVars, TypeOK, ProducerInv
<1>9. Stored'
  <2> SUFFICES ASSUME NEW i \in 0 .. DataSize - gcopy - 1
               PROVE  buf[Cell(i)'] = taken + gcopy + i
    BY <1>1, <1>4 DEF Stored
  <2>1. /\ i + gcopy \in 0 .. DataSize - 1
        /\ Cell(i)' = Cell(i + gcopy)
    BY SMTT(30), <1>1, <1>2, <1>3, SizesLemma, SizeAssumption DEF TypeOK, Cells, Cell
  <2>2. buf[Cell(i + gcopy)] = taken + (i + gcopy)
    BY <2>1 DEF Stored
  <2>3. QED
    BY <2>1, <2>2 DEF TypeOK
<1>10. QED
  BY <1>5, <1>6, <1>7, <1>8, <1>9

LEMMA GetInv ==
    ASSUME Inv, Get
    PROVE  Inv'
  BY GetQuiet, GetCopyStep, GetPublishStep DEF Get

-----------------------------------------------------------------------------
(* The theorems.                                                           *)

\* Inv holds in every reachable state of the two threads.
THEOREM InvTheorem == Spec => []Inv
<1>1. Inv /\ UNCHANGED vars => Inv'
  BY DEF vars, Inv, TypeOK, Occupancy, DataSize, Stored, Cell, ProducerInv,
         FreeSize, ConsumerInv, DeliveredInv, DeliveredInOrder
<1>2. Inv /\ [Next]_vars => Inv'
  BY <1>1, PutInv, GetInv DEF Next
<1>3. QED
  BY InitInv, <1>2, PTL DEF Spec

\* Type correctness: in particular both cursors always index the buffer.
THEOREM TypeCorrect == Spec => []TypeOK
  BY InvTheorem, PTL DEF Inv

\* The unlocked copies of put() and get() never overlap or leave the buffer.
THEOREM CopiesSafeTheorem == Spec => []CopiesSafe
<1>1. Inv => CopiesSafe
  <2> SUFFICES ASSUME Inv PROVE CopiesSafe
    OBVIOUS
  <2> USE DEF Inv
  <2>1. ppc = "copy" => /\ 0 < pcopy /\ pcopy <= FreeSize /\ rear + pcopy <= Size
    BY SizesLemma, SizeAssumption DEF TypeOK, ProducerInv
  <2>2. gpc = "copy" => /\ 0 < gcopy /\ gcopy <= DataSize /\ front + gcopy <= Size
    BY SizesLemma DEF TypeOK, ConsumerInv
  <2>3. PutWindow \subseteq Cells /\ GetWindow \subseteq Cells
    BY <2>1, <2>2, SizeAssumption DEF PutWindow, GetWindow, TypeOK, Cells
  <2>4. ASSUME NEW c \in PutWindow, c \in GetWindow PROVE FALSE
    BY <2>1, <2>2, <2>4, SizesLemma, SizeAssumption
    DEF PutWindow, GetWindow, TypeOK, Cells, DataSize
  <2>5. QED
    BY <2>3, <2>4 DEF CopiesSafe
<1>2. QED
  BY <1>1, InvTheorem, PTL

\* Full and empty are never confused: the cursors count the unread bytes.
THEOREM OccupancyTheorem == Spec => []Occupancy
  BY InvTheorem, PTL DEF Inv

\* The audio device receives the stream: no byte lost, repeated or reordered.
THEOREM DeliveryTheorem == Spec => []DeliveredInOrder
<1>1. Inv => DeliveredInOrder
  BY DEF Inv, DeliveredInv
<1>2. QED
  BY <1>1, InvTheorem, PTL

\* With sizes that fit, put() and get() never refuse each other for good.
THEOREM NoStandoffTheorem == Spec => []NoStandoff
<1>1. Inv => NoStandoff
  BY SizesLemma, SizeAssumption, RequestAssumption
  DEF Inv, TypeOK, ProducerInv, ConsumerInv, NoStandoff, SizesFit
<1>2. QED
  BY <1>1, InvTheorem, PTL

-----------------------------------------------------------------------------
(* The refinement of the FIFO.                                             *)

\* n bytes of the stream, from the byte a on.
Bytes(a, n) == [i \in 1 .. n |-> a + i - 1]

\* Joining two successive pieces of the stream, and cutting one in two.
LEMMA BytesLemma ==
    ASSUME NEW a \in Nat, NEW n \in Nat, NEW m \in 0 .. n
    PROVE  /\ Bytes(a, n) \in Seq(Nat) /\ Len(Bytes(a, n)) = n
           /\ SubSeq(Bytes(a, n), 1, m) = Bytes(a, m)
           /\ SubSeq(Bytes(a, n), m + 1, n) = Bytes(a + m, n - m)
           /\ Bytes(a, m) \o Bytes(a + m, n - m) = Bytes(a, n)
  BY DEF Bytes

\* In a state of the invariant the abstract queue holds the bytes published and
\* not yet copied out, whatever the cursors are.
Mapping ==
    /\ Len(delivered) \in Nat /\ sent \in Nat
    /\ sent - Len(delivered) \in 0 .. Size - 1
    /\ delivered = Bytes(0, Len(delivered))
    /\ Unread = Bytes(Len(delivered), sent - Len(delivered))

\* The mapping's index arithmetic is that of Cell.
LEMMA CellLemma ==
    ASSUME front \in Cells, NEW i \in Cells
    PROVE  (front + i) % Size = Cell(i)
<1>1. CASE front + i < Size
  BY <1>1, SizeAssumption DEF Cell, Cells
<1>2. CASE front + i >= Size
  <2>1. front + i - Size \in 0 .. Size - 1 /\ front + i = Size + (front + i - Size)
    BY <1>2, SizeAssumption DEF Cells
  <2>2. (front + i) % Size = front + i - Size
    BY <1>2, <2>1, SizeAssumption DEF Cells
  <2>3. QED
    BY <1>2, <2>2, SizeAssumption DEF Cell, Cells
<1>3. QED
  BY <1>1, <1>2, SizeAssumption DEF Cells

LEMMA MappingLemma == Inv => Mapping
<1> SUFFICES ASSUME Inv PROVE Mapping
  OBVIOUS
<1> USE DEF Inv
<1>1. /\ DataSize \in 0 .. Size - 1 /\ taken \in Nat /\ front \in Cells
      /\ sent \in Nat /\ sent = taken + DataSize
      /\ delivered \in Seq(Int) /\ Len(delivered) \in Nat
  BY SizesLemma DEF TypeOK, Occupancy
<1>2. /\ Pending \in 0 .. DataSize
      /\ Len(delivered) = taken + Pending
  <2>1. CASE gpc = "publish"
    BY <1>1, <2>1 DEF TypeOK, Pending, ConsumerInv, DeliveredInv
  <2>2. CASE gpc # "publish"
    BY <1>1, <2>2 DEF Pending, DeliveredInv
  <2>3. QED
    BY <2>1, <2>2
<1>3. /\ sent - Len(delivered) = DataSize - Pending
      /\ sent - Len(delivered) \in 0 .. Size - 1
  BY <1>1, <1>2, SizeAssumption
<1>4. delivered = Bytes(0, Len(delivered))
  <2>1. \A i \in 1 .. Len(delivered) : delivered[i] = 0 + i - 1
    BY DEF DeliveredInv, DeliveredInOrder
  <2>2. QED
    BY <1>1, <2>1 DEF Bytes
<1>5. ASSUME NEW i \in 1 .. DataSize - Pending
      PROVE  buf[(front + Pending + i - 1) % Size] = Len(delivered) + i - 1
  <2>1. Pending + i - 1 \in 0 .. DataSize - 1
    BY <1>1, <1>2
  <2> DEFINE k == Pending + i - 1
  <2>2. (front + k) % Size = Cell(k)
    <3>1. k \in Cells
      BY <1>1, <2>1, SizeAssumption DEF Cells
    <3> HIDE DEF k
    <3>2. QED
      BY <1>1, <3>1, CellLemma
  <2>3. buf[Cell(k)] = taken + k
    BY <2>1 DEF Stored
  <2>4. front + Pending + i - 1 = front + k /\ taken + k = Len(delivered) + i - 1
    BY <1>1, <1>2 DEF Cells
  <2>5. QED
    BY <2>2, <2>3, <2>4
<1>6. Unread = Bytes(Len(delivered), sent - Len(delivered))
  <2>1. Unread = [i \in 1 .. DataSize - Pending |-> Len(delivered) + i - 1]
    BY <1>5 DEF Unread
  <2>2. QED
    BY <1>3, <2>1 DEF Bytes
<1>7. QED
  BY <1>1, <1>3, <1>4, <1>6, Zenon DEF Mapping

\* A step that neither publishes nor copies bytes out leaves the abstract queue.
LEMMA QuietMapping ==
    ASSUME Mapping, Mapping', UNCHANGED <<sent, delivered>>
    PROVE  UNCHANGED F!fifoVars
<1>1. Unread' = Unread
  BY DEF Mapping, Bytes
<1>2. QED
  BY <1>1 DEF F!fifoVars

\* put() publishes a chunk: its bytes enter, and there is room for them.
LEMMA PublishEnters ==
    ASSUME Inv, Mapping, Mapping', PutPublish
    PROVE  F!Enter
<1> DEFINE d == Len(delivered)
           k == sent - d
<1>1. /\ UNCHANGED delivered /\ sent' = sent + pcopy
      /\ pcopy \in Nat /\ 0 < pcopy
  BY DEF PutPublish, getVars, Inv, TypeOK, ProducerInv
<1>2. /\ d \in Nat /\ sent \in Nat
      /\ k \in 0 .. Size - 1 /\ k + pcopy \in 0 .. Size - 1
      /\ d + k = sent /\ sent + pcopy - d = k + pcopy
  BY <1>1 DEF Mapping
<1>3. Unread = Bytes(d, k) /\ Unread' = Bytes(d, k + pcopy)
  BY <1>1, <1>2 DEF Mapping
<1> HIDE DEF d, k
<1>4. /\ Len(Bytes(d, k)) = k
      /\ Bytes(d, k) \o Bytes(sent, pcopy) = Bytes(d, k + pcopy)
  <2>1. k \in 0 .. k + pcopy /\ (k + pcopy) - k = pcopy /\ k \in 0 .. k
        /\ k \in Nat /\ k + pcopy \in Nat
    BY <1>1, <1>2
  <2>2. Len(Bytes(d, k)) = k
    BY <1>2, <2>1, BytesLemma
  <2>3. Bytes(d, k) \o Bytes(d + k, (k + pcopy) - k) = Bytes(d, k + pcopy)
    BY <1>2, <2>1, BytesLemma
  <2>4. QED
    BY <1>2, <2>1, <2>2, <2>3
<1>5. pcopy \in 1 .. (Size - 1) - k
  BY <1>1, <1>2, SizeAssumption
<1>6. QED
  BY <1>1, <1>3, <1>4, <1>5 DEF F!Enter, Bytes

\* get() copies a chunk out: the oldest bytes leave.
LEMMA CopyLeaves ==
    ASSUME Inv, Inv', Mapping, Mapping', GetCopy
    PROVE  F!Leave
<1> DEFINE d == Len(delivered)
           k == sent - d
<1>1. /\ UNCHANGED sent /\ gcopy \in Nat /\ 0 < gcopy
      /\ Len(delivered') = d + gcopy
  BY DEF GetCopy, putVars, Inv, TypeOK, ConsumerInv, DeliveredInv
<1>2. /\ d \in Nat /\ sent \in Nat
      /\ k \in 0 .. Size - 1 /\ k - gcopy \in 0 .. Size - 1
      /\ sent - (d + gcopy) = k - gcopy
  BY <1>1 DEF Mapping
<1>3. /\ Unread = Bytes(d, k) /\ Unread' = Bytes(d + gcopy, k - gcopy)
      /\ delivered = Bytes(0, d) /\ delivered' = Bytes(0, d + gcopy)
  BY <1>1, <1>2 DEF Mapping
<1> HIDE DEF d, k
<1>4. /\ Len(Bytes(d, k)) = k
      /\ SubSeq(Bytes(d, k), 1, gcopy) = Bytes(d, gcopy)
      /\ SubSeq(Bytes(d, k), gcopy + 1, k) = Bytes(d + gcopy, k - gcopy)
  <2>1. gcopy \in 0 .. k /\ k \in Nat
    BY <1>1, <1>2
  <2>2. QED
    BY <1>2, <2>1, BytesLemma
<1>5. Bytes(0, d) \o Bytes(d, gcopy) = Bytes(0, d + gcopy)
  <2>1. d \in 0 .. d + gcopy /\ (d + gcopy) - d = gcopy /\ 0 + d = d
        /\ d + gcopy \in Nat
    BY <1>1, <1>2
  <2>2. Bytes(0, d) \o Bytes(0 + d, (d + gcopy) - d) = Bytes(0, d + gcopy)
    BY <2>1, BytesLemma
  <2>3. QED
    BY <2>1, <2>2
<1>6. gcopy \in 1 .. k
  BY <1>1, <1>2
<1>7. QED
  BY <1>1, <1>3, <1>4, <1>5, <1>6 DEF F!Leave

\* The two threads and their ring buffer implement the bounded FIFO of bytes: the
\* memcpy of get() is where bytes leave it, the store to _rear where they enter.
THEOREM RefinementTheorem == Spec => ImplementsFifo
<1>1. Init => F!Init
  BY SizeAssumption DEF Init, F!Init, Unread, DataSize, Pending
<1>2. ASSUME Inv, Inv', Mapping, Mapping', [Next]_vars
      PROVE  [F!Next]_F!fifoVars
  <2>1. CASE PutPublish
    BY <1>2, <2>1, PublishEnters DEF F!Next
  <2>2. CASE GetCopy
    BY <1>2, <2>2, CopyLeaves DEF F!Next
  <2>3. CASE UNCHANGED <<sent, delivered>>
    BY <1>2, <2>3, QuietMapping
  <2>4. QED
    BY <1>2, <2>1, <2>2, <2>3
    DEF Next, Put, Get, vars, putVars, getVars, PutCall, PutCompare, PutCheck,
        PutRetry, PutChunk, PutCopy, PutReturn, GetCall, GetCompare, GetCheck,
        GetRetry, GetChunk, GetPublish, GetReturn
<1>3. QED
  BY <1>1, <1>2, InvTheorem, MappingLemma, PTL DEF Spec, ImplementsFifo, F!Spec
=============================================================================
