---------------------------- MODULE StreamQueue ----------------------------
(***************************************************************************)
(* The ring buffer that carries decoded audio from the player thread to   *)
(* the SDL audio thread (src/ffmpeg/examples/screenout/StreamQueue.cpp).   *)
(*                                                                         *)
(* There is no lock.  One thread calls put() from Player::decode_audio,   *)
(* one thread calls get() from Player::audioCallback, and both retry until *)
(* the call succeeds.  A thread owns its cursor and reads the other one's  *)
(* cursor up to three times per call; every one of these reads is a step   *)
(* of its own here, and so are the memcpy and the store to the cursor.     *)
(* The build is -O0 on x86, so loads and stores of one thread are seen in  *)
(* program order: steps interleave, they are never reordered.              *)
(*                                                                         *)
(* The k-th byte ever passed to put() is represented by the number k.      *)
(***************************************************************************)
EXTENDS Integers, Sequences

CONSTANTS
    Size,       \* _size, the bytes of the ring buffer
    PutSizes,   \* the "size" arguments put() is called with
    GetSizes,   \* the "len" arguments the audio device asks for
    MaxBytes    \* bound: the length of the stream the producer decodes

ASSUME SizeAssumption == Size \in Nat /\ Size > 1
ASSUME RequestAssumption == /\ PutSizes \subseteq Nat \ {0}
                            /\ GetSizes \subseteq Nat \ {0}
ASSUME BoundAssumption == MaxBytes \in Nat

VARIABLES
    front, rear,    \* _front (stored by get only) and _rear (stored by put only)
    buf,            \* _dataBuf: the number of the byte held by each cell
    ppc, psize, premained, pcopy,   \* the thread inside put()
    gpc, gsize, gremained, gcopy,   \* the thread inside get()
    sent,           \* history: bytes put() has published through _rear
    taken,          \* history: bytes get() has released through _front
    delivered       \* history: the bytes copied into the callers' buffers

putVars == <<rear, ppc, psize, premained, pcopy, sent>>
getVars == <<front, gpc, gsize, gremained, gcopy, taken, delivered>>
vars == <<front, rear, buf, ppc, psize, premained, pcopy,
          gpc, gsize, gremained, gcopy, sent, taken, delivered>>

Cells == 0 .. Size - 1

\* The arithmetic of freeSize(), of the acceptance tests of put() and get(), of
\* the chunk that ends with the array and of the cursors, each preceded by a
\* plausible slip the model checker must notice.
FreeNoGap(data) == Size - data
Free(data) == Size - data - 1

RefusedExact(available, size) == available <= size
RefusedLate(available, size) == available < size - 1
Refused(available, size) == available < size

PastTheEnd(a, b) == b
Smaller(a, b) == IF a > b THEN b ELSE a

Advance(cursor, n) == (cursor + n) % Size

\* dataSize() and freeSize(), when nobody moves a cursor between two reads.
DataSize == IF front <= rear THEN rear - front ELSE Size - (front - rear)
FreeSize == Free(DataSize)

Init ==
    /\ front = 0 /\ rear = 0
    /\ buf = [c \in Cells |-> 0]    \* new[] leaves bytes nobody ever reads
    /\ ppc = "idle" /\ psize = 0 /\ premained = 0 /\ pcopy = 0
    /\ gpc = "idle" /\ gsize = 0 /\ gremained = 0 /\ gcopy = 0
    /\ sent = 0 /\ taken = 0 /\ delivered = <<>>

-----------------------------------------------------------------------------
(* The producer: while (!put(data, size)) sleep(10);                       *)

\* decode_audio has a decoded frame of n bytes.
PutCall ==
    /\ ppc = "idle"
    /\ \E n \in PutSizes : sent + n <= MaxBytes /\ psize' = n
    /\ ppc' = "compare"
    /\ UNCHANGED <<getVars, rear, buf, premained, pcopy, sent>>

\* dataSize() loads _front a first time, to choose its branch ...
PutCompare ==
    /\ ppc = "compare"
    /\ ppc' = IF front <= rear THEN "le" ELSE "gt"
    /\ UNCHANGED <<getVars, rear, buf, psize, premained, pcopy, sent>>

\* ... and a second time, to compute; freeSize() < size returns false.
PutCheck ==
    /\ ppc \in {"le", "gt"}
    /\ LET data == IF ppc = "le" THEN rear - front ELSE Size - (front - rear)
       IN  IF Refused(Free(data), psize)
           THEN ppc' = "retry" /\ UNCHANGED premained
           ELSE ppc' = "loop" /\ premained' = psize
    /\ UNCHANGED <<getVars, rear, buf, psize, pcopy, sent>>

PutRetry ==
    /\ ppc = "retry"
    /\ ppc' = "compare"
    /\ UNCHANGED <<getVars, rear, buf, psize, premained, pcopy, sent>>

\* while (remained): a third load of _front chooses the length of the chunk.
PutChunk ==
    /\ ppc = "loop" /\ premained # 0
    /\ pcopy' = IF front <= rear THEN Smaller(Size - rear, premained)
                                 ELSE premained
    /\ ppc' = "copy"
    /\ UNCHANGED <<getVars, rear, buf, psize, premained, sent>>

\* memcpy(&buf[_rear], ...): cells past the end are outside the array.
PutCopy ==
    /\ ppc = "copy"
    /\ buf' = [c \in Cells |-> IF c \in rear .. rear + pcopy - 1
                               THEN sent + (c - rear) ELSE buf[c]]
    /\ ppc' = "publish"
    /\ UNCHANGED <<getVars, rear, psize, premained, pcopy, sent>>

PutPublish ==
    /\ ppc = "publish"
    /\ rear' = Advance(rear, pcopy)
    /\ premained' = premained - pcopy
    /\ sent' = sent + pcopy
    /\ ppc' = "loop"
    /\ UNCHANGED <<getVars, buf, psize, pcopy>>

PutReturn ==
    /\ ppc = "loop" /\ premained = 0
    /\ ppc' = "idle"
    /\ UNCHANGED <<getVars, rear, buf, psize, premained, pcopy, sent>>

Put == \/ PutCall \/ PutCompare \/ PutCheck \/ PutRetry
       \/ PutChunk \/ PutCopy \/ PutPublish \/ PutReturn

-----------------------------------------------------------------------------
(* The consumer: while (!get(stream, len)) sleep(30);                      *)

\* The audio device asks for n bytes.
GetCall ==
    /\ gpc = "idle"
    /\ \E n \in GetSizes : gsize' = n
    /\ gpc' = "compare"
    /\ UNCHANGED <<putVars, front, buf, gremained, gcopy, taken, delivered>>

\* dataSize() loads _rear a first time ...
GetCompare ==
    /\ gpc = "compare"
    /\ gpc' = IF front <= rear THEN "le" ELSE "gt"
    /\ UNCHANGED <<putVars, front, buf, gsize, gremained, gcopy, taken, delivered>>

\* ... and a second time; dataSize() < size returns false.
GetCheck ==
    /\ gpc \in {"le", "gt"}
    /\ LET data == IF gpc = "le" THEN rear - front ELSE Size - (front - rear)
       IN  IF Refused(data, gsize)
           THEN gpc' = "retry" /\ UNCHANGED gremained
           ELSE gpc' = "loop" /\ gremained' = gsize
    /\ UNCHANGED <<putVars, front, buf, gsize, gcopy, taken, delivered>>

GetRetry ==
    /\ gpc = "retry"
    /\ gpc' = "compare"
    /\ UNCHANGED <<putVars, front, buf, gsize, gremained, gcopy, taken, delivered>>

\* while (remained): a third load of _rear chooses the length of the chunk.
GetChunk ==
    /\ gpc = "loop" /\ gremained # 0
    /\ gcopy' = IF front <= rear THEN gremained
                                 ELSE Smaller(Size - front, gremained)
    /\ gpc' = "copy"
    /\ UNCHANGED <<putVars, front, buf, gsize, gremained, taken, delivered>>

\* memcpy(..., &buf[_front]): -1 stands for what lies past the array.
GetCopy ==
    /\ gpc = "copy"
    /\ delivered' = delivered \o
         [i \in 1 .. gcopy |-> IF front + i - 1 \in Cells
                               THEN buf[front + i - 1] ELSE -1]
    /\ gpc' = "publish"
    /\ UNCHANGED <<putVars, front, buf, gsize, gremained, gcopy, taken>>

GetPublish ==
    /\ gpc = "publish"
    /\ front' = Advance(front, gcopy)
    /\ gremained' = gremained - gcopy
    /\ taken' = taken + gcopy
    /\ gpc' = "loop"
    /\ UNCHANGED <<putVars, buf, gsize, gcopy, delivered>>

GetReturn ==
    /\ gpc = "loop" /\ gremained = 0
    /\ gpc' = "idle"
    /\ UNCHANGED <<putVars, front, buf, gsize, gremained, gcopy, taken, delivered>>

Get == \/ GetCall \/ GetCompare \/ GetCheck \/ GetRetry
       \/ GetChunk \/ GetCopy \/ GetPublish \/ GetReturn

-----------------------------------------------------------------------------
Next == Put \/ Get

Spec == Init /\ [][Next]_vars

\* Each thread runs its loop; the scheduler gives both of them time.
FairSpec == Spec /\ WF_vars(Put) /\ WF_vars(Get)

-----------------------------------------------------------------------------
(* Properties                                                              *)

PcSet == {"idle", "compare", "le", "gt", "retry", "loop", "copy", "publish"}

\* Every variable holds a value of its type; both cursors index the buffer.
TypeOK ==
    /\ front \in Cells /\ rear \in Cells
    /\ buf \in [Cells -> Nat]
    /\ ppc \in PcSet /\ psize \in Nat /\ premained \in Nat /\ pcopy \in Nat
    /\ gpc \in PcSet /\ gsize \in Nat /\ gremained \in Nat /\ gcopy \in Nat
    /\ sent \in Nat /\ taken \in Nat
    /\ delivered \in Seq(Int)

\* The cells a memcpy in progress reads or writes.
PutWindow == IF ppc = "copy" THEN rear .. rear + pcopy - 1 ELSE {}
GetWindow == IF gpc = "copy" THEN front .. front + gcopy - 1 ELSE {}

\* The two unlocked memcpy calls of put() and get() never touch the same
\* cell at the same time, and neither leaves the array, although both chose
\* their length from a cursor that may have moved since it was read.
CopiesSafe ==
    /\ PutWindow \subseteq Cells
    /\ GetWindow \subseteq Cells
    /\ PutWindow \cap GetWindow = {}

\* The cursors always tell how many bytes are unread: a full buffer is never
\* mistaken for an empty one, whatever the order of the two threads' stores.
Occupancy == sent - taken = DataSize

\* Every byte handed to the audio device is the next byte of the stream: none
\* is lost, duplicated, reordered, or overwritten before it was copied out.
DeliveredInOrder == \A i \in 1 .. Len(delivered) : delivered[i] = i - 1

\* A put() and a get() cannot both be refused on account of each other: a
\* refused put leaves enough data for the pending get or the other way round.
\* This is what the sizes of the two sides must be chosen for (SizesFit).
SizesFit == \A n \in PutSizes, m \in GetSizes : n + m <= Size
Refusable == {"compare", "le", "gt", "retry"}
NoStandoff ==
    SizesFit => ~ (/\ ppc \in Refusable /\ FreeSize < psize
                   /\ gpc \in Refusable /\ DataSize < gsize)

-----------------------------------------------------------------------------
(* The inductive invariant behind the safety properties.                   *)

\* The cell of the i-th unread byte.
Cell(i) == IF front + i < Size THEN front + i ELSE front + i - Size

\* The unread cells hold the unread bytes, in order.
Stored == \A i \in 0 .. DataSize - 1 : buf[Cell(i)] = taken + i

\* What the producer still has to write fits in the free space, and its chunk
\* ends with the array.  "le" and "gt" remember a comparison with _front that
\* the consumer can only turn in the harmless direction.
ProducerInv ==
    /\ ppc \in Refusable => psize \in PutSizes
    /\ ppc = "le" => front <= rear
    /\ ppc \in {"loop", "copy", "publish"} => premained <= FreeSize
    /\ ppc \in {"copy", "publish"} => /\ 0 < pcopy /\ pcopy <= premained
                                       /\ rear + pcopy <= Size
    /\ ppc = "publish" => \A i \in 0 .. pcopy - 1 : buf[rear + i] = sent + i

\* Likewise for what the consumer still has to read.
ConsumerInv ==
    /\ gpc \in Refusable => gsize \in GetSizes
    /\ gpc = "gt" => rear < front
    /\ gpc \in {"loop", "copy", "publish"} => gremained <= DataSize
    /\ gpc \in {"copy", "publish"} => /\ 0 < gcopy /\ gcopy <= gremained
                                       /\ front + gcopy <= Size

\* The callers' buffers hold the stream up to the last memcpy.
DeliveredInv ==
    /\ Len(delivered) = taken + (IF gpc = "publish" THEN gcopy ELSE 0)
    /\ DeliveredInOrder

\* Together the parts are preserved by every step of either thread.
Inv == /\ TypeOK /\ Occupancy /\ Stored
       /\ ProducerInv /\ ConsumerInv /\ DeliveredInv

-----------------------------------------------------------------------------
\* The decoder has no further frame for the queue.
Exhausted == ppc = "idle" /\ \A n \in PutSizes : sent + n > MaxBytes

\* Both retry loops end: decode_audio's with the frame accepted, audioCallback's
\* with the bytes it asked for, unless the stream ended with fewer bytes in the
\* queue than the device asks for (then it never does).
CallsReturn ==
    /\ ppc = "compare" ~> ppc = "idle"
    /\ gpc = "compare" ~> (gpc = "idle" \/ (Exhausted /\ DataSize < gsize))
=============================================================================
