-------------------------------- MODULE Fifo --------------------------------
(***************************************************************************)
(* What the player's two queues promise the threads on their ends: a       *)
(* bounded first-in first-out queue.  Items enter and leave in chunks (the *)
(* bytes of StreamQueue) or one by one (the pictures of VideoPictureQueue);*)
(* the k-th item that enters is the number k.                              *)
(***************************************************************************)
EXTENDS Integers, Sequences

CONSTANT Capacity   \* the items the queue can hold

VARIABLES fifo, entered, delivered

fifoVars == <<fifo, entered, delivered>>

Init == fifo = <<>> /\ entered = 0 /\ delivered = <<>>

Enter == \E n \in 1 .. Capacity - Len(fifo) :
    /\ fifo' = fifo \o [i \in 1 .. n |-> entered + i - 1]
    /\ entered' = entered + n
    /\ UNCHANGED delivered

Leave == \E n \in 1 .. Len(fifo) :
    /\ delivered' = delivered \o SubSeq(fifo, 1, n)
    /\ fifo' = SubSeq(fifo, n + 1, Len(fifo))
    /\ UNCHANGED entered

Next == Enter \/ Leave

Spec == Init /\ [][Next]_fifoVars
=============================================================================
