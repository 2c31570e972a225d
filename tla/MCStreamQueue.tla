--------------------------- MODULE MCStreamQueue ---------------------------
(* StreamQueue for TLC, with the mapping to the FIFO it implements.        *)
EXTENDS StreamQueue

\* Bytes copied out but not yet released have left the abstract queue.
Pending == IF gpc = "publish" THEN gcopy ELSE 0

\* The unread cells that stay when they have left.
Unread == [i \in 1 .. DataSize - Pending |-> buf[(front + Pending + i - 1) % Size]]

F == INSTANCE Fifo WITH
    Capacity <- Size - 1,
    fifo <- Unread,
    entered <- sent,
    delivered <- delivered

\* The unlocked ring buffer, with its torn reads of the other cursor and its
\* chunked publication, implements the bounded byte FIFO.
ImplementsFifo == F!Spec
=============================================================================
