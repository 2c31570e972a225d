------------------------ MODULE MCVideoPictureQueue ------------------------
(* VideoPictureQueue for TLC, with the mapping to the FIFO it implements.  *)
EXTENDS VideoPictureQueue

\* A picture leaves the abstract queue when its upload ends, and enters it
\* when push() stores _size; _rIndex and _size follow one after the other.
First == IF rpc \in {"pop", "popIndex"} THEN Advance(rIndex) ELSE rIndex
Queued == IF rpc \in {"pop", "popIndex", "popLoad", "popStore"}
          THEN size - 1 ELSE size

\* The pictures pushed and not uploaded yet.
Unshown == [i \in 1 .. Queued |-> slots[(First + i - 1) % VpqSize]]

F == INSTANCE Fifo WITH
    Capacity <- VpqSize,
    fifo <- Unshown,
    entered <- frame,
    delivered <- shown

\* The locked ring, whose slots are filled and read outside the lock,
\* implements the bounded FIFO of pictures.
ImplementsFifo == F!Spec
=============================================================================
