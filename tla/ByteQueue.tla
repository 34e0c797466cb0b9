------------------------------ MODULE ByteQueue ------------------------------
(***************************************************************************)
(* What a Buffer<CAP> promises its two users: a queue of bytes.             *)
(***************************************************************************)
EXTENDS Naturals, Sequences

CONSTANTS CAP, Bytes

VARIABLE queue

Init == queue = <<>>

\* Bytes are added behind those in the queue.
Produce ==
  /\ Len(queue') \in Len(queue) + 1..CAP
  /\ SubSeq(queue', 1, Len(queue)) = queue
  /\ SubSeq(queue', Len(queue) + 1, Len(queue')) \in Seq(Bytes)

\* Bytes leave at the front.
Consume ==
  /\ Len(queue') <= Len(queue)
  /\ queue' = SubSeq(queue, Len(queue) - Len(queue') + 1, Len(queue))

Next == Produce \/ Consume

Spec == Init /\ [][Next]_queue

=============================================================================
