-------------------------------- MODULE Fifo --------------------------------
(***************************************************************************)
(* What each UART ring promises: a bounded queue between one producer and  *)
(* one consumer.  A byte is appended only when there is room, and the      *)
(* consumer takes the oldest byte, whole and once.                         *)
(***************************************************************************)
EXTENDS Naturals, Sequences

CONSTANTS Bytes,   \* the bytes that travel
          Room     \* how many the ring holds

VARIABLES queue,   \* the bytes in the ring, oldest first
          taken    \* the byte the consumer took last

vars == <<queue, taken>>

Init == queue = <<>> /\ taken \in Bytes

Put(b) ==
  /\ Len(queue) < Room
  /\ queue' = Append(queue, b)
  /\ UNCHANGED taken

Get ==
  /\ queue # <<>>
  /\ taken' = Head(queue)
  /\ queue' = Tail(queue)

Next == Get \/ \E b \in Bytes : Put(b)

Spec == Init /\ [][Next]_vars
=============================================================================
