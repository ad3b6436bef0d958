----------------------------- MODULE BoundedFIFO -----------------------------
(***************************************************************************)
(* What SWorkerManager expects of its queue: a FIFO with Capacity places.  *)
(* Push refuses a value when it is full, Pop returns the oldest value.     *)
(***************************************************************************)
EXTENDS Naturals, Sequences

CONSTANTS Value, Nil, Capacity

VARIABLES queue,  \* the values pushed and not yet popped, oldest first
          ret     \* what the last call returned

Init == queue = <<>> /\ ret = Nil

Push(v) == IF Len(queue) = Capacity
           THEN ret' = FALSE /\ UNCHANGED queue
           ELSE ret' = TRUE /\ queue' = Append(queue, v)

Pop == IF queue = <<>>
       THEN ret' = Nil /\ UNCHANGED queue
       ELSE ret' = Head(queue) /\ queue' = Tail(queue)

Next == Pop \/ \E v \in Value : Push(v)

Spec == Init /\ [][Next]_<<queue, ret>>
=============================================================================
