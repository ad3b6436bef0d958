-------------------------------- MODULE Ring --------------------------------
(***************************************************************************)
(* The ring buffer of pkg/appsrv/ring.go, the queue of every               *)
(* SWorkerManager.  r.lock makes each method one step.  One place of the   *)
(* buffer stays empty, so that a full ring differs from an empty one.      *)
(* Range changes nothing and visits nothing: the condition of its loop,    *)
(* i != r.header, is false when i starts as r.header.                      *)
(***************************************************************************)
EXTENDS Integers, Sequences

CONSTANTS Value,   \* what is pushed
          Nil,
          size     \* the argument of NewRing

ASSUME SizeAssumption == size \in Nat
ASSUME NilAssumption == Nil \notin Value

VARIABLES buffer, header, tail,
          ret      \* what the last call of Push or Pop returned

vars == <<buffer, header, tail, ret>>

\* len(r.buffer)
N == size + 1

NewRing == /\ buffer = [i \in 0 .. N - 1 |-> Nil]
           /\ header = 0
           /\ tail = 0

Init == NewRing /\ ret = Nil

\* Mutant: the pointer wraps one place too late.
nextPointer_Late(idx) == IF idx + 1 > N THEN 0 ELSE idx + 1

nextPointer(idx) == IF idx + 1 >= N THEN 0 ELSE idx + 1

Capacity == N - 1

Size == IF tail <= header THEN header - tail ELSE N - tail + header

\* Mutant: the ring is filled up to the last place.
Push_NoGap(v) ==
    /\ buffer' = [buffer EXCEPT ![header] = v]
    /\ header' = nextPointer(header)
    /\ ret' = TRUE
    /\ UNCHANGED tail

Push(v) ==
    IF nextPointer(header) = tail
    THEN /\ ret' = FALSE
         /\ UNCHANGED <<buffer, header, tail>>
    ELSE /\ buffer' = [buffer EXCEPT ![header] = v]
         /\ header' = nextPointer(header)
         /\ ret' = TRUE
         /\ UNCHANGED tail

\* Mutant: the value stays in the buffer.
Pop_KeepsValue ==
    IF tail = header
    THEN /\ ret' = Nil
         /\ UNCHANGED <<buffer, header, tail>>
    ELSE /\ ret' = buffer[tail]
         /\ tail' = nextPointer(tail)
         /\ UNCHANGED <<buffer, header>>

Pop ==
    IF tail = header
    THEN /\ ret' = Nil
         /\ UNCHANGED <<buffer, header, tail>>
    ELSE /\ ret' = buffer[tail]
         /\ buffer' = [buffer EXCEPT ![tail] = Nil]
         /\ tail' = nextPointer(tail)
         /\ UNCHANGED header

Next == Pop \/ \E v \in Value : Push(v)

Spec == Init /\ [][Next]_vars
-----------------------------------------------------------------------------
\* The i-th place behind tail, and the values queued there.
Place(i) == IF tail + i < N THEN tail + i ELSE tail + i - N
Contents == [i \in 1 .. Size |-> buffer[Place(i - 1)]]

TypeOK == /\ buffer \in [0 .. N - 1 -> Value \cup {Nil}]
          /\ header \in 0 .. N - 1
          /\ tail \in 0 .. N - 1
          /\ ret \in Value \cup {Nil} \cup BOOLEAN

\* The queued values are real ones, and a place that holds none is nil: Pop
\* never returns nil for a queued task, and the ring keeps no task alive that
\* was popped (TestRing looks at the places from header to tail).
NilOutside ==
    \A i \in 0 .. N - 1 : buffer[Place(i)] = Nil <=> i >= Size

\* The inductive invariant.
RingInv == TypeOK /\ NilOutside

\* The ring implements a FIFO of exactly size places: no value is overwritten,
\* skipped or returned twice when the pointers wrap around.
FIFO == INSTANCE BoundedFIFO WITH queue <- Contents, Capacity <- size
ImplementsFIFO == FIFO!Spec
=============================================================================
