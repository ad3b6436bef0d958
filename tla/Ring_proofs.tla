----------------------------- MODULE Ring_proofs -----------------------------
(***************************************************************************)
(* Proofs about Ring, for a ring of any size and any values.               *)
(***************************************************************************)
EXTENDS Ring, TLAPS

\* Arithmetic of the two pointers: Size counts the places from tail to header,
\* Place walks through them, and nextPointer moves one place on.
LEMMA Pointers ==
    ASSUME header \in 0 .. N - 1, tail \in 0 .. N - 1
    PROVE  /\ N \in Nat \ {0}
           /\ Size \in 0 .. N - 1
           /\ \A i \in 0 .. N - 1 : Place(i) \in 0 .. N - 1
           /\ \A i, j \in 0 .. N - 1 : Place(i) = Place(j) => i = j
           /\ Place(Size) = header
           /\ Place(0) = tail
           /\ nextPointer(header) \in 0 .. N - 1
           /\ nextPointer(tail) \in 0 .. N - 1
           /\ nextPointer(header) = tail <=> Size = N - 1
           /\ header = tail <=> Size = 0
  BY SizeAssumption DEF N, Size, Place, nextPointer

\* A value pushed lands behind the last one.
LEMMA PushPlaces ==
    ASSUME header \in 0 .. N - 1, tail \in 0 .. N - 1,
           nextPointer(header) # tail,
           header' = nextPointer(header), tail' = tail
    PROVE  /\ Size' = Size + 1
           /\ \A i \in 0 .. N - 1 : Place(i)' = Place(i)
  BY SizeAssumption DEF N, Size, Place, nextPointer

\* A value popped makes its successor the first one.
LEMMA PopPlaces ==
    ASSUME header \in 0 .. N - 1, tail \in 0 .. N - 1,
           tail # header,
           header' = header, tail' = nextPointer(tail)
    PROVE  /\ Size' = Size - 1
           /\ \A i \in 0 .. N - 2 : Place(i)' = Place(i + 1)
           /\ Place(N - 1)' = tail
  BY SizeAssumption DEF N, Size, Place, nextPointer

\* A new ring is empty.
LEMMA InitInv == Init => RingInv
  BY SizeAssumption DEF Init, NewRing, RingInv, TypeOK, NilOutside, N, Size, Place

\* Push and Pop keep the values between tail and header and nil elsewhere.
LEMMA NextInv == RingInv /\ [Next]_vars => RingInv'
<1> SUFFICES ASSUME RingInv, [Next]_vars PROVE RingInv'
  OBVIOUS
<1>0. header \in 0 .. N - 1 /\ tail \in 0 .. N - 1 /\ N \in Nat \ {0}
  BY SizeAssumption DEF RingInv, TypeOK, N
<1>1. ASSUME NEW v \in Value, Push(v), nextPointer(header) # tail PROVE RingInv'
  <2>1. /\ buffer' = [buffer EXCEPT ![header] = v] /\ header' = nextPointer(header)
        /\ ret' = TRUE /\ tail' = tail
    BY <1>1 DEF Push
  <2>2. TypeOK'
    BY <2>1, <1>0, Pointers DEF RingInv, TypeOK, N
  <2>3. ASSUME NEW i \in 0 .. N - 1 PROVE buffer'[Place(i)'] = Nil <=> i >= Size'
    <3>1. Place(i)' = Place(i) /\ Size' = Size + 1 /\ Place(i) \in 0 .. N - 1
      BY <2>1, <1>0, <1>1, PushPlaces, Pointers
    <3>2. Size \in 0 .. N - 1 /\ Place(Size) = header /\ (Place(i) = header => i = Size)
      BY <1>0, Pointers
    <3>3. buffer[Place(i)] = Nil <=> i >= Size
      BY DEF RingInv, NilOutside
    <3>4. CASE i = Size
      BY <3>1, <3>2, <3>4, <2>1, NilAssumption DEF RingInv, TypeOK
    <3>5. CASE i # Size
      <4>1. buffer'[Place(i)] = buffer[Place(i)]
        BY <3>1, <3>2, <3>5, <2>1 DEF RingInv, TypeOK
      <4> QED
        BY <4>1, <3>1, <3>2, <3>3, <3>5
    <3> QED
      BY <3>4, <3>5
  <2> QED
    BY <2>2, <2>3 DEF RingInv, NilOutside, N
<1>2. ASSUME Pop, tail # header PROVE RingInv'
  <2>1. /\ buffer' = [buffer EXCEPT ![tail] = Nil] /\ tail' = nextPointer(tail)
        /\ ret' = buffer[tail] /\ header' = header
    BY <1>2 DEF Pop
  <2>2. TypeOK'
    BY <2>1, <1>0, Pointers DEF RingInv, TypeOK, N
  <2>3. ASSUME NEW i \in 0 .. N - 1 PROVE buffer'[Place(i)'] = Nil <=> i >= Size'
    <3>0. Size' = Size - 1 /\ Size \in 1 .. N - 1
      BY <2>1, <1>0, <1>2, PopPlaces, Pointers
    <3>1. CASE i = N - 1
      <4>1. Place(i)' = tail
        BY <3>1, <2>1, <1>0, <1>2, PopPlaces
      <4> QED
        BY <4>1, <3>0, <3>1, <2>1, <1>0 DEF RingInv, TypeOK
    <3>2. CASE i # N - 1
      <4>1. i \in 0 .. N - 2 /\ i + 1 \in 0 .. N - 1
        BY <3>2, <1>0
      <4>2. Place(i)' = Place(i + 1)
        BY <4>1, <2>1, <1>0, <1>2, PopPlaces
      <4>3. Place(i + 1) \in 0 .. N - 1 /\ Place(i + 1) # tail
        <5>1. Place(0) = tail /\ 0 \in 0 .. N - 1
          BY <1>0, Pointers
        <5> QED
          BY <5>1, <4>1, <1>0, Pointers
      <4>4. buffer'[Place(i)'] = buffer[Place(i + 1)]
        BY <4>2, <4>3, <2>1 DEF RingInv, TypeOK
      <4>5. buffer[Place(i + 1)] = Nil <=> i + 1 >= Size
        BY <4>1 DEF RingInv, NilOutside
      <4> QED
        BY <4>4, <4>5, <3>0, <4>1
    <3> QED
      BY <3>1, <3>2
  <2> QED
    BY <2>2, <2>3 DEF RingInv, NilOutside, N
<1>3. ASSUME UNCHANGED <<buffer, header, tail>>, ret' \in Value \cup {Nil} \cup BOOLEAN
      PROVE  RingInv'
  BY <1>3 DEF RingInv, TypeOK, NilOutside, Place, Size, N
<1>4. CASE UNCHANGED vars
  BY <1>3, <1>4 DEF vars, RingInv, TypeOK
<1> QED
  BY <1>1, <1>2, <1>3, <1>4 DEF Next, Push, Pop

\* The places between header and tail are nil and no other place is.
THEOREM Invariance == Spec => []RingInv
  BY InitInv, NextInv, PTL DEF Spec

\* The pointers stay inside the buffer, wherever they wrap around.
THEOREM TypeCorrect == Spec => []TypeOK
  BY Invariance, PTL DEF RingInv

\* Pop never mistakes a queued task for an empty ring.
THEOREM NilTheorem == Spec => []NilOutside
  BY Invariance, PTL DEF RingInv
-----------------------------------------------------------------------------
(***************************************************************************)
(* The refinement.                                                         *)
(***************************************************************************)
\* What Contents is: Size values.
ContentsAre == /\ Contents \in Seq(Value)
               /\ Len(Contents) = Size
               /\ \A i \in 1 .. Size : Contents[i] = buffer[Place(i - 1)]

\* The values from tail to header form a sequence of Size values.
LEMMA ContentsType == RingInv => ContentsAre
<1> SUFFICES ASSUME RingInv PROVE ContentsAre
  OBVIOUS
<1>1. header \in 0 .. N - 1 /\ tail \in 0 .. N - 1
  BY DEF RingInv, TypeOK
<1>2. Size \in 0 .. N - 1
  BY <1>1, Pointers
<1>3. \A i \in 1 .. Size : buffer[Place(i - 1)] \in Value
  <2> SUFFICES ASSUME NEW i \in 1 .. Size PROVE buffer[Place(i - 1)] \in Value
    OBVIOUS
  <2>1. i - 1 \in 0 .. N - 1 /\ ~(i - 1 >= Size)
    BY <1>2, SizeAssumption DEF N
  <2>2. Place(i - 1) \in 0 .. N - 1
    BY <2>1, <1>1, Pointers
  <2> QED
    BY <2>1, <2>2 DEF RingInv, TypeOK, NilOutside
<1> HIDE DEF Size
<1> QED
  BY <1>2, <1>3, SizeAssumption DEF Contents, ContentsAre, N

\* Push appends and Pop takes the head.
LEMMA RefineNext == RingInv /\ RingInv' /\ [Next]_vars => [FIFO!Next]_<<Contents, ret>>
<1> SUFFICES ASSUME RingInv, RingInv', [Next]_vars
             PROVE  [FIFO!Next]_<<Contents, ret>>
  OBVIOUS
<1>0. header \in 0 .. N - 1 /\ tail \in 0 .. N - 1 /\ N = size + 1 /\ size \in Nat
  BY SizeAssumption DEF RingInv, TypeOK, N
<1>a. /\ Contents \in Seq(Value) /\ Len(Contents) = Size
      /\ \A i \in 1 .. Size : Contents[i] = buffer[Place(i - 1)]
  BY ContentsType DEF ContentsAre
<1>b. /\ Contents' \in Seq(Value) /\ Len(Contents') = Size'
      /\ \A i \in 1 .. Size' : Contents'[i] = buffer'[(Place(i - 1))']
  <2>1. ContentsAre'
    BY ContentsType, PTL
  <2> QED
    BY <2>1 DEF ContentsAre
<1>c. Size \in 0 .. N - 1
  BY <1>0, Pointers
<1>1. ASSUME NEW v \in Value, Push(v) PROVE FIFO!Push(v)
  <2>1. CASE nextPointer(header) = tail
    <3>1. ret' = FALSE /\ UNCHANGED <<buffer, header, tail>>
      BY <1>1, <2>1 DEF Push
    <3>2. Contents' = Contents
      BY <3>1 DEF Contents, Size, Place, N
    <3>3. Len(Contents) = size
      BY <1>0, <1>a, <2>1, Pointers
    <3> QED
      BY <3>1, <3>2, <3>3 DEF FIFO!Push
  <2>2. CASE nextPointer(header) # tail
    <3>1. /\ buffer' = [buffer EXCEPT ![header] = v] /\ header' = nextPointer(header)
          /\ ret' = TRUE /\ tail' = tail
      BY <1>1, <2>2 DEF Push
    <3>2. Size' = Size + 1 /\ Size # N - 1 /\ \A i \in 0 .. N - 1 : Place(i)' = Place(i)
      BY <3>1, <1>0, <2>2, PushPlaces, Pointers
    <3>3. ASSUME NEW i \in 1 .. Size + 1
          PROVE  Contents'[i] = IF i = Size + 1 THEN v ELSE Contents[i]
      <4>1. i - 1 \in 0 .. N - 1
        BY <1>0, <1>c, <3>2
      <4>2. Contents'[i] = buffer'[Place(i - 1)]
        BY <4>1, <3>2, <1>b
      <4>3. /\ Place(i - 1) \in 0 .. N - 1
            /\ Place(i - 1) = header <=> i - 1 = Size
        BY <4>1, <1>0, <1>c, Pointers
      <4>4. i # Size + 1 => Contents[i] = buffer[Place(i - 1)]
        BY <1>a, <1>c
      <4> QED
        BY <4>2, <4>3, <4>4, <3>1, <1>c DEF RingInv, TypeOK
    <3>4. Contents' = Append(Contents, v)
      <4> HIDE DEF Contents
      <4> QED
        BY <3>2, <3>3, <1>a, <1>b, <1>c
    <3>5. Len(Contents) # size
      BY <3>2, <1>0, <1>a
    <3> QED
      BY <3>1, <3>4, <3>5 DEF FIFO!Push
  <2> QED
    BY <2>1, <2>2
<1>2. ASSUME Pop PROVE FIFO!Pop
  <2>1. CASE tail = header
    <3>1. ret' = Nil /\ UNCHANGED <<buffer, header, tail>>
      BY <1>2, <2>1 DEF Pop
    <3>2. Contents' = Contents
      BY <3>1 DEF Contents, Size, Place, N
    <3>3. Contents = <<>>
      BY <2>1, <1>0, <1>a, Pointers
    <3> QED
      BY <3>1, <3>2, <3>3 DEF FIFO!Pop
  <2>2. CASE tail # header
    <3>1. /\ buffer' = [buffer EXCEPT ![tail] = Nil] /\ tail' = nextPointer(tail)
          /\ ret' = buffer[tail] /\ header' = header
      BY <1>2, <2>2 DEF Pop
    <3>2. Size' = Size - 1 /\ Size # 0 /\ \A i \in 0 .. N - 2 : Place(i)' = Place(i + 1)
      BY <3>1, <1>0, <2>2, PopPlaces, Pointers
    <3>3. ret' = Contents[1]
      <4>1. Place(0) = tail /\ 1 - 1 = 0
        BY <1>0, Pointers
      <4>2. Contents[1] = buffer[Place(1 - 1)]
        BY <3>2, <1>0, <1>a, <1>c
      <4> QED
        BY <4>1, <4>2, <3>1
    <3>4. ASSUME NEW i \in 1 .. Size - 1 PROVE Contents'[i] = Contents[i + 1]
      <4>1. i - 1 \in 0 .. N - 2 /\ i \in 1 .. N - 1 /\ i \in 0 .. N - 1 /\ i \in 1 .. Size'
        BY <1>0, <1>c, <3>2
      <4>2. Contents'[i] = buffer'[Place(i - 1)']
        BY <4>1, <1>b
      <4>3. Place(i - 1)' = Place(i - 1 + 1) /\ i - 1 + 1 = i
        BY <4>1, <3>2
      <4>4. Place(i) \in 0 .. N - 1 /\ Place(i) # tail
        BY <4>1, <1>0, Pointers
      <4>5. Contents[i + 1] = buffer[Place(i + 1 - 1)] /\ i + 1 - 1 = i
        BY <1>a, <1>c
      <4> QED
        BY <4>2, <4>3, <4>4, <4>5, <3>1 DEF RingInv, TypeOK
    <3>5. Contents' = Tail(Contents) /\ Contents # <<>>
      <4> HIDE DEF Contents
      <4> QED
        BY <3>2, <3>4, <1>a, <1>b, <1>c
    <3> QED
      BY <3>1, <3>3, <3>5 DEF FIFO!Pop
  <2> QED
    BY <2>1, <2>2
<1>3. CASE UNCHANGED vars
  BY <1>3 DEF vars, Contents, Size, Place, N
<1> QED
  BY <1>1, <1>2, <1>3 DEF Next, FIFO!Next

\* An empty ring is an empty FIFO.
LEMMA RefineInit == Init => FIFO!Init
  BY SizeAssumption DEF Init, NewRing, FIFO!Init, Contents, Size, N

\* The ring buffer implements the bounded FIFO.
THEOREM Refinement == Spec => ImplementsFIFO
  BY Invariance, RefineInit, RefineNext, PTL DEF Spec, ImplementsFIFO, FIFO!Spec
=============================================================================
