----------------------- MODULE HostPendingUsage_proofs -----------------------
(***************************************************************************)
(* Proofs about HostPendingUsage, for any number of hosts, sessions,       *)
(* guests and workers.                                                     *)
(***************************************************************************)
EXTENDS HostPendingUsage, FiniteSetTheorems, TLAPS

USE DEF Clearing

\* A set of guests that is not empty has a first one.
LEMMA FirstIn == ASSUME NEW S \in SUBSET Guest, S # {}
                 PROVE  First(S) \in S
<1> DEFINE Below(x) == {y \in S : y < x}
           Belows == {Below(x) : x \in S}
<1>1. S \subseteq Nat /\ IsFiniteSet(S)
  BY GuestAssumption, FiniteAssumption, FS_Subset
<1>2. IsWellFoundedOn(StrictSubsetOrdering(S), SUBSET S)
  BY <1>1, FS_StrictSubsetOrderingWellFounded, FS_FiniteSubsetsOfFinite
<1>3. Belows \subseteq SUBSET S /\ Belows # {}
  OBVIOUS
<1> HIDE DEF Belows
<1>4. PICK X \in Belows : \A Y \in Belows : ~(<<Y, X>> \in StrictSubsetOrdering(S))
  BY <1>2, <1>3, WFMin
<1>5. PICK x \in S : X = Below(x)
  BY <1>4 DEF Belows
<1>6. ASSUME NEW y \in S, y < x PROVE FALSE
  <2>1. Below(y) \in Belows /\ Below(y) \in SUBSET S /\ Below(x) \in SUBSET S
    BY DEF Belows
  <2>2. Below(y) \subseteq Below(x) /\ y \in Below(x) /\ y \notin Below(y)
    <3>1. x \in Nat /\ y \in Nat /\ \A z \in S : z \in Nat
      BY <1>1
    <3>2. \A z \in S : z < y => z < x
      BY <3>1, <1>6
    <3>3. ~(y < y)
      BY <3>1
    <3> QED
      BY <3>2, <3>3, <1>6, Zenon
  <2>3. <<Below(y), X>> \in StrictSubsetOrdering(S)
    BY <2>1, <2>2, <1>5 DEF StrictSubsetOrdering
  <2> QED
    BY <2>1, <2>3, <1>4
<1>7. \A y \in S : x <= y
  BY <1>1, <1>6
<1> QED
  BY <1>7 DEF First

\* The sets of the invariant are finite.
LEMMA Finite ==
    ASSUME TypeOK
    PROVE  /\ \A S \in SUBSET Guest : IsFiniteSet(S) /\ Cardinality(S) \in Nat
           /\ \A S \in SUBSET Worker : IsFiniteSet(S) /\ Cardinality(S) \in Nat
           /\ \A h : IsFiniteSet(Units(h)) /\ Cardinality(Units(h)) \in Nat
<1>1. \A S \in SUBSET Guest : IsFiniteSet(S) /\ Cardinality(S) \in Nat
  BY FiniteAssumption, FS_Subset, FS_CardinalityType
<1>2. \A S \in SUBSET Worker : IsFiniteSet(S) /\ Cardinality(S) \in Nat
  BY FiniteAssumption, FS_Subset, FS_CardinalityType
<1>3. IsFiniteSet(Session \X (1 .. Cardinality(Guest)))
  <2>1. Cardinality(Guest) \in Nat
    BY <1>1
  <2>2. IsFiniteSet(1 .. Cardinality(Guest))
    BY <2>1, FS_Interval
  <2> QED
    BY <2>2, FiniteAssumption, FS_Product
<1>4. ASSUME NEW h PROVE IsFiniteSet(Units(h)) /\ Cardinality(Units(h)) \in Nat
  <2>1. Units(h) \in SUBSET (Session \X (1 .. Cardinality(Guest)))
    BY DEF Units
  <2> QED
    BY <2>1, <1>3, FS_Subset, FS_CardinalityType
<1> QED
  BY <1>1, <1>2, <1>4

\* At first nothing is reserved.
LEMMA InitInv == Init => ReservationInv
<1> SUFFICES ASSUME Init PROVE ReservationInv
  OBVIOUS
<1> USE NamesAssumption, GuestAssumption, BoundsAssumption
<1>1. TypeOK
  <2>1. Cardinality(Guest) \in Nat /\ 0 \in 0 .. Cardinality(Guest)
    BY FiniteAssumption, FS_CardinalityType
  <2>2. pending \in [Host -> 0 .. Cardinality(Guest)] /\ hand \in Usage
    BY <2>1 DEF Init, NoUsage, Usage
  <2>3. queue \in Seq(SUBSET (Guest \cup Host)) /\ Len(queue) <= QueueSize
    BY DEF Init
  <2>4. events \in 0 .. MaxEvents
    BY DEF Init
  <2> QED
    BY <2>2, <2>3, <2>4 DEF Init, TypeOK, PC
<1>2. \A h \in Host : On(h) = {} /\ pending[h] = 0
  BY DEF Init, On
<1>3. EntriesInOrder
  BY DEF Init, EntriesInOrder, UnderWay, InChannel, InQueue, InWork, Proc, Loader
<1>4. ExecutorInOrder /\ ProcsInOrder /\ StoreInOrder /\ WorkersHaveRead /\ LoadedFirst
  BY DEF Init, ExecutorInOrder, ProcsInOrder, StoreInOrder, WorkersHaveRead, LoadedFirst,
         Proc, Loader
<1>5. \A h \in Host : Added(h) = {} /\ DueOn(h) = {} /\ SubsOn(h) = {} /\ OpenOn(h) = {}
                      /\ Units(h) = {}
  BY <1>2 DEF Init, Added, DueOn, SubsOn, OpenOn, Placed, Units, Proc, Loader
<1>6. PendingBounded /\ HostsCovered /\ ReservationsExact
  <2>1. Cardinality({}) = 0
    BY FS_EmptySet
  <2>2. pc[Cleaner] \notin Clearing
    BY DEF Init, Proc, Loader, Clearing
  <2>3. PendingBounded
    BY <1>2, <1>5, <2>1, <2>2 DEF PendingBounded
  <2>4. HostsCovered
    BY <1>2, <1>5, <2>1 DEF HostsCovered
  <2> QED
    BY <1>2, <1>5, <2>1, <2>3, <2>4 DEF ReservationsExact
<1>7. SessionsCovered /\ FreshCounts /\ SubsStored /\ AddStored
  BY <1>5 DEF Init, SessionsCovered, FreshCounts, SubsStored, AddStored, AddedFor, Proc, Loader
<1> QED
  BY <1>1, <1>3, <1>4, <1>6, <1>7 DEF ReservationInv
-----------------------------------------------------------------------------
(***************************************************************************)
(* Steps that leave parts of the state alone.                              *)
(***************************************************************************)
\* Nothing is reserved or given back, and nothing more becomes due.
LEMMA SessionsStay ==
    ASSUME ReservationInv, TypeOK', gap # "cleared",
           UNCHANGED <<pending, session, count>>,
           \A h \in Host : Added(h)' = Added(h),
           \A g \in Guest : host[g] # None => host'[g] = host[g],
           \A p \in Worker : pc'[p] = "sub" => pc[p] = "sub" /\ ptr'[p] = ptr[p],
           \A g \in Guest : Due(g)' /\ host[g] \in Host => Due(g)
    PROVE  SessionsCovered' /\ ReservationsExact' /\ SubsStored'
<1> USE DEF ReservationInv
<1>1. ReservationsExact'
  <2>1. \A h : Units(h)' = Units(h)
    BY DEF Units
  <2> QED
    BY <2>1 DEF ReservationsExact
<1>2. SubsStored'
  BY NamesAssumption DEF SubsStored, ProcsInOrder
<1>3. ASSUME NEW s \in Session, NEW h \in Host
      PROVE  /\ AddedFor(s, h)' = AddedFor(s, h)
             /\ DueFor(s, h)' \subseteq DueFor(s, h)
             /\ SubsOf(session[s][h])' \subseteq SubsOf(session[s][h])
             /\ DueFor(s, h) \in SUBSET Guest
  BY DEF AddedFor, DueFor, DueOn, SubsOf, Added, On
<1>4. ASSUME NEW s \in Session, NEW h \in Host, session[s][h] # None
      PROVE  /\ Cardinality(DueFor(s, h)') <= Cardinality(DueFor(s, h))
             /\ Cardinality(SubsOf(session[s][h])') <= Cardinality(SubsOf(session[s][h]))
             /\ Cardinality(DueFor(s, h)') \in Nat /\ Cardinality(DueFor(s, h)) \in Nat
             /\ Cardinality(SubsOf(session[s][h])') \in Nat
             /\ Cardinality(SubsOf(session[s][h])) \in Nat
  <2>1. SubsOf(session[s][h]) \in SUBSET Worker
    BY DEF SubsOf
  <2>2. IsFiniteSet(DueFor(s, h)) /\ IsFiniteSet(SubsOf(session[s][h]))
    BY <1>3, <2>1, Finite
  <2> QED
    BY <1>3, <2>2, FS_Subset, FS_CardinalityType
<1>5. SessionsCovered'
  <2> SUFFICES ASSUME NEW s \in Session, NEW h \in Host,
                      session[s][h] # None
               PROVE  /\ Cardinality(DueFor(s, h)') + Cardinality(SubsOf(session[s][h])')
                             <= count[session[s][h]]
                      /\ count[session[s][h]] <= Cardinality(AddedFor(s, h))
    BY <1>3 DEF SessionsCovered
  <2>1. /\ Cardinality(DueFor(s, h)) + Cardinality(SubsOf(session[s][h]))
               <= count[session[s][h]]
        /\ count[session[s][h]] <= Cardinality(AddedFor(s, h))
        /\ count[session[s][h]] \in Int
    BY DEF SessionsCovered, TypeOK
  <2> QED
    BY <2>1, <1>4
<1> QED
  BY <1>1, <1>2, <1>5

\* Nothing more is open on the hosts.
LEMMA HostsStay ==
    ASSUME ReservationInv, TypeOK', HostsCovered, pending' = pending,
           \A h \in Host : OpenOn(h)' \subseteq OpenOn(h),
           \A g \in Guest : host[g] # None => host'[g] = host[g],
           \A p \in Worker : pc'[p] = "sub" => pc[p] = "sub" /\ ptr'[p] = ptr[p]
    PROVE  HostsCovered'
<1> SUFFICES ASSUME NEW h \in Host
             PROVE  Cardinality(OpenOn(h)') + Cardinality(SubsOn(h)') <= pending[h]
  BY DEF HostsCovered
<1>1. SubsOn(h)' \subseteq SubsOn(h)
  BY NamesAssumption DEF SubsOn, ReservationInv, ProcsInOrder
<1>2. IsFiniteSet(OpenOn(h)) /\ IsFiniteSet(SubsOn(h))
  <2>1. OpenOn(h) \in SUBSET Guest /\ SubsOn(h) \in SUBSET Worker
    BY DEF OpenOn, DueOn, Placed, Added, On, SubsOn
  <2> QED
    BY <2>1, Finite DEF ReservationInv
<1>3. /\ Cardinality(OpenOn(h)') <= Cardinality(OpenOn(h))
      /\ Cardinality(SubsOn(h)') <= Cardinality(SubsOn(h))
      /\ Cardinality(OpenOn(h)') \in Nat /\ Cardinality(OpenOn(h)) \in Nat
      /\ Cardinality(SubsOn(h)') \in Nat /\ Cardinality(SubsOn(h)) \in Nat
  BY <1>1, <1>2, FS_Subset, FS_CardinalityType
<1>4. pending[h] \in Int /\ Cardinality(OpenOn(h)) + Cardinality(SubsOn(h)) <= pending[h]
  <2>1. pending[h] \in 0 .. Cardinality(Guest) /\ Cardinality(Guest) \in Nat
    BY Finite DEF ReservationInv, TypeOK
  <2> QED
    BY <2>1 DEF HostsCovered
<1> QED
  BY <1>3, <1>4

\* The executor stays where it is.
LEMMA ExecutorStays ==
    ASSUME ExecutorInOrder,
           pc'[Executor] = pc[Executor], work'[Executor] = work[Executor],
           ptr'[Executor] = ptr[Executor], host' = host,
           \A g \in Guest : region[g] = "none" => region'[g] = "none"
    PROVE  /\ ExecutorInOrder'
           /\ UNCHANGED <<session, count>> /\ FreshCounts /\ AddStored
                 => FreshCounts' /\ AddStored'
  BY DEF ExecutorInOrder, FreshCounts, AddStored

\* A step that reserves nothing, gives nothing back and lets nobody begin to.
LEMMA QuietStep ==
    ASSUME ReservationInv, TypeOK', EntriesInOrder', ProcsInOrder', WorkersHaveRead',
           UNCHANGED <<pending, session, count, host>>,
           pc'[Executor] = pc[Executor], work'[Executor] = work[Executor],
           ptr'[Executor] = ptr[Executor],
           pc'[Cleaner] \in Clearing =>
              pc[Cleaner] \in Clearing /\ ptr'[Cleaner] = ptr[Cleaner] /\ hand' = hand,
           \A g \in Guest : region[g] = "none" => region'[g] = "none",
           \A p \in Worker : pc'[p] = "sub" => pc[p] = "sub" /\ ptr'[p] = ptr[p],
           \A g \in Guest : Due(g)' /\ host[g] \in Host => Due(g),
           gap' # "cleared" => gap # "cleared",
           gap' = "none" => /\ gap = "none" /\ LoadedFirst'
                            /\ \A h \in Host : (Placed(h) \ base[h])' \subseteq OpenOn(h)
    PROVE  ReservationInv'
<1>1. \A h \in Host : Added(h)' = Added(h)
  BY DEF Added, On
<1>2. ExecutorInOrder' /\ (gap' # "cleared" => FreshCounts' /\ AddStored')
  BY ExecutorStays DEF ReservationInv
<1>3. gap' # "cleared" => SessionsCovered' /\ ReservationsExact' /\ SubsStored'
  BY <1>1, SessionsStay
<1>4. StoreInOrder' /\ PendingBounded'
  <2>1. StoreInOrder'
    BY DEF ReservationInv, StoreInOrder
  <2>2. PendingBounded'
    BY <1>1 DEF ReservationInv, ProcsInOrder, PendingBounded
  <2> QED
    BY <2>1, <2>2
<1>5. gap' = "none" => LoadedFirst' /\ HostsCovered'
  <2> SUFFICES ASSUME gap' = "none" PROVE LoadedFirst' /\ HostsCovered'
    OBVIOUS
  <2>1. \A h \in Host : DueOn(h)' \subseteq DueOn(h)
    BY <1>1 DEF DueOn, Added, On
  <2>2. \A h \in Host : OpenOn(h)' \subseteq OpenOn(h)
    BY <2>1 DEF OpenOn
  <2> QED
    BY <2>2, HostsStay DEF ReservationInv
<1> QED
  BY <1>2, <1>3, <1>4, <1>5 DEF ReservationInv

\* After a cleanup there is less to keep.
LEMMA ClearedStep ==
    ASSUME ReservationInv, TypeOK', gap' = "cleared", EntriesInOrder', ExecutorInOrder',
           ProcsInOrder', StoreInOrder', PendingBounded', WorkersHaveRead'
    PROVE  ReservationInv'
  BY DEF ReservationInv
-----------------------------------------------------------------------------
(***************************************************************************)
(* The region and the expire manager.                                      *)
(***************************************************************************)
\* A guest that is saved, or not, is not under way yet.
LEMMA SaveStep ==
    ASSUME ReservationInv, NEW g \in Guest, SaveScheduleResult(g)
    PROVE  ReservationInv'
<1> USE DEF ReservationInv, dbVars, usageVars, queueVars, histVars
<1>1. /\ UNCHANGED <<host, pending, ids, blank, session, count, members, old, desc, channel, queue,
                     mutex, pc, work, ptr, seen, built, copy, hand, base, gap, clash>>
      /\ region[g] = "told"
      /\ \/ saved' = saved \cup {g} /\ region' = [region EXCEPT ![g] = "saved"]
         \/ saved' = saved /\ region' = [region EXCEPT ![g] = "unsaved"]
  BY DEF SaveScheduleResult
<1>2. TypeOK'
  <2>1. events' \in 0 .. MaxEvents
    BY BoundsAssumption DEF SaveScheduleResult, TypeOK
  <2> QED
    BY <1>1, <2>1 DEF TypeOK
<1>3. \A x \in Guest : UnderWay(x)' = UnderWay(x)
  BY <1>1 DEF UnderWay, InChannel, InQueue, InWork
<1>4. ~UnderWay(g)
  BY <1>1 DEF EntriesInOrder
<1>5. \A x \in Guest : /\ region'[x] = "done" <=> region[x] = "done"
                       /\ region[x] = "none" => region'[x] = "none"
                       /\ region'[x] # "none" <=> region[x] # "none"
  BY <1>1 DEF TypeOK
<1>6. EntriesInOrder'
  <2>1. host[g] \in Host
    BY <1>1 DEF EntriesInOrder
  <2>2. \A x \in Guest : x # g => region'[x] = region[x]
    BY <1>1 DEF TypeOK
  <2> QED
    BY <1>1, <1>3, <1>4, <1>5, <2>1, <2>2 DEF EntriesInOrder, InChannel, InQueue, InWork
<1>7. ProcsInOrder'
  BY <1>1 DEF ProcsInOrder
<1>8. \A p \in Worker : work'[p] \cap saved' = work[p] \cap saved
  BY <1>1, <1>4 DEF UnderWay, InWork
<1>9. WorkersHaveRead' /\ (gap' = "none" => LoadedFirst')
  BY <1>1, <1>8 DEF WorkersHaveRead, LoadedFirst
<1>10. \A h \in Host : (Placed(h) \ base[h])' \subseteq OpenOn(h)
  BY <1>1 DEF OpenOn, Placed, On, TypeOK
<1> QED
  BY <1>1, <1>2, <1>3, <1>5, <1>6, <1>7, <1>9, <1>10, QuietStep DEF Due

\* A request is put into the channel once, or gets lost.
LEMMA SendStep ==
    ASSUME ReservationInv, NEW g \in Guest, ClearSchedDescSessionCache(g)
    PROVE  ReservationInv'
<1> USE DEF ReservationInv, dbVars, usageVars, queueVars, histVars
<1>1. /\ UNCHANGED <<saved, host, pending, ids, blank, session, count, members, old, desc, queue,
                     mutex, pc, work, ptr, seen, built, copy, hand, base, gap, clash>>
      /\ region[g] \in {"saved", "unsaved"}
      /\ region' = [region EXCEPT ![g] = "done"]
      /\ channel' = channel \cup {g} \/ channel' = channel
  BY DEF ClearSchedDescSessionCache
<1>2. TypeOK'
  <2>1. events' \in 0 .. MaxEvents
    BY BoundsAssumption DEF ClearSchedDescSessionCache, TypeOK
  <2> QED
    BY <1>1, <2>1 DEF TypeOK
<1>3. ~UnderWay(g) /\ host[g] \in Host
  BY <1>1 DEF EntriesInOrder
<1>4. \A x \in Guest : x # g => /\ region'[x] = region[x]
                                /\ x \in channel' <=> x \in channel
  BY <1>1 DEF TypeOK
<1>5. EntriesInOrder'
  <2>1. \A x \in Guest : x # g => UnderWay(x)' = UnderWay(x)
    BY <1>1, <1>4 DEF UnderWay, InChannel, InQueue, InWork
  <2>2. region'[g] = "done"
    BY <1>1 DEF TypeOK
  <2> QED
    BY <1>1, <1>3, <1>4, <2>1, <2>2 DEF EntriesInOrder, UnderWay, InChannel, InQueue, InWork
<1>6. ProcsInOrder' /\ WorkersHaveRead' /\ (gap' = "none" => LoadedFirst')
  BY <1>1 DEF ProcsInOrder, WorkersHaveRead, LoadedFirst
<1>7. \A x \in Guest : Due(x)' => Due(x)
  BY <1>1, <1>4 DEF Due, UnderWay, InChannel, InQueue, InWork
<1>8. \A h \in Host : (Placed(h) \ base[h])' \subseteq OpenOn(h)
  BY <1>1, <1>4 DEF OpenOn, Placed, On, TypeOK
<1>9. \A x \in Guest : region[x] = "none" => region'[x] = "none"
  BY <1>1, <1>4
<1> QED
  BY <1>1, <1>2, <1>5, <1>6, <1>7, <1>8, <1>9, QuietStep

\* A request without a session is a host in the channel.
LEMMA ExpireStep ==
    ASSUME ReservationInv, NEW h \in Host, ClearSchedDescCache(h)
    PROVE  ReservationInv'
<1> USE DEF ReservationInv, dbVars, usageVars, queueVars, histVars
<1>1. /\ UNCHANGED <<saved, host, region, pending, ids, blank, session, count, members, old, desc, queue,
                     mutex, pc, work, ptr, seen, built, copy, hand, base, gap, clash>>
      /\ channel' = channel \cup {h}
  BY DEF ClearSchedDescCache
<1>2. TypeOK'
  <2>1. events' \in 0 .. MaxEvents
    BY BoundsAssumption DEF ClearSchedDescCache, TypeOK
  <2> QED
    BY <1>1, <2>1 DEF TypeOK
<1>3. \A x \in Guest : x \in channel' <=> x \in channel
  BY <1>1, NamesAssumption
<1>4. \A x \in Guest : UnderWay(x)' = UnderWay(x)
  BY <1>1, <1>3 DEF UnderWay, InChannel, InQueue, InWork
<1>5. EntriesInOrder'
  BY <1>1, <1>3, <1>4 DEF EntriesInOrder, InChannel, InQueue, InWork
<1>6. ProcsInOrder' /\ WorkersHaveRead' /\ (gap' = "none" => LoadedFirst')
  BY <1>1 DEF ProcsInOrder, WorkersHaveRead, LoadedFirst
<1>7. \A x \in Guest : Due(x)' => Due(x)
  BY <1>1, <1>4 DEF Due
<1>8. \A k \in Host : (Placed(k) \ base[k])' \subseteq OpenOn(k)
  BY <1>1 DEF OpenOn, Placed, On
<1> QED
  BY <1>1, <1>2, <1>5, <1>6, <1>7, <1>8, QuietStep

\* All that is in the channel becomes one task, or is dropped.
LEMMA MergeStep ==
    ASSUME ReservationInv, batchMergeExpire
    PROVE  ReservationInv'
<1> USE DEF ReservationInv, dbVars, usageVars, queueVars, histVars
<1>1. /\ UNCHANGED <<saved, host, region, pending, ids, blank, session, count, members, old, desc,
                     mutex, pc, work, ptr, seen, built, copy, hand, events, base, gap, clash>>
      /\ channel' = {}
      /\ queue' = IF Len(queue) < QueueSize THEN Append(queue, channel) ELSE queue
  BY DEF batchMergeExpire, Room
<1>2. /\ queue \in Seq(SUBSET (Guest \cup Host)) /\ Len(queue) \in Nat
      /\ channel \in SUBSET (Guest \cup Host)
      /\ DOMAIN queue = 1 .. Len(queue)
  BY DEF TypeOK
<1>3. queue' \in Seq(SUBSET (Guest \cup Host)) /\ Len(queue') <= QueueSize
  BY <1>1, <1>2, BoundsAssumption DEF TypeOK
<1>4. \A i \in DOMAIN queue' :
         \/ i \in DOMAIN queue /\ queue'[i] = queue[i]
         \/ i = Len(queue) + 1 /\ i \notin DOMAIN queue /\ queue'[i] = channel
  BY <1>1, <1>2
<1>5. TypeOK'
  BY <1>1, <1>3 DEF TypeOK
<1>6. \A x \in Guest : UnderWay(x)' => UnderWay(x)
  BY <1>1, <1>4 DEF UnderWay, InChannel, InQueue, InWork
<1>7. EntriesInOrder'
  BY <1>1, <1>4, <1>6 DEF EntriesInOrder, InChannel, InQueue, InWork
<1>8. ProcsInOrder' /\ WorkersHaveRead' /\ (gap' = "none" => LoadedFirst')
  BY <1>1 DEF ProcsInOrder, WorkersHaveRead, LoadedFirst
<1>9. \A x \in Guest : Due(x)' => Due(x)
  BY <1>1, <1>6 DEF Due
<1>10. \A k \in Host : (Placed(k) \ base[k])' \subseteq OpenOn(k)
  BY <1>1 DEF OpenOn, Placed, On
<1> QED
  BY <1>1, <1>5, <1>7, <1>8, <1>9, <1>10, QuietStep

\* A worker takes the first task.
LEMMA TakeStep ==
    ASSUME ReservationInv, NEW p \in Worker, processTask(p)
    PROVE  ReservationInv'
<1> USE NamesAssumption DEF ReservationInv, dbVars, usageVars, queueVars, histVars, Proc, Loader
<1>1. /\ UNCHANGED <<saved, host, region, pending, ids, blank, session, count, members, old, desc, channel,
                     mutex, ptr, seen, built, copy, hand, events, base, gap, clash>>
      /\ queue # <<>> /\ queue' = Tail(queue)
      /\ work' = [work EXCEPT ![p] = Head(queue)]
      /\ pc' = [pc EXCEPT ![p] = "read"]
  BY DEF processTask, Goto
<1>2. /\ queue \in Seq(SUBSET (Guest \cup Host)) /\ Len(queue) \in Nat \ {0}
      /\ DOMAIN queue = 1 .. Len(queue) /\ Len(queue) <= QueueSize
  BY <1>1 DEF TypeOK
<1>3. /\ queue' \in Seq(SUBSET (Guest \cup Host)) /\ Len(queue') <= QueueSize
      /\ Head(queue) = queue[1] /\ Head(queue) \in SUBSET (Guest \cup Host)
      /\ 1 \in DOMAIN queue
      /\ \A i \in DOMAIN queue' : i + 1 \in DOMAIN queue /\ i + 1 # 1 /\ queue'[i] = queue[i + 1]
      /\ \A i, j \in DOMAIN queue' : i + 1 = j + 1 => i = j
  BY <1>1, <1>2, BoundsAssumption
<1>4. TypeOK'
  BY <1>1, <1>3 DEF TypeOK, PC
<1>5. /\ work'[p] = queue[1] /\ pc'[p] = "read"
      /\ \A q \in Proc : q # p => work'[q] = work[q] /\ pc'[q] = pc[q]
  BY <1>1, <1>3 DEF TypeOK
<1>6. \A x \in Guest : UnderWay(x)' => UnderWay(x)
  BY <1>1, <1>3, <1>5 DEF UnderWay, InChannel, InQueue, InWork
<1>7. EntriesInOrder'
  <2> SUFFICES ASSUME NEW x \in Guest
               PROVE  /\ InChannel(x)' => /\ \A i \in DOMAIN queue' : ~InQueue(x, i)'
                                          /\ \A q \in Worker : ~InWork(x, q)'
                      /\ \A i \in DOMAIN queue' : InQueue(x, i)' =>
                           /\ \A j \in DOMAIN queue' : InQueue(x, j)' => i = j
                           /\ \A q \in Worker : ~InWork(x, q)'
                      /\ \A q, r \in Worker : InWork(x, q)' /\ InWork(x, r)' => q = r
    BY <1>1, <1>6 DEF EntriesInOrder
  <2>1. \A i \in DOMAIN queue' : InQueue(x, i)' <=> InQueue(x, i + 1)
    BY <1>3 DEF InQueue
  <2>2. \A q \in Worker : InWork(x, q)' <=> IF q = p THEN InQueue(x, 1) ELSE InWork(x, q)
    BY <1>5 DEF InQueue, InWork
  <2>3. InChannel(x)' <=> InChannel(x)
    BY <1>1 DEF InChannel
  <2> QED
    BY <1>3, <2>1, <2>2, <2>3 DEF EntriesInOrder
<1>8. ProcsInOrder'
  BY <1>1, <1>5 DEF ProcsInOrder
<1>9. WorkersHaveRead' /\ (gap' = "none" => LoadedFirst')
  BY <1>1, <1>5 DEF WorkersHaveRead, LoadedFirst
<1>10. \A x \in Guest : Due(x)' => Due(x)
  BY <1>1, <1>6 DEF Due
<1>11. \A k \in Host : (Placed(k) \ base[k])' \subseteq OpenOn(k)
  BY <1>1, <1>5 DEF OpenOn, Placed, On
<1>12. \A q \in Worker : pc'[q] = "sub" => pc[q] = "sub" /\ ptr'[q] = ptr[q]
  BY <1>1, <1>5
<1>13. /\ pc'[Executor] = pc[Executor] /\ work'[Executor] = work[Executor]
       /\ pc'[Cleaner] = pc[Cleaner]
  BY <1>5
<1> QED
  BY <1>1, <1>4, <1>7, <1>8, <1>9, <1>10, <1>11, <1>12, <1>13, QuietStep
-----------------------------------------------------------------------------
(***************************************************************************)
(* The cache of host descriptions.                                         *)
(***************************************************************************)
\* The steps of loads move nobody's entries and keep the executor where it is.
LEMMA LoadStep ==
    ASSUME ReservationInv, TypeOK', ProcsInOrder', WorkersHaveRead',
           UNCHANGED <<saved, host, region, pending, session, count, channel, queue, ptr, hand>>,
           NEW p \in Loader,
           \A q \in Proc : q # p => pc'[q] = pc[q] /\ work'[q] = work[q],
           \A q \in Worker : work'[q] \cap Guest = work[q] \cap Guest,
           pc'[p] \notin {"sub"} \cup Clearing,
           gap' # "cleared" => gap # "cleared",
           gap' = "none" => /\ gap = "none" /\ LoadedFirst'
                            /\ \A h \in Host : base[h] \cap On(h) \subseteq base'[h]
    PROVE  ReservationInv'
<1> USE NamesAssumption DEF ReservationInv, Proc, Loader
<1>1. \A x \in Guest, q \in Worker : InWork(x, q)' <=> InWork(x, q)
  BY DEF InWork
<1>2. \A x \in Guest : UnderWay(x)' <=> UnderWay(x)
  BY <1>1 DEF UnderWay, InChannel, InQueue
<1>3. EntriesInOrder'
  BY <1>1, <1>2 DEF EntriesInOrder, InChannel, InQueue
<1>4. \A x \in Guest : Due(x)' => Due(x)
  BY <1>2 DEF Due
<1>5. pc'[Executor] = pc[Executor] /\ work'[Executor] = work[Executor]
  OBVIOUS
<1>6. gap' = "none" => \A h \in Host : (Placed(h) \ base[h])' \subseteq OpenOn(h)
  BY <1>5 DEF OpenOn, Placed, On
<1> QED
  BY <1>3, <1>4, <1>5, <1>6, QuietStep

\* What a worker loads includes the hosts of the guests of its task.
LEMMA ReadStep ==
    ASSUME ReservationInv, NEW p \in Loader, Read(p)
    PROVE  ReservationInv'
<1> USE NamesAssumption DEF ReservationInv, dbVars, usageVars, queueVars, histVars, Proc, Loader
<1>1. /\ UNCHANGED <<saved, host, region, pending, ids, blank, session, count, members, old, desc, channel,
                     queue, work, ptr, built, copy, hand, events, base, gap, clash>>
      /\ mutex' = p
      /\ pc' = [pc EXCEPT ![p] = "build"]
      /\ seen' = [seen EXCEPT ![p] = saved \cap UNION {On(h) : h \in Loaded(p)}]
      /\ pc[p] = "idle" \/ pc[p] = "read"
  BY DEF Read, Goto, At
<1>2. TypeOK'
  BY <1>1 DEF TypeOK, PC
<1>3. /\ pc'[p] = "build"
      /\ \A q \in Proc : q # p => pc'[q] = pc[q] /\ work'[q] = work[q]
      /\ \A q \in Worker : work'[q] = work[q]
      /\ \A q \in Loader : q # p => seen'[q] = seen[q]
      /\ seen'[p] = saved \cap UNION {On(h) : h \in Loaded(p)}
  BY <1>1 DEF TypeOK
<1>4. ProcsInOrder'
  BY <1>1, <1>3 DEF ProcsInOrder
<1>5. p \in Worker => work[p] \cap saved \subseteq seen'[p]
  <2> SUFFICES ASSUME p \in Worker, NEW g \in work[p] \cap saved
               PROVE  g \in UNION {On(h) : h \in Loaded(p)}
    BY <1>3
  <2>1. g \in Guest /\ HostOf(g) = host[g] /\ g \in On(host[g])
    BY DEF TypeOK, HostOf, On
  <2>2. host[g] \in Loaded(p)
    BY <2>1 DEF Loaded
  <2> QED
    BY <2>1, <2>2
<1>6. WorkersHaveRead'
  BY <1>1, <1>3, <1>5 DEF WorkersHaveRead
<1>7. gap' = "none" => LoadedFirst'
  BY <1>1, <1>3 DEF LoadedFirst
<1> QED
  BY <1>1, <1>2, <1>3, <1>4, <1>6, <1>7, LoadStep

\* The descriptions are built.
LEMMA BuildStep ==
    ASSUME ReservationInv, NEW p \in Loader, Build(p)
    PROVE  ReservationInv'
<1> USE NamesAssumption DEF ReservationInv, dbVars, usageVars, queueVars, histVars, Proc, Loader
<1>1. /\ UNCHANGED <<saved, host, region, pending, ids, blank, session, count, members, old, desc, channel,
                     queue, work, ptr, seen, copy, hand, events, base, gap, clash>>
      /\ mutex' = None
      /\ pc[p] = "build" /\ pc' = [pc EXCEPT ![p] = "store"]
      /\ built' = [built EXCEPT ![p] = UNION {Counted(p, h) : h \in Loaded(p)}]
  BY DEF Build, Goto, At
<1>2. TypeOK'
  <2>1. UNION {Counted(p, h) : h \in Loaded(p)} \in SUBSET Guest
    BY DEF Counted, On
  <2> QED
    BY <1>1, <2>1 DEF TypeOK, PC
<1>3. /\ pc'[p] = "store"
      /\ \A q \in Proc : q # p => pc'[q] = pc[q] /\ work'[q] = work[q]
      /\ \A q \in Worker : work'[q] = work[q]
  BY <1>1 DEF TypeOK
<1>4. ProcsInOrder' /\ WorkersHaveRead' /\ (gap' = "none" => LoadedFirst')
  BY <1>1, <1>3 DEF ProcsInOrder, WorkersHaveRead, LoadedFirst
<1> QED
  BY <1>1, <1>2, <1>3, <1>4, LoadStep

\* What a process does after its load.
LEMMA AfterLoadStep ==
    ASSUME ReservationInv, NEW p \in Loader, NEW ok \in BOOLEAN, AfterLoad(p, ok),
           pc[p] \in {"build", "store"}
    PROVE  /\ pc' \in [Proc -> PC] /\ work' \in [Proc -> SUBSET (Guest \cup Host)]
           /\ \A q \in Proc : q # p => pc'[q] = pc[q] /\ work'[q] = work[q]
           /\ \A q \in Worker : work'[q] \cap Guest = work[q] \cap Guest
           /\ p \in Worker => work'[p] \subseteq Guest /\ pc'[p] \in {"idle", "cancel"}
           /\ p = Cleaner => pc'[p] \in {"idle", "range"} /\ work'[p] = work[p]
           /\ p = Periodic => pc'[p] = "idle"
<1> USE NamesAssumption DEF Proc, Loader
<1>1. pc \in [Proc -> PC] /\ work \in [Proc -> SUBSET (Guest \cup Host)]
  BY DEF ReservationInv, TypeOK
<1>2. CASE p \in Worker
  <2>1. /\ work' = [work EXCEPT ![p] = work[p] \ Host]
        /\ pc' = [pc EXCEPT ![p] = IF work[p] \ Host = {} THEN "idle" ELSE "cancel"]
    BY <1>2 DEF AfterLoad, GoOn, Goto
  <2>2. /\ work'[p] = work[p] \ Host /\ pc'[p] \in {"idle", "cancel"}
        /\ \A q \in Proc : q # p => pc'[q] = pc[q] /\ work'[q] = work[q]
    BY <1>1, <2>1
  <2>3. pc' \in [Proc -> PC]
    BY <1>1, <2>1 DEF PC
  <2>4. work' \in [Proc -> SUBSET (Guest \cup Host)]
    BY <1>1, <2>1
  <2> QED
    BY <1>1, <1>2, <2>2, <2>3, <2>4
<1>3. CASE p \notin Worker
  <2>1. /\ work' = work
        /\ pc' = [pc EXCEPT ![p] = IF p = Cleaner /\ ok THEN "range" ELSE "idle"]
    BY <1>3 DEF AfterLoad, Goto
  <2> QED
    BY <1>1, <1>3, <2>1 DEF PC
<1> QED
  BY <1>2, <1>3

\* A load fails.
LEMMA FailStep ==
    ASSUME ReservationInv, NEW p \in Loader, LoadFails(p)
    PROVE  ReservationInv'
<1> USE NamesAssumption DEF ReservationInv, dbVars, usageVars, queueVars, histVars, Proc, Loader
<1>1. /\ UNCHANGED <<saved, host, region, pending, ids, blank, session, count, members, old, desc, channel,
                     queue, ptr, built, copy, hand, clash>>
      /\ mutex' = None
      /\ pc[p] = "build"
      /\ seen' = [seen EXCEPT ![p] = {}]
      /\ AfterLoad(p, FALSE)
      /\ IF p \in Worker THEN Lapse("stale") ELSE UNCHANGED <<base, gap>>
  BY DEF LoadFails, At
<1>2. /\ pc' \in [Proc -> PC] /\ work' \in [Proc -> SUBSET (Guest \cup Host)]
      /\ \A q \in Proc : q # p => pc'[q] = pc[q] /\ work'[q] = work[q]
      /\ \A q \in Worker : work'[q] \cap Guest = work[q] \cap Guest
      /\ p \in Worker => work'[p] \subseteq Guest /\ pc'[p] \in {"idle", "cancel"}
      /\ p = Cleaner => pc'[p] \in {"idle", "range"} /\ work'[p] = work[p]
      /\ p = Periodic => pc'[p] = "idle"
  BY <1>1, AfterLoadStep
<1>3. /\ gap' \in {"none", "stale", "cleared"} /\ base' \in [Host -> SUBSET Guest]
      /\ gap' # "cleared" => gap # "cleared"
      /\ gap = "cleared" => gap' = "cleared"
      /\ gap' = "none" => p \notin Worker /\ gap = "none" /\ base' = base
  BY <1>1 DEF Lapse, TypeOK
<1>4. TypeOK'
  <2>1. events' \in 0 .. MaxEvents
    BY BoundsAssumption DEF LoadFails, TypeOK
  <2> QED
    BY <1>1, <1>2, <1>3, <2>1 DEF TypeOK
<1>5. ProcsInOrder'
  BY <1>1, <1>2, <1>3 DEF ProcsInOrder
<1>6. WorkersHaveRead'
  BY <1>1, <1>2 DEF WorkersHaveRead, TypeOK
<1>7. gap' = "none" => LoadedFirst'
  BY <1>1, <1>2, <1>3 DEF LoadedFirst
<1> QED
  BY <1>1, <1>2, <1>3, <1>4, <1>5, <1>6, <1>7, LoadStep

\* A description is stored.  Unless it is an old one, it is made of all that was
\* behind the one it replaces, and of the saved guests of the worker's task.
LEMMA StoreStep ==
    ASSUME ReservationInv, NEW p \in Loader, Store(p)
    PROVE  ReservationInv'
<1> USE NamesAssumption DEF ReservationInv, dbVars, usageVars, queueVars, histVars, Proc, Loader
<1>1. /\ UNCHANGED <<saved, host, region, pending, ids, blank, session, count, members, old, channel,
                     queue, mutex, ptr, copy, hand, events, clash>>
      /\ pc[p] = "store"
      /\ desc' = [h \in Host |-> IF h \in Loaded(p) THEN built[p] \cap On(h) ELSE desc[h]]
      /\ seen' = [seen EXCEPT ![p] = {}]
      /\ built' = [built EXCEPT ![p] = {}]
      /\ AfterLoad(p, TRUE)
      /\ IF gap = "none" /\ \A h \in Loaded(p) : base[h] \subseteq seen[p]
         THEN /\ base' = [h \in Host |-> IF h \in Loaded(p) THEN seen[p] \cap On(h) ELSE base[h]]
              /\ UNCHANGED gap
         ELSE Lapse("stale")
  BY DEF Store, At
<1>2. /\ pc' \in [Proc -> PC] /\ work' \in [Proc -> SUBSET (Guest \cup Host)]
      /\ \A q \in Proc : q # p => pc'[q] = pc[q] /\ work'[q] = work[q]
      /\ \A q \in Worker : work'[q] \cap Guest = work[q] \cap Guest
      /\ p \in Worker => work'[p] \subseteq Guest /\ pc'[p] \in {"idle", "cancel"}
      /\ p = Cleaner => pc'[p] \in {"idle", "range"} /\ work'[p] = work[p]
      /\ p = Periodic => pc'[p] = "idle"
  BY <1>1, AfterLoadStep
<1>3. /\ gap' \in {"none", "stale", "cleared"} /\ base' \in [Host -> SUBSET Guest]
      /\ gap' # "cleared" => gap # "cleared"
      /\ gap = "cleared" => gap' = "cleared"
  <2>1. CASE gap = "none" /\ \A h \in Loaded(p) : base[h] \subseteq seen[p]
    <3>1. base' = [h \in Host |-> IF h \in Loaded(p) THEN seen[p] \cap On(h) ELSE base[h]]
      BY <1>1, <2>1
    <3>2. base \in [Host -> SUBSET Guest] /\ seen[p] \in SUBSET Guest
      BY DEF TypeOK
    <3>3. base' \in [Host -> SUBSET Guest]
      BY <3>1, <3>2
    <3> QED
      BY <1>1, <2>1, <3>3
  <2>2. CASE ~(gap = "none" /\ \A h \in Loaded(p) : base[h] \subseteq seen[p])
    BY <1>1, <2>2 DEF Lapse, TypeOK
  <2> QED
    BY <2>1, <2>2
<1>4. TypeOK'
  <2>1. desc' \in [Host -> SUBSET Guest]
    BY <1>1 DEF TypeOK
  <2> QED
    BY <1>1, <1>2, <1>3, <2>1 DEF TypeOK
<1>5. ProcsInOrder'
  BY <1>1, <1>2, <1>3 DEF ProcsInOrder
<1>6. WorkersHaveRead'
  BY <1>1, <1>2 DEF WorkersHaveRead, TypeOK
<1>7. ASSUME gap' = "none"
      PROVE  gap = "none" /\ LoadedFirst' /\ \A h \in Host : base[h] \cap On(h) \subseteq base'[h]
  <2>1. /\ gap = "none"
        /\ \A h \in Loaded(p) : base[h] \subseteq seen[p]
        /\ base' = [h \in Host |-> IF h \in Loaded(p) THEN seen[p] \cap On(h) ELSE base[h]]
    BY <1>1, <1>7 DEF Lapse
  <2>2. \A h \in Host : base[h] \cap On(h) \subseteq base'[h]
    BY <2>1
  <2>3. ASSUME NEW q \in Worker, pc'[q] \in {"cancel", "sub"}, NEW g \in work'[q] \cap saved
        PROVE  g \in base'[host[g]]
    <3>1. g \in Guest /\ g \in work[q] /\ host[g] \in Host /\ g \in On(host[g])
      <4>1. g \in Guest /\ g \in work[q]
        BY <1>2, <2>3 DEF TypeOK
      <4> QED
        BY <4>1 DEF EntriesInOrder, UnderWay, InWork, On
    <3>2. CASE q # p
      BY <3>1, <3>2, <2>1, <2>2, <2>3, <1>2 DEF LoadedFirst
    <3>3. CASE q = p
      <4>1. g \in seen[p]
        BY <3>1, <3>3, <1>1, <2>3 DEF WorkersHaveRead
      <4>2. host[g] \in Loaded(p)
        BY <3>1, <3>3 DEF Loaded, HostOf
      <4> QED
        BY <4>1, <4>2, <3>1, <2>1
    <3> QED
      BY <3>2, <3>3
  <2>4. LoadedFirst'
    BY <2>3, <1>1 DEF LoadedFirst
  <2> QED
    BY <2>1, <2>2, <2>4
<1> QED
  BY <1>1, <1>2, <1>3, <1>4, <1>5, <1>6, <1>7, LoadStep

\* A cleanup begins.
LEMMA ReloadAllStep ==
    ASSUME ReservationInv, ReloadAll
    PROVE  ReservationInv'
<1> USE NamesAssumption DEF ReservationInv, dbVars, usageVars, queueVars, histVars, Proc, Loader
<1>1. /\ UNCHANGED <<saved, host, region, pending, ids, blank, session, count, members, desc, channel,
                     queue, mutex, work, ptr, seen, built, copy, hand, base, gap, clash>>
      /\ pc[Cleaner] = "idle" /\ pc' = [pc EXCEPT ![Cleaner] = "read"]
      /\ old' = Stored \cup (IF pc[Executor] = "add" THEN {ptr[Executor]} ELSE {})
  BY DEF ReloadAll, Goto, At
<1>2. TypeOK'
  <2>1. events' \in 0 .. MaxEvents
    BY BoundsAssumption DEF ReloadAll, TypeOK
  <2>2. Stored \subseteq Guest
    BY DEF Stored, TypeOK
  <2>3. old' \subseteq Guest
    BY <1>1, <2>2 DEF ExecutorInOrder
  <2> QED
    BY <1>1, <2>1, <2>3 DEF TypeOK, PC
<1>3. /\ pc'[Cleaner] = "read"
      /\ \A q \in Proc : q # Cleaner => pc'[q] = pc[q] /\ work'[q] = work[q]
      /\ \A q \in Worker : work'[q] = work[q]
  BY <1>1 DEF TypeOK
<1>4. ProcsInOrder' /\ WorkersHaveRead' /\ (gap' = "none" => LoadedFirst')
  BY <1>1, <1>3 DEF ProcsInOrder, WorkersHaveRead, LoadedFirst
<1> QED
  BY <1>1, <1>2, <1>3, <1>4, LoadStep
-----------------------------------------------------------------------------
(***************************************************************************)
(* The cleanup and the collector.                                          *)
(***************************************************************************)
\* What a cancellation does.
LEMMA CancelEffect ==
    ASSUME ReservationInv, NEW u \in Guest, host[u] \in Host, CancelPendingUsage(u)
    PROVE  /\ pending' \in [Host -> 0 .. Cardinality(Guest)]
           /\ ids' \in [Host -> SUBSET Guest]
           /\ count' \in [Guest -> Int]
           /\ members' \in [Guest -> SUBSET Guest]
           /\ \A h \in Host : h # host[u] => pending'[h] = pending[h]
           /\ blank' \subseteq Host /\ hand' \in Usage /\ hand'.units = hand.units
           /\ \A x \in Guest : x # u => count'[x] = count[x]
           /\ pending[host[u]] = 0 => pending'[host[u]] = 0
           /\ pending[host[u]] # 0 => /\ pending'[host[u]] = pending[host[u]] - 1
                                      /\ count'[u] = count[u] - 1
<1> DEFINE h == host[u]
<1>1. /\ pending \in [Host -> 0 .. Cardinality(Guest)] /\ ids \in [Host -> SUBSET Guest]
      /\ count \in [Guest -> Int] /\ members \in [Guest -> SUBSET Guest]
      /\ Cardinality(Guest) \in Nat
  BY Finite DEF ReservationInv, TypeOK
<1>2. blank \subseteq Host /\ hand \in Usage
  BY DEF ReservationInv, TypeOK
<1>3. CASE pending[h] = 0 /\ h \notin blank
  BY <1>1, <1>2, <1>3 DEF CancelPendingUsage
<1>4. CASE ~(pending[h] = 0 /\ h \notin blank)
  <2> DEFINE left == Less(pending[h])
  <2>1. /\ pending' = [pending EXCEPT ![h] = left]
        /\ ids' = [ids EXCEPT ![h] = IF left = 0 THEN {} ELSE ids[h] \ members[u]]
        /\ blank' = blank \ {h}
        /\ hand' \in {hand, [hand EXCEPT !.at = "deleted", !.ids = ids[h] \ members[u]]}
        /\ count' = [count EXCEPT ![u] = count[u] - 1]
        /\ \/ UNCHANGED members
           \/ \E g \in members[u] : members' = [members EXCEPT ![u] = members[u] \ {g}]
    BY <1>4 DEF CancelPendingUsage, Sub, SubIds, SubCount
  <2>2. /\ left \in 0 .. Cardinality(Guest)
        /\ pending[h] = 0 => left = 0
        /\ pending[h] # 0 => left = pending[h] - 1
    <3>1. pending[h] \in 0 .. Cardinality(Guest)
      BY <1>1
    <3> QED
      BY <3>1, <1>1 DEF Less
  <2> HIDE DEF left
  <2>3. pending' \in [Host -> 0 .. Cardinality(Guest)]
    BY <1>1, <2>1, <2>2
  <2>4. ids' \in [Host -> SUBSET Guest]
    BY <1>1, <2>1
  <2>5. members' \in [Guest -> SUBSET Guest]
    <3>1. CASE UNCHANGED members
      BY <1>1, <3>1
    <3>2. ASSUME NEW g \in members[u], members' = [members EXCEPT ![u] = members[u] \ {g}]
          PROVE  members' \in [Guest -> SUBSET Guest]
      BY <1>1, <3>2
    <3> QED
      BY <2>1, <3>1, <3>2
  <2>6. count' \in [Guest -> Int]
    BY <1>1, <2>1
  <2>7. hand' \in Usage /\ hand'.units = hand.units
    <3>1. ids[h] \ members[u] \subseteq Guest
      BY <1>1
    <3> QED
      BY <1>2, <2>1, <3>1 DEF Usage
  <2>8. blank' \subseteq Host
    BY <1>2, <2>1
  <2> QED
    BY <1>1, <2>1, <2>2, <2>3, <2>4, <2>5, <2>6, <2>7, <2>8
<1> QED
  BY <1>3, <1>4

\* Entries stay where they are when nobody moves them.
LEMMA EntriesStay ==
    ASSUME EntriesInOrder, UNCHANGED <<host, region, channel, queue>>,
           \A p \in Worker : work'[p] = work[p]
    PROVE  EntriesInOrder'
<1>1. \A x \in Guest, p \in Worker : InWork(x, p)' <=> InWork(x, p)
  BY DEF InWork
<1>2. \A x \in Guest : UnderWay(x)' <=> UnderWay(x)
  BY <1>1 DEF UnderWay, InChannel, InQueue
<1> QED
  BY <1>1, <1>2 DEF EntriesInOrder, InChannel, InQueue

\* The cleanup looks for the usages it has to clear.
LEMMA ClearAllStep ==
    ASSUME ReservationInv, ClearAllPendingUsage
    PROVE  ReservationInv'
<1> USE NamesAssumption DEF ReservationInv, dbVars, usageVars, queueVars, histVars, Proc, Loader
<1>1. /\ UNCHANGED <<saved, host, region, pending, ids, blank, session, count, members, desc, channel,
                     queue, mutex, ptr, seen, built, copy, hand, events, clash>>
      /\ pc[Cleaner] = "range"
      /\ work' = [work EXCEPT ![Cleaner] = Stored \cap old]
      /\ old' = {}
      /\ \/ pc' = [pc EXCEPT ![Cleaner] = "idle"] /\ UNCHANGED <<base, gap, clash>>
         \/ pc' = [pc EXCEPT ![Cleaner] = "clear"] /\ Lapse("cleared")
  BY DEF ClearAllPendingUsage, Goto, At
<1>2. \A u \in Stored : u \in Guest /\ host[u] \in Host
  BY DEF Stored, StoreInOrder, TypeOK
<1>3. TypeOK'
  BY <1>1, <1>2 DEF TypeOK, PC, Lapse
<1>4. /\ pc'[Cleaner] \in {"idle", "clear"}
      /\ pc'[Cleaner] = "clear" => gap' = "cleared"
      /\ gap = "cleared" => gap' = "cleared"
      /\ gap' # "cleared" => gap' = gap /\ base' = base
      /\ work'[Cleaner] \subseteq Stored
      /\ \A q \in Proc : q # Cleaner => pc'[q] = pc[q] /\ work'[q] = work[q]
  BY <1>1 DEF TypeOK, Lapse
<1>5. ProcsInOrder' /\ WorkersHaveRead' /\ (gap' = "none" => LoadedFirst')
  BY <1>1, <1>2, <1>4 DEF ProcsInOrder, WorkersHaveRead, LoadedFirst
<1> QED
  BY <1>1, <1>3, <1>4, <1>5, LoadStep

\* What the steps of the cleanup have in common: they move nobody else, and bring
\* no session's usage into the store.
LEMMA CleanerStep ==
    ASSUME ReservationInv, TypeOK', gap = "cleared",
           UNCHANGED <<saved, host, region, channel, queue, seen, gap>>,
           \A q \in Proc : q # Cleaner => /\ pc'[q] = pc[q] /\ work'[q] = work[q]
                                         /\ ptr'[q] = ptr[q],
           work'[Cleaner] \subseteq work[Cleaner],
           pc'[Cleaner] \in {"idle", "clear"} \cup Clearing,
           pc'[Cleaner] \in Clearing =>
              /\ ptr'[Cleaner] \in Guest /\ host[ptr'[Cleaner]] \in Host
              /\ hand'.units <= Cardinality(Added(host[ptr'[Cleaner]])),
           \A k \in Host : pending'[k] <= Cardinality(Added(k)),
           \A s \in Session, k \in Host : session'[s][k] \in {session[s][k], None}
    PROVE  ReservationInv'
<1> USE NamesAssumption DEF ReservationInv, Proc, Loader
<1>1. ProcsInOrder' /\ WorkersHaveRead'
  BY DEF ProcsInOrder, WorkersHaveRead
<1>2. EntriesInOrder' /\ ExecutorInOrder'
  BY EntriesStay, ExecutorStays
<1>3. StoreInOrder'
  BY DEF StoreInOrder
<1>4. PendingBounded'
  <2>1. \A k : Added(k)' = Added(k)
    BY DEF Added, On
  <2> QED
    BY <2>1 DEF PendingBounded
<1> QED
  BY <1>1, <1>2, <1>3, <1>4, ClearedStep

\* The cleanup is at a usage of some host, after a gap; no number of units in
\* sight exceeds what has been reserved there.
LEMMA CleanerFacts ==
    ASSUME ReservationInv, pc[Cleaner] \in Clearing
    PROVE  /\ ptr[Cleaner] \in Guest /\ host[ptr[Cleaner]] \in Host
           /\ SessionOf[ptr[Cleaner]] \in Session /\ gap = "cleared"
           /\ hand.units \in Nat /\ hand.units <= Cardinality(Added(host[ptr[Cleaner]]))
           /\ \A k \in Host : /\ pending[k] \in Nat /\ Cardinality(Added(k)) \in Nat
                              /\ pending[k] <= Cardinality(Added(k))
                              /\ Cardinality(Added(k)) <= Cardinality(Guest)
           /\ Cardinality(Guest) \in Nat
<1> USE DEF ReservationInv
<1>1. \A k : Added(k) \in SUBSET Guest
  BY DEF Added, On
<1>2. \A k : Cardinality(Added(k)) \in Nat /\ Cardinality(Added(k)) <= Cardinality(Guest)
  BY <1>1, Finite, FiniteAssumption, FS_Subset
<1>3. Cardinality(Guest) \in Nat
  BY FiniteAssumption, FS_CardinalityType
<1>4. hand.units \in 0 .. Cardinality(Guest)
  BY DEF TypeOK, Usage
<1>5. \A k \in Host : pending[k] \in 0 .. Cardinality(Guest)
  BY DEF TypeOK
<1>6. hand.units \in Nat /\ \A k \in Host : pending[k] \in Nat
  BY <1>3, <1>4, <1>5
<1> QED
  BY <1>2, <1>3, <1>6, GuestAssumption DEF ProcsInOrder, PendingBounded

\* It takes the usage of the host, if there is one,
LEMMA ClearStep ==
    ASSUME ReservationInv, clearPendingUsageBefore
    PROVE  ReservationInv'
<1> USE NamesAssumption DEF ReservationInv, dbVars, usageVars, queueVars, histVars, Proc, Loader
<1>1. PICK u \in work[Cleaner] :
         /\ UNCHANGED <<saved, host, region, pending, ids, blank, session, count, members, old,
                        desc, channel, queue, mutex, seen, built, copy, events, base, gap, clash>>
         /\ pc[Cleaner] = "clear"
         /\ work' = [work EXCEPT ![Cleaner] = @ \ {u}]
         /\ ptr' = [ptr EXCEPT ![Cleaner] = u]
         /\ \E to \in {"delete", "write"} : pc' = [pc EXCEPT ![Cleaner] = to]
         /\ \E n \in {0, pending[host[u]]} :
               hand' = [at |-> "store", units |-> n, ids |-> {}]
  BY DEF clearPendingUsageBefore, Goto, At, NoUsage
<1>2. u \in Guest /\ host[u] \in Host /\ gap = "cleared"
  BY <1>1 DEF ProcsInOrder
<1>3. \A k \in Host : /\ pending[k] \in 0 .. Cardinality(Guest)
                      /\ pending[k] <= Cardinality(Added(k)) /\ Cardinality(Added(k)) \in Nat
  BY Finite DEF TypeOK, PendingBounded, Added, On
<1>4. hand' \in Usage
  <2>1. 0 \in 0 .. Cardinality(Guest)
    BY FiniteAssumption, FS_CardinalityType
  <2> QED
    BY <1>1, <1>2, <1>3, <2>1 DEF Usage
<1>5. TypeOK'
  BY <1>1, <1>2, <1>4 DEF TypeOK, PC
<1>6. /\ pc'[Cleaner] \in Clearing /\ ptr'[Cleaner] = u /\ work'[Cleaner] \subseteq work[Cleaner]
      /\ \A q \in Proc : q # Cleaner => /\ pc'[q] = pc[q] /\ work'[q] = work[q]
                                        /\ ptr'[q] = ptr[q]
  BY <1>1 DEF TypeOK, Clearing
<1>7. hand'.units <= Cardinality(Added(host[u]))
  BY <1>1, <1>2, <1>3
<1> QED
  BY <1>1, <1>2, <1>3, <1>5, <1>6, <1>7, CleanerStep

\* subtracts the session from it, whatever others do to it meanwhile,
LEMMA ClearSubStep ==
    ASSUME ReservationInv, ClearSub
    PROVE  ReservationInv'
<1> USE NamesAssumption DEF ReservationInv, dbVars, usageVars, queueVars, histVars, Proc, Loader
<1> DEFINE u == ptr[Cleaner]
           h == host[u]
           now == IF hand.at = "store" THEN pending[h] ELSE 0
<1>1. PICK n \in {hand.units, now, now + 1} :
         /\ UNCHANGED <<saved, host, region, session, count, members, old, desc, channel, queue,
                        mutex, work, ptr, seen, built, copy, events, base, gap, clash>>
         /\ pc[Cleaner] = "write"
         /\ pc' = [pc EXCEPT ![Cleaner] = IF Less(n) = 0 THEN "drop" ELSE "put"]
         /\ \/ /\ pending' = [pending EXCEPT ![h] = Less(n)]
               /\ ids' = [ids EXCEPT ![h] = ids[h] \ members[u]]
               /\ blank' = IF Less(n) = 0 THEN blank \cup {h} ELSE blank \ {h}
               /\ hand' = [hand EXCEPT !.units = 0]
            \/ /\ hand' = [hand EXCEPT !.units = Less(n), !.ids = hand.ids \ members[u]]
               /\ UNCHANGED <<pending, ids, blank>>
  BY DEF ClearSub, SubIds, Goto, At
<1>2. pc[Cleaner] \in Clearing
  BY <1>1 DEF Clearing
<1> HIDE DEF h
<1>3. /\ h \in Host /\ hand.units \in Nat /\ hand.units <= Cardinality(Added(h))
      /\ \A k \in Host : /\ pending[k] \in Nat /\ Cardinality(Added(k)) \in Nat
                         /\ pending[k] <= Cardinality(Added(k))
                         /\ Cardinality(Added(k)) <= Cardinality(Guest)
      /\ Cardinality(Guest) \in Nat
  BY <1>2, CleanerFacts DEF h
<1>4. Less(n) \in Nat /\ Less(n) <= Cardinality(Added(h)) /\ Less(n) \in 0 .. Cardinality(Guest)
  <2>1. n \in Nat /\ n <= Cardinality(Added(h)) + 1
    BY <1>1, <1>3
  <2> QED
    BY <1>3, <2>1 DEF Less
<1>5. TypeOK'
  <2>1. /\ pending' \in [Host -> 0 .. Cardinality(Guest)]
        /\ ids' \in [Host -> SUBSET Guest] /\ blank' \subseteq Host
    <3>1. /\ pending \in [Host -> 0 .. Cardinality(Guest)]
          /\ ids \in [Host -> SUBSET Guest] /\ blank \subseteq Host
      BY DEF TypeOK
    <3>2. CASE UNCHANGED <<pending, ids, blank>>
      BY <3>1, <3>2
    <3>3. CASE /\ pending' = [pending EXCEPT ![h] = Less(n)]
               /\ ids' = [ids EXCEPT ![h] = ids[h] \ members[u]]
               /\ blank' = IF Less(n) = 0 THEN blank \cup {h} ELSE blank \ {h}
      <4>1. pending' \in [Host -> 0 .. Cardinality(Guest)]
        BY <1>4, <3>1, <3>3
      <4>2. ids' \in [Host -> SUBSET Guest]
        BY <1>3, <3>1, <3>3
      <4>3. blank' \subseteq Host
        BY <1>3, <3>1, <3>3
      <4> QED
        BY <4>1, <4>2, <4>3
    <3> QED
      BY <1>1, <3>2, <3>3
  <2>2. hand' \in Usage
    <3>1. hand \in Usage /\ 0 \in 0 .. Cardinality(Guest)
      BY <1>3 DEF TypeOK
    <3>2. hand.ids \ members[u] \subseteq Guest
      BY <3>1 DEF Usage
    <3> QED
      BY <1>1, <1>4, <3>1, <3>2 DEF Usage
  <2> QED
    BY <1>1, <2>1, <2>2 DEF TypeOK, PC
<1>6. /\ pc'[Cleaner] \in Clearing
      /\ \A q \in Proc : q # Cleaner => pc'[q] = pc[q]
  BY <1>1 DEF TypeOK, Clearing
<1>7. \A k \in Host : pending'[k] <= Cardinality(Added(k))
  BY <1>1, <1>3, <1>4 DEF TypeOK
<1>8. hand'.units <= Cardinality(Added(h))
  <2>1. hand'.units \in {0, Less(n)}
    BY <1>1 DEF TypeOK, Usage
  <2> QED
    BY <1>3, <1>4, <2>1
<1> QED
  BY <1>1, <1>2, <1>5, <1>6, <1>7, <1>8, CleanerStep, CleanerFacts DEF h

\* deletes or stores it,
LEMMA ClearHostStep ==
    ASSUME ReservationInv, ClearHost
    PROVE  ReservationInv'
<1> USE NamesAssumption DEF ReservationInv, dbVars, usageVars, queueVars, histVars, Proc, Loader
<1> DEFINE h == host[ptr[Cleaner]]
<1>1. /\ UNCHANGED <<saved, host, region, session, count, members, old, desc, channel, queue,
                     mutex, work, ptr, seen, built, copy, events, base, gap, clash>>
      /\ pc[Cleaner] \in {"drop", "put"}
      /\ pc' = [pc EXCEPT ![Cleaner] = "delete"]
      /\ hand' = NoUsage
      /\ blank' \subseteq blank \cup {h}
      /\ \/ UNCHANGED <<pending, ids>>
         \/ \E n \in {0, hand.units}, S \in {{}, hand.ids} :
               /\ pending' = [pending EXCEPT ![h] = n]
               /\ ids' = [ids EXCEPT ![h] = S]
  BY DEF ClearHost, Goto, At
<1>2. pc[Cleaner] \in Clearing
  BY <1>1 DEF Clearing
<1> HIDE DEF h
<1>3. /\ h \in Host /\ hand.units \in Nat /\ hand.units <= Cardinality(Added(h))
      /\ \A k \in Host : /\ pending[k] \in Nat /\ Cardinality(Added(k)) \in Nat
                         /\ pending[k] <= Cardinality(Added(k))
                         /\ Cardinality(Added(k)) <= Cardinality(Guest)
      /\ Cardinality(Guest) \in Nat
  BY <1>2, CleanerFacts DEF h
<1>4. TypeOK'
  <2>1. /\ pending' \in [Host -> 0 .. Cardinality(Guest)] /\ ids' \in [Host -> SUBSET Guest]
    <3>1. pending \in [Host -> 0 .. Cardinality(Guest)] /\ ids \in [Host -> SUBSET Guest]
      BY DEF TypeOK
    <3>2. ASSUME NEW n \in {0, hand.units}, NEW S \in {{}, hand.ids},
                 pending' = [pending EXCEPT ![h] = n], ids' = [ids EXCEPT ![h] = S]
          PROVE  /\ pending' \in [Host -> 0 .. Cardinality(Guest)]
                 /\ ids' \in [Host -> SUBSET Guest]
      <4>1. hand.units \in 0 .. Cardinality(Guest) /\ hand.ids \subseteq Guest
        BY DEF TypeOK, Usage
      <4>2. n \in 0 .. Cardinality(Guest) /\ S \subseteq Guest
        BY <1>3, <4>1
      <4> QED
        BY <3>1, <3>2, <4>2
    <3> QED
      BY <1>1, <3>1, <3>2
  <2>2. hand' \in Usage /\ blank' \subseteq Host
    BY <1>1, <1>3 DEF TypeOK, Usage, NoUsage
  <2> QED
    BY <1>1, <2>1, <2>2 DEF TypeOK, PC
<1>5. /\ pc'[Cleaner] \in Clearing
      /\ \A q \in Proc : q # Cleaner => pc'[q] = pc[q]
  BY <1>1 DEF TypeOK, Clearing
<1>6. \A k \in Host : pending'[k] <= Cardinality(Added(k))
  <2>1. ASSUME NEW n \in {0, hand.units}, pending' = [pending EXCEPT ![h] = n], NEW k \in Host
        PROVE  pending'[k] <= Cardinality(Added(k))
    <3>1. pending \in [Host -> 0 .. Cardinality(Guest)]
      BY DEF TypeOK
    <3>2. CASE k = h
      BY <1>3, <2>1, <3>1, <3>2
    <3>3. CASE k # h
      BY <1>3, <2>1, <3>1, <3>3
    <3> QED
      BY <3>2, <3>3
  <2> QED
    BY <1>1, <1>3, <2>1
<1>7. hand'.units <= Cardinality(Added(h))
  BY <1>1, <1>3 DEF NoUsage
<1> QED
  BY <1>1, <1>2, <1>4, <1>5, <1>6, <1>7, CleanerStep, CleanerFacts DEF h

\* and deletes the session's.
LEMMA ClearSessionStep ==
    ASSUME ReservationInv, ClearSession
    PROVE  ReservationInv'
<1> USE NamesAssumption DEF ReservationInv, dbVars, usageVars, queueVars, histVars, Proc, Loader
<1> DEFINE u == ptr[Cleaner]
<1>1. /\ UNCHANGED <<saved, host, region, pending, ids, blank, count, members, old, desc, channel,
                     queue, mutex, work, seen, built, copy, hand, events, base, gap, clash>>
      /\ pc[Cleaner] = "delete"
      /\ pc' = [pc EXCEPT ![Cleaner] = IF work[Cleaner] = {} THEN "idle" ELSE "clear"]
      /\ ptr' = [ptr EXCEPT ![Cleaner] = None]
      /\ session' = [session EXCEPT ![SessionOf[u]][host[u]] = None]
  BY DEF ClearSession, DeleteSessionUsage, Goto, At
<1>2. /\ u \in Guest /\ host[u] \in Host /\ gap = "cleared" /\ SessionOf[u] \in Session
      /\ \A k \in Host : pending[k] <= Cardinality(Added(k))
  BY <1>1, CleanerFacts DEF Clearing
<1>3. TypeOK'
  <2>1. session' \in [Session -> [Host -> Guest \cup {None}]]
    BY <1>1, <1>2 DEF TypeOK
  <2> QED
    BY <1>1, <2>1 DEF TypeOK, PC
<1>4. /\ pc'[Cleaner] \in {"idle", "clear"} /\ pc'[Cleaner] \notin Clearing
      /\ \A q \in Proc : q # Cleaner => pc'[q] = pc[q] /\ ptr'[q] = ptr[q]
  BY <1>1 DEF TypeOK, Clearing
<1>5. \A s \in Session, k \in Host : session'[s][k] \in {session[s][k], None}
  BY <1>1, <1>2 DEF TypeOK
<1> QED
  BY <1>1, <1>2, <1>3, <1>4, <1>5, CleanerStep

\* The collector takes a usage past its TTL,
LEMMA CollectStep ==
    ASSUME ReservationInv, GCExpiredSessionUsages
    PROVE  ReservationInv'
<1> USE NamesAssumption DEF ReservationInv, dbVars, usageVars, queueVars, histVars, Proc, Loader
<1>1. PICK u \in Stored :
         /\ UNCHANGED <<saved, host, region, pending, ids, blank, session, count, members, old, desc,
                        channel, queue, mutex, work, seen, built, copy, hand, events, clash>>
         /\ pc' = [pc EXCEPT ![Collector] = "sub"]
         /\ ptr' = [ptr EXCEPT ![Collector] = u]
         /\ gap' = "cleared" /\ base' = [h \in Host |-> {}]
  BY DEF GCExpiredSessionUsages, Goto, Lapse
<1>2. u \in Guest /\ host[u] \in Host
  BY DEF Stored, StoreInOrder, TypeOK
<1>3. TypeOK'
  BY <1>1, <1>2 DEF TypeOK, PC
<1>4. /\ pc'[Collector] = "sub" /\ ptr'[Collector] = u
      /\ \A q \in Proc : q # Collector => pc'[q] = pc[q] /\ ptr'[q] = ptr[q]
  BY <1>1 DEF TypeOK
<1>5. ProcsInOrder' /\ WorkersHaveRead'
  BY <1>1, <1>2, <1>4 DEF ProcsInOrder, WorkersHaveRead
<1>6. EntriesInOrder' /\ ExecutorInOrder' /\ StoreInOrder'
  <2>1. EntriesInOrder' /\ ExecutorInOrder'
    BY <1>1, <1>4, EntriesStay, ExecutorStays
  <2> QED
    BY <1>1, <2>1 DEF StoreInOrder
<1>7. PendingBounded'
  <2>1. \A h : Added(h)' = Added(h)
    BY <1>1 DEF Added, On
  <2> QED
    BY <1>1, <1>4, <2>1 DEF PendingBounded
<1> QED
  BY <1>1, <1>3, <1>5, <1>6, <1>7, ClearedStep

\* cancels it once,
LEMMA GCCancelStep ==
    ASSUME ReservationInv, GCCancel
    PROVE  ReservationInv'
<1> USE NamesAssumption DEF ReservationInv, dbVars, usageVars, queueVars, histVars, Proc, Loader
<1>1. /\ UNCHANGED <<saved, host, region, session, old, desc, channel, queue, mutex, work, ptr,
                     seen, built, copy, events, base, gap>>
      /\ pc[Collector] = "sub" /\ pc' = [pc EXCEPT ![Collector] = "delete"]
      /\ CancelPendingUsage(ptr[Collector]) /\ Clash(host[ptr[Collector]])
  BY DEF GCCancel, Goto, At
<1>2. ptr[Collector] \in Guest /\ host[ptr[Collector]] \in Host /\ gap = "cleared"
  BY <1>1 DEF ProcsInOrder
<1>3. /\ pending' \in [Host -> 0 .. Cardinality(Guest)]
      /\ ids' \in [Host -> SUBSET Guest]
      /\ count' \in [Guest -> Int]
      /\ members' \in [Guest -> SUBSET Guest]
      /\ blank' \subseteq Host /\ hand' \in Usage /\ hand'.units = hand.units
      /\ \A h \in Host : pending'[h] = pending[h] \/ pending'[h] = pending[h] - 1
  BY <1>1, <1>2, CancelEffect
<1>4. TypeOK'
  BY <1>1, <1>2, <1>3 DEF TypeOK, PC, Clash
<1>5. /\ pc'[Collector] = "delete"
      /\ \A q \in Proc : q # Collector => pc'[q] = pc[q]
  BY <1>1 DEF TypeOK
<1>6. ProcsInOrder' /\ WorkersHaveRead'
  BY <1>1, <1>2, <1>5 DEF ProcsInOrder, WorkersHaveRead
<1>7. EntriesInOrder' /\ ExecutorInOrder' /\ StoreInOrder'
  <2>1. EntriesInOrder' /\ ExecutorInOrder'
    BY <1>1, <1>5, EntriesStay, ExecutorStays
  <2> QED
    BY <1>1, <2>1 DEF StoreInOrder
<1>8. PendingBounded'
  <2>1. \A h : Added(h)' = Added(h)
    BY <1>1 DEF Added, On
  <2>2. \A h \in Host : /\ pending[h] \in Int /\ Cardinality(Added(h)) \in Nat
                        /\ pending[h] <= Cardinality(Added(h))
    <3>1. \A h \in Host : pending[h] \in 0 .. Cardinality(Guest) /\ Added(h) \in SUBSET Guest
      BY DEF TypeOK, Added, On
    <3> QED
      BY <3>1, Finite DEF PendingBounded
  <2>3. \A h \in Host : pending'[h] <= Cardinality(Added(h))
    BY <1>3, <2>2
  <2> QED
    BY <1>1, <1>3, <1>5, <2>1, <2>3 DEF PendingBounded
<1> QED
  BY <1>1, <1>2, <1>4, <1>6, <1>7, <1>8, ClearedStep

\* and deletes it.
LEMMA GCDeleteStep ==
    ASSUME ReservationInv, GCDelete
    PROVE  ReservationInv'
<1> USE NamesAssumption DEF ReservationInv, dbVars, usageVars, queueVars, histVars, Proc, Loader
<1> DEFINE u == ptr[Collector]
<1>1. /\ UNCHANGED <<saved, host, region, pending, ids, blank, count, members, old, desc, channel, queue,
                     mutex, work, seen, built, copy, hand, events, base, gap, clash>>
      /\ pc[Collector] = "delete" /\ pc' = [pc EXCEPT ![Collector] = "idle"]
      /\ ptr' = [ptr EXCEPT ![Collector] = None]
      /\ session' = [session EXCEPT ![SessionOf[u]][host[u]] = None]
  BY DEF GCDelete, DeleteSessionUsage, Goto, At
<1>2. u \in Guest /\ host[u] \in Host /\ gap = "cleared" /\ SessionOf[u] \in Session
  BY <1>1, GuestAssumption DEF ProcsInOrder
<1>3. TypeOK'
  <2>1. session' \in [Session -> [Host -> Guest \cup {None}]]
    BY <1>1, <1>2 DEF TypeOK
  <2> QED
    BY <1>1, <2>1 DEF TypeOK, PC
<1>4. /\ pc'[Collector] = "idle"
      /\ \A q \in Proc : q # Collector => pc'[q] = pc[q] /\ ptr'[q] = ptr[q]
  BY <1>1 DEF TypeOK
<1>5. ProcsInOrder' /\ WorkersHaveRead'
  BY <1>1, <1>2, <1>4 DEF ProcsInOrder, WorkersHaveRead
<1>6. EntriesInOrder' /\ ExecutorInOrder'
  BY <1>1, <1>4, EntriesStay, ExecutorStays
<1>7. StoreInOrder'
  <2>1. \A s \in Session, k \in Host : session'[s][k] = session[s][k] \/ session'[s][k] = None
    BY <1>1, <1>2 DEF TypeOK
  <2> QED
    BY <1>1, <2>1 DEF StoreInOrder
<1>8. PendingBounded'
  <2>1. \A h : Added(h)' = Added(h)
    BY <1>1 DEF Added, On
  <2> QED
    BY <1>1, <1>4, <2>1 DEF PendingBounded
<1> QED
  BY <1>1, <1>2, <1>3, <1>5, <1>6, <1>7, <1>8, ClearedStep
-----------------------------------------------------------------------------
(***************************************************************************)
(* The executor.                                                           *)
(***************************************************************************)
\* The others stay where they are.
LEMMA OthersStay ==
    ASSUME ReservationInv, UNCHANGED <<channel, queue, saved, seen>>,
           \A q \in Proc : q # Executor => /\ pc'[q] = pc[q] /\ work'[q] = work[q]
                                           /\ ptr'[q] = ptr[q],
           \A g \in Guest : host[g] # None => host'[g] = host[g],
           \A g \in Guest : region[g] = "done" => region'[g] = "done",
           \A g \in Guest : region'[g] \in {"told", "saved", "unsaved"} => host'[g] \in Host,
           gap' = gap
    PROVE  /\ EntriesInOrder' /\ ProcsInOrder' /\ WorkersHaveRead'
           /\ \A g \in Guest : UnderWay(g)' <=> UnderWay(g)
           /\ gap' = "none" /\ base' = base => LoadedFirst'
<1> USE NamesAssumption DEF ReservationInv, Proc, Loader
<1>1. \A x \in Guest, q \in Worker : InWork(x, q)' <=> InWork(x, q)
  BY DEF InWork
<1>2. \A x \in Guest : UnderWay(x)' <=> UnderWay(x)
  BY <1>1 DEF UnderWay, InChannel, InQueue
<1>3. \A x \in Guest : UnderWay(x) => host'[x] = host[x] /\ host[x] \in Host
  BY DEF EntriesInOrder
<1>4. EntriesInOrder'
  BY <1>1, <1>2, <1>3 DEF EntriesInOrder, InChannel, InQueue
<1>5. \A q \in Proc : q # Executor /\ ptr[q] \in Guest /\ host[ptr[q]] \in Host
                         => host'[ptr'[q]] = host[ptr[q]]
  OBVIOUS
<1>6. ProcsInOrder'
  BY <1>5 DEF ProcsInOrder
<1>7. WorkersHaveRead'
  BY DEF WorkersHaveRead
<1>8. ASSUME gap' = "none", base' = base PROVE LoadedFirst'
  <2> SUFFICES ASSUME NEW q \in Worker, pc'[q] \in {"cancel", "sub"},
                      NEW g \in work'[q] \cap saved'
               PROVE  g \in base'[host'[g]]
    BY DEF LoadedFirst
  <2>1. g \in Guest /\ UnderWay(g)
    BY DEF TypeOK, UnderWay, InWork
  <2>2. host'[g] = host[g]
    BY <2>1, <1>3
  <2> QED
    BY <1>8, <2>2 DEF LoadedFirst
<1> QED
  BY <1>2, <1>4, <1>6, <1>7, <1>8

\* The executor has reserved nothing yet.
LEMMA ExecutorStep ==
    ASSUME ReservationInv, TypeOK', ExecutorInOrder', StoreInOrder',
           UNCHANGED <<pending, session, count, channel, queue, saved, seen, hand, base, gap, clash>>,
           \A q \in Proc : q # Executor => /\ pc'[q] = pc[q] /\ work'[q] = work[q]
                                           /\ ptr'[q] = ptr[q],
           \A g \in Guest : host[g] # None => host'[g] = host[g],
           \A g \in Guest : region[g] = "done" => region'[g] = "done",
           \A g \in Guest : region'[g] \in {"told", "saved", "unsaved"} => host'[g] \in Host,
           \A h \in Host : Added(h)' = Added(h) /\ Placed(h)' \subseteq Placed(h),
           gap # "cleared" => FreshCounts' /\ AddStored'
    PROVE  ReservationInv'
<1> USE NamesAssumption DEF Proc, Loader
<1>1. /\ EntriesInOrder' /\ ProcsInOrder' /\ WorkersHaveRead'
      /\ \A g \in Guest : UnderWay(g)' <=> UnderWay(g)
      /\ gap' = "none" => LoadedFirst'
  BY OthersStay
<1>2. \A g \in Guest : Due(g)' => Due(g)
  BY <1>1 DEF Due
<1>3. \A p \in Worker : pc'[p] = "sub" => pc[p] = "sub" /\ ptr'[p] = ptr[p]
  OBVIOUS
<1>4. gap' # "cleared" => SessionsCovered' /\ ReservationsExact' /\ SubsStored'
  BY <1>2, <1>3, SessionsStay
<1>5. gap' = "none" => HostsCovered'
  <2>1. \A h \in Host : DueOn(h)' \subseteq DueOn(h)
    BY <1>2 DEF DueOn, Added, On
  <2>2. \A h \in Host : OpenOn(h)' \subseteq OpenOn(h)
    BY <2>1 DEF OpenOn
  <2> QED
    BY <1>3, <2>2, HostsStay DEF ReservationInv
<1>6. PendingBounded'
  <2>1. pc[Cleaner] \in Clearing => host'[ptr[Cleaner]] = host[ptr[Cleaner]] /\ host[ptr[Cleaner]] \in Host
    BY DEF ReservationInv, ProcsInOrder
  <2> QED
    BY <2>1 DEF PendingBounded, ReservationInv
<1> QED
  BY <1>1, <1>4, <1>5, <1>6 DEF ReservationInv

\* It takes the guests of a session,
LEMMA CandidatesStep ==
    ASSUME ReservationInv, NEW s \in Session, Candidates(s)
    PROVE  ReservationInv'
<1> USE NamesAssumption DEF ReservationInv, dbVars, usageVars, queueVars, histVars, Proc, Loader
<1>1. /\ UNCHANGED <<saved, host, region, pending, ids, blank, session, count, members, old, desc,
                     channel, queue, mutex, ptr, seen, built, hand, events, base, gap, clash>>
      /\ pc[Executor] = "idle" /\ pc' = [pc EXCEPT ![Executor] = "schedule"]
      /\ Guests(s) # {} /\ \A g \in Guests(s) : host[g] = None /\ region[g] = "none"
      /\ copy' = desc
      /\ work' = [work EXCEPT ![Executor] = Guests(s)]
  BY DEF Candidates, Goto, At
<1>2. TypeOK'
  <2>1. Guests(s) \subseteq Guest
    BY DEF Guests
  <2> QED
    BY <1>1, <2>1 DEF TypeOK, PC
<1>3. /\ pc'[Executor] = "schedule" /\ work'[Executor] = Guests(s) /\ work[Executor] = {}
      /\ \A q \in Proc : q # Executor => pc'[q] = pc[q] /\ work'[q] = work[q]
  BY <1>1 DEF TypeOK, ExecutorInOrder
<1>4. ExecutorInOrder'
  BY <1>1, <1>3 DEF ExecutorInOrder, Guests
<1>5. StoreInOrder'
  BY <1>1, <1>3 DEF StoreInOrder
<1>6. gap # "cleared" => FreshCounts' /\ AddStored'
  BY <1>1, <1>3 DEF FreshCounts, AddStored
<1>7. \A h \in Host : Added(h)' = Added(h) /\ Placed(h)' = Placed(h)
  BY <1>1, <1>3 DEF Added, Placed, On
<1>8. \A g \in Guest : region'[g] \in {"told", "saved", "unsaved"} => host'[g] \in Host
  BY <1>1 DEF EntriesInOrder
<1> QED
  BY <1>1, <1>2, <1>3, <1>4, <1>5, <1>6, <1>7, <1>8, ExecutorStep

\* What the executor does when work is left, or the task complete.
LEMMA ReservedEffect ==
    ASSUME ReservationInv, NEW rest \in SUBSET work[Executor],
           NEW r \in [Guest -> {"none", "told", "saved", "unsaved", "done"}],
           NEW hs \in [Guest -> Host \cup {None}], Reserved(rest, r, hs)
    PROVE  /\ pc' \in [Proc -> PC] /\ work' \in [Proc -> SUBSET (Guest \cup Host)]
           /\ region' \in [Guest -> {"none", "told", "saved", "unsaved", "done"}]
           /\ work'[Executor] = rest
           /\ pc'[Executor] = IF rest = {} THEN "idle" ELSE "lookup"
           /\ \A q \in Proc : q # Executor => pc'[q] = pc[q] /\ work'[q] = work[q]
           /\ \A g \in Guest : \/ region'[g] = r[g]
                               \/ rest = {} /\ r[g] = "none" /\ hs[g] \in Host /\ region'[g] = "told"
<1> USE NamesAssumption DEF Proc, Loader
<1>1. /\ pc \in [Proc -> PC] /\ work \in [Proc -> SUBSET (Guest \cup Host)]
      /\ work' = [work EXCEPT ![Executor] = rest]
      /\ pc' = [pc EXCEPT ![Executor] = IF rest = {} THEN "idle" ELSE "lookup"]
      /\ region' = IF rest # {} THEN r
                   ELSE [g \in Guest |-> IF r[g] = "none" /\ hs[g] # None THEN "told" ELSE r[g]]
  BY DEF Reserved, Goto, ReservationInv, TypeOK
<1>2. region' \in [Guest -> {"none", "told", "saved", "unsaved", "done"}]
  BY <1>1
<1>3. \A g \in Guest : \/ region'[g] = r[g]
                       \/ rest = {} /\ r[g] = "none" /\ hs[g] \in Host /\ region'[g] = "told"
  BY <1>1
<1>4. /\ pc' \in [Proc -> PC] /\ work' \in [Proc -> SUBSET (Guest \cup Host)]
      /\ work'[Executor] = rest
      /\ pc'[Executor] = IF rest = {} THEN "idle" ELSE "lookup"
      /\ \A q \in Proc : q # Executor => pc'[q] = pc[q] /\ work'[q] = work[q]
  BY <1>1 DEF PC
<1> QED
  BY <1>2, <1>3, <1>4

\* gives them hosts, or an error,
LEMMA ScheduleStep ==
    ASSUME ReservationInv, Schedule
    PROVE  ReservationInv'
<1> USE NamesAssumption DEF ReservationInv, Proc, Loader
<1> DEFINE W == work[Executor]
<1>1. /\ UNCHANGED <<saved, pending, ids, blank, session, count, members, old, desc,
                     channel, queue, mutex, ptr, seen, built, hand, events, base, gap, clash>>
      /\ pc[Executor] = "schedule" /\ copy' = [h \in Host |-> {}]
  BY DEF Schedule, At, usageVars, queueVars, histVars
<1>2. PICK f \in [W -> Host \cup {None}] :
         /\ host' = [g \in Guest |-> IF g \in W THEN f[g] ELSE host[g]]
         /\ Reserved(W \ {g \in W : f[g] = None},
                     [g \in Guest |-> IF g \in {x \in W : f[x] = None} THEN "done" ELSE region[g]],
                     host')
  BY DEF Schedule
<1> DEFINE rest == W \ {g \in W : f[g] = None}
           r == [g \in Guest |-> IF g \in {x \in W : f[x] = None} THEN "done" ELSE region[g]]
<1>3. /\ W \subseteq Guest /\ W # {}
      /\ \A g \in W : region[g] = "none" /\ host[g] = None
      /\ \A g, x \in W : SessionOf[x] = SessionOf[g]
  BY <1>1 DEF ExecutorInOrder
<1>4. /\ host' \in [Guest -> Host \cup {None}]
      /\ \A g \in Guest : g \notin W => host'[g] = host[g]
      /\ \A g \in W : host'[g] = f[g]
      /\ \A g \in rest : host'[g] \in Host
      /\ \A g \in W \ rest : host'[g] = None
  <2>1. host \in [Guest -> Host \cup {None}]
    BY DEF TypeOK
  <2> QED
    BY <1>2, <1>3, <2>1
<1>5. /\ r \in [Guest -> {"none", "told", "saved", "unsaved", "done"}]
      /\ \A g \in W \ rest : r[g] = "done"
      /\ \A g \in Guest : g \notin W \ rest => r[g] = region[g]
  BY <1>3 DEF TypeOK
<1>6. Reserved(rest, r, host')
  BY <1>2
<1>7. rest \subseteq W
  OBVIOUS
<1> HIDE DEF r, rest
<1>8. /\ pc' \in [Proc -> PC] /\ work' \in [Proc -> SUBSET (Guest \cup Host)]
      /\ region' \in [Guest -> {"none", "told", "saved", "unsaved", "done"}]
      /\ work'[Executor] = rest
      /\ pc'[Executor] = IF rest = {} THEN "idle" ELSE "lookup"
      /\ \A q \in Proc : q # Executor => pc'[q] = pc[q] /\ work'[q] = work[q]
      /\ \A g \in Guest : \/ region'[g] = r[g]
                          \/ rest = {} /\ r[g] = "none" /\ host'[g] \in Host /\ region'[g] = "told"
  BY <1>4, <1>5, <1>6, <1>7, ReservedEffect
<1>9. TypeOK'
  BY <1>1, <1>4, <1>8 DEF TypeOK
<1>10. ExecutorInOrder'
  <2>1. \A g \in rest : region'[g] = "none"
    BY <1>3, <1>5, <1>8, <1>7
  <2> QED
    BY <1>3, <1>4, <1>8, <1>7, <2>1 DEF ExecutorInOrder
<1>11. StoreInOrder'
  <2> SUFFICES ASSUME NEW s \in Session, NEW h \in Host, session[s][h] # None
               PROVE  /\ SessionOf[session[s][h]] = s /\ host'[session[s][h]] = h
                      /\ session[s][h] \notin rest
    BY <1>1, <1>8 DEF StoreInOrder
  <2>1. session[s][h] \in Guest /\ session[s][h] \notin W
    BY DEF StoreInOrder, TypeOK
  <2> QED
    BY <1>4, <1>7, <2>1 DEF StoreInOrder
<1>12. \A g \in Guest : host[g] # None => host'[g] = host[g]
  BY <1>3, <1>4
<1>13. gap # "cleared" => FreshCounts' /\ AddStored'
  <2>1. ASSUME gap # "cleared" PROVE FreshCounts'
    BY <1>1, <1>8, <1>7, <1>12, <2>1 DEF FreshCounts
  <2>2. AddStored'
    BY <1>8 DEF AddStored
  <2> QED
    BY <2>1, <2>2
<1>14. \A h \in Host : Added(h)' = Added(h)
  BY <1>3, <1>4, <1>8, <1>7 DEF Added, On
<1>15. \A h \in Host : Placed(h)' \subseteq Placed(h)
  <2> SUFFICES ASSUME NEW h \in Host, NEW g \in Placed(h)' PROVE g \in Placed(h)
    OBVIOUS
  <2>1. g \in Guest /\ g \in Added(h)'
    BY DEF Placed, Added, On
  <2>2. g \in Added(h) /\ g \notin W
    BY <1>14, <2>1 DEF Added
  <2>3. r[g] = region[g]
    BY <1>5, <2>1, <2>2
  <2>4. region'[g] \in {"none", "told", "saved"} => region[g] \in {"none", "told", "saved"}
    BY <1>8, <2>1, <2>3
  <2> QED
    BY <1>1, <2>1, <2>2, <2>4 DEF Placed, Added
<1>16. \A g \in Guest : region'[g] \in {"told", "saved", "unsaved"} => host'[g] \in Host
  <2> SUFFICES ASSUME NEW g \in Guest, region'[g] \in {"told", "saved", "unsaved"},
                      region'[g] = r[g]
               PROVE  host'[g] \in Host
    BY <1>8
  <2>1. g \notin W
    BY <1>3, <1>5
  <2> QED
    BY <1>4, <1>5, <2>1 DEF EntriesInOrder
<1>17. \A g \in Guest : region[g] = "done" => region'[g] = "done"
  BY <1>3, <1>5, <1>8, <1>7
<1>18. \A q \in Proc : q # Executor => /\ pc'[q] = pc[q] /\ work'[q] = work[q]
                                       /\ ptr'[q] = ptr[q]
  BY <1>1, <1>8
<1> QED
  BY <1>1, <1>9, <1>10, <1>11, <1>12, <1>13, <1>14, <1>15, <1>16, <1>17, <1>18, ExecutorStep

\* and looks for the usage of the session on the host of the first one.
LEMMA LookupStep ==
    ASSUME ReservationInv, AddPendingUsage
    PROVE  ReservationInv'
<1> USE NamesAssumption DEF ReservationInv, dbVars, usageVars, queueVars, histVars, Proc, Loader
<1> DEFINE g == First(work[Executor])
           u == session[SessionOf[g]][host[g]]
           v == IF u = None THEN g ELSE u
<1>1. /\ UNCHANGED <<saved, host, region, pending, ids, blank, session, count, members, old, desc,
                     channel, queue, mutex, work, seen, built, copy, hand, events, base, gap, clash>>
      /\ pc[Executor] = "lookup" /\ pc' = [pc EXCEPT ![Executor] = "add"]
      /\ ptr' = [ptr EXCEPT ![Executor] = v]
  BY DEF AddPendingUsage, Goto, At
<1>2. g \in work[Executor] /\ g \in Guest /\ host[g] \in Host /\ SessionOf[g] \in Session
  <2>1. g \in work[Executor]
    BY <1>1, FirstIn DEF ExecutorInOrder
  <2> QED
    BY <1>1, <2>1, GuestAssumption DEF ExecutorInOrder
<1>3. u # None => /\ u \in Guest /\ SessionOf[u] = SessionOf[g] /\ host[u] = host[g]
                  /\ u \notin work[Executor]
  BY <1>2 DEF StoreInOrder, TypeOK
<1>4. v \in Guest
  BY <1>2, <1>3
<1>5. TypeOK'
  BY <1>1, <1>4 DEF TypeOK, PC
<1>6. /\ pc'[Executor] = "add" /\ ptr'[Executor] = v
      /\ \A q \in Proc : q # Executor => pc'[q] = pc[q] /\ ptr'[q] = ptr[q]
  BY <1>1 DEF TypeOK
<1>7. First(work[Executor])' = g
  BY <1>1 DEF First
<1>8. ExecutorInOrder'
  BY <1>1, <1>2, <1>3, <1>6, <1>7 DEF ExecutorInOrder
<1>9. gap # "cleared" => FreshCounts' /\ AddStored'
  <2>1. AddStored'
    BY <1>1, <1>2, <1>3, <1>6, <1>7 DEF AddStored
  <2> QED
    BY <1>1, <2>1 DEF FreshCounts
<1>10. StoreInOrder'
  BY <1>1 DEF StoreInOrder
<1>11. \A h \in Host : Added(h)' = Added(h) /\ Placed(h)' = Placed(h)
  BY <1>1 DEF Added, Placed, On
<1>12. \A x \in Guest : region'[x] \in {"told", "saved", "unsaved"} => host'[x] \in Host
  BY <1>1 DEF EntriesInOrder
<1> QED
  BY <1>1, <1>5, <1>6, <1>8, <1>9, <1>10, <1>11, <1>12, ExecutorStep

\* The units of a session on a host change with its count, those of the others stay.
LEMMA UnitsOfOthers ==
    ASSUME ReservationInv, TypeOK', NEW u \in Guest, NEW h \in Host, host[u] = h,
           \A s \in Session, k \in Host :
              s # SessionOf[u] \/ k # h => session'[s][k] = session[s][k],
           \A x \in Guest : x # u => count'[x] = count[x]
    PROVE  /\ \A k \in Host : k # h => Units(k)' = Units(k)
           /\ \A x \in Session \X (1 .. Cardinality(Guest)) :
                 x[1] # SessionOf[u] => (x \in Units(h)' <=> x \in Units(h))
<1>1. \A s \in Session, k \in Host :
         session[s][k] # None => session[s][k] \in Guest /\ SessionOf[session[s][k]] = s
                                 /\ host[session[s][k]] = k
  BY DEF ReservationInv, TypeOK, StoreInOrder
<1>2. \A s \in Session, k \in Host :
         s # SessionOf[u] \/ k # h => /\ session'[s][k] = session[s][k]
                                      /\ session[s][k] # None =>
                                            count'[session[s][k]] = count[session[s][k]]
  BY <1>1
<1>3. \A x \in Session \X (1 .. Cardinality(Guest)) : x[1] \in Session
  OBVIOUS
<1>4. ASSUME NEW k \in Host, k # h PROVE Units(k)' = Units(k)
  BY <1>2, <1>3, <1>4 DEF Units
<1>5. ASSUME NEW x \in Session \X (1 .. Cardinality(Guest)), x[1] # SessionOf[u]
      PROVE  x \in Units(h)' <=> x \in Units(h)
  BY <1>2, <1>3, <1>5 DEF Units
<1> QED
  BY <1>4, <1>5

\* A unit more in the count of a usage is a unit more on its host,
LEMMA UnitsGrow ==
    ASSUME ReservationInv, TypeOK', NEW u \in Guest, NEW h \in Host, host[u] = h, SessionOf[u] \in Session,
           session[SessionOf[u]][h] = u \/ (session[SessionOf[u]][h] = None /\ count[u] = 0),
           session' = [session EXCEPT ![SessionOf[u]][h] = u],
           count' = [count EXCEPT ![u] = @ + 1],
           count[u] \in Nat, count[u] + 1 <= Cardinality(Guest)
    PROVE  /\ \A k \in Host : k # h => Units(k)' = Units(k)
           /\ Cardinality(Units(h)') = Cardinality(Units(h)) + 1
<1> DEFINE s == SessionOf[u]
           N == Cardinality(Guest)
           new == <<s, count[u] + 1>>
<1>1. /\ session'[s][h] = u /\ count'[u] = count[u] + 1 /\ u # None
      /\ \A t \in Session, k \in Host : t # s \/ k # h => session'[t][k] = session[t][k]
      /\ \A x \in Guest : x # u => count'[x] = count[x]
      /\ N \in Nat
  BY NamesAssumption, Finite DEF ReservationInv, TypeOK
<1>2. /\ \A k \in Host : k # h => Units(k)' = Units(k)
      /\ \A x \in Session \X (1 .. N) :
            x[1] # s => (x \in Units(h)' <=> x \in Units(h))
  BY <1>1, UnitsOfOthers
<1>3. new \in Session \X (1 .. N) /\ new[1] = s /\ new[2] = count[u] + 1
  BY <1>1
<1>4. \A x \in Session \X (1 .. N) :
         /\ x[2] \in 1 .. N /\ x = <<x[1], x[2]>>
         /\ x[1] = s => /\ x \in Units(h)' <=> x[2] <= count[u] + 1
                        /\ x \in Units(h) <=> x[2] <= count[u]
  <2> SUFFICES ASSUME NEW x \in Session \X (1 .. N)
               PROVE  /\ x[2] \in 1 .. N /\ x = <<x[1], x[2]>>
                      /\ x[1] = s => /\ x \in Units(h)' <=> x[2] <= count[u] + 1
                                     /\ x \in Units(h) <=> x[2] <= count[u]
    OBVIOUS
  <2>1. x[2] \in 1 .. N /\ x = <<x[1], x[2]>>
    OBVIOUS
  <2>2. x[1] = s => (x \in Units(h)' <=> x[2] <= count[u] + 1)
    BY <1>1 DEF Units
  <2>3. x[1] = s => (x \in Units(h) <=> x[2] <= count[u])
    BY <1>1, <2>1 DEF Units
  <2> QED
    BY <2>1, <2>2, <2>3
<1>5. new \notin Units(h)
  BY <1>3, <1>4
<1>6. Units(h)' = Units(h) \cup {new}
  <2>1. \A x \in Session \X (1 .. N) : x \in Units(h)' <=> x \in Units(h) \/ x = new
    <3> SUFFICES ASSUME NEW x \in Session \X (1 .. N)
                 PROVE  x \in Units(h)' <=> x \in Units(h) \/ x = new
      OBVIOUS
    <3>1. CASE x[1] # s
      BY <1>2, <1>3, <3>1
    <3>2. CASE x[1] = s
      <4>1. x[2] \in Nat /\ (x[2] <= count[u] + 1 <=> x[2] <= count[u] \/ x[2] = count[u] + 1)
        BY <1>4
      <4> QED
        BY <1>3, <1>4, <3>2, <4>1
    <3> QED
      BY <3>1, <3>2
  <2>2. Units(h) \subseteq Session \X (1 .. N) /\ Units(h)' \subseteq Session \X (1 .. N)
    BY DEF Units
  <2> QED
    BY <1>3, <2>1, <2>2, Zenon
<1>7. IsFiniteSet(Units(h))
  BY Finite DEF ReservationInv
<1> HIDE DEF new
<1>8. Cardinality(Units(h) \cup {new}) = Cardinality(Units(h)) + 1
  BY <1>5, <1>7, FS_AddElement
<1> QED
  BY <1>2, <1>6, <1>8

\* and a unit less is one less.
LEMMA UnitsShrink ==
    ASSUME ReservationInv, TypeOK', NEW u \in Guest, NEW h \in Host, host[u] = h,
           SessionOf[u] \in Session, session[SessionOf[u]][h] = u, session' = session,
           \A x \in Guest : x # u => count'[x] = count[x], count'[u] = count[u] - 1,
           count[u] \in 1 .. Cardinality(Guest)
    PROVE  /\ \A k \in Host : k # h => Units(k)' = Units(k)
           /\ Cardinality(Units(h)') = Cardinality(Units(h)) - 1
<1> DEFINE s == SessionOf[u]
           N == Cardinality(Guest)
           last == <<s, count[u]>>
<1>1. u # None /\ N \in Nat /\ count[u] \in Nat
  BY NamesAssumption, Finite DEF ReservationInv, TypeOK
<1>2. /\ \A k \in Host : k # h => Units(k)' = Units(k)
      /\ \A x \in Session \X (1 .. N) :
            x[1] # s => (x \in Units(h)' <=> x \in Units(h))
  BY UnitsOfOthers
<1>3. last \in Session \X (1 .. N) /\ last[1] = s /\ last[2] = count[u]
  BY <1>1
<1>4. ASSUME NEW x \in Session \X (1 .. N)
      PROVE  /\ x[2] \in 1 .. N /\ x = <<x[1], x[2]>>
             /\ x[1] = s => /\ x \in Units(h)' <=> x[2] <= count[u] - 1
                            /\ x \in Units(h) <=> x[2] <= count[u]
  <2>1. x[2] \in 1 .. N /\ x = <<x[1], x[2]>>
    OBVIOUS
  <2>2. x[1] = s => (x \in Units(h)' <=> x[2] <= count[u] - 1)
    BY <1>1 DEF Units
  <2>3. x[1] = s => (x \in Units(h) <=> x[2] <= count[u])
    BY <1>1 DEF Units
  <2> QED
    BY <2>1, <2>2, <2>3
<1>5. last \in Units(h)
  BY <1>1, <1>3, <1>4
<1>6. Units(h)' = Units(h) \ {last}
  <2>1. \A x \in Session \X (1 .. N) : x \in Units(h)' <=> x \in Units(h) /\ x # last
    <3> SUFFICES ASSUME NEW x \in Session \X (1 .. N)
                 PROVE  x \in Units(h)' <=> x \in Units(h) /\ x # last
      OBVIOUS
    <3>1. CASE x[1] # s
      BY <1>2, <1>3, <3>1
    <3>2. CASE x[1] = s
      <4>1. x[2] \in Nat /\ (x[2] <= count[u] - 1 <=> x[2] <= count[u] /\ x[2] # count[u])
        BY <1>1, <1>4
      <4> QED
        BY <1>3, <1>4, <3>2, <4>1
    <3> QED
      BY <3>1, <3>2
  <2>2. Units(h) \subseteq Session \X (1 .. N) /\ Units(h)' \subseteq Session \X (1 .. N)
    BY DEF Units
  <2> QED
    BY <1>3, <2>1, <2>2, Zenon
<1>7. IsFiniteSet(Units(h))
  BY Finite DEF ReservationInv
<1> HIDE DEF last
<1>8. Cardinality(Units(h) \ {last}) = Cardinality(Units(h)) - 1
  BY <1>5, <1>7, FS_RemoveElement
<1> QED
  BY <1>2, <1>6, <1>8

\* A unit is reserved for the first guest, which becomes one of the added ones.
LEMMA AddStep ==
    ASSUME ReservationInv, addSessionUsage
    PROVE  ReservationInv'
<1> USE NamesAssumption DEF ReservationInv, dbVars, usageVars, queueVars, histVars, Proc, Loader
<1>1. PICK g \in Guest, u \in Guest, h \in Host, s \in Session :
         /\ g = First(work[Executor]) /\ u = ptr[Executor]
         /\ host[u] = h /\ host[g] = h /\ SessionOf[u] = s /\ SessionOf[g] = s
         /\ g \in work[Executor] /\ region[g] = "none"
         /\ u = g \/ u \notin work[Executor]
  <2>1. pc[Executor] = "add" /\ work[Executor] \subseteq Guest /\ work[Executor] # {}
    BY DEF addSessionUsage, At, ExecutorInOrder
  <2>2. First(work[Executor]) \in work[Executor]
    BY <2>1, FirstIn
  <2> QED
    BY <2>1, <2>2, GuestAssumption DEF ExecutorInOrder
<1> DEFINE rest == work[Executor] \ {g}
<1>2. /\ UNCHANGED <<saved, host, old, desc, channel, queue, mutex, seen, built, copy, hand,
                     events, base, gap>>
      /\ pc[Executor] = "add"
      /\ pending' = [pending EXCEPT ![h] = @ + 1]
      /\ ids' = [ids EXCEPT ![h] = @ \cup members[u] \cup {g}]
      /\ blank' = blank \ {h} /\ Clash(h)
      /\ count' = [count EXCEPT ![u] = @ + 1]
      /\ members' = [members EXCEPT ![u] = @ \cup {g}]
      /\ session' = [session EXCEPT ![s][h] = u]
      /\ ptr' = [ptr EXCEPT ![Executor] = None]
      /\ Reserved(rest, region, host)
  BY <1>1 DEF addSessionUsage, At
<1>3. /\ pc' \in [Proc -> PC] /\ work' \in [Proc -> SUBSET (Guest \cup Host)]
      /\ region' \in [Guest -> {"none", "told", "saved", "unsaved", "done"}]
      /\ work'[Executor] = rest
      /\ pc'[Executor] = IF rest = {} THEN "idle" ELSE "lookup"
      /\ \A q \in Proc : q # Executor => pc'[q] = pc[q] /\ work'[q] = work[q]
      /\ \A x \in Guest : \/ region'[x] = region[x]
                          \/ /\ rest = {}
                             /\ region[x] = "none" /\ host[x] \in Host /\ region'[x] = "told"
  <2>1. /\ region \in [Guest -> {"none", "told", "saved", "unsaved", "done"}]
        /\ host \in [Guest -> Host \cup {None}]
        /\ rest \in SUBSET work[Executor]
    BY DEF TypeOK
  <2>2. Reserved(rest, region, host)
    BY <1>2
  <2> HIDE DEF rest, ReservationInv
  <2> QED
    BY <2>1, <2>2, ReservedEffect DEF Reserved
<1>4. /\ \A x \in Guest : region[x] = "done" <=> region'[x] = "done"
      /\ \A x \in Guest : region'[x] \in {"none", "told", "saved"} =>
                             region[x] \in {"none", "told", "saved"}
      /\ \A x \in Guest : region'[x] \in {"told", "saved", "unsaved"} => host'[x] \in Host
      /\ \A q \in Proc : q # Executor => ptr'[q] = ptr[q]
  <2>1. \A x \in Guest : region[x] \in {"told", "saved", "unsaved"} => host[x] \in Host
    BY DEF EntriesInOrder
  <2> QED
    BY <1>2, <1>3, <2>1 DEF TypeOK
<1>5. /\ Added(h)' = Added(h) \cup {g} /\ g \notin Added(h)
      /\ \A k \in Host : k # h => Added(k)' = Added(k)
      /\ \A k \in Host : Added(k) \in SUBSET Guest /\ Added(k)' \in SUBSET Guest
  BY <1>1, <1>2, <1>3 DEF Added, On
<1>6. /\ \A k \in Host : /\ pending[k] \in Nat /\ pending[k] <= Cardinality(Added(k))
                         /\ Cardinality(Added(k)) \in Nat
                         /\ Cardinality(Added(k)) <= Cardinality(Added(k)')
      /\ Cardinality(Added(h)') = Cardinality(Added(h)) + 1
      /\ Cardinality(Added(h)') <= Cardinality(Guest) /\ Cardinality(Guest) \in Nat
  <2>1. \A k \in Host : pending[k] \in 0 .. Cardinality(Guest)
    BY DEF TypeOK
  <2>2. \A k \in Host : IsFiniteSet(Added(k)) /\ Cardinality(Added(k)) \in Nat
    BY <1>5, Finite
  <2>3. Cardinality(Added(h)') = Cardinality(Added(h)) + 1
    BY <1>5, <2>2, FS_AddElement
  <2>4. Cardinality(Added(h)') <= Cardinality(Guest) /\ Cardinality(Guest) \in Nat
    BY <1>5, FiniteAssumption, FS_Subset, FS_CardinalityType
  <2>5. ASSUME NEW k \in Host
        PROVE  /\ pending[k] \in Nat /\ pending[k] <= Cardinality(Added(k))
               /\ Cardinality(Added(k)) <= Cardinality(Added(k)')
    <3>1. pending[k] \in Nat /\ pending[k] <= Cardinality(Added(k))
      BY <2>1, <2>4 DEF PendingBounded
    <3>2. CASE k = h
      BY <3>1, <3>2, <2>2, <2>3
    <3>3. CASE k # h
      BY <3>1, <3>3, <2>2, <1>5
    <3> QED
      BY <3>2, <3>3
  <2> QED
    BY <2>2, <2>3, <2>4, <2>5
<1>7. TypeOK'
  <2>1. pending' \in [Host -> 0 .. Cardinality(Guest)]
    <3>1. pending \in [Host -> 0 .. Cardinality(Guest)]
      BY DEF TypeOK
    <3>2. pending[h] + 1 \in 0 .. Cardinality(Guest)
      BY <1>6
    <3> QED
      BY <1>2, <3>1, <3>2
  <2>2. ids' \in [Host -> SUBSET Guest] /\ members' \in [Guest -> SUBSET Guest]
    BY <1>2 DEF TypeOK
  <2>3. count' \in [Guest -> Int]
    BY <1>2 DEF TypeOK
  <2>4. session' \in [Session -> [Host -> Guest \cup {None}]]
    BY <1>2 DEF TypeOK
  <2>5. blank' \subseteq Host /\ clash' \subseteq Host
    BY <1>2 DEF TypeOK, Clash
  <2> QED
    BY <1>2, <1>3, <2>1, <2>2, <2>3, <2>4, <2>5 DEF TypeOK
<1>8. /\ EntriesInOrder' /\ ProcsInOrder' /\ WorkersHaveRead'
      /\ \A x \in Guest : UnderWay(x)' <=> UnderWay(x)
      /\ gap' = "none" => LoadedFirst'
  BY <1>2, <1>3, <1>4, OthersStay
<1>9. ExecutorInOrder'
  BY <1>1, <1>2, <1>3 DEF ExecutorInOrder
<1>10. /\ session'[s][h] = u
       /\ \A t \in Session, k \in Host : t # s \/ k # h => session'[t][k] = session[t][k]
       /\ count'[u] = count[u] + 1
       /\ \A x \in Guest : x # u => count'[x] = count[x]
       /\ pending'[h] = pending[h] + 1
       /\ \A k \in Host : k # h => pending'[k] = pending[k]
  BY <1>2 DEF TypeOK
<1>11. StoreInOrder'
  BY <1>1, <1>2, <1>3, <1>10 DEF StoreInOrder
<1>12. PendingBounded'
  <2>1. ASSUME NEW k \in Host PROVE pending'[k] <= Cardinality(Added(k)')
    <3>1. CASE k = h
      BY <1>6, <1>10, <3>1
    <3>2. CASE k # h
      BY <1>5, <1>6, <1>10, <3>2
    <3> QED
      BY <3>1, <3>2
  <2>2. ASSUME pc[Cleaner] \in Clearing
        PROVE  hand.units <= Cardinality(Added(host[ptr[Cleaner]])')
    <3>1. host[ptr[Cleaner]] \in Host /\ hand.units <= Cardinality(Added(host[ptr[Cleaner]]))
      BY <2>2 DEF ProcsInOrder, PendingBounded
    <3>2. hand.units \in Nat
      BY <2>2, CleanerFacts
    <3>3. PICK k \in Host : k = host[ptr[Cleaner]]
      BY <3>1
    <3>4. Cardinality(Added(k)') \in Nat
      BY <1>5, FiniteAssumption, FS_Subset, FS_CardinalityType
    <3>5. Added(host[ptr[Cleaner]])' = Added(k)'
      BY <1>2, <1>4, <3>3 DEF Added, On
    <3> QED
      BY <1>6, <3>1, <3>2, <3>3, <3>4, <3>5
  <2> QED
    BY <1>2, <1>3, <1>4, <2>1, <2>2 DEF PendingBounded
<1>13. ASSUME gap # "cleared"
       PROVE  SessionsCovered' /\ FreshCounts' /\ SubsStored' /\ AddStored' /\ ReservationsExact'
  <2>1. session[s][h] = IF u = g THEN None ELSE u
    BY <1>1, <1>2, <1>13 DEF AddStored
  <2>2. \A p \in Worker : pc[p] = "sub" => session[SessionOf[ptr[p]]][host[ptr[p]]] = ptr[p]
    BY <1>13 DEF SubsStored
  <2>3. SubsStored'
    <3> SUFFICES ASSUME NEW p \in Worker, pc'[p] = "sub"
                 PROVE  session'[SessionOf[ptr[p]]][host[ptr[p]]] = ptr[p]
      BY <1>2, <1>4 DEF SubsStored
    <3>1. pc[p] = "sub" /\ ptr[p] \in Guest /\ host[ptr[p]] \in Host
          /\ SessionOf[ptr[p]] \in Session
      BY <1>3, GuestAssumption DEF ProcsInOrder
    <3> QED
      BY <1>10, <2>1, <2>2, <3>1
  <2>4. AddStored'
    BY <1>3 DEF AddStored
  <2>5. FreshCounts'
    BY <1>1, <1>2, <1>3, <1>10, <1>13 DEF FreshCounts
  <2>6. /\ AddedFor(s, h)' = AddedFor(s, h) \cup {g} /\ g \notin AddedFor(s, h)
        /\ DueFor(s, h)' \subseteq DueFor(s, h) \cup {g} /\ g \notin DueFor(s, h)
        /\ \A t \in Session, k \in Host : t # s \/ k # h =>
              AddedFor(t, k)' = AddedFor(t, k) /\ DueFor(t, k)' \subseteq DueFor(t, k)
        /\ \A t \in Session, k \in Host : DueFor(t, k) \subseteq AddedFor(t, k)
        /\ \A x \in Guest : SubsOf(x)' = SubsOf(x)
    <3>1. \A x \in Guest : Due(x)' <=> Due(x)
      BY <1>4, <1>8 DEF Due
    <3>2. \A x \in Guest : SubsOf(x)' = SubsOf(x)
      BY <1>3, <1>4 DEF SubsOf
    <3> QED
      BY <1>1, <1>5, <3>1, <3>2 DEF AddedFor, DueFor, DueOn
  <2>7. /\ \A t \in Session, k \in Host :
              /\ IsFiniteSet(DueFor(t, k)) /\ IsFiniteSet(AddedFor(t, k))
              /\ Cardinality(DueFor(t, k)) \in Nat /\ Cardinality(AddedFor(t, k)) \in Nat
        /\ \A x \in Guest : IsFiniteSet(SubsOf(x)) /\ Cardinality(SubsOf(x)) \in Nat
    <3>1. \A t \in Session, k \in Host :
             DueFor(t, k) \in SUBSET Guest /\ AddedFor(t, k) \in SUBSET Guest
      BY <1>5 DEF DueFor, DueOn, AddedFor
    <3>2. \A x \in Guest : SubsOf(x) \in SUBSET Worker
      BY DEF SubsOf
    <3> QED
      BY <3>1, <3>2, Finite
  <2>8. /\ Cardinality(DueFor(s, h)) + Cardinality(SubsOf(u)) <= count[u]
        /\ count[u] <= Cardinality(AddedFor(s, h))
        /\ count[u] \in Nat
        /\ session[s][h] = None => count[u] = 0
    <3>1. count[u] \in Int
      BY DEF TypeOK
    <3>2. CASE u = g
      <4>1. count[u] = 0 /\ session[s][h] = None
        BY <1>1, <1>13, <2>1, <3>2 DEF FreshCounts
      <4>2. AddedFor(s, h) = {} /\ DueFor(s, h) = {}
        BY <1>13, <2>6, <4>1 DEF SessionsCovered
      <4>3. SubsOf(u) = {}
        BY <1>1, <2>2, <4>1 DEF SubsOf
      <4>4. Cardinality({}) = 0
        BY FS_EmptySet
      <4> QED
        BY <4>1, <4>2, <4>3, <4>4
    <3>3. CASE u # g
      <4>1. session[s][h] = u /\ u # None
        BY <2>1, <3>3
      <4>2. /\ Cardinality(DueFor(s, h)) + Cardinality(SubsOf(u)) <= count[u]
            /\ count[u] <= Cardinality(AddedFor(s, h))
        BY <1>13, <4>1 DEF SessionsCovered
      <4> QED
        BY <2>7, <3>1, <4>1, <4>2
    <3> QED
      BY <3>2, <3>3
  <2>9. /\ Cardinality(DueFor(s, h)') <= Cardinality(DueFor(s, h)) + 1
        /\ Cardinality(DueFor(s, h)') \in Nat
        /\ Cardinality(AddedFor(s, h)') = Cardinality(AddedFor(s, h)) + 1
        /\ Cardinality(AddedFor(s, h)') <= Cardinality(Guest)
    <3>1. IsFiniteSet(DueFor(s, h) \cup {g})
          /\ Cardinality(DueFor(s, h) \cup {g}) = Cardinality(DueFor(s, h)) + 1
      BY <2>6, <2>7, FS_AddElement
    <3>2. Cardinality(AddedFor(s, h) \cup {g}) = Cardinality(AddedFor(s, h)) + 1
      BY <2>6, <2>7, FS_AddElement
    <3>3. /\ IsFiniteSet(DueFor(s, h)') /\ Cardinality(DueFor(s, h)') \in Nat
          /\ Cardinality(DueFor(s, h)') <= Cardinality(DueFor(s, h) \cup {g})
      BY <2>6, <3>1, FS_Subset, FS_CardinalityType
    <3>4. AddedFor(s, h)' \in SUBSET Guest
      BY <1>5 DEF AddedFor
    <3>5. Cardinality(AddedFor(s, h)') <= Cardinality(Guest)
      BY <3>4, FiniteAssumption, FS_Subset
    <3> QED
      BY <2>6, <3>1, <3>2, <3>3, <3>5
  <2>10. SessionsCovered'
    <3> SUFFICES ASSUME NEW t \in Session, NEW k \in Host
                 PROVE  IF session'[t][k] = None THEN AddedFor(t, k)' = {}
                        ELSE /\ Cardinality(DueFor(t, k)') + Cardinality(SubsOf(session[t][k])')
                                   <= count'[session'[t][k]]
                             /\ count'[session'[t][k]] <= Cardinality(AddedFor(t, k)')
      BY DEF SessionsCovered
    <3>1. CASE t = s /\ k = h
      <4>1. session'[t][k] = u /\ u # None
        BY <1>10, <3>1
      <4>2. SubsOf(session[t][k])' = SubsOf(u)
        BY <4>1, <2>6 DEF SubsOf
      <4> QED
        BY <1>10, <2>7, <2>8, <2>9, <3>1, <4>1, <4>2
    <3>2. CASE ~(t = s /\ k = h)
      <4>1. /\ session'[t][k] = session[t][k]
            /\ AddedFor(t, k)' = AddedFor(t, k) /\ DueFor(t, k)' \subseteq DueFor(t, k)
        BY <1>10, <2>6, <3>2
      <4>2. CASE session[t][k] = None
        BY <1>13, <4>1, <4>2 DEF SessionsCovered
      <4>3. CASE session[t][k] # None
        <5>1. PICK v \in Guest : v = session[t][k]
          BY <4>3 DEF TypeOK
        <5>2. v # u /\ count'[v] = count[v] /\ count[v] \in Int
          BY <1>1, <1>10, <3>2, <4>3, <5>1 DEF StoreInOrder, TypeOK
        <5>3. SubsOf(session[t][k])' = SubsOf(v)
          BY <4>1, <5>1, <2>6 DEF SubsOf
        <5>4. /\ Cardinality(DueFor(t, k)) + Cardinality(SubsOf(v)) <= count[v]
              /\ count[v] <= Cardinality(AddedFor(t, k))
          BY <1>13, <4>3, <5>1 DEF SessionsCovered
        <5>5. Cardinality(DueFor(t, k)') <= Cardinality(DueFor(t, k))
              /\ Cardinality(DueFor(t, k)') \in Nat
          BY <2>7, <4>1, FS_Subset, FS_CardinalityType
        <5> QED
          BY <2>7, <4>1, <4>3, <5>1, <5>2, <5>3, <5>4, <5>5
      <4> QED
        BY <4>2, <4>3
    <3> QED
      BY <3>1, <3>2
  <2>11. ReservationsExact'
    <3>1. /\ \A k \in Host : k # h => Units(k)' = Units(k)
          /\ Cardinality(Units(h)') = Cardinality(Units(h)) + 1
      <4>1. count[u] + 1 <= Cardinality(Guest)
        BY <1>6, <2>7, <2>8, <2>9
      <4>2. session[SessionOf[u]][h] = u \/ (session[SessionOf[u]][h] = None /\ count[u] = 0)
        BY <1>1, <2>1, <2>8
      <4> QED
        BY <1>1, <1>2, <1>7, <2>8, <4>1, <4>2, UnitsGrow
    <3>2. \A k \in Host : pending[k] = Cardinality(Units(k))
      BY <1>13 DEF ReservationsExact
    <3>3. ASSUME NEW k \in Host PROVE pending'[k] = Cardinality(Units(k)')
      <4>1. CASE k = h
        BY <1>10, <3>1, <3>2, <4>1
      <4>2. CASE k # h
        BY <1>10, <3>1, <3>2, <4>2
      <4> QED
        BY <4>1, <4>2
    <3> QED
      BY <3>3 DEF ReservationsExact
  <2> QED
    BY <2>3, <2>4, <2>5, <2>10, <2>11
<1>14. ASSUME gap = "none" PROVE HostsCovered'
  <2>1. /\ OpenOn(h)' \subseteq OpenOn(h) \cup {g}
        /\ \A k \in Host : k # h => OpenOn(k)' \subseteq OpenOn(k)
        /\ \A k \in Host : SubsOn(k)' = SubsOn(k)
    <3>1. \A x \in Guest : Due(x)' <=> Due(x)
      BY <1>4, <1>8 DEF Due
    <3>2. \A k \in Host : SubsOn(k)' = SubsOn(k)
      BY <1>2, <1>3, <1>4 DEF SubsOn
    <3>3. \A k \in Host : \A x \in Placed(k)' : x \in Placed(k) \/ (x = g /\ k = h)
      <4>1. \A k \in Host : \A x \in Added(k)' : x \in Added(k) \/ (x = g /\ k = h)
        BY <1>5
      <4> QED
        BY <1>2, <1>4, <4>1 DEF Placed, Added, On
    <3>4. \A k \in Host : \A x \in DueOn(k)' : x \in DueOn(k) \/ (x = g /\ k = h)
      BY <1>5, <3>1 DEF DueOn
    <3> QED
      BY <1>2, <3>2, <3>3, <3>4 DEF OpenOn
  <2>2. \A k \in Host : /\ IsFiniteSet(OpenOn(k)) /\ Cardinality(OpenOn(k)) \in Nat
                        /\ Cardinality(SubsOn(k)) \in Nat
    <3>1. \A k \in Host : OpenOn(k) \in SUBSET Guest /\ SubsOn(k) \in SUBSET Worker
      BY DEF OpenOn, DueOn, Placed, Added, On, SubsOn
    <3> QED
      BY <3>1, Finite
  <2>3. \A k \in Host : Cardinality(OpenOn(k)) + Cardinality(SubsOn(k)) <= pending[k]
    BY <1>14 DEF HostsCovered
  <2>4. ASSUME NEW k \in Host
        PROVE  Cardinality(OpenOn(k)') + Cardinality(SubsOn(k)') <= pending'[k]
    <3>1. CASE k = h
      <4>1. /\ IsFiniteSet(OpenOn(h) \cup {g})
            /\ Cardinality(OpenOn(h) \cup {g}) <= Cardinality(OpenOn(h)) + 1
            /\ Cardinality(OpenOn(h) \cup {g}) \in Nat
        <5>1. /\ IsFiniteSet(OpenOn(h) \cup {g})
              /\ Cardinality(OpenOn(h) \cup {g}) \in {Cardinality(OpenOn(h)), Cardinality(OpenOn(h)) + 1}
          BY <2>2, FS_AddElement
        <5>2. Cardinality(OpenOn(h)) \in Nat
          BY <2>2
        <5> QED
          BY <5>1, <5>2
      <4>2. /\ Cardinality(OpenOn(h)') <= Cardinality(OpenOn(h) \cup {g})
            /\ Cardinality(OpenOn(h)') \in Nat
        BY <2>1, <4>1, FS_Subset, FS_CardinalityType
      <4>3. SubsOn(h)' = SubsOn(h) /\ pending'[h] = pending[h] + 1 /\ pending[h] \in Nat
        BY <1>6, <1>10, <2>1
      <4> QED
        BY <2>2, <2>3, <3>1, <4>1, <4>2, <4>3
    <3>2. CASE k # h
      <4>1. Cardinality(OpenOn(k)') <= Cardinality(OpenOn(k)) /\ Cardinality(OpenOn(k)') \in Nat
        BY <2>1, <2>2, <3>2, FS_Subset, FS_CardinalityType
      <4>2. SubsOn(k)' = SubsOn(k) /\ pending'[k] = pending[k] /\ pending[k] \in Nat
        BY <1>6, <1>10, <2>1, <3>2
      <4> QED
        BY <2>2, <2>3, <4>1, <4>2
    <3> QED
      BY <3>1, <3>2
  <2> QED
    BY <2>4 DEF HostsCovered
<1> QED
  BY <1>2, <1>7, <1>8, <1>9, <1>11, <1>12, <1>13, <1>14
-----------------------------------------------------------------------------
(***************************************************************************)
(* The workers give the units back.                                        *)
(***************************************************************************)
\* A worker drops an entry of its task, which nobody else has.
LEMMA EntryDropped ==
    ASSUME ReservationInv, NEW p \in Worker, NEW e \in Guest, e \in work[p],
           UNCHANGED <<host, region, channel, queue>>,
           work'[p] = work[p] \ {e},
           \A q \in Worker : q # p => work'[q] = work[q]
    PROVE  /\ EntriesInOrder'
           /\ ~UnderWay(e)'
           /\ \A x \in Guest : x # e => (UnderWay(x)' <=> UnderWay(x))
           /\ UnderWay(e) /\ region[e] = "done" /\ host[e] \in Host /\ e \notin work[Executor]
<1>1. UnderWay(e) /\ region[e] = "done" /\ host[e] \in Host /\ e \notin work[Executor]
  BY DEF ReservationInv, EntriesInOrder, ExecutorInOrder, UnderWay, InWork
<1>2. \A x \in Guest, q \in Worker : InWork(x, q)' <=> InWork(x, q) /\ ~(x = e /\ q = p)
  BY DEF InWork
<1>3. \A x \in Guest : x # e => (UnderWay(x)' <=> UnderWay(x))
  BY <1>2 DEF UnderWay, InChannel, InQueue
<1>4. /\ ~InChannel(e) /\ \A i \in DOMAIN queue : ~InQueue(e, i)
      /\ \A q \in Worker : InWork(e, q) => q = p
  <2>1. InWork(e, p)
    BY DEF InWork
  <2> QED
    BY <2>1 DEF ReservationInv, EntriesInOrder
<1>5. ~UnderWay(e)'
  BY <1>2, <1>4 DEF UnderWay, InChannel, InQueue
<1>6. EntriesInOrder'
  BY <1>2, <1>3, <1>5 DEF ReservationInv, EntriesInOrder, InChannel, InQueue
<1> QED
  BY <1>1, <1>3, <1>5, <1>6

\* The worker looks for the usage of the entry: from now on its unit is no longer
\* due, and the worker is about to give one back.
LEMMA GetCancelStep ==
    ASSUME ReservationInv, NEW p \in Worker, GetCancelUsage(p)
    PROVE  ReservationInv'
<1> USE NamesAssumption DEF ReservationInv, dbVars, usageVars, queueVars, histVars, Proc, Loader
<1>1. /\ UNCHANGED <<saved, host, region, pending, ids, blank, session, count, members, old, desc,
                     channel, queue, mutex, seen, built, copy, hand, events, base, gap, clash>>
      /\ pc[p] = "cancel"
  BY DEF GetCancelUsage, At
<1>2. PICK e \in work[p] :
         LET u == session[SessionOf[e]][host[e]] IN
         /\ work' = [work EXCEPT ![p] = work[p] \ {e}]
         /\ \/ /\ u = None /\ UNCHANGED ptr
               /\ pc' = [pc EXCEPT ![p] = IF work[p] \ {e} = {} THEN "idle" ELSE "cancel"]
            \/ u # None /\ ptr' = [ptr EXCEPT ![p] = u] /\ pc' = [pc EXCEPT ![p] = "sub"]
  BY DEF GetCancelUsage, GoOn, Goto
<1>3. e \in Guest /\ work[p] \subseteq Guest
  BY <1>1 DEF ProcsInOrder
<1>4. /\ work'[p] = work[p] \ {e}
      /\ \A q \in Proc : q # p => work'[q] = work[q] /\ pc'[q] = pc[q] /\ ptr'[q] = ptr[q]
      /\ pc'[p] \in {"idle", "cancel", "sub"}
      /\ pc' \in [Proc -> PC] /\ work' \in [Proc -> SUBSET (Guest \cup Host)]
  <2>1. /\ pc \in [Proc -> PC] /\ work \in [Proc -> SUBSET (Guest \cup Host)]
        /\ ptr \in [Proc -> Guest \cup {None}]
    BY DEF TypeOK
  <2>2. work'[p] = work[p] \ {e} /\ work' \in [Proc -> SUBSET (Guest \cup Host)]
        /\ \A q \in Proc : q # p => work'[q] = work[q]
    BY <1>2, <2>1
  <2>3. \E to \in {"idle", "cancel", "sub"} : pc' = [pc EXCEPT ![p] = to]
    BY <1>2
  <2>4. \E v : ptr' = [ptr EXCEPT ![p] = v]
    BY <1>2, <2>1
  <2> QED
    BY <2>1, <2>2, <2>3, <2>4 DEF PC
<1>5. /\ EntriesInOrder' /\ ~UnderWay(e)'
      /\ \A x \in Guest : x # e => (UnderWay(x)' <=> UnderWay(x))
      /\ UnderWay(e) /\ region[e] = "done" /\ host[e] \in Host /\ e \notin work[Executor]
  BY <1>1, <1>3, <1>4, EntryDropped
<1>6. PICK s \in Session, h \in Host : s = SessionOf[e] /\ h = host[e]
  BY <1>3, <1>5, GuestAssumption
<1>7. PICK u \in Guest \cup {None} : u = session[s][h]
  BY DEF TypeOK
<1>8. u # None => /\ SessionOf[u] = s /\ host[u] = h /\ ptr'[p] = u /\ pc'[p] = "sub"
                  /\ ptr' = [ptr EXCEPT ![p] = u]
  BY <1>2, <1>6, <1>7 DEF StoreInOrder, TypeOK
<1>9. u = None => ptr' = ptr /\ pc'[p] # "sub"
  BY <1>2, <1>6, <1>7 DEF TypeOK
<1>10. TypeOK'
  <2>1. ptr' \in [Proc -> Guest \cup {None}]
    <3>1. ptr \in [Proc -> Guest \cup {None}]
      BY DEF TypeOK
    <3> QED
      BY <1>7, <1>8, <1>9, <3>1
  <2> QED
    BY <1>1, <1>4, <2>1 DEF TypeOK
<1>11. ProcsInOrder'
  BY <1>1, <1>3, <1>4, <1>7, <1>8, <1>9 DEF ProcsInOrder
<1>12. WorkersHaveRead' /\ (gap' = "none" => LoadedFirst')
  BY <1>1, <1>4 DEF WorkersHaveRead, LoadedFirst
<1>13. \A x \in Guest : /\ Due(x)' <=> Due(x) /\ x # e
                        /\ Due(e)
  BY <1>1, <1>3, <1>5 DEF Due
<1>14. \A k \in Host : Added(k)' = Added(k) /\ Placed(k)' = Placed(k)
  BY <1>1, <1>4 DEF Added, Placed, On
<1>15. CASE u = None
  <2>1. \A q \in Worker : pc'[q] = "sub" => pc[q] = "sub" /\ ptr'[q] = ptr[q]
    BY <1>4, <1>9, <1>15
  <2>2. gap' = "none" => \A k \in Host : (Placed(k) \ base[k])' \subseteq OpenOn(k)
    BY <1>1, <1>14 DEF OpenOn
  <2> QED
    BY <1>1, <1>4, <1>5, <1>10, <1>11, <1>12, <1>13, <2>1, <2>2, QuietStep
<1>16. CASE u # None
  <2>1. StoreInOrder'
    BY <1>1, <1>4 DEF StoreInOrder
  <2>2. ExecutorInOrder' /\ (gap' # "cleared" => FreshCounts' /\ AddStored')
    BY <1>1, <1>4, ExecutorStays
  <2>3. PendingBounded'
    <3>1. \A k : Added(k)' = Added(k)
      BY <1>1, <1>4 DEF Added, On
    <3> QED
      BY <1>1, <1>4, <3>1 DEF PendingBounded
  <2>4. ASSUME gap # "cleared" PROVE SessionsCovered' /\ SubsStored' /\ ReservationsExact'
    <3>1. ReservationsExact'
      <4>1. \A k : Units(k)' = Units(k)
        BY <1>1 DEF Units
      <4> QED
        BY <1>1, <2>4, <4>1 DEF ReservationsExact
    <3>2. SubsStored'
      BY <1>1, <1>4, <1>6, <1>7, <1>8, <1>16, <2>4 DEF SubsStored
    <3>3. ASSUME NEW t \in Session, NEW k \in Host, NEW v \in Guest, v = session[t][k]
          PROVE  /\ Cardinality(DueFor(t, k)') + Cardinality(SubsOf(v)')
                       <= Cardinality(DueFor(t, k)) + Cardinality(SubsOf(v))
                 /\ Cardinality(DueFor(t, k)') + Cardinality(SubsOf(v)') \in Nat
                 /\ Cardinality(DueFor(t, k)) + Cardinality(SubsOf(v)) \in Nat
      <4>1. /\ IsFiniteSet(DueFor(t, k)) /\ Cardinality(DueFor(t, k)) \in Nat
            /\ IsFiniteSet(SubsOf(v)) /\ Cardinality(SubsOf(v)) \in Nat
        <5>1. DueFor(t, k) \in SUBSET Guest /\ SubsOf(v) \in SUBSET Worker
          BY DEF DueFor, DueOn, Added, On, SubsOf
        <5> QED
          BY <5>1, Finite
      <4>2. SessionOf[v] = t /\ host[v] = k
        BY <3>3 DEF StoreInOrder
      <4>3. CASE t = s /\ k = h
        <5>1. v = u
          BY <1>7, <3>3, <4>3
        <5>2. DueFor(t, k)' = DueFor(t, k) \ {e} /\ e \in DueFor(t, k)
          BY <1>3, <1>5, <1>6, <1>13, <1>14, <4>3 DEF DueFor, DueOn, Added, On
        <5>3. SubsOf(v)' = SubsOf(v) \cup {p} /\ p \notin SubsOf(v)
          BY <1>1, <1>4, <1>8, <1>16, <5>1 DEF SubsOf
        <5>4. Cardinality(DueFor(t, k) \ {e}) = Cardinality(DueFor(t, k)) - 1
              /\ Cardinality(DueFor(t, k) \ {e}) \in Nat
          BY <4>1, <5>2, FS_RemoveElement, FS_CardinalityType
        <5>5. Cardinality(SubsOf(v) \cup {p}) = Cardinality(SubsOf(v)) + 1
          BY <4>1, <5>3, FS_AddElement
        <5> QED
          BY <4>1, <5>2, <5>3, <5>4, <5>5
      <4>4. CASE ~(t = s /\ k = h)
        <5>1. DueFor(t, k)' = DueFor(t, k)
          BY <1>6, <1>13, <1>14, <4>4 DEF DueFor, DueOn, Added, On
        <5>2. SubsOf(v)' = SubsOf(v)
          BY <1>1, <1>4, <1>8, <1>16, <4>2, <4>4 DEF SubsOf
        <5> QED
          BY <4>1, <5>1, <5>2
      <4> QED
        BY <4>3, <4>4
    <3>4. SessionsCovered'
      <4> SUFFICES ASSUME NEW t \in Session, NEW k \in Host
                   PROVE  IF session[t][k] = None THEN AddedFor(t, k)' = {}
                          ELSE /\ Cardinality(DueFor(t, k)') + Cardinality(SubsOf(session[t][k])')
                                     <= count[session[t][k]]
                               /\ count[session[t][k]] <= Cardinality(AddedFor(t, k)')
        BY <1>1 DEF SessionsCovered
      <4>1. AddedFor(t, k)' = AddedFor(t, k)
        BY <1>14 DEF AddedFor
      <4>2. CASE session[t][k] = None
        BY <2>4, <4>1, <4>2 DEF SessionsCovered
      <4>3. CASE session[t][k] # None
        <5>1. PICK v \in Guest : v = session[t][k]
          BY <4>3 DEF TypeOK
        <5>2. SubsOf(session[t][k])' = SubsOf(v)'
          BY <1>1, <5>1 DEF SubsOf
        <5>3. /\ Cardinality(DueFor(t, k)) + Cardinality(SubsOf(v)) <= count[v]
              /\ count[v] <= Cardinality(AddedFor(t, k)) /\ count[v] \in Int
          BY <2>4, <4>3, <5>1 DEF SessionsCovered, TypeOK
        <5> QED
          BY <3>3, <4>1, <4>3, <5>1, <5>2, <5>3
      <4> QED
        BY <4>2, <4>3
    <3> QED
      BY <3>1, <3>2, <3>4
  <2>5. ASSUME gap = "none", NEW k \in Host
        PROVE  Cardinality(OpenOn(k)') + Cardinality(SubsOn(k)') <= pending[k]
    <3>1. /\ IsFiniteSet(OpenOn(k)) /\ Cardinality(OpenOn(k)) \in Nat
          /\ IsFiniteSet(SubsOn(k)) /\ Cardinality(SubsOn(k)) \in Nat
      <4>1. OpenOn(k) \in SUBSET Guest /\ SubsOn(k) \in SUBSET Worker
        BY DEF OpenOn, DueOn, Placed, Added, On, SubsOn
      <4> QED
        BY <4>1, Finite
    <3>2. Cardinality(OpenOn(k)) + Cardinality(SubsOn(k)) <= pending[k]
      BY <2>5 DEF HostsCovered
    <3>3. CASE k = h
      <4>1. e \notin Placed(k) \ base[k]
        BY <1>1, <1>5, <1>6, <2>5, <3>3 DEF Placed, LoadedFirst
      <4>2. DueOn(k)' = DueOn(k) \ {e} /\ e \in DueOn(k)
        BY <1>3, <1>5, <1>6, <1>13, <1>14, <3>3 DEF DueOn, Added, On
      <4>3. OpenOn(k)' = OpenOn(k) \ {e} /\ e \in OpenOn(k)
        BY <1>1, <1>14, <4>1, <4>2 DEF OpenOn
      <4>4. SubsOn(k)' = SubsOn(k) \cup {p} /\ p \notin SubsOn(k)
        BY <1>1, <1>4, <1>8, <1>16, <3>3 DEF SubsOn
      <4>5. Cardinality(OpenOn(k) \ {e}) = Cardinality(OpenOn(k)) - 1
        BY <3>1, <4>3, FS_RemoveElement
      <4>6. Cardinality(SubsOn(k) \cup {p}) = Cardinality(SubsOn(k)) + 1
        BY <3>1, <4>4, FS_AddElement
      <4> QED
        BY <3>1, <3>2, <4>3, <4>4, <4>5, <4>6
    <3>4. CASE k # h
      <4>1. DueOn(k)' = DueOn(k)
        BY <1>6, <1>13, <1>14, <3>4 DEF DueOn, Added, On
      <4>2. OpenOn(k)' = OpenOn(k)
        BY <1>1, <1>14, <4>1 DEF OpenOn
      <4>3. SubsOn(k)' = SubsOn(k)
        BY <1>1, <1>4, <1>8, <1>16, <3>4 DEF SubsOn
      <4> QED
        BY <3>2, <4>2, <4>3
    <3> QED
      BY <3>3, <3>4
  <2>6. gap = "none" => HostsCovered'
    BY <1>1, <2>5 DEF HostsCovered
  <2> QED
    BY <1>1, <1>5, <1>10, <1>11, <1>12, <2>1, <2>2, <2>3, <2>4, <2>6
<1> QED
  BY <1>15, <1>16

\* A unit is given back: the count of the session was not 0, nor was the pending
\* usage of the host, unless a session has been cleared.
LEMMA CancelStep ==
    ASSUME ReservationInv, NEW p \in Worker, CancelOne(p)
    PROVE  ReservationInv'
<1> USE NamesAssumption DEF ReservationInv, dbVars, usageVars, queueVars, histVars, Proc, Loader
<1>1. /\ UNCHANGED <<saved, host, region, session, old, desc, channel, queue, mutex, seen, built,
                     copy, events, base, gap>>
      /\ pc[p] = "sub" /\ CancelPendingUsage(ptr[p]) /\ Clash(host[ptr[p]])
      /\ ptr' = [ptr EXCEPT ![p] = None]
      /\ work' = [work EXCEPT ![p] = work[p]]
      /\ pc' = [pc EXCEPT ![p] = IF work[p] = {} THEN "idle" ELSE "cancel"]
  BY DEF CancelOne, At, GoOn, Goto
<1>2. PICK u \in Guest, h \in Host, s \in Session :
         u = ptr[p] /\ h = host[u] /\ s = SessionOf[u]
  BY <1>1, GuestAssumption DEF ProcsInOrder
<1>3. /\ pending' \in [Host -> 0 .. Cardinality(Guest)] /\ ids' \in [Host -> SUBSET Guest]
      /\ count' \in [Guest -> Int] /\ members' \in [Guest -> SUBSET Guest]
      /\ \A k \in Host : k # h => pending'[k] = pending[k]
      /\ \A x \in Guest : x # u => count'[x] = count[x]
      /\ pending[h] = 0 => pending'[h] = 0
      /\ pending[h] # 0 => pending'[h] = pending[h] - 1 /\ count'[u] = count[u] - 1
      /\ blank' \subseteq Host /\ hand' \in Usage /\ hand'.units = hand.units
  BY <1>1, <1>2, CancelEffect
<1>4. /\ work' = work /\ pc'[p] \in {"idle", "cancel"} /\ pc' \in [Proc -> PC]
      /\ ptr' \in [Proc -> Guest \cup {None}]
      /\ \A q \in Proc : q # p => pc'[q] = pc[q] /\ ptr'[q] = ptr[q]
  BY <1>1 DEF TypeOK, PC
<1>5. TypeOK'
  <2>1. clash' \subseteq Host
    BY <1>1, <1>2 DEF TypeOK, Clash
  <2> QED
    BY <1>1, <1>3, <1>4, <2>1 DEF TypeOK
<1>6. EntriesInOrder'
  BY <1>1, <1>4, EntriesStay
<1>7. ProcsInOrder'
  BY <1>1, <1>4 DEF ProcsInOrder
<1>8. StoreInOrder' /\ ExecutorInOrder'
  BY <1>1, <1>4, ExecutorStays DEF StoreInOrder
<1>9. WorkersHaveRead' /\ (gap' = "none" => LoadedFirst')
  BY <1>1, <1>4 DEF WorkersHaveRead, LoadedFirst
<1>10. /\ \A k : Added(k)' = Added(k) /\ DueOn(k)' = DueOn(k) /\ OpenOn(k)' = OpenOn(k)
       /\ \A t, k : AddedFor(t, k)' = AddedFor(t, k) /\ DueFor(t, k)' = DueFor(t, k)
  <2>1. \A x : UnderWay(x)' <=> UnderWay(x)
    BY <1>1, <1>4 DEF UnderWay, InChannel, InQueue, InWork
  <2>2. \A k : Added(k)' = Added(k) /\ Placed(k)' = Placed(k)
    BY <1>1, <1>4 DEF Added, Placed, On
  <2>3. \A k : DueOn(k)' = DueOn(k)
    BY <1>1, <2>1, <2>2 DEF DueOn, Due
  <2> QED
    BY <1>1, <2>2, <2>3 DEF OpenOn, AddedFor, DueFor
<1>11. \A k \in Host : /\ pending[k] \in Nat /\ pending'[k] <= pending[k]
                       /\ Cardinality(Added(k)) \in Nat /\ pending[k] <= Cardinality(Added(k))
  <2>1. \A k \in Host : pending[k] \in 0 .. Cardinality(Guest) /\ Added(k) \in SUBSET Guest
    BY DEF TypeOK, Added, On
  <2>2. \A k \in Host : pending[k] \in Nat /\ Cardinality(Added(k)) \in Nat
    BY <2>1, Finite
  <2> QED
    BY <1>3, <2>2 DEF PendingBounded
<1>12. PendingBounded'
  <2>1. \A k \in Host : pending'[k] <= Cardinality(Added(k))
    <3>1. \A k \in Host : pending'[k] \in 0 .. Cardinality(Guest)
      BY <1>3
    <3> QED
      BY <1>11, <3>1
  <2> QED
    BY <1>1, <1>3, <1>4, <1>10, <2>1 DEF PendingBounded
<1>13. CASE gap = "cleared"
  BY <1>1, <1>5, <1>6, <1>7, <1>8, <1>9, <1>12, <1>13, ClearedStep
<1>14. CASE gap # "cleared"
  <2>1. session[s][h] = u /\ u # None
    BY <1>1, <1>2, <1>14 DEF SubsStored
  <2>2. /\ IsFiniteSet(SubsOf(u)) /\ Cardinality(SubsOf(u)) \in Nat
        /\ p \in SubsOf(u) /\ Cardinality(SubsOf(u)) # 0
        /\ Cardinality(DueFor(s, h)) \in Nat /\ Cardinality(AddedFor(s, h)) \in Nat
        /\ Cardinality(AddedFor(s, h)) <= Cardinality(Guest) /\ Cardinality(Guest) \in Nat
    <3>1. /\ SubsOf(u) \in SUBSET Worker /\ p \in SubsOf(u)
          /\ DueFor(s, h) \in SUBSET Guest /\ AddedFor(s, h) \in SUBSET Guest
      BY <1>1, <1>2 DEF SubsOf, DueFor, AddedFor, DueOn, Added, On
    <3>2. IsFiniteSet(SubsOf(u)) /\ Cardinality(SubsOf(u)) # 0
      BY <3>1, Finite, FS_EmptySet
    <3>3. Cardinality(AddedFor(s, h)) <= Cardinality(Guest)
      BY <3>1, FiniteAssumption, FS_Subset
    <3> QED
      BY <3>1, <3>2, <3>3, Finite
  <2>3. /\ count[u] \in 1 .. Cardinality(Guest)
        /\ Cardinality(DueFor(s, h)) + Cardinality(SubsOf(u)) <= count[u]
        /\ count[u] <= Cardinality(AddedFor(s, h))
    <3>1. /\ Cardinality(DueFor(s, h)) + Cardinality(SubsOf(u)) <= count[u]
          /\ count[u] <= Cardinality(AddedFor(s, h)) /\ count[u] \in Int
      BY <1>14, <2>1 DEF SessionsCovered, TypeOK
    <3> QED
      BY <2>2, <3>1
  <2>4. pending[h] = Cardinality(Units(h)) /\ pending[h] # 0
    <3>1. pending[h] = Cardinality(Units(h))
      BY <1>14 DEF ReservationsExact
    <3>2. <<s, 1>> \in Units(h)
      BY <2>1, <2>2, <2>3 DEF Units
    <3>3. IsFiniteSet(Units(h))
      BY Finite
    <3> QED
      BY <3>1, <3>2, <3>3, FS_EmptySet
  <2>5. pending'[h] = pending[h] - 1 /\ count'[u] = count[u] - 1
    BY <1>3, <2>4
  <2>6. ReservationsExact'
    <3>1. /\ \A k \in Host : k # h => Units(k)' = Units(k)
          /\ Cardinality(Units(h)') = Cardinality(Units(h)) - 1
      BY <1>1, <1>2, <1>3, <1>5, <2>1, <2>3, <2>5, UnitsShrink
    <3>2. \A k \in Host : pending[k] = Cardinality(Units(k))
      BY <1>14 DEF ReservationsExact
    <3>3. ASSUME NEW k \in Host PROVE pending'[k] = Cardinality(Units(k)')
      <4>1. CASE k = h
        BY <2>5, <3>1, <3>2, <4>1
      <4>2. CASE k # h
        BY <1>3, <3>1, <3>2, <4>2
      <4> QED
        BY <4>1, <4>2
    <3> QED
      BY <3>3 DEF ReservationsExact
  <2>7. /\ SubsOf(u)' = SubsOf(u) \ {p}
        /\ \A v \in Guest : v # u => SubsOf(v)' = SubsOf(v)
    BY <1>1, <1>2, <1>4 DEF SubsOf
  <2>8. SessionsCovered'
    <3> SUFFICES ASSUME NEW t \in Session, NEW k \in Host
                 PROVE  IF session[t][k] = None THEN AddedFor(t, k) = {}
                        ELSE /\ Cardinality(DueFor(t, k)) + Cardinality(SubsOf(session[t][k])')
                                   <= count'[session[t][k]]
                             /\ count'[session[t][k]] <= Cardinality(AddedFor(t, k))
      BY <1>1, <1>10 DEF SessionsCovered
    <3>1. CASE session[t][k] = None
      BY <1>14, <3>1 DEF SessionsCovered
    <3>2. CASE session[t][k] # None
      <4>1. PICK v \in Guest : v = session[t][k]
        BY <3>2 DEF TypeOK
      <4>2. SubsOf(session[t][k])' = SubsOf(v)' /\ SessionOf[v] = t /\ host[v] = k
        BY <1>1, <3>2, <4>1 DEF SubsOf, StoreInOrder
      <4>3. CASE v = u
        <5>1. Cardinality(SubsOf(u) \ {p}) = Cardinality(SubsOf(u)) - 1
          BY <2>2, FS_RemoveElement
        <5>2. t = s /\ k = h
          BY <1>2, <4>2, <4>3
        <5>3. /\ Cardinality(DueFor(s, h)) + Cardinality(SubsOf(u)') <= count'[u]
              /\ count'[u] <= Cardinality(AddedFor(s, h))
          BY <2>2, <2>3, <2>5, <2>7, <5>1
        <5> QED
          BY <3>2, <4>1, <4>2, <4>3, <5>2, <5>3
      <4>4. CASE v # u
        <5>1. /\ Cardinality(DueFor(t, k)) + Cardinality(SubsOf(v)) <= count[v]
              /\ count[v] <= Cardinality(AddedFor(t, k))
          BY <1>14, <3>2, <4>1 DEF SessionsCovered
        <5> QED
          BY <1>3, <2>7, <3>2, <4>1, <4>2, <4>4, <5>1
      <4> QED
        BY <4>3, <4>4
    <3> QED
      BY <3>1, <3>2
  <2>9. FreshCounts' /\ AddStored' /\ SubsStored'
    <3>1. host[u] # None /\ u \notin work[Executor]
      BY <1>2, <2>1 DEF StoreInOrder
    <3>2. FreshCounts'
      BY <1>1, <1>3, <1>4, <1>14, <3>1 DEF FreshCounts
    <3>3. AddStored'
      BY <1>1, <1>4, <1>14 DEF AddStored
    <3>4. SubsStored'
      BY <1>1, <1>4, <1>14 DEF SubsStored
    <3> QED
      BY <3>2, <3>3, <3>4
  <2>10. ASSUME gap = "none" PROVE HostsCovered'
    <3> SUFFICES ASSUME NEW k \in Host
                 PROVE  Cardinality(OpenOn(k)) + Cardinality(SubsOn(k)') <= pending'[k]
      BY <1>10 DEF HostsCovered
    <3>1. /\ Cardinality(OpenOn(k)) \in Nat
          /\ IsFiniteSet(SubsOn(k)) /\ Cardinality(SubsOn(k)) \in Nat
      <4>1. OpenOn(k) \in SUBSET Guest /\ SubsOn(k) \in SUBSET Worker
        BY DEF OpenOn, DueOn, Placed, Added, On, SubsOn
      <4> QED
        BY <4>1, Finite
    <3>2. Cardinality(OpenOn(k)) + Cardinality(SubsOn(k)) <= pending[k]
      BY <2>10 DEF HostsCovered
    <3>3. CASE k = h
      <4>1. SubsOn(k)' = SubsOn(k) \ {p} /\ p \in SubsOn(k)
        BY <1>1, <1>2, <1>4, <3>3 DEF SubsOn
      <4>2. Cardinality(SubsOn(k) \ {p}) = Cardinality(SubsOn(k)) - 1
        BY <3>1, <4>1, FS_RemoveElement
      <4> QED
        BY <1>11, <2>5, <3>1, <3>2, <3>3, <4>1, <4>2
    <3>4. CASE k # h
      <4>1. SubsOn(k)' = SubsOn(k)
        BY <1>1, <1>2, <1>4, <3>4 DEF SubsOn
      <4> QED
        BY <1>3, <3>2, <3>4, <4>1
    <3> QED
      BY <3>3, <3>4
  <2> QED
    BY <1>1, <1>5, <1>6, <1>7, <1>8, <1>9, <1>12, <2>6, <2>8, <2>9, <2>10
<1> QED
  BY <1>13, <1>14
-----------------------------------------------------------------------------
\* Every step preserves the invariant.
LEMMA NextInv == ReservationInv /\ [Next]_vars => ReservationInv'
<1> SUFFICES ASSUME ReservationInv, [Next]_vars PROVE ReservationInv'
  OBVIOUS
<1>1. ASSUME NEW s \in Session, Candidates(s) PROVE ReservationInv'
  BY <1>1, CandidatesStep
<1>2. CASE Execute
  BY <1>2, ScheduleStep, LookupStep, AddStep DEF Execute
<1>3. ASSUME NEW g \in Guest, Answer(g) PROVE ReservationInv'
  BY <1>3, SaveStep, SendStep DEF Answer
<1>4. ASSUME NEW h \in Host, ClearSchedDescCache(h) PROVE ReservationInv'
  BY <1>4, ExpireStep
<1>5. CASE batchMergeExpire
  BY <1>5, MergeStep
<1>6. ASSUME NEW p \in Worker, processTask(p) \/ Cancel(p) PROVE ReservationInv'
  BY <1>6, TakeStep, GetCancelStep, CancelStep DEF Cancel
<1>7. CASE ReloadAll
  BY <1>7, ReloadAllStep
<1>8. ASSUME NEW p \in Loader, Load(p) \/ LoadFails(p) PROVE ReservationInv'
  BY <1>8, ReadStep, BuildStep, StoreStep, FailStep DEF Load
<1>9. CASE Clear
  BY <1>9, ClearAllStep, ClearStep, ClearSubStep, ClearHostStep, ClearSessionStep DEF Clear
<1>10. CASE Collect
  BY <1>10, CollectStep, GCCancelStep, GCDeleteStep DEF Collect
<1>11. CASE UNCHANGED vars
  <2>1. /\ UNCHANGED <<saved, host, region, pending, ids, blank, session, count, members, old, desc>>
        /\ UNCHANGED <<channel, queue, mutex, pc, work, ptr, seen, built, copy, hand>>
        /\ UNCHANGED <<events, base, gap, clash>>
    BY <1>11 DEF vars, dbVars, usageVars, queueVars, histVars
  <2> HIDE <1>11
  <2>2. TypeOK' /\ ProcsInOrder' /\ WorkersHaveRead' /\ (gap' = "none" => LoadedFirst')
    BY <2>1 DEF ReservationInv, TypeOK, ProcsInOrder, WorkersHaveRead, LoadedFirst
  <2>3. EntriesInOrder'
    BY <2>1, EntriesStay DEF ReservationInv
  <2>4. \A x \in Guest : Due(x)' => Due(x)
    BY <2>1 DEF Due, UnderWay, InChannel, InQueue, InWork
  <2>5. \A h \in Host : (Placed(h) \ base[h])' \subseteq OpenOn(h)
    BY <2>1 DEF OpenOn, Placed, On
  <2> QED
    BY <2>1, <2>2, <2>3, <2>4, <2>5, QuietStep
<1> QED
  BY <1>1, <1>2, <1>3, <1>4, <1>5, <1>6, <1>7, <1>8, <1>9, <1>10, <1>11 DEF Next

\* The inductive invariant holds, whatever the order in which the executor adds,
\* the workers, the cleanup and the collector give back, and the loaders load.
THEOREM ReservationInvariant == Spec => []ReservationInv
<1>1. Init => ReservationInv
  BY InitInv
<1>2. ReservationInv /\ [Next]_vars => ReservationInv'
  BY NextInv
<1> QED
  BY <1>1, <1>2, PTL DEF Spec

\* Type correctness; in particular the pending usage of a host never becomes
\* negative and the queue of the workers never exceeds ExpireQueueMaxLength.
THEOREM TypeCorrect == Spec => []TypeOK
<1>1. ReservationInv => TypeOK
  BY DEF ReservationInv
<1> QED
  BY <1>1, ReservationInvariant, PTL

\* The pending usage of a host is the sum of what its sessions have reserved
\* (AddPendingUsage) and not given back (CancelPendingUsage), until a cleanup or
\* the collector clears a session.
THEOREM Exact == Spec => []ReservationsExact
<1>1. ReservationInv => ReservationsExact
  BY DEF ReservationInv, ReservationsExact
<1> QED
  BY <1>1, ReservationInvariant, PTL

\* Reload before cancel: a guest placed on a host was in the database when the
\* cached description was made, or its unit is still reserved, in whatever order the
\* two workers reload and cancel.  The premise, gap = "none": no worker's load has
\* failed, no load has been stored over one that read the database later, and no
\* session has been cleared.
THEOREM ReloadFirst == Spec => []ReloadBeforeCancel
<1>1. ASSUME ReservationInv PROVE ReloadBeforeCancel
  <2> SUFFICES ASSUME gap = "none", NEW h \in Host
               PROVE  Cardinality(Placed(h) \ base[h]) <= pending[h]
    BY DEF ReloadBeforeCancel
  <2>1. OpenOn(h) \in SUBSET Guest /\ SubsOn(h) \in SUBSET Worker
    BY DEF OpenOn, DueOn, Placed, Added, On, SubsOn
  <2>2. /\ IsFiniteSet(OpenOn(h)) /\ Cardinality(OpenOn(h)) \in Nat
        /\ Cardinality(SubsOn(h)) \in Nat
    BY <1>1, <2>1, Finite DEF ReservationInv
  <2>3. Placed(h) \ base[h] \subseteq OpenOn(h)
    BY DEF OpenOn
  <2>4. /\ Cardinality(Placed(h) \ base[h]) <= Cardinality(OpenOn(h))
        /\ Cardinality(Placed(h) \ base[h]) \in Nat
    BY <2>2, <2>3, FS_Subset, FS_CardinalityType
  <2>5. /\ Cardinality(OpenOn(h)) + Cardinality(SubsOn(h)) <= pending[h]
        /\ pending[h] \in Int
    <3>1. pending[h] \in 0 .. Cardinality(Guest) /\ Cardinality(Guest) \in Nat
      BY <1>1, Finite DEF ReservationInv, TypeOK
    <3> QED
      BY <1>1, <3>1 DEF ReservationInv, HostsCovered
  <2> QED
    BY <2>2, <2>4, <2>5
<1> QED
  BY <1>1, ReservationInvariant, PTL
=============================================================================
