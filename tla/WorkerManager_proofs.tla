------------------------ MODULE WorkerManager_proofs ------------------------
(***************************************************************************)
(* Proofs about WorkerManager, for any tasks, workers, worker count and    *)
(* backlog.                                                                *)
(***************************************************************************)
EXTENDS WorkerManager, FiniteSetTheorems, TLAPS

\* The ring has a natural number of places.
LEMMA CapacityType == Capacity \in Nat
  BY CountAssumption DEF Capacity

\* A manager starts without tasks and without workers.
LEMMA InitInv == Init => WorkerInv
<1> SUFFICES ASSUME Init PROVE WorkerInv
  OBVIOUS
<1> USE NoneAssumption, CountAssumption DEF Init
<1>1. TypeOK
  <2>1. queue \in Seq(Task) /\ Len(queue) <= Capacity
    BY CapacityType
  <2>2. closed \in [Task -> BOOLEAN] /\ dead \in BOOLEAN
    BY Zenon
  <2>3. active \in SUBSET Worker
    OBVIOUS
  <2> QED
    BY <2>1, <2>2, <2>3 DEF TypeOK, WorkerPC, CallerPC
<1>2. IsFiniteSet(active) /\ Cardinality(active) = 0
  BY FS_EmptySet
<1>3. ActiveListExact
  BY <1>2 DEF ActiveListExact, Alive
<1>4. RemovableWorkers /\ WorkersInOrder
  BY DEF RemovableWorkers, WorkersInOrder, Alive
<1>5. NoTaskLostOrRunTwice
  BY DEF NoTaskLostOrRunTwice, Queued, InHand, Accepted
<1> QED
  BY <1>1, <1>2, <1>3, <1>4, <1>5 DEF WorkerInv

\* Steps that leave the queue, the hands and the counts alone, and do not
\* change whether a task was accepted, keep every task where it is.
LEMMA TasksStay ==
    ASSUME NoTaskLostOrRunTwice, UNCHANGED <<queue, cur, runs>>,
           \A t \in Task : Accepted(t)' = Accepted(t)
    PROVE  NoTaskLostOrRunTwice'
  BY DEF NoTaskLostOrRunTwice, Queued, InHand

\* Steps that leave the lists and the lives of the workers alone.
LEMMA ListsStay ==
    ASSUME WorkerInv, UNCHANGED listVars,
           \A w \in Worker : Alive(w)' = Alive(w)
    PROVE  /\ IsFiniteSet(active)' /\ ActiveListExact' /\ RemovableWorkers'
           /\ \A w \in Worker : ~Alive(w)' => container'[w] = "nil"
  BY DEF WorkerInv, listVars, ActiveListExact, RemovableWorkers, WorkersInOrder

\* The lists after scheduleWithLock has possibly started a worker.
Scheduled(conts, states) ==
    /\ IsFiniteSet(active') /\ Cardinality(active') <= workerCount
    /\ active' = {w \in Worker : Alive(w)' /\ wstate'[w] = "active"}
    /\ wpc' \in [Worker -> WorkerPC] /\ wtask' \in [Worker -> Task \cup {None}]
    /\ wstate' \in [Worker -> {"active", "detach"}]
    /\ container' \in [Worker -> {"nil", "active", "detached"}]
    /\ active' \subseteq Worker
    /\ \A w \in Worker :
          \/ /\ wpc'[w] = wpc[w]
             /\ container'[w] = conts[w] /\ wstate'[w] = states[w]
          \/ /\ wpc[w] = "gone" /\ wpc'[w] = "top"
             /\ container'[w] = "active" /\ wstate'[w] = "active"

\* What scheduleWithLock does to lists that are in order.
LEMMA ScheduleLists ==
    ASSUME WorkerInv,
           NEW acts \in SUBSET Worker,
           NEW conts \in [Worker -> {"nil", "active", "detached"}],
           NEW states \in [Worker -> {"active", "detach"}],
           acts \subseteq active,
           acts = {w \in Worker : Alive(w) /\ states[w] = "active"},
           NEW ok \in BOOLEAN, scheduleWithLock(acts, conts, states, ok)
    PROVE  Scheduled(conts, states)
<1>1. IsFiniteSet(acts) /\ Cardinality(acts) <= Cardinality(active)
  BY FS_Subset DEF WorkerInv
<1>2. Cardinality(acts) \in Nat /\ Cardinality(acts) <= workerCount
  BY <1>1, FS_CardinalityType, CountAssumption DEF WorkerInv, ActiveListExact
<1>3. CASE HasRoom(acts) /\ queue # <<>>
  <2>1. PICK w \in Worker :
              /\ Unreferenced(w)
              /\ active' = acts \cup {w}
              /\ container' = [conts EXCEPT ![w] = "active"]
              /\ wstate' = [states EXCEPT ![w] = "active"]
              /\ wtask' = [wtask EXCEPT ![w] = None]
              /\ wpc' = [wpc EXCEPT ![w] = "top"]
    BY <1>3 DEF scheduleWithLock
  <2>2. wpc[w] = "gone" /\ w \notin acts
    BY <2>1 DEF Unreferenced, Alive
  <2>3. IsFiniteSet(active') /\ Cardinality(active') = Cardinality(acts) + 1
    BY <2>1, <2>2, <1>1, FS_AddElement
  <2>4. Cardinality(active') <= workerCount
    BY <2>3, <1>2, <1>3, CountAssumption DEF HasRoom
  <2>5. active' = {x \in Worker : Alive(x)' /\ wstate'[x] = "active"}
    BY <2>1, <2>2 DEF Alive, WorkerInv, TypeOK
  <2> QED
    BY <2>1, <2>2, <2>3, <2>4, <2>5 DEF WorkerInv, TypeOK, WorkerPC, Scheduled
<1>4. CASE ~(HasRoom(acts) /\ queue # <<>>)
  BY <1>1, <1>2, <1>4 DEF scheduleWithLock, Alive, WorkerInv, TypeOK, Scheduled
<1> QED
  BY <1>3, <1>4

\* Every step of a caller or a worker keeps the lists and the tasks in order.
LEMMA NextInv == WorkerInv /\ [Next]_vars => WorkerInv'
<1> SUFFICES ASSUME WorkerInv, [Next]_vars PROVE WorkerInv'
  OBVIOUS
<1> USE NoneAssumption, CountAssumption, TaskAssumption, CapacityType
<1>0. TypeOK
  BY DEF WorkerInv
<1>1. ASSUME NEW t \in Task, Push(t) PROVE WorkerInv'
  <2>1. TypeOK'
    <3>1. queue' \in Seq(Task) /\ Len(queue') <= Capacity
      <4>1. CASE Len(queue) < Capacity
        <5>1. queue' = Append(queue, t) /\ queue \in Seq(Task)
          BY <1>0, <1>1, <4>1 DEF Push, TypeOK
        <5> QED
          BY <5>1, <4>1
      <4>2. CASE ~(Len(queue) < Capacity)
        BY <1>0, <1>1, <4>2 DEF Push, TypeOK
      <4> QED
        BY <4>1, <4>2
    <3>2. cpc' \in [Task -> CallerPC]
      BY <1>0, <1>1 DEF Push, CallerGoto, TypeOK, CallerPC
    <3>3. UNCHANGED <<listVars, wpc, cur, wtask, chan, seen, closed, runs, dead>>
      BY <1>1 DEF Push
    <3> QED
      BY <3>1, <3>2, <3>3, <1>0 DEF TypeOK, listVars
  <2>2. UNCHANGED listVars /\ UNCHANGED <<wpc, cur, runs>>
    BY <1>1 DEF Push
  <2>3. IsFiniteSet(active)' /\ ActiveListExact' /\ RemovableWorkers' /\ WorkersInOrder'
    BY <2>2, ListsStay DEF Alive, WorkersInOrder, WorkerInv
  <2>4. NoTaskLostOrRunTwice'
    <3>0. cpc[t] = "new" /\ ~Accepted(t) /\ ~Queued(t) /\ ~InHand(t) /\ runs[t] = 0
      BY <1>1 DEF Push, CallerAt, Accepted, WorkerInv, NoTaskLostOrRunTwice
    <3>1. CASE queue' = queue
      <4>1. cpc' = [cpc EXCEPT ![t] = "full"]
        BY <1>0, <1>1, <3>1 DEF Push, CallerGoto, TypeOK
      <4>2. \A u \in Task : Accepted(u)' = Accepted(u)
        BY <4>1, <3>0, <1>0 DEF Accepted, TypeOK
      <4> QED
        BY <4>2, <3>1, <2>2, TasksStay DEF WorkerInv
    <3>2. CASE queue' = Append(queue, t) /\ cpc' = [cpc EXCEPT ![t] = "pushed"]
      <4>1. /\ Len(queue') = Len(queue) + 1 /\ queue'[Len(queue) + 1] = t
            /\ \A i \in 1 .. Len(queue) : queue'[i] = queue[i]
        BY <3>2, <1>0 DEF TypeOK
      <4>2. \A u \in Task : /\ Queued(u)' <=> (Queued(u) \/ u = t)
                            /\ Accepted(u)' <=> (Accepted(u) \/ u = t)
                            /\ InHand(u)' <=> InHand(u)
        BY <4>1, <3>2, <2>2, <1>0 DEF Queued, Accepted, InHand, TypeOK
      <4>3. \A i, j \in 1 .. Len(queue') : queue'[i] = queue'[j] => i = j
        <5>1. Len(queue) \in Nat
          BY <1>0 DEF TypeOK
        <5>2. \A i \in 1 .. Len(queue) : queue[i] # t
          BY <3>0 DEF Queued
        <5>3. \A i, j \in 1 .. Len(queue) : queue[i] = queue[j] => i = j
          BY DEF WorkerInv, NoTaskLostOrRunTwice
        <5> QED
          BY ONLY <5>1, <5>2, <5>3, <4>1
      <4> QED
        BY <4>2, <4>3, <3>0, <2>2 DEF WorkerInv, NoTaskLostOrRunTwice
    <3> QED
      BY <3>1, <3>2, <1>1 DEF Push, CallerGoto
  <2> QED
    BY <2>1, <2>3, <2>4 DEF WorkerInv
<1>2. ASSUME NEW t \in Task, schedule(t) PROVE WorkerInv'
  <2>1. PICK ok \in BOOLEAN :
           /\ scheduleWithLock(active, container, wstate, ok)
           /\ IF ok THEN /\ CallerGoto(t, IF t \in Background THEN "left" ELSE "wait")
                         /\ UNCHANGED dead
                    ELSE CallerPanics(t)
    BY <1>2 DEF schedule
  <2>2. UNCHANGED <<queue, detached, cur, chan, seen, closed, runs>> /\ cpc[t] = "pushed"
    BY <1>2 DEF schedule, CallerAt
  <2>3. cpc' \in [Task -> CallerPC] /\ dead' \in BOOLEAN
    <3>1. cpc' \in [Task -> CallerPC]
      BY <2>1, <1>0 DEF CallerGoto, CallerPanics, TypeOK, CallerPC
    <3>2. dead' = dead \/ dead' = TRUE
      BY <2>1 DEF CallerPanics
    <3>3. dead' \in BOOLEAN
      BY <3>2, <1>0 DEF TypeOK
    <3> QED
      BY <3>1, <3>3
  <2>4. \A u \in Task : Accepted(u)' = Accepted(u)
    BY <2>1, <2>2, <1>0 DEF CallerGoto, CallerPanics, TypeOK, Accepted
  <2>5. NoTaskLostOrRunTwice'
    BY <2>2, <2>4, TasksStay DEF WorkerInv
  <2>6. Scheduled(container, wstate)
    <3>1. PICK acts \in SUBSET Worker,
               conts \in [Worker -> {"nil", "active", "detached"}],
               states \in [Worker -> {"active", "detach"}] :
                  acts = active /\ conts = container /\ states = wstate
      BY <1>0 DEF TypeOK
    <3>2. scheduleWithLock(acts, conts, states, ok)
      BY <2>1, <3>1 DEF scheduleWithLock, HasRoom, StuckLog
    <3>3. acts \subseteq active /\ acts = {w \in Worker : Alive(w) /\ states[w] = "active"}
      BY <3>1 DEF WorkerInv, ActiveListExact
    <3>4. Scheduled(conts, states)
      BY <3>2, <3>3, ScheduleLists
    <3> QED
      BY <3>1, <3>4 DEF Scheduled
  <2>7. TypeOK'
    BY <2>2, <2>3, <2>6, <1>0 DEF TypeOK, Scheduled
  <2>8. RemovableWorkers' /\ WorkersInOrder'
    BY <2>2, <2>6 DEF RemovableWorkers, WorkersInOrder, Alive, WorkerInv, Scheduled
  <2> QED
    BY <2>5, <2>6, <2>7, <2>8 DEF WorkerInv, ActiveListExact, Scheduled
<1>3. ASSUME NEW t \in Task, Receive(t) \/ Answered(t) \/ TimeoutQueued(t) PROVE WorkerInv'
  <2>1. UNCHANGED listVars /\ UNCHANGED <<queue, wpc, cur, wtask, runs, dead>>
    BY <1>3 DEF Receive, Answered, TimeoutQueued
  <2>2. TypeOK'
    <3>1. cpc' \in [Task -> CallerPC]
      BY <1>0, <1>3 DEF Receive, Answered, TimeoutQueued, CallerGoto, TypeOK, CallerPC
    <3>2. chan' \in [Task -> Worker \cup {None}] /\ seen' \in [Task -> Worker \cup {None}]
      BY <1>0, <1>3 DEF Receive, Answered, TimeoutQueued, Leave, TypeOK
    <3>3. closed' = closed \/ closed' = [closed EXCEPT ![t] = TRUE]
      BY <1>3 DEF Receive, Answered, TimeoutQueued
    <3>4. closed' \in [Task -> BOOLEAN]
      BY <3>3, <1>0 DEF TypeOK
    <3> QED
      BY <2>1, <3>1, <3>2, <3>4, <1>0 DEF TypeOK, listVars
  <2>3. \A u \in Task : Accepted(u)' = Accepted(u)
    BY <1>0, <1>3
       DEF Receive, Answered, TimeoutQueued, CallerGoto, CallerAt, Accepted, TypeOK
  <2>4. NoTaskLostOrRunTwice'
    BY <2>1, <2>3, TasksStay DEF WorkerInv
  <2>5. IsFiniteSet(active)' /\ ActiveListExact' /\ RemovableWorkers' /\ WorkersInOrder'
    BY <2>1, ListsStay DEF Alive, WorkersInOrder, WorkerInv
  <2> QED
    BY <2>2, <2>4, <2>5 DEF WorkerInv
<1>4. ASSUME NEW t \in Task, DetachGone(t) PROVE WorkerInv'
  <2>1. PICK w \in Worker : w = seen[t]
    BY <1>0, <1>4 DEF DetachGone, TypeOK
  <2>2. /\ container[w] = "nil" /\ cpc[t] = "wait"
        /\ wstate' = [wstate EXCEPT ![w] = "detach"]
        /\ UNCHANGED <<queue, active, detached, container, wpc, cur, wtask, closed, runs>>
        /\ cpc' = [cpc EXCEPT ![t] = "panicked"]
    BY <1>4, <2>1 DEF DetachGone, MarkDetached, CallerAt, CallerPanics, CallerGoto
  <2>3. wpc[w] = "gone"
    BY <2>2 DEF WorkerInv, RemovableWorkers, Alive
  <2>4. TypeOK'
    BY <2>2, <1>0, <1>4 DEF DetachGone, CallerPanics, Leave, TypeOK, CallerPC
  <2>5. \A u \in Task : Accepted(u)' = Accepted(u)
    BY <2>2, <1>0 DEF Accepted, TypeOK
  <2>6. NoTaskLostOrRunTwice'
    BY <2>2, <2>5, TasksStay DEF WorkerInv
  <2>7. ActiveListExact' /\ RemovableWorkers' /\ WorkersInOrder'
    BY <2>2, <2>3, <1>0
       DEF WorkerInv, ActiveListExact, RemovableWorkers, WorkersInOrder, Alive, TypeOK
  <2> QED
    BY <2>2, <2>4, <2>6, <2>7 DEF WorkerInv
<1>5. ASSUME NEW t \in Task, Detach(t) PROVE WorkerInv'
  <2>1. PICK w \in Worker : w = seen[t]
    BY <1>0, <1>5 DEF Detach, TypeOK
  <2> DEFINE acts == IF container[w] = "active" THEN active \ {w} ELSE active
             conts == [container EXCEPT ![w] = "detached"]
             states == [wstate EXCEPT ![w] = "detach"]
  <2>2. /\ cpc[t] = "wait" /\ container[w] # "nil"
        /\ detached' = [detached EXCEPT ![w] = @ + 1]
        /\ UNCHANGED <<queue, cur, runs>>
    BY <1>5, <2>1 DEF Detach, CallerAt
  <2>3. PICK ok \in BOOLEAN :
          /\ \/ /\ active' = acts /\ container' = conts /\ wstate' = states
                /\ UNCHANGED <<wtask, wpc>>
             \/ scheduleWithLock(acts, conts, states, ok)
          /\ IF ok THEN /\ CallerGoto(t, "left")
                        /\ closed' = [closed EXCEPT ![t] = TRUE]
                        /\ UNCHANGED dead
                   ELSE /\ CallerPanics(t)
                        /\ UNCHANGED closed
    BY <1>5, <2>1 DEF Detach, MarkDetached
  <2>4. Alive(w) /\ wpc[w] # "gone"
    BY <2>2 DEF WorkerInv, WorkersInOrder, Alive
  <2>5. /\ conts \in [Worker -> {"nil", "active", "detached"}]
        /\ states \in [Worker -> {"active", "detach"}]
        /\ acts \subseteq active
    BY <1>0 DEF TypeOK
  <2>6. acts = {x \in Worker : Alive(x) /\ states[x] = "active"}
    BY <2>4, <1>0 DEF WorkerInv, ActiveListExact, RemovableWorkers, TypeOK
  <2>7. Scheduled(conts, states)
    <3>1. CASE scheduleWithLock(acts, conts, states, ok)
      <4> HIDE DEF acts, conts, states
      <4>1. PICK acts0 \in SUBSET Worker,
                 conts0 \in [Worker -> {"nil", "active", "detached"}],
                 states0 \in [Worker -> {"active", "detach"}] :
                    acts0 = acts /\ conts0 = conts /\ states0 = states
        BY <2>5, <1>0 DEF TypeOK
      <4>2. scheduleWithLock(acts0, conts0, states0, ok)
        BY <3>1, <4>1 DEF scheduleWithLock, HasRoom, StuckLog
      <4>3. acts0 \subseteq active /\ acts0 = {x \in Worker : Alive(x) /\ states0[x] = "active"}
        BY <4>1, <2>5, <2>6
      <4>4. Scheduled(conts0, states0)
        BY <4>2, <4>3, ScheduleLists
      <4> QED
        BY <4>1, <4>4 DEF Scheduled
    <3>2. CASE /\ active' = acts /\ container' = conts /\ wstate' = states
               /\ UNCHANGED <<wtask, wpc>>
      <4>1. IsFiniteSet(acts) /\ Cardinality(acts) <= Cardinality(active)
        BY <2>5, FS_Subset DEF WorkerInv
      <4>2. Cardinality(acts) \in Nat /\ Cardinality(acts) <= workerCount
        BY <4>1, FS_CardinalityType DEF WorkerInv, ActiveListExact
      <4> HIDE DEF acts, conts, states
      <4> QED
        BY <4>1, <4>2, <3>2, <2>5, <2>6, <1>0 DEF Alive, TypeOK, Scheduled
    <3> QED
      BY <2>3, <3>1, <3>2
  <2>8. TypeOK'
    <3>1. cpc' \in [Task -> CallerPC]
      BY <2>3, <1>0 DEF CallerGoto, CallerPanics, TypeOK, CallerPC
    <3>2. chan' \in [Task -> Worker \cup {None}] /\ seen' \in [Task -> Worker \cup {None}]
      BY <1>0, <1>5 DEF Detach, Leave, TypeOK
    <3>3. closed' = closed \/ closed' = [closed EXCEPT ![t] = TRUE]
      BY <2>3
    <3>4. closed' \in [Task -> BOOLEAN]
      BY <3>3, <1>0 DEF TypeOK
    <3>5. dead' = dead \/ dead' = TRUE
      BY <2>3 DEF CallerPanics
    <3>6. dead' \in BOOLEAN
      BY <3>5, <1>0 DEF TypeOK
    <3>7. detached' \in [Worker -> Nat]
      BY <2>2, <1>0 DEF TypeOK
    <3> HIDE DEF acts, conts, states
    <3> QED
      BY <2>2, <2>7, <3>1, <3>2, <3>4, <3>6, <3>7, <1>0 DEF TypeOK, Scheduled
  <2>9. \A u \in Task : Accepted(u)' = Accepted(u)
    BY <2>2, <2>3, <1>0 DEF CallerGoto, CallerPanics, TypeOK, Accepted
  <2>10. NoTaskLostOrRunTwice'
    BY <2>2, <2>9, TasksStay DEF WorkerInv
  <2>11. RemovableWorkers'
    BY <2>2, <2>4, <2>7, <1>0 DEF RemovableWorkers, Alive, WorkerInv, TypeOK, Scheduled
  <2>12. WorkersInOrder'
    BY <2>2, <2>4, <2>7, <1>0 DEF WorkersInOrder, Alive, WorkerInv, TypeOK, Scheduled
  <2> QED
    BY <2>7, <2>8, <2>10, <2>11, <2>12 DEF WorkerInv, ActiveListExact, Scheduled
<1>6. ASSUME NEW w \in Worker, isDetached(w) \/ Start(w) PROVE WorkerInv'
  <2>1. UNCHANGED listVars /\ UNCHANGED <<queue, cur, cpc, chan, seen, closed, runs, dead>>
    BY <1>6 DEF isDetached, Start
  <2>2. /\ wpc[w] # "gone"
        /\ \E to \in {"exit", "pop", "exec"} : wpc' = [wpc EXCEPT ![w] = to]
        /\ wtask' \in [Worker -> Task \cup {None}]
    BY <1>0, <1>6 DEF isDetached, Start, WorkerAt, WorkerGoto, TypeOK
  <2>3. TypeOK'
    BY <2>1, <2>2, <1>0 DEF listVars, TypeOK, WorkerPC
  <2>4. \A x \in Worker : Alive(x)' = Alive(x)
    BY <2>2, <1>0 DEF Alive, TypeOK
  <2>5. WorkersInOrder'
    BY <2>1, <2>4, <1>0, <1>6
       DEF isDetached, Start, WorkerAt, WorkerGoto, WorkersInOrder, WorkerInv, TypeOK, listVars
  <2>6. NoTaskLostOrRunTwice'
    BY <2>1, TasksStay DEF WorkerInv, Accepted
  <2> QED
    BY <2>1, <2>3, <2>4, <2>5, <2>6, ListsStay DEF WorkerInv
<1>7. ASSUME NEW w \in Worker, Pop(w) PROVE WorkerInv'
  <2>1. UNCHANGED listVars /\ UNCHANGED <<wtask, cpc, seen, closed, runs, dead>> /\ wpc[w] = "pop"
    BY <1>7 DEF Pop, WorkerAt
  <2>2. CASE queue = <<>>
    <3>1. UNCHANGED <<queue, cur, chan>> /\ wpc' = [wpc EXCEPT ![w] = "exit"]
      BY <1>7, <2>2 DEF Pop, WorkerGoto
    <3>2. TypeOK' /\ WorkersInOrder' /\ \A x \in Worker : Alive(x)' = Alive(x)
      BY <2>1, <3>1, <1>0 DEF listVars, TypeOK, WorkerPC, WorkersInOrder, Alive, WorkerInv
    <3>3. NoTaskLostOrRunTwice'
      BY <2>1, <3>1, TasksStay DEF WorkerInv, Accepted
    <3> QED
      BY <2>1, <3>2, <3>3, ListsStay DEF WorkerInv
  <2>3. CASE queue # <<>>
    <3>1. PICK h \in Task : h = Head(queue)
      BY <2>3, <1>0 DEF TypeOK
    <3>2. /\ queue' = Tail(queue) /\ cur' = [cur EXCEPT ![w] = h]
          /\ wpc' = [wpc EXCEPT ![w] = "popped"]
      BY <1>7, <2>3, <3>1 DEF Pop, WorkerGoto, Rest
    <3>3. chan' \in [Task -> Worker \cup {None}]
      BY <1>0, <1>7, <2>3, <3>1 DEF Pop, TypeOK
    <3>4. /\ queue' \in Seq(Task) /\ Len(queue') = Len(queue) - 1 /\ Len(queue) \in Nat \ {0}
          /\ \A i \in 1 .. Len(queue') : queue'[i] = queue[i + 1]
          /\ h = queue[1]
      BY <2>3, <3>1, <3>2, <1>0 DEF TypeOK
    <3>5. TypeOK'
      BY <2>1, <3>2, <3>3, <3>4, <1>0 DEF listVars, TypeOK, WorkerPC
    <3>6. WorkersInOrder' /\ \A x \in Worker : Alive(x)' = Alive(x)
      BY <2>1, <3>2, <1>0 DEF listVars, TypeOK, WorkersInOrder, Alive, WorkerInv
    <3>7. cur[w] = None
      BY <2>1 DEF WorkersInOrder, WorkerInv
    <3>8. NoTaskLostOrRunTwice'
      <4>0. /\ \A i, j \in 1 .. Len(queue) : queue[i] = queue[j] => i = j
            /\ \A x, y \in Worker : cur[x] = cur[y] => x = y \/ cur[x] = None
            /\ \A u \in Task :
                 /\ ~(Queued(u) /\ InHand(u))
                 /\ Queued(u) \/ InHand(u) => Accepted(u)
                 /\ runs[u] = IF Accepted(u) /\ ~Queued(u) /\ ~InHand(u) THEN 1 ELSE 0
        BY DEF WorkerInv, NoTaskLostOrRunTwice
      <4>1. Queued(h)
        BY <3>4 DEF Queued
      <4>2. \A i, j \in 1 .. Len(queue') : queue'[i] = queue'[j] => i = j
        BY <3>4, <4>0
      <4>3. \A u \in Task : Queued(u)' <=> Queued(u) /\ u # h
        <5> SUFFICES ASSUME NEW u \in Task PROVE Queued(u)' <=> Queued(u) /\ u # h
          OBVIOUS
        <5>1. Queued(u)' => Queued(u) /\ u # h
          BY <3>4, <4>0 DEF Queued
        <5>2. ASSUME Queued(u), u # h PROVE Queued(u)'
          <6>1. PICK i \in 1 .. Len(queue) : queue[i] = u
            BY <5>2 DEF Queued
          <6>2. i # 1 /\ i - 1 \in 1 .. Len(queue') /\ i - 1 + 1 = i
            BY <6>1, <5>2, <3>4
          <6>3. queue'[i - 1] = u
            BY <6>1, <6>2, <3>4
          <6> QED
            BY <6>2, <6>3 DEF Queued
        <5> QED
          BY <5>1, <5>2
      <4>4. \A u \in Task : InHand(u)' <=> InHand(u) \/ u = h
        BY <3>2, <3>7, <1>0 DEF InHand, TypeOK
      <4>5. \A x, y \in Worker : cur'[x] = cur'[y] => x = y \/ cur'[x] = None
        BY <3>2, <4>0, <4>1, <1>0 DEF InHand, TypeOK
      <4>6. \A u \in Task : Accepted(u)' = Accepted(u)
        BY <2>1 DEF Accepted
      <4> QED
        BY <4>0, <4>1, <4>2, <4>3, <4>4, <4>5, <4>6, <2>1 DEF NoTaskLostOrRunTwice
    <3> QED
      BY <2>1, <3>5, <3>6, <3>8, ListsStay DEF WorkerInv
  <2> QED
    BY <2>2, <2>3
<1>8. ASSUME NEW w \in Worker, execCallback(w) PROVE WorkerInv'
  <2>0. wpc[w] = "exec" /\ cur[w] # None
    BY <1>8 DEF execCallback, WorkerAt, WorkerInv, WorkersInOrder
  <2>1. PICK h \in Task : h = cur[w]
    BY <2>0, <1>0 DEF TypeOK
  <2>2. /\ closed' = [closed EXCEPT ![h] = TRUE] /\ runs' = [runs EXCEPT ![h] = @ + 1]
        /\ cur' = [cur EXCEPT ![w] = None] /\ wpc' = [wpc EXCEPT ![w] = "top"]
        /\ UNCHANGED <<queue, listVars, wtask, cpc, chan, seen, dead>>
    BY <1>8, <2>1 DEF execCallback, WorkerGoto
  <2>3. TypeOK'
    BY <2>2, <1>0 DEF listVars, TypeOK, WorkerPC
  <2>4. WorkersInOrder' /\ \A x \in Worker : Alive(x)' = Alive(x)
    BY <2>0, <2>2, <1>0 DEF listVars, TypeOK, WorkersInOrder, Alive, WorkerInv
  <2>5. NoTaskLostOrRunTwice'
    <3>0. /\ \A i, j \in 1 .. Len(queue) : queue[i] = queue[j] => i = j
          /\ \A x, y \in Worker : cur[x] = cur[y] => x = y \/ cur[x] = None
          /\ \A u \in Task :
               /\ ~(Queued(u) /\ InHand(u))
               /\ Queued(u) \/ InHand(u) => Accepted(u)
               /\ runs[u] = IF Accepted(u) /\ ~Queued(u) /\ ~InHand(u) THEN 1 ELSE 0
      BY DEF WorkerInv, NoTaskLostOrRunTwice
    <3>1. InHand(h)
      BY <2>1 DEF InHand
    <3>2. \A u \in Task : InHand(u)' <=> InHand(u) /\ u # h
      BY <2>0, <2>1, <2>2, <3>0, <1>0 DEF InHand, TypeOK
    <3>3. \A u \in Task : Queued(u)' = Queued(u) /\ Accepted(u)' = Accepted(u)
      BY <2>2 DEF Queued, Accepted
    <3>4. \A x, y \in Worker : cur'[x] = cur'[y] => x = y \/ cur'[x] = None
      BY <2>2, <3>0, <1>0 DEF TypeOK
    <3>5. \A u \in Task : runs'[u] = IF u = h THEN 1 ELSE runs[u]
      BY <2>2, <3>0, <3>1, <1>0 DEF TypeOK
    <3>6. \A u \in Task :
             /\ ~(Queued(u)' /\ InHand(u)')
             /\ Queued(u)' \/ InHand(u)' => Accepted(u)'
             /\ runs'[u] = IF Accepted(u)' /\ ~Queued(u)' /\ ~InHand(u)' THEN 1 ELSE 0
      BY <3>0, <3>1, <3>2, <3>3, <3>5
    <3> QED
      BY <3>0, <3>4, <3>6, <2>2 DEF NoTaskLostOrRunTwice
  <2> QED
    BY <2>2, <2>3, <2>4, <2>5, ListsStay DEF WorkerInv
<1>9. ASSUME NEW w \in Worker, removeWorker(w) PROVE WorkerInv'
  <2>1. /\ wpc[w] = "exit"
        /\ container' = [container EXCEPT ![w] = "nil"]
        /\ wpc' = [wpc EXCEPT ![w] = "gone"]
        /\ UNCHANGED <<queue, wstate, cur, wtask, cpc, chan, seen, closed, runs, dead>>
    BY <1>9 DEF removeWorker, WorkerAt, WorkerGoto
  <2>2. /\ wstate[w] = "detach" => detached[w] > 0
        /\ w \in active <=> wstate[w] = "active"
    BY <2>1 DEF WorkerInv, RemovableWorkers, ActiveListExact, Alive
  <2>3. /\ active' = active \ {w}
        /\ \/ detached' = detached
           \/ wstate[w] = "detach" /\ detached' = [detached EXCEPT ![w] = @ - 1]
    BY <1>9, <2>2, <1>0 DEF removeWorker, IsActive, TypeOK
  <2>4. IsFiniteSet(active') /\ Cardinality(active') <= Cardinality(active)
    BY <2>3, FS_Subset DEF WorkerInv
  <2>5. Cardinality(active') <= workerCount
    BY <2>4, FS_CardinalityType DEF WorkerInv, ActiveListExact
  <2>6. TypeOK'
    BY <2>1, <2>2, <2>3, <1>0 DEF TypeOK, WorkerPC
  <2>7. active' = {x \in Worker : Alive(x)' /\ wstate'[x] = "active"}
    BY <2>1, <2>3, <1>0 DEF Alive, TypeOK, WorkerInv, ActiveListExact
  <2>8. RemovableWorkers' /\ WorkersInOrder'
    BY <2>1, <2>3, <1>0 DEF RemovableWorkers, WorkersInOrder, Alive, TypeOK, WorkerInv
  <2>9. NoTaskLostOrRunTwice'
    BY <2>1, TasksStay DEF WorkerInv, Accepted
  <2> QED
    BY <2>4, <2>5, <2>6, <2>7, <2>8, <2>9 DEF WorkerInv, ActiveListExact
<1>10. CASE UNCHANGED vars
  BY <1>10 DEF vars, WorkerInv, TypeOK, ActiveListExact, RemovableWorkers, WorkersInOrder,
               NoTaskLostOrRunTwice, Alive, Queued, InHand, Accepted
<1> QED
  BY <1>1, <1>2, <1>3, <1>4, <1>5, <1>6, <1>7, <1>8, <1>9, <1>10 DEF Next, Call, Work

\* WorkerInv holds in every reachable state.
THEOREM Invariance == Spec => []WorkerInv
  BY InitInv, NextInv, PTL DEF Spec

\* The queue never outgrows the ring, and no element is removed from the detached
\* list more often than it was added.
THEOREM TypeCorrect == Spec => []TypeOK
  BY Invariance, PTL DEF WorkerInv

\* An accepted task is queued once, in one worker's hands, or executed once.
THEOREM Tasks == Spec => []NoTaskLostOrRunTwice
  BY Invariance, PTL DEF WorkerInv

\* The active list is exact and never longer than workerCount.
THEOREM ActiveList == Spec => []ActiveListExact
  BY Invariance, PTL DEF WorkerInv

\* removeWorker finds every worker in the list its state names.
THEOREM Removable == Spec => []RemovableWorkers
  BY Invariance, PTL DEF WorkerInv
=============================================================================
