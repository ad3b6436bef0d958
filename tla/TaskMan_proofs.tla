---------------------------- MODULE TaskMan_proofs ----------------------------
(***************************************************************************)
(* Proofs about TaskMan, for any tree of tasks, any objects and any number *)
(* of workers.                                                             *)
(***************************************************************************)
EXTENDS TaskMan, FiniteSetTheorems, SequenceTheorems, TLAPS

\* A finite set of numbers that is not empty has a first one and a last one.
LEMMA HasFirst == ASSUME NEW S \in SUBSET Nat, IsFiniteSet(S), S # {}
                  PROVE  \E x \in S : \A y \in S : x <= y
<1> DEFINE Below(x) == {y \in S : y < x}
           Belows == {Below(x) : x \in S}
<1>1. IsWellFoundedOn(StrictSubsetOrdering(S), SUBSET S)
  BY FS_StrictSubsetOrderingWellFounded, FS_FiniteSubsetsOfFinite
<1>2. Belows \subseteq SUBSET S /\ Belows # {}
  OBVIOUS
<1> HIDE DEF Belows
<1>3. PICK X \in Belows : \A Y \in Belows : ~(<<Y, X>> \in StrictSubsetOrdering(S))
  BY <1>1, <1>2, WFMin
<1>4. PICK x \in S : X = Below(x)
  BY <1>3 DEF Belows
<1>5. ASSUME NEW y \in S, y < x PROVE FALSE
  <2>1. Below(y) \in Belows /\ Below(y) \in SUBSET S /\ Below(x) \in SUBSET S
    BY DEF Belows
  <2>2. Below(y) \subseteq Below(x) /\ y \in Below(x) /\ y \notin Below(y)
    <3>1. \A z \in S : z < y => z < x
      BY <1>5
    <3>2. ~(y < y)
      OBVIOUS
    <3> QED
      BY <3>1, <3>2, <1>5, Zenon
  <2>3. <<Below(y), X>> \in StrictSubsetOrdering(S)
    BY <2>1, <2>2, <1>4 DEF StrictSubsetOrdering
  <2> QED
    BY <2>1, <2>3, <1>3
<1> QED
  BY <1>5

\* The same from above.
LEMMA HasLast == ASSUME NEW S \in SUBSET Nat, IsFiniteSet(S), S # {}
                 PROVE  \E x \in S : \A y \in S : y <= x
<1> DEFINE Above(x) == {y \in S : x < y}
           Aboves == {Above(x) : x \in S}
<1>1. IsWellFoundedOn(StrictSubsetOrdering(S), SUBSET S)
  BY FS_StrictSubsetOrderingWellFounded, FS_FiniteSubsetsOfFinite
<1>2. Aboves \subseteq SUBSET S /\ Aboves # {}
  OBVIOUS
<1> HIDE DEF Aboves
<1>3. PICK X \in Aboves : \A Y \in Aboves : ~(<<Y, X>> \in StrictSubsetOrdering(S))
  BY <1>1, <1>2, WFMin
<1>4. PICK x \in S : X = Above(x)
  BY <1>3 DEF Aboves
<1>5. ASSUME NEW y \in S, x < y PROVE FALSE
  <2>1. Above(y) \in Aboves /\ Above(y) \in SUBSET S /\ Above(x) \in SUBSET S
    BY DEF Aboves
  <2>2. Above(y) \subseteq Above(x) /\ y \in Above(x) /\ y \notin Above(y)
    <3>1. \A z \in S : y < z => x < z
      BY <1>5
    <3>2. ~(y < y)
      OBVIOUS
    <3> QED
      BY <3>1, <3>2, <1>5, Zenon
  <2>3. <<Above(y), X>> \in StrictSubsetOrdering(S)
    BY <2>1, <2>2, <1>4 DEF StrictSubsetOrdering
  <2> QED
    BY <2>1, <2>3, <1>3
<1> QED
  BY <1>5

\* The tables are empty and nobody is at work.
LEMMA InitInv == Init => TaskInv
<1> SUFFICES ASSUME Init PROVE TaskInv
  OBVIOUS
<1> USE NamesAssumption, TreeAssumption DEF Init
<1>1. TypeOK
  <2>1. /\ calls \in [Task -> 0 .. MaxCalls] /\ cancels \in 0 .. MaxCancels
        /\ crashes \in 0 .. MaxCrashes /\ Len(queue) <= QueueSize
    BY BoundsAssumption
  <2>2. /\ stage \in [Task -> Stage] /\ row \in [Task -> Row \cup {None}]
        /\ queue \in Seq([task : Task, bad : BOOLEAN])
        /\ owner \in [Object -> Proc \cup {None}] /\ powner \in [Task -> Proc \cup {None}]
    BY DEF Stage
  <2>3. /\ pc \in [Proc -> PC] /\ loc \in [Proc -> Stage] /\ pstage \in [Proc -> Stage]
    BY DEF PC, Stage
  <2>4. next \in [Proc -> Seq([what : {"cancel", "exec", "object"}, task : Task, stage : Stage])]
    OBVIOUS
  <2>5. /\ job \in [Proc -> Task \cup {None}] /\ bad \in [Proc -> BOOLEAN]
        /\ todo \in [Proc -> SUBSET Task] /\ result \in [Proc -> {"none", "succ", "fail"}]
        /\ some \in [Proc -> BOOLEAN] /\ asked \in SUBSET Task /\ dropped \in BOOLEAN
    OBVIOUS
  <2> QED
    BY <2>1, <2>2, <2>3, <2>4, <2>5 DEF TypeOK
<1>2. LocksInOrder /\ JobsInOrder
  BY DEF LocksInOrder, JobsInOrder, Spawner
<1>3. NotStarted /\ Unlinked /\ OneRun /\ FirstStageOver
  BY DEF NotStarted, Unlinked, OneRun, FirstStageOver, Queued, Running
<1>4. SpawningInOrder /\ RowsInOrder /\ StartedInOrder
  BY DEF SpawningInOrder, RowsInOrder, StartedInOrder, Queued, Running
<1>5. ReportsInOrder /\ WokenInOrder /\ CompleteAfterSubtasks
  BY DEF ReportsInOrder, Report, WokenInOrder, CompleteAfterSubtasks, Succeeding, Queued, Running
<1> QED
  BY <1>1, <1>2, <1>3, <1>4, <1>5 DEF TaskInv
-----------------------------------------------------------------------------
(***************************************************************************)
(* Steps of one goroutine that leave the rest alone.                       *)
(***************************************************************************)
Alone(p) == \A q \in Proc : q # p =>
               /\ pc'[q] = pc[q] /\ job'[q] = job[q] /\ bad'[q] = bad[q] /\ loc'[q] = loc[q]
               /\ todo'[q] = todo[q] /\ result'[q] = result[q] /\ pstage'[q] = pstage[q]

\* A goroutine at work goes on; the tables and the queue stay.
LEMMA CalmStep ==
    ASSUME TaskInv, TypeOK', LocksInOrder', JobsInOrder', NEW p \in Proc, Alone(p),
           UNCHANGED <<stage, row, asked, queue, next>>,
           pc[p] # "idle", pc'[p] \notin {"fetch", "spawn", "link"},
           pc'[p] # "idle" => job'[p] = job[p] /\ bad'[p] = bad[p],
           pc'[p] \in {"lock", "handler"} /\ ~bad[p] =>
              /\ loc'[p] = "wait" => (Covers(job[p]) => AllFinal(job[p]))
              /\ loc'[p] # "wait" => \A c \in Kids(job[p]) : stage[c] = "none",
           Spawner(p) => Spawner(p)' \/ AllLinked(job[p]) \/ stage[job[p]] \in Final,
           Report(p)'
    PROVE  TaskInv'
<1> USE DEF TaskInv
<1>1. /\ \A t \in Task : Queued(t)' <=> Queued(t)
      /\ \A t \in Task, q \in Proc : Running(q, t)' => Running(q, t)
      /\ \A t \in Task : AllFinal(t)' <=> AllFinal(t)
      /\ \A t \in Task : AllLinked(t)' <=> AllLinked(t)
      /\ \A q \in Proc : q # p => (Spawner(q)' <=> Spawner(q))
  BY DEF Alone, Queued, Running, AllFinal, AllLinked, Spawner
<1>2. NotStarted' /\ Unlinked' /\ OneRun'
  <2>1. NotStarted'
    BY DEF NotStarted, Alone
  <2>2. Unlinked' /\ OneRun'
    BY <1>1 DEF Unlinked, OneRun
  <2> QED
    BY <2>1, <2>2
<1>3. FirstStageOver'
  BY <1>1 DEF FirstStageOver, Alone, Running, Kids
<1>4. SpawningInOrder' /\ RowsInOrder'
  BY DEF SpawningInOrder, RowsInOrder, Alone
<1>5. StartedInOrder'
  BY <1>1 DEF StartedInOrder, Alone, Spawner
<1>6. ReportsInOrder'
  BY <1>1 DEF ReportsInOrder, Report, Succeeding, Alone
<1>7. WokenInOrder' /\ CompleteAfterSubtasks'
  BY <1>1 DEF WokenInOrder, CompleteAfterSubtasks, Alone, Running
<1> QED
  BY <1>2, <1>3, <1>4, <1>5, <1>6, <1>7

\* A task is over; what its methods have been called for is done.
LEMMA FinalStep ==
    ASSUME TaskInv, TypeOK', LocksInOrder', JobsInOrder', NEW p \in Proc, Alone(p),
           UNCHANGED <<row, asked, queue, next>>,
           pc[p] \in {"handler", "fail"}, pc'[p] = "save",
           job'[p] = job[p], bad'[p] = bad[p],
           result'[p] = "succ" => pc[p] = "handler" /\ ~bad[p],
           stage'[job[p]] \in Final,
           stage'[job[p]] = "complete" => (Covers(job[p]) => AllFinal(job[p])),
           \A t \in Task : t # job[p] => stage'[t] = stage[t]
    PROVE  TaskInv'
<1> USE DEF TaskInv
<1>1. job[p] \in Task /\ stage[job[p]] # "none"
  BY DEF JobsInOrder, NotStarted
<1>2. /\ \A t \in Task : stage'[t] = "none" <=> stage[t] = "none"
      /\ \A t \in Task : stage'[t] = "wait" => stage[t] = "wait"
      /\ \A t \in Task : stage[t] \in Final => stage'[t] \in Final
  BY <1>1 DEF Final
<1>3. /\ \A t \in Task : Queued(t)' <=> Queued(t)
      /\ \A t \in Task, q \in Proc : Running(q, t)' => Running(q, t)
      /\ \A t \in Task : AllFinal(t) => AllFinal(t)'
      /\ \A t \in Task : AllLinked(t)' <=> AllLinked(t)
      /\ \A q \in Proc : q # p => (Spawner(q)' <=> Spawner(q))
  BY <1>2 DEF Alone, Queued, Running, AllFinal, AllLinked, Spawner, Kids
<1>4. NotStarted' /\ Unlinked' /\ OneRun'
  <2>1. NotStarted'
    BY <1>2 DEF NotStarted, Alone
  <2>2. Unlinked'
    BY <1>2, <1>3 DEF Unlinked
  <2>3. OneRun'
    BY <1>2, <1>3 DEF OneRun, Kids
  <2> QED
    BY <2>1, <2>2, <2>3
<1>5. FirstStageOver'
  BY <1>1, <1>2, <1>3 DEF FirstStageOver, Alone, Running, Kids, Final
<1>6. SpawningInOrder'
  BY <1>1, <1>2 DEF SpawningInOrder, Alone, Kids, JobsInOrder, Spawner, Final
<1>7. RowsInOrder'
  BY <1>2 DEF RowsInOrder
<1>8. StartedInOrder'
  BY <1>2, <1>3 DEF StartedInOrder, Alone
<1>9. ReportsInOrder'
  <2>1. Report(p)'
    BY <1>2, <1>3 DEF ReportsInOrder, Report, Succeeding
  <2>2. ASSUME NEW q \in Proc, q # p PROVE Report(q)'
    <3>1. pc'[q] # "idle" => job[q] \in Task
      BY <2>2 DEF JobsInOrder, Alone
    <3> QED
      BY <1>2, <1>3, <2>2, <3>1 DEF ReportsInOrder, Report, Succeeding, Alone, JobsInOrder
  <2> QED
    BY <2>1, <2>2 DEF ReportsInOrder
<1>10. WokenInOrder' /\ CompleteAfterSubtasks'
  <2>1. WokenInOrder'
    BY <1>2, <1>3 DEF WokenInOrder, Alone, Running
  <2>2. CompleteAfterSubtasks'
    BY <1>2, <1>3 DEF CompleteAfterSubtasks
  <2> QED
    BY <2>1, <2>2
<1> QED
  BY <1>4, <1>5, <1>6, <1>7, <1>8, <1>9, <1>10
-----------------------------------------------------------------------------
(***************************************************************************)
(* execTask.                                                               *)
(***************************************************************************)
\* What a goroutine has read and is about to do.
LEMMA FetchStep ==
    ASSUME TaskInv, NEW p \in Proc, fetchTask(p)
    PROVE  TaskInv'
<1> USE DEF TaskInv, dbVars, lockVars, envVars
<1> DEFINE s == stage[job[p]]
<1>1. /\ UNCHANGED <<stage, row, queue, owner, powner, job, bad, todo, next, result, pstage, some,
                     asked, calls, cancels, crashes, dropped>>
      /\ pc[p] = "fetch" /\ loc' = [loc EXCEPT ![p] = s]
      /\ pc' = [pc EXCEPT ![p] = IF HasHandler(s, bad[p]) THEN "lock" ELSE "fail"]
  BY DEF fetchTask, Dispatch, Goto, At
<1>2. job[p] \in Task /\ s \in Stage
  BY <1>1 DEF JobsInOrder, TypeOK
<1>3. TypeOK'
  BY <1>1, <1>2 DEF TypeOK, PC
<1>4. /\ pc'[p] \in {"lock", "fail"} /\ loc'[p] = s
      /\ pc'[p] = "lock" => s \in {"on_init", "wait"}
      /\ pc'[p] = "fail" => bad[p] \/ s \notin {"on_init", "wait"}
      /\ \A q \in Proc : q # p => pc'[q] = pc[q] /\ loc'[q] = loc[q]
  BY <1>1 DEF TypeOK, HasHandler
<1>5. Alone(p)
  BY <1>1, <1>4 DEF Alone
<1>6. LocksInOrder'
  BY <1>1, <1>4 DEF LocksInOrder, Missing
<1>7. JobsInOrder'
  BY <1>1, <1>2, <1>4 DEF JobsInOrder, Spawner
<1>8. Running(p, job[p]) \/ bad[p]
  BY <1>1 DEF Running
<1>9. pc'[p] = "lock" /\ ~bad[p] =>
         /\ loc'[p] = "wait" => (Covers(job[p]) => AllFinal(job[p]))
         /\ loc'[p] # "wait" => \A c \in Kids(job[p]) : stage[c] = "none"
  BY <1>1, <1>2, <1>4, <1>8 DEF WokenInOrder, FirstStageOver, Kids
<1>10. Report(p)'
  BY <1>4 DEF Report, Succeeding
<1>11. ~Spawner(p)
  BY <1>1 DEF Spawner
<1> QED
  BY <1>1, <1>3, <1>4, <1>5, <1>6, <1>7, <1>9, <1>10, <1>11, CalmStep

\* The next object is larger than those the goroutine has.
LEMMA LockStep ==
    ASSUME TaskInv, NEW p \in Proc, LockObject(p)
    PROVE  TaskInv'
<1> USE DEF TaskInv, dbVars, procVars, envVars
<1>1. PICK o \in Object :
         /\ UNCHANGED <<stage, row, queue, powner, pc, job, bad, loc, todo, next, result, pstage,
                        some, asked, calls, cancels, crashes, dropped>>
         /\ pc[p] = "lock" /\ owner[o] = None /\ owner' = [owner EXCEPT ![o] = p]
         /\ o \in Missing(p) /\ \A x \in Missing(p) : o <= x
  BY DEF LockObject, NextLock, At
<1>2. TypeOK'
  BY <1>1 DEF TypeOK
<1>3. Alone(p)
  BY <1>1 DEF Alone
<1>4. /\ owner'[o] = p /\ \A x \in Object : x # o => owner'[x] = owner[x]
      /\ job[p] \in Task /\ Objs[job[p]] \subseteq Object /\ Objs[job[p]] \subseteq Nat
  BY <1>1, ObjsAssumption DEF TypeOK, JobsInOrder, Object
<1>5. LocksInOrder'
  <2>1. \A q \in Proc : q # p => \A x \in Missing(q)' : x \in Missing(q)
    BY <1>1, <1>4, NamesAssumption DEF Missing
  <2>2. Missing(p)' \subseteq Missing(p) \ {o}
    BY <1>1, <1>4 DEF Missing
  <2>3. \A x \in Missing(p)' : o < x
    BY <1>1, <1>4, <2>2 DEF Missing
  <2>4. ASSUME NEW x \in Object, NEW q \in Proc, owner'[x] = q
        PROVE  /\ pc'[q] \notin {"idle", "fetch"} /\ x \in Objs[job'[q]]
               /\ pc'[q] = "lock" => \A y \in Missing(q)' : x < y
    <3>1. CASE x = o
      BY <1>1, <1>4, <2>3, <2>4, <3>1 DEF Missing
    <3>2. CASE x # o
      BY <1>1, <1>4, <2>1, <2>2, <2>4, <3>2 DEF LocksInOrder
    <3> QED
      BY <3>1, <3>2
  <2> QED
    BY <1>1, <2>4 DEF LocksInOrder
<1>6. JobsInOrder'
  <2>1. \A x \in Object, q \in Proc : owner[x] = q => owner'[x] = q
    BY <1>1, <1>4, NamesAssumption
  <2>2. \A q \in Proc : pc[q] # "idle" => Objs[job[q]] \subseteq Object
    BY DEF JobsInOrder, Object
  <2> QED
    BY <1>1, <2>1, <2>2 DEF JobsInOrder, Spawner
<1>7. pc'[p] \in {"lock", "handler"} /\ ~bad[p] =>
         /\ loc'[p] = "wait" => (Covers(job[p]) => AllFinal(job[p]))
         /\ loc'[p] # "wait" => \A c \in Kids(job[p]) : stage[c] = "none"
  BY <1>1, <1>4 DEF WokenInOrder, FirstStageOver, Kids, Running
<1>8. Report(p)'
  BY <1>1 DEF Report, Succeeding
<1>9. ~Spawner(p)
  BY <1>1 DEF Spawner
<1> QED
  BY <1>1, <1>2, <1>3, <1>5, <1>6, <1>7, <1>8, <1>9, CalmStep

\* A subtask that has its objects is not called while its parent, which has them
\* too, is starting others.
LEMMA LockedStep ==
    ASSUME TaskInv, NEW p \in Proc, Locked(p)
    PROVE  TaskInv'
<1> USE DEF TaskInv, dbVars, lockVars, envVars
<1>1. /\ UNCHANGED <<stage, row, queue, owner, powner, job, bad, loc, todo, next, result, pstage,
                     some, asked, calls, cancels, crashes, dropped>>
      /\ pc[p] = "lock" /\ pc' = [pc EXCEPT ![p] = "handler"]
      /\ \A o \in Object : ~NextLock(Missing(p), o)
  BY DEF Locked, Goto, At
<1>2. TypeOK'
  BY <1>1 DEF TypeOK, PC
<1>3. /\ pc'[p] = "handler" /\ \A q \in Proc : q # p => pc'[q] = pc[q]
      /\ job[p] \in Task
  BY <1>1 DEF TypeOK, JobsInOrder
<1>4. Alone(p)
  BY <1>1, <1>3 DEF Alone
<1>5. \A o \in Objs[job[p]] : owner[o] = p
  <2>1. Missing(p) \in SUBSET Nat /\ IsFiniteSet(Missing(p)) /\ Missing(p) \subseteq Object
    <3>1. Missing(p) \subseteq Objs[job[p]]
      BY DEF Missing
    <3> QED
      BY <1>3, <3>1, ObjsAssumption, FiniteAssumption, FS_Subset DEF Object
  <2>2. Missing(p) = {}
    BY <1>1, <2>1, HasFirst DEF NextLock
  <2> QED
    BY <2>2 DEF Missing
<1>6. LocksInOrder'
  BY <1>1, <1>3 DEF LocksInOrder, Missing
<1>7. JobsInOrder'
  BY <1>1, <1>3, <1>5 DEF JobsInOrder, Spawner
<1>8. pc'[p] \in {"lock", "handler"} /\ ~bad[p] =>
         /\ loc'[p] = "wait" => (Covers(job[p]) => AllFinal(job[p]))
         /\ loc'[p] # "wait" => \A c \in Kids(job[p]) : stage[c] = "none"
  BY <1>1, <1>3 DEF WokenInOrder, FirstStageOver, Kids, Running
<1>9. Report(p)'
  <2> SUFFICES ASSUME ~bad[p], Parent[job[p]] \in Task, Covers(Parent[job[p]])
               PROVE  AllLinked(Parent[job[p]])' \/ stage[Parent[job[p]]] \in Final
    BY <1>1, <1>3 DEF Report, Succeeding
  <2>1. \/ \E q \in Proc : Spawner(q) /\ job[q] = Parent[job[p]]
        \/ AllLinked(Parent[job[p]])
        \/ stage[Parent[job[p]]] \in Final
    <3>1. Running(p, job[p])
      BY <1>1 DEF Running
    <3> QED
      BY <1>3, <3>1 DEF StartedInOrder, Covers, Kids
  <2>2. ASSUME NEW q \in Proc, Spawner(q), job[q] = Parent[job[p]] PROVE FALSE
    <3>1. \A o \in Objs[job[q]] : owner[o] = q
      BY <2>2 DEF JobsInOrder
    <3>2. q # p
      BY <1>1, <2>2 DEF Spawner
    <3>3. Objs[job[p]] # {} /\ Objs[job[p]] \subseteq Objs[job[q]]
      BY <1>3, <2>2, ObjsAssumption DEF Covers, Kids
    <3> QED
      BY <1>5, <3>1, <3>2, <3>3
  <2> QED
    BY <1>1, <2>1, <2>2 DEF AllLinked
<1>10. ~Spawner(p)
  BY <1>1 DEF Spawner
<1> QED
  BY <1>1, <1>2, <1>3, <1>4, <1>6, <1>7, <1>8, <1>9, <1>10, CalmStep

\* SetStageFailed: a task that is already failed in the copy is left alone.
LEMMA SetStageFailedStep ==
    ASSUME TaskInv, NEW p \in Proc, pc[p] \in {"handler", "fail"}, SetStageFailed(p),
           UNCHANGED <<row, queue, lockVars, job, bad, todo, next, pstage, some, envVars>>
    PROVE  TaskInv'
<1> USE DEF TaskInv, lockVars, envVars
<1>1. job[p] \in Task
  BY DEF JobsInOrder
<1>2. CASE loc[p] = "failed"
  <2>1. /\ UNCHANGED <<stage, row, queue, owner, powner, job, bad, loc, todo, next, result, pstage,
                       some, asked, calls, cancels, crashes, dropped>>
        /\ pc' = [pc EXCEPT ![p] = "done"]
    BY <1>2 DEF SetStageFailed, Goto
  <2>2. TypeOK'
    BY <2>1 DEF TypeOK, PC
  <2>3. /\ pc'[p] = "done" /\ \A q \in Proc : q # p => pc'[q] = pc[q]
    BY <2>1 DEF TypeOK
  <2>4. Alone(p)
    BY <2>1, <2>3 DEF Alone
  <2>5. LocksInOrder'
    BY <2>1, <2>3 DEF LocksInOrder, Missing
  <2>6. JobsInOrder'
    BY <1>1, <2>1, <2>3 DEF JobsInOrder, Spawner
  <2>7. Report(p)' /\ ~Spawner(p)
    BY <1>2, <2>3 DEF Report, Succeeding, Spawner
  <2> QED
    BY <2>1, <2>2, <2>3, <2>4, <2>5, <2>6, <2>7, CalmStep
<1>3. CASE loc[p] # "failed"
  <2>1. /\ UNCHANGED <<row, queue, owner, powner, job, bad, todo, next, pstage, some, asked, calls,
                       cancels, crashes, dropped>>
        /\ stage' = [stage EXCEPT ![job[p]] = "failed"]
        /\ loc' = [loc EXCEPT ![p] = "failed"]
        /\ result' = [result EXCEPT ![p] = "fail"]
        /\ pc' = [pc EXCEPT ![p] = "save"]
    BY <1>3 DEF SetStageFailed, SetStage, Goto
  <2>2. TypeOK'
    BY <1>1, <2>1 DEF TypeOK, PC, Stage, Final
  <2>3. /\ pc'[p] = "save" /\ result'[p] = "fail" /\ stage'[job[p]] = "failed"
        /\ \A t \in Task : t # job[p] => stage'[t] = stage[t]
        /\ \A q \in Proc : q # p => /\ pc'[q] = pc[q] /\ loc'[q] = loc[q]
                                    /\ result'[q] = result[q]
    BY <1>1, <2>1 DEF TypeOK
  <2>4. Alone(p)
    BY <2>1, <2>3 DEF Alone
  <2>5. LocksInOrder'
    BY <2>1, <2>3 DEF LocksInOrder, Missing
  <2>6. JobsInOrder'
    BY <1>1, <2>1, <2>3 DEF JobsInOrder, Spawner
  <2> QED
    BY <2>1, <2>2, <2>3, <2>4, <2>5, <2>6, FinalStep DEF Final
<1> QED
  BY <1>2, <1>3

\* A stage without a method, a Failed method and a panic end alike.
LEMMA FailStep ==
    ASSUME TaskInv, NEW p \in Proc, NoHandler(p) \/ FailedMethod(p)
    PROVE  TaskInv'
BY SetStageFailedStep DEF NoHandler, FailedMethod, At

\* A task that waits completes when it is woken, with its subtasks over.
LEMMA EndStep ==
    ASSUME TaskInv, NEW p \in Proc, EndMethod(p)
    PROVE  TaskInv'
<1> USE DEF TaskInv, lockVars, envVars
<1>1. job[p] \in Task /\ loc[p] \in {"on_init", "wait"} /\ pc[p] = "handler" /\ ~bad[p]
  BY DEF EndMethod, At, JobsInOrder
<1>2. /\ UNCHANGED <<row, queue, owner, powner, job, bad, todo, next, pstage, some, asked, calls,
                     cancels, crashes, dropped>>
      /\ stage' = [stage EXCEPT ![job[p]] = "complete"]
      /\ loc' = [loc EXCEPT ![p] = "complete"]
      /\ result' = [result EXCEPT ![p] = "succ"]
      /\ pc' = [pc EXCEPT ![p] = "save"]
      /\ loc[p] = "wait" \/ Kids(job[p]) = {}
  BY <1>1 DEF EndMethod, SetStageComplete, SetStage, Goto
<1>3. TypeOK'
  BY <1>1, <1>2 DEF TypeOK, PC, Stage, Final
<1>4. /\ pc'[p] = "save" /\ result'[p] = "succ" /\ stage'[job[p]] = "complete"
      /\ \A t \in Task : t # job[p] => stage'[t] = stage[t]
      /\ \A q \in Proc : q # p => /\ pc'[q] = pc[q] /\ loc'[q] = loc[q]
                                  /\ result'[q] = result[q]
  BY <1>1, <1>2 DEF TypeOK
<1>5. Alone(p)
  BY <1>2, <1>4 DEF Alone
<1>6. LocksInOrder'
  BY <1>1, <1>2, <1>4 DEF LocksInOrder, Missing
<1>7. JobsInOrder'
  BY <1>1, <1>2, <1>4 DEF JobsInOrder, Spawner
<1>8. Covers(job[p]) => AllFinal(job[p])
  <2>1. Running(p, job[p])
    BY <1>1 DEF Running
  <2> QED
    BY <1>1, <1>2, <2>1 DEF WokenInOrder, AllFinal
<1> QED
  BY <1>1, <1>2, <1>3, <1>4, <1>5, <1>6, <1>7, <1>8, FinalStep DEF Final

\* All the subtasks have been started, or the method gives up.
LEMMA SpawnedStep ==
    ASSUME TaskInv, NEW p \in Proc, Spawned(p)
    PROVE  TaskInv'
<1> USE DEF TaskInv, dbVars, lockVars, envVars
<1>1. /\ UNCHANGED <<stage, row, queue, owner, powner, job, bad, loc, next, result, pstage, some,
                     asked, calls, cancels, crashes, dropped>>
      /\ pc[p] = "spawn" /\ todo' = [todo EXCEPT ![p] = {}]
      /\ \/ todo[p] = {} /\ pc' = [pc EXCEPT ![p] = "done"]
         \/ pc' = [pc EXCEPT ![p] = "fail"]
  BY DEF Spawned, Goto, At
<1>2. job[p] \in Task /\ ~bad[p] /\ loc[p] = "wait"
  BY <1>1 DEF JobsInOrder, SpawningInOrder
<1>3. TypeOK'
  BY <1>1 DEF TypeOK, PC
<1>4. /\ (todo[p] = {} /\ pc'[p] = "done") \/ pc'[p] = "fail"
      /\ \A q \in Proc : q # p => pc'[q] = pc[q] /\ todo'[q] = todo[q]
  BY <1>1 DEF TypeOK
<1>5. Alone(p)
  BY <1>1, <1>4 DEF Alone
<1>6. LocksInOrder'
  BY <1>1, <1>4 DEF LocksInOrder, Missing
<1>7. JobsInOrder'
  BY <1>1, <1>2, <1>4 DEF JobsInOrder, Spawner
<1>8. Report(p)'
  BY <1>4 DEF Report, Succeeding
<1>9. Spawner(p)' \/ AllLinked(job[p])
  BY <1>1, <1>2, <1>4 DEF SpawningInOrder, Spawner, AllLinked
<1> QED
  BY <1>1, <1>3, <1>4, <1>5, <1>6, <1>7, <1>8, <1>9, CalmStep
-----------------------------------------------------------------------------
(***************************************************************************)
(* NotifyParentTaskComplete, and the end.                                  *)
(***************************************************************************)
\* The copy of the parent that a report works with is in the stage of the rows.
LEMMA NotifyStep ==
    ASSUME TaskInv, NEW p \in Proc, NotifyParent(p)
    PROVE  TaskInv'
<1> USE DEF TaskInv, dbVars, envVars
<1>1. job[p] \in Task /\ pc[p] = "notify" /\ Parent[job[p]] \in Task
  BY DEF NotifyParent, At, JobsInOrder
<1> DEFINE t == Parent[job[p]]
<1>2. /\ UNCHANGED <<stage, row, queue, owner, job, bad, loc, todo, next, result, some,
                     asked, calls, cancels, crashes, dropped>>
      /\ powner[t] = None /\ powner' = [powner EXCEPT ![t] = p]
      /\ pstage' = [pstage EXCEPT ![p] = stage[t]]
      /\ pc' = [pc EXCEPT ![p] = "count"]
  BY DEF NotifyParent, Goto
<1>3. TypeOK'
  BY <1>1, <1>2 DEF TypeOK, PC
<1>4. /\ pc'[p] = "count" /\ pstage'[p] = stage[t] /\ powner'[t] = p
      /\ \A c \in Task : c # t => powner'[c] = powner[c]
      /\ \A q \in Proc : q # p => pc'[q] = pc[q] /\ pstage'[q] = pstage[q]
  BY <1>1, <1>2 DEF TypeOK
<1>5. Alone(p)
  BY <1>2, <1>4 DEF Alone
<1>6. LocksInOrder'
  BY <1>1, <1>2, <1>4, NamesAssumption DEF LocksInOrder, Missing
<1>7. JobsInOrder'
  BY <1>1, <1>2, <1>4 DEF JobsInOrder, Spawner
<1>8. Report(p)'
  <2>1. stage[t] \in Final \/ stage[t] = "wait"
    <3>1. stage[job[p]] # "none"
      BY <1>1 DEF NotStarted
    <3>2. stage[t] \notin {"none", "on_init"}
      BY <1>1, <3>1 DEF FirstStageOver
    <3> QED
      BY <1>1, <3>2 DEF TypeOK, Stage
  <2>2. result[p] = "succ" /\ Covers(t) => AllLinked(t) \/ stage[t] \in Final
    BY <1>1 DEF ReportsInOrder, Report, Succeeding
  <2>3. AllLinked(t) /\ stage[t] \notin Final => \A c \in Kids(t) : row[c] # None /\ row[c].stage = "wait"
    BY DEF RowsInOrder, AllLinked, Kids
  <2> QED
    BY <1>2, <1>4, <2>1, <2>2, <2>3 DEF Report, Succeeding, AllLinked
<1>9. ~Spawner(p)
  BY <1>1 DEF Spawner
<1> QED
  BY <1>1, <1>2, <1>3, <1>4, <1>5, <1>6, <1>7, <1>8, <1>9, CalmStep

\* The first of the two queries of a report.
LEMMA CountStep ==
    ASSUME TaskInv, NEW p \in Proc, GetTotalSubtasksCount(p)
    PROVE  TaskInv'
<1> USE DEF TaskInv, dbVars, lockVars, envVars
<1> DEFINE b == Rows(Parent[job[p]], pstage[p]) # {}
<1>1. /\ UNCHANGED <<stage, row, queue, owner, powner, job, bad, loc, todo, next, result, pstage,
                     asked, calls, cancels, crashes, dropped>>
      /\ pc[p] = "count" /\ pc' = [pc EXCEPT ![p] = "check"]
      /\ some' = [some EXCEPT ![p] = b]
  BY DEF GetTotalSubtasksCount, Goto, At
<1>2. b \in BOOLEAN
  OBVIOUS
<1> HIDE DEF b
<1>3. TypeOK'
  BY <1>1, <1>2 DEF TypeOK, PC
<1>4. /\ pc'[p] = "check" /\ \A q \in Proc : q # p => pc'[q] = pc[q]
      /\ job[p] \in Task /\ Parent[job[p]] \in Task
  BY <1>1 DEF TypeOK, JobsInOrder
<1>5. Alone(p)
  BY <1>1, <1>4 DEF Alone
<1>6. LocksInOrder'
  BY <1>1, <1>4 DEF LocksInOrder, Missing
<1>7. JobsInOrder'
  BY <1>1, <1>4 DEF JobsInOrder, Spawner
<1>8. Report(p)'
  BY <1>1, <1>4 DEF ReportsInOrder, Report, Succeeding, AllLinked
<1>9. ~Spawner(p)
  BY <1>1 DEF Spawner
<1> QED
  BY <1>1, <1>3, <1>4, <1>5, <1>6, <1>7, <1>8, <1>9, CalmStep

\* A goroutine that is done has no locks any more.
LEMMA DoneStep ==
    ASSUME TaskInv, NEW p \in Proc, Done(p)
    PROVE  TaskInv'
<1> USE DEF TaskInv, dbVars, envVars
<1>1. /\ UNCHANGED <<stage, row, queue, powner, todo, next, asked, calls, cancels, crashes, dropped>>
      /\ pc[p] = "done"
      /\ owner' = [o \in Object |-> IF owner[o] = p THEN None ELSE owner[o]]
      /\ pc' = [pc EXCEPT ![p] = "idle"] /\ job' = [job EXCEPT ![p] = None]
      /\ bad' = [bad EXCEPT ![p] = FALSE] /\ loc' = [loc EXCEPT ![p] = "none"]
      /\ result' = [result EXCEPT ![p] = "none"] /\ pstage' = [pstage EXCEPT ![p] = "none"]
      /\ some' = [some EXCEPT ![p] = FALSE]
  BY DEF Done, Goto, At
<1>2. TypeOK'
  <2>1. owner' \in [Object -> Proc \cup {None}]
    BY <1>1 DEF TypeOK
  <2>2. /\ pc' \in [Proc -> PC] /\ job' \in [Proc -> Task \cup {None}] /\ bad' \in [Proc -> BOOLEAN]
        /\ loc' \in [Proc -> Stage] /\ pstage' \in [Proc -> Stage]
        /\ result' \in [Proc -> {"none", "succ", "fail"}] /\ some' \in [Proc -> BOOLEAN]
    BY <1>1 DEF TypeOK, PC, Stage
  <2> QED
    BY <1>1, <2>1, <2>2 DEF TypeOK
<1>3. /\ pc'[p] = "idle"
      /\ \A q \in Proc : q # p => /\ pc'[q] = pc[q] /\ job'[q] = job[q] /\ bad'[q] = bad[q]
                                  /\ loc'[q] = loc[q] /\ result'[q] = result[q]
                                  /\ pstage'[q] = pstage[q]
      /\ \A o \in Object, q \in Proc : owner'[o] = q <=> q # p /\ owner[o] = q
  BY <1>1, NamesAssumption DEF TypeOK
<1>4. Alone(p)
  BY <1>1, <1>3 DEF Alone
<1>5. \A q \in Proc : pc[q] # "idle" => job[q] \in Task /\ Objs[job[q]] \subseteq Object
  BY DEF JobsInOrder, Object
<1>6. LocksInOrder'
  <2>1. \A q \in Proc : q # p /\ pc[q] = "lock" => \A x \in Missing(q)' : x \in Missing(q)
    BY <1>3, <1>5 DEF Missing
  <2>2. ASSUME NEW x \in Object, NEW q \in Proc, owner'[x] = q
        PROVE  /\ pc'[q] \notin {"idle", "fetch"} /\ x \in Objs[job'[q]]
               /\ pc'[q] = "lock" => \A y \in Missing(q)' : x < y
    BY <1>3, <2>1, <2>2 DEF LocksInOrder
  <2>3. \A t \in Task, q \in Proc : powner'[t] = q =>
          pc'[q] \in {"count", "check"} /\ Parent[job'[q]] = t
    BY <1>1, <1>3 DEF LocksInOrder
  <2> QED
    BY <2>2, <2>3 DEF LocksInOrder
<1>7. JobsInOrder'
  BY <1>1, <1>3, <1>5 DEF JobsInOrder, Spawner
<1>8. Report(p)' /\ ~Spawner(p)
  BY <1>1, <1>3 DEF Report, Succeeding, Spawner
<1> QED
  BY <1>1, <1>2, <1>3, <1>4, <1>6, <1>7, <1>8, CalmStep
-----------------------------------------------------------------------------
(***************************************************************************)
(* Stage methods that go on to the next stage.                             *)
(***************************************************************************)
\* A task that asks a remote agent has no subtasks, and is not of one stage.
LEMMA AskStep ==
    ASSUME TaskInv, NEW p \in Proc, AskMethod(p)
    PROVE  TaskInv'
<1> USE DEF TaskInv, lockVars
<1>1. /\ job[p] \in Task /\ job[p] \in Async /\ Kids(job[p]) = {} /\ stage[job[p]] # "none"
      /\ pc[p] = "handler" /\ ~bad[p] /\ loc[p] = "on_init" /\ Running(p, job[p])
  BY TreeAssumption DEF AskMethod, At, JobsInOrder, NotStarted, Running
<1>2. /\ UNCHANGED <<row, queue, owner, powner, job, bad, todo, next, result, pstage, some, calls,
                     cancels, crashes, dropped>>
      /\ stage' = [stage EXCEPT ![job[p]] = "wait"]
      /\ loc' = [loc EXCEPT ![p] = "wait"]
      /\ asked' = asked \cup {job[p]}
      /\ pc' = [pc EXCEPT ![p] = "done"]
  BY <1>1 DEF AskMethod, SetStage, Goto
<1>3. TypeOK' /\ asked' \subseteq Async
  BY <1>1, <1>2 DEF TypeOK, PC, Stage
<1>4. /\ pc'[p] = "done" /\ stage'[job[p]] = "wait"
      /\ \A t \in Task : t # job[p] => stage'[t] = stage[t]
      /\ \A q \in Proc : q # p => pc'[q] = pc[q] /\ loc'[q] = loc[q]
  BY <1>1, <1>2 DEF TypeOK
<1>5. LocksInOrder'
  BY <1>1, <1>2, <1>4 DEF LocksInOrder, Missing
<1>6. JobsInOrder'
  BY <1>1, <1>2, <1>4 DEF JobsInOrder, Spawner
<1>7. /\ \A t \in Task : Queued(t)' <=> Queued(t)
      /\ \A t \in Task, q \in Proc : Running(q, t)' => Running(q, t)
      /\ \A t \in Task : AllLinked(t)' <=> AllLinked(t)
      /\ \A q \in Proc : Spawner(q)' <=> Spawner(q)
      /\ \A t \in Task : stage'[t] = "none" <=> stage[t] = "none"
      /\ \A c \in Task : Parent[c] # job[p]
      /\ \A t \in Task : Covers(t) => job[p] \notin Kids(t)
  BY <1>1, <1>2, <1>4 DEF Queued, Running, AllLinked, Spawner, Kids, Covers, OneStage
<1>8. \A t \in Task : Covers(t) => (AllFinal(t)' <=> AllFinal(t))
  BY <1>4, <1>7 DEF AllFinal, Kids
<1>9. NotStarted'
  BY <1>1, <1>2, <1>4, <1>7 DEF NotStarted
<1>10. Unlinked' /\ OneRun'
  <2>1. Unlinked'
    BY <1>1, <1>2, <1>4, <1>7 DEF Unlinked
  <2>2. OneRun'
    BY <1>2, <1>7 DEF OneRun, Kids
  <2> QED
    BY <2>1, <2>2
<1>11. FirstStageOver'
  BY <1>2, <1>4, <1>7 DEF FirstStageOver, Running
<1>12. SpawningInOrder'
  BY <1>1, <1>2, <1>4, <1>7 DEF SpawningInOrder, Kids, JobsInOrder
<1>13. RowsInOrder'
  BY <1>1, <1>2, <1>4, <1>7 DEF RowsInOrder, OneStage
<1>14. StartedInOrder'
  BY <1>2, <1>4, <1>7 DEF StartedInOrder
<1>15. ReportsInOrder'
  <2> SUFFICES ASSUME NEW q \in Proc PROVE Report(q)'
    BY DEF ReportsInOrder
  <2>1. CASE q = p
    BY <1>4, <2>1 DEF Report, Succeeding
  <2>2. CASE q # p
    <3>1. pc[q] # "idle" => job[q] \in Task /\ Parent[job[q]] # job[p]
      BY <1>7 DEF JobsInOrder
    <3>2. OneStage(job[q]) => job[q] # job[p]
      BY <1>1 DEF OneStage
    <3>3. pc[q] \in {"notify", "count", "check"} => Parent[job[q]] \in Task
      BY DEF JobsInOrder
    <3> QED
      BY <1>2, <1>4, <1>7, <2>2, <3>1, <3>2, <3>3 DEF ReportsInOrder, Report, Succeeding
  <2> QED
    BY <2>1, <2>2
<1>16. WokenInOrder'
  BY <1>1, <1>2, <1>4, <1>7, <1>8 DEF WokenInOrder, Running, AllFinal
<1>17. CompleteAfterSubtasks'
  BY <1>4, <1>8 DEF CompleteAfterSubtasks
<1> QED
  BY <1>3, <1>5, <1>6, <1>9, <1>10, <1>11, <1>12, <1>13, <1>14, <1>15, <1>16, <1>17

\* A task with subtasks starts them in its first stage, once.
LEMMA SpawnStep ==
    ASSUME TaskInv, NEW p \in Proc, SpawnMethod(p)
    PROVE  TaskInv'
<1> USE DEF TaskInv, lockVars, envVars
<1>1. /\ job[p] \in Task /\ job[p] \notin Async /\ Kids(job[p]) # {} /\ stage[job[p]] # "none"
      /\ pc[p] = "handler" /\ ~bad[p] /\ loc[p] = "on_init" /\ Running(p, job[p])
      /\ \A o \in Objs[job[p]] : owner[o] = p
  BY TreeAssumption DEF SpawnMethod, At, JobsInOrder, NotStarted, Running
<1>2. /\ UNCHANGED <<row, queue, owner, powner, job, bad, next, result, pstage, some, asked, calls,
                     cancels, crashes, dropped>>
      /\ stage' = [stage EXCEPT ![job[p]] = "wait"]
      /\ loc' = [loc EXCEPT ![p] = "wait"]
      /\ todo' = [todo EXCEPT ![p] = Kids(job[p])]
      /\ pc' = [pc EXCEPT ![p] = "spawn"]
  BY <1>1 DEF SpawnMethod, SetStage, Goto
<1>3. TypeOK'
  <2>1. Kids(job[p]) \in SUBSET Task
    BY DEF Kids
  <2>2. todo' \in [Proc -> SUBSET Task]
    BY <1>2, <2>1 DEF TypeOK
  <2> QED
    BY <1>1, <1>2, <2>2 DEF TypeOK, PC, Stage
<1>4. /\ pc'[p] = "spawn" /\ loc'[p] = "wait" /\ stage'[job[p]] = "wait"
      /\ todo'[p] = Kids(job[p])
      /\ \A t \in Task : t # job[p] => stage'[t] = stage[t]
      /\ \A q \in Proc : q # p => pc'[q] = pc[q] /\ loc'[q] = loc[q] /\ todo'[q] = todo[q]
  BY <1>1, <1>2 DEF TypeOK
<1>5. \A c \in Kids(job[p]) : c \in Task /\ stage[c] = "none" /\ row[c] = None /\ c # job[p]
  <2>1. \A c \in Kids(job[p]) : c \in Task /\ stage[c] = "none"
    BY <1>1 DEF FirstStageOver, Kids
  <2> QED
    BY <1>1, <2>1 DEF NotStarted
<1>6. ~Queued(job[p]) /\ \A q \in Proc : Running(q, job[p]) => q = p
  BY <1>1, <1>5 DEF OneRun
<1>7. LocksInOrder'
  BY <1>1, <1>2, <1>4 DEF LocksInOrder, Missing
<1>8. JobsInOrder'
  BY <1>1, <1>2, <1>4 DEF JobsInOrder, Spawner
<1>9. /\ \A t \in Task : Queued(t)' <=> Queued(t)
      /\ \A t \in Task, q \in Proc : Running(q, t)' <=> Running(q, t)
      /\ \A t \in Task : AllLinked(t)' <=> AllLinked(t)
      /\ \A q \in Proc : Spawner(q) => Spawner(q)'
      /\ \A t \in Task : stage'[t] = "none" <=> stage[t] = "none"
      /\ \A t \in Task : Covers(t) => job[p] \notin Kids(t)
  BY <1>1, <1>2, <1>4 DEF Queued, Running, AllLinked, Spawner, Covers, OneStage
<1>10. \A t \in Task : Covers(t) => (AllFinal(t)' <=> AllFinal(t))
  BY <1>4, <1>9 DEF AllFinal, Kids
<1>11. \A q \in Proc : pc[q] # "idle" => job[q] \in Task /\ Parent[job[q]] # job[p]
  BY <1>5 DEF JobsInOrder, NotStarted, Kids
<1>12. NotStarted'
  BY <1>1, <1>2, <1>4, <1>9 DEF NotStarted
<1>13. Unlinked' /\ OneRun'
  <2>1. Unlinked'
    BY <1>1, <1>2, <1>4, <1>9 DEF Unlinked
  <2>2. OneRun'
    BY <1>2, <1>9 DEF OneRun, Kids
  <2> QED
    BY <2>1, <2>2
<1>14. FirstStageOver'
  BY <1>1, <1>2, <1>4, <1>5, <1>9 DEF FirstStageOver, Running, Kids
<1>15. SpawningInOrder'
  <2> SUFFICES ASSUME NEW q \in Proc, pc'[q] \in {"spawn", "link"}
               PROVE  /\ ~bad'[q] /\ loc'[q] = "wait" /\ stage'[job'[q]] \notin {"none", "on_init"}
                      /\ todo'[q] \subseteq Kids(job'[q])
                      /\ \A c \in Kids(job'[q]) : c \in todo'[q] <=> row'[c] = None
                      /\ pc'[q] = "spawn" => \A c \in todo'[q] : stage'[c] = "none"
                      /\ \A c, d \in todo'[q] : stage'[c] # "none" /\ stage'[d] # "none" => c = d
    BY DEF SpawningInOrder
  <2>1. CASE q = p
    BY <1>1, <1>2, <1>4, <1>5, <2>1
  <2>2. CASE q # p
    <3>1. job[q] \in Task /\ job[q] # job[p]
      BY <1>4, <1>6, <2>2 DEF JobsInOrder, SpawningInOrder, Running
    <3>2. todo[q] \subseteq Task
      BY DEF TypeOK
    <3> QED
      BY <1>2, <1>4, <1>9, <2>2, <3>1, <3>2 DEF SpawningInOrder
  <2> QED
    BY <2>1, <2>2
<1>16. RowsInOrder'
  BY <1>1, <1>2, <1>4, <1>5, <1>9 DEF RowsInOrder, OneStage, Kids
<1>17. StartedInOrder'
  <2> SUFFICES ASSUME NEW c \in Task, Parent[c] \in Task, OneStage(c),
                      Queued(c) \/ \E q \in Proc : Running(q, c)
               PROVE  \/ \E q \in Proc : Spawner(q)' /\ job'[q] = Parent[c]
                      \/ AllLinked(Parent[c])'
                      \/ stage'[Parent[c]] \in Final
    BY <1>9 DEF StartedInOrder
  <2>1. stage[c] # "none"
    BY DEF NotStarted, Queued, Running
  <2>2. Parent[c] # job[p]
    BY <1>5, <2>1 DEF Kids
  <2> QED
    BY <1>2, <1>4, <1>9, <2>2 DEF StartedInOrder
<1>18. ReportsInOrder'
  <2> SUFFICES ASSUME NEW q \in Proc PROVE Report(q)'
    BY DEF ReportsInOrder
  <2>1. CASE q = p
    BY <1>4, <2>1 DEF Report, Succeeding
  <2>2. CASE q # p
    <3>1. OneStage(job[q]) => job[q] # job[p]
      BY <1>1 DEF OneStage
    <3>2. pc[q] \in {"notify", "count", "check"} => Parent[job[q]] \in Task
      BY DEF JobsInOrder
    <3> QED
      BY <1>2, <1>4, <1>9, <1>11, <2>2, <3>1, <3>2 DEF ReportsInOrder, Report, Succeeding
  <2> QED
    BY <2>1, <2>2
<1>19. WokenInOrder'
  <2> SUFFICES ASSUME NEW t \in Task, Covers(t)
               PROVE  /\ stage'[t] = "wait" /\ (Queued(t)' \/ \E q \in Proc : pc'[q] = "fetch" /\ Running(q, t)')
                            => AllFinal(t)'
                      /\ \A q \in Proc :
                            pc'[q] \in {"lock", "handler"} /\ Running(q, t)' /\ loc'[q] = "wait" => AllFinal(t)'
    BY DEF WokenInOrder
  <2>1. CASE t = job[p]
    BY <1>4, <1>6, <1>9, <2>1
  <2>2. CASE t # job[p]
    BY <1>4, <1>9, <1>10, <2>2 DEF WokenInOrder
  <2> QED
    BY <2>1, <2>2
<1>20. CompleteAfterSubtasks'
  BY <1>4, <1>10 DEF CompleteAfterSubtasks
<1> QED
  BY <1>2, <1>3, <1>7, <1>8, <1>12, <1>13, <1>14, <1>15, <1>16, <1>17, <1>18, <1>19, <1>20

\* One goroutine starts the subtasks of a task: it has the objects of the task.
LEMMA OneSpawner ==
    ASSUME TaskInv, NEW p \in Proc, NEW q \in Proc, Spawner(p), Spawner(q), job[p] = job[q]
    PROVE  p = q
<1> USE DEF TaskInv
<1>1. job[p] \in Task
  BY DEF JobsInOrder, Spawner
<1> QED
  BY <1>1, ObjsAssumption DEF JobsInOrder

\* A row of tasks_tbl that nobody knows of yet.
LEMMA NewTaskStep ==
    ASSUME TaskInv, NEW p \in Proc, NewTask(p)
    PROVE  TaskInv'
<1> USE DEF TaskInv, lockVars, envVars
<1>1. PICK c \in todo[p] :
         /\ UNCHANGED <<row, queue, owner, powner, job, bad, loc, todo, next, result, pstage, some,
                        asked, calls, cancels, crashes, dropped>>
         /\ pc[p] = "spawn" /\ pc' = [pc EXCEPT ![p] = "link"]
         /\ stage[c] = "none" /\ stage' = [stage EXCEPT ![c] = "on_init"]
  BY DEF NewTask, Goto, At
<1> DEFINE t == job[p]
<1>2. /\ t \in Task /\ ~bad[p] /\ loc[p] = "wait" /\ stage[t] \notin {"none", "on_init"}
      /\ c \in Task /\ Parent[c] = t /\ row[c] = None /\ c # t
      /\ \A d \in todo[p] : d \in Task /\ Parent[d] = t /\ stage[d] = "none"
      /\ Running(p, t)
  BY <1>1 DEF SpawningInOrder, JobsInOrder, Kids, Running
<1>3. TypeOK'
  BY <1>1, <1>2 DEF TypeOK, PC, Stage
<1>4. /\ pc'[p] = "link" /\ stage'[c] = "on_init"
      /\ \A d \in Task : d # c => stage'[d] = stage[d]
      /\ \A q \in Proc : q # p => pc'[q] = pc[q]
  BY <1>1, <1>2 DEF TypeOK
<1>5. LocksInOrder'
  BY <1>1, <1>4 DEF LocksInOrder, Missing
<1>6. JobsInOrder'
  BY <1>1, <1>2, <1>4 DEF JobsInOrder, Spawner
<1>7. /\ \A d \in Task : Queued(d)' <=> Queued(d)
      /\ \A d \in Task, q \in Proc : Running(q, d)' <=> Running(q, d)
      /\ \A d \in Task : AllLinked(d)' <=> AllLinked(d)
      /\ \A q \in Proc : Spawner(q)' <=> Spawner(q)
      /\ \A d \in Task : stage'[d] = "none" => stage[d] = "none"
      /\ \A d \in Task : stage'[d] = "wait" <=> stage[d] = "wait"
      /\ \A d \in Task : stage'[d] \in Final <=> stage[d] \in Final
      /\ \A d \in Task : stage'[d] = "complete" <=> stage[d] = "complete"
  BY <1>1, <1>2, <1>4 DEF Queued, Running, AllLinked, Spawner, Final
<1>8. \A d \in Task : AllFinal(d)' <=> AllFinal(d)
  BY <1>7 DEF AllFinal, Kids
<1>9. NotStarted'
  BY <1>1, <1>4, <1>7 DEF NotStarted
<1>10. Unlinked' /\ OneRun'
  <2>1. Unlinked'
    BY <1>1, <1>7 DEF Unlinked
  <2>2. OneRun'
    BY <1>1, <1>7 DEF OneRun, Kids
  <2> QED
    BY <2>1, <2>2
<1>11. FirstStageOver'
  <2> SUFFICES ASSUME NEW d \in Task, Parent[d] \in Task, stage'[d] # "none"
               PROVE  /\ stage'[Parent[d]] \notin {"none", "on_init"}
                      /\ Parent[Parent[d]] \in Task => row'[Parent[d]] # None
                      /\ \A q \in Proc :
                            pc'[q] \in {"lock", "handler"} /\ Running(q, Parent[d])' => loc'[q] = "wait"
    BY DEF FirstStageOver
  <2>1. CASE stage[d] # "none"
    <3>1. Parent[d] # c
      BY <1>1, <2>1 DEF FirstStageOver
    <3> QED
      BY <1>1, <1>4, <1>7, <2>1, <3>1 DEF FirstStageOver
  <2>2. CASE stage[d] = "none"
    <3>1. d = c
      BY <1>4, <2>2
    <3>2. Parent[t] \in Task => row[t] # None
      BY <1>2 DEF Unlinked
    <3>3. ASSUME NEW q \in Proc, pc'[q] \in {"lock", "handler"}, Running(q, t) PROVE loc[q] = "wait"
      <4>0. q # p /\ pc[q] \in {"lock", "handler"}
        BY <1>4, <3>3
      <4>1. CASE \A e \in Kids(t) : stage[e] = "none"
        <5>1. t \notin Async
          BY <1>2, TreeAssumption DEF Kids
        <5> QED
          BY <1>2, <3>3, <4>0, <4>1, <5>1 DEF OneRun
      <4>2. CASE \E e \in Kids(t) : stage[e] # "none"
        BY <1>2, <3>3, <4>0, <4>2 DEF FirstStageOver, Kids
      <4> QED
        BY <4>1, <4>2
    <3> QED
      BY <1>1, <1>2, <1>4, <1>7, <3>1, <3>2, <3>3
  <2> QED
    BY <2>1, <2>2
<1>12. SpawningInOrder'
  <2> SUFFICES ASSUME NEW q \in Proc, pc'[q] \in {"spawn", "link"}
               PROVE  /\ ~bad'[q] /\ loc'[q] = "wait" /\ stage'[job'[q]] \notin {"none", "on_init"}
                      /\ todo'[q] \subseteq Kids(job'[q])
                      /\ \A d \in Kids(job'[q]) : d \in todo'[q] <=> row'[d] = None
                      /\ pc'[q] = "spawn" => \A d \in todo'[q] : stage'[d] = "none"
                      /\ \A d, e \in todo'[q] : stage'[d] # "none" /\ stage'[e] # "none" => d = e
    BY DEF SpawningInOrder
  <2>1. CASE q = p
    BY <1>1, <1>2, <1>4, <2>1 DEF SpawningInOrder
  <2>2. CASE q # p
    <3>1. /\ job[q] \in Task /\ job[q] # t /\ job[q] # c
      BY <1>1, <1>4, <2>2, OneSpawner DEF JobsInOrder, SpawningInOrder, Spawner
    <3>2. todo[q] \subseteq Task /\ c \notin todo[q]
      BY <1>2, <1>4, <2>2, <3>1 DEF TypeOK, SpawningInOrder, Kids
    <3> QED
      BY <1>1, <1>4, <2>2, <3>1, <3>2 DEF SpawningInOrder
  <2> QED
    BY <2>1, <2>2
<1>13. RowsInOrder'
  BY <1>1, <1>4, <1>7 DEF RowsInOrder
<1>14. StartedInOrder'
  BY <1>1, <1>7 DEF StartedInOrder
<1>15. ReportsInOrder'
  <2> SUFFICES ASSUME NEW q \in Proc PROVE Report(q)'
    BY DEF ReportsInOrder
  <2>1. CASE q = p
    BY <1>4, <2>1 DEF Report, Succeeding
  <2>2. CASE q # p
    <3>1. pc[q] # "idle" => job[q] \in Task
      BY DEF JobsInOrder
    <3>2. pc[q] \in {"notify", "count", "check"} => Parent[job[q]] \in Task
      BY DEF JobsInOrder
    <3> QED
      BY <1>1, <1>4, <1>7, <2>2, <3>1, <3>2 DEF ReportsInOrder, Report, Succeeding
  <2> QED
    BY <2>1, <2>2
<1>16. WokenInOrder' /\ CompleteAfterSubtasks'
  <2>1. WokenInOrder'
    BY <1>1, <1>4, <1>7, <1>8 DEF WokenInOrder
  <2>2. CompleteAfterSubtasks'
    BY <1>7, <1>8 DEF CompleteAfterSubtasks
  <2> QED
    BY <2>1, <2>2
<1> QED
  BY <1>1, <1>3, <1>5, <1>6, <1>9, <1>10, <1>11, <1>12, <1>13, <1>14, <1>15, <1>16

\* The places of the queue at which a task is to be run.
Once(t) == \A i, j \in DOMAIN queue :
              queue[i].task = t /\ ~queue[i].bad /\ queue[j].task = t /\ ~queue[j].bad => i = j
Absent(t) == \A i \in DOMAIN queue : queue[i].task # t

\* What runTask does to the queue.
LEMMA RunTaskFacts ==
    ASSUME TypeOK, NEW t \in Task, NEW b \in BOOLEAN, runTask(t, b)
    PROVE  /\ queue' \in Seq([task : Task, bad : BOOLEAN]) /\ Len(queue') <= QueueSize
           /\ dropped' \in BOOLEAN
           /\ \A u \in Task : Queued(u)' => Queued(u) \/ (u = t /\ ~b)
           /\ \A u \in Task : Absent(u) /\ u # t => Absent(u)'
           /\ \A u \in Task : Once(u) /\ (u # t \/ b \/ ~Queued(u)) => Once(u)'
           /\ ~Room => queue' = queue
<1> DEFINE e == [task |-> t, bad |-> b]
<1>1. /\ queue \in Seq([task : Task, bad : BOOLEAN]) /\ Len(queue) <= QueueSize /\ Len(queue) \in Nat
      /\ dropped \in BOOLEAN /\ QueueSize \in Nat
  BY BoundsAssumption DEF TypeOK
<1>2. CASE Room
  <2>1. queue' = Append(queue, e) /\ dropped' = dropped
    BY <1>2 DEF runTask
  <2>2. /\ queue' \in Seq([task : Task, bad : BOOLEAN]) /\ Len(queue') = Len(queue) + 1
        /\ DOMAIN queue = 1 .. Len(queue) /\ DOMAIN queue' = 1 .. Len(queue) + 1
        /\ queue'[Len(queue) + 1] = e
        /\ \A i \in DOMAIN queue : queue'[i] = queue[i]
    BY <1>1, <2>1
  <2>3. /\ e.task = t /\ e.bad = b
        /\ \A i \in DOMAIN queue' : i \in DOMAIN queue \/ i = Len(queue) + 1
    BY <1>1, <2>2
  <2>4. Len(queue') <= QueueSize
    BY <1>1, <1>2, <2>2 DEF Room
  <2> HIDE DEF e
  <2>5. \A u \in Task : Queued(u)' => Queued(u) \/ (u = t /\ ~b)
    BY <2>2, <2>3 DEF Queued
  <2>6. \A u \in Task : Absent(u) /\ u # t => Absent(u)'
    BY <2>2, <2>3 DEF Absent
  <2>7. \A u \in Task : Once(u) /\ (u # t \/ b \/ ~Queued(u)) => Once(u)'
    <3> SUFFICES ASSUME NEW u \in Task, Once(u), u # t \/ b \/ ~Queued(u),
                        NEW i \in DOMAIN queue', NEW j \in DOMAIN queue',
                        queue'[i].task = u, ~queue'[i].bad, queue'[j].task = u, ~queue'[j].bad
                 PROVE  i = j
      BY DEF Once
    <3> QED
      BY <2>2, <2>3 DEF Once, Queued
  <2> QED
    BY <1>1, <1>2, <2>1, <2>2, <2>4, <2>5, <2>6, <2>7
<1>3. CASE ~Room
  BY <1>1, <1>3 DEF runTask, Queued, Absent, Once
<1> QED
  BY <1>2, <1>3

\* The first job of a subtask, whose row has the stage "wait" unless the parent is
\* over.
LEMMA ScheduleRunStep ==
    ASSUME TaskInv, NEW p \in Proc, ScheduleRun(p)
    PROVE  TaskInv'
<1> USE DEF TaskInv, lockVars
<1> DEFINE t == job[p]
           r == [stage |-> stage[t], status |-> "init"]
<1>1. PICK c \in todo[p] :
         /\ UNCHANGED <<stage, owner, powner, job, bad, loc, next, result, pstage, some,
                        asked, calls, cancels, crashes>>
         /\ pc[p] = "link" /\ pc' = [pc EXCEPT ![p] = IF Room THEN "spawn" ELSE "fail"]
         /\ stage[c] # "none" /\ row' = [row EXCEPT ![c] = r]
         /\ todo' = [todo EXCEPT ![p] = @ \ {c}]
         /\ runTask(c, FALSE)
  BY DEF ScheduleRun, Goto, At
<1>2. /\ t \in Task /\ ~bad[p] /\ loc[p] = "wait" /\ stage[t] \notin {"none", "on_init"}
      /\ c \in Task /\ Parent[c] = t /\ row[c] = None
      /\ \A d \in Kids(t) : d \in todo[p] <=> row[d] = None
      /\ \A d \in todo[p] : d \in Task /\ Parent[d] = t /\ (stage[d] # "none" => d = c)
      /\ Running(p, t)
  BY <1>1 DEF SpawningInOrder, JobsInOrder, Kids, Running
<1>3. /\ stage[c] # "wait" /\ c \notin asked /\ ~Queued(c) /\ c # t
      /\ \A q \in Proc : ~Running(q, c)
  BY <1>2 DEF Unlinked
<1>4. /\ r \in Row /\ r # None /\ r.stage = stage[t] /\ r.status = "init"
  BY <1>2, NamesAssumption DEF TypeOK, Row
<1>5. /\ queue' \in Seq([task : Task, bad : BOOLEAN]) /\ Len(queue') <= QueueSize
      /\ dropped' \in BOOLEAN
      /\ \A u \in Task : Queued(u)' => Queued(u) \/ u = c
      /\ \A u \in Task : Absent(u) /\ u # c => Absent(u)'
      /\ \A u \in Task : Once(u) /\ (u # c \/ ~Queued(u)) => Once(u)'
  BY <1>1, <1>2, RunTaskFacts
<1> HIDE DEF r
<1>6. TypeOK'
  <2>1. /\ row' \in [Task -> Row \cup {None}] /\ pc' \in [Proc -> PC]
        /\ todo' \in [Proc -> SUBSET Task]
    BY <1>1, <1>2, <1>4 DEF TypeOK, PC
  <2> QED
    BY <1>1, <1>5, <2>1 DEF TypeOK
<1>7. /\ pc'[p] \in {"spawn", "fail"} /\ row'[c] = r /\ todo'[p] = todo[p] \ {c}
      /\ \A d \in Task : d # c => row'[d] = row[d]
      /\ \A q \in Proc : q # p => pc'[q] = pc[q] /\ todo'[q] = todo[q]
  BY <1>1, <1>2 DEF TypeOK
<1>8. LocksInOrder'
  BY <1>1, <1>7 DEF LocksInOrder, Missing
<1>9. Spawner(p) /\ Spawner(p)'
  BY <1>1, <1>2, <1>7 DEF Spawner
<1>10. JobsInOrder'
  BY <1>1, <1>2, <1>7, <1>9 DEF JobsInOrder, Spawner
<1>11. /\ \A d \in Task, q \in Proc : Running(q, d)' <=> Running(q, d)
       /\ \A d \in Task : AllLinked(d) => AllLinked(d)'
       /\ \A d \in Task : AllFinal(d)' <=> AllFinal(d)
       /\ \A q \in Proc : Spawner(q)' <=> Spawner(q)
       /\ \A d \in Task : row'[d] = None => row[d] = None /\ d # c
  BY <1>1, <1>4, <1>7, <1>9 DEF Running, AllLinked, AllFinal, Kids, Spawner
<1>12. NotStarted'
  <2> SUFFICES ASSUME NEW u \in Task, stage[u] = "none"
               PROVE  /\ row'[u] = None /\ u \notin asked /\ Absent(u)'
                      /\ \A q \in Proc : /\ pc'[q] # "idle" => job[q] # u
                                         /\ \A i \in DOMAIN next[q] : next[q][i].task # u
    BY <1>1 DEF NotStarted, Absent
  <2>1. u # c /\ u # t
    BY <1>1, <1>2
  <2>2. row[u] = None /\ u \notin asked /\ Absent(u)
    BY DEF NotStarted, Absent
  <2> QED
    BY <1>5, <1>7, <2>1, <2>2 DEF NotStarted
<1>13. Unlinked'
  BY <1>1, <1>5, <1>11 DEF Unlinked
<1>14. OneRun'
  <2> SUFFICES ASSUME NEW u \in Task \ asked, \A d \in Kids(u) : stage[d] = "none"
               PROVE  /\ Once(u)'
                      /\ \A q \in Proc : Running(q, u)' => ~Queued(u)'
                      /\ \A q, s \in Proc : Running(q, u)' /\ Running(s, u)' => q = s
    BY <1>1 DEF OneRun, Once
  <2>1. /\ Once(u)
        /\ \A q \in Proc : Running(q, u) => ~Queued(u)
        /\ \A q, s \in Proc : Running(q, u) /\ Running(s, u) => q = s
    BY DEF OneRun, Once
  <2> QED
    BY <1>3, <1>5, <1>11, <2>1
<1>15. FirstStageOver'
  BY <1>1, <1>7, <1>11 DEF FirstStageOver
<1>16. SpawningInOrder'
  <2> SUFFICES ASSUME NEW q \in Proc, pc'[q] \in {"spawn", "link"}
               PROVE  /\ ~bad'[q] /\ loc'[q] = "wait" /\ stage'[job'[q]] \notin {"none", "on_init"}
                      /\ todo'[q] \subseteq Kids(job'[q])
                      /\ \A d \in Kids(job'[q]) : d \in todo'[q] <=> row'[d] = None
                      /\ pc'[q] = "spawn" => \A d \in todo'[q] : stage'[d] = "none"
                      /\ \A d, e \in todo'[q] : stage'[d] # "none" /\ stage'[e] # "none" => d = e
    BY DEF SpawningInOrder
  <2>1. CASE q = p
    <3>1. \A d \in Kids(t) : d \in todo[p] \ {c} <=> row'[d] = None
      BY <1>2, <1>4, <1>7 DEF Kids
    <3> QED
      BY <1>1, <1>2, <1>7, <2>1, <3>1 DEF SpawningInOrder
  <2>2. CASE q # p
    <3>1. job[q] \in Task /\ job[q] # t
      BY <1>1, <1>7, <1>9, <2>2, OneSpawner DEF JobsInOrder, Spawner
    <3>2. \A d \in Kids(job[q]) : row'[d] = row[d]
      BY <1>2, <1>7, <3>1 DEF Kids
    <3> QED
      BY <1>1, <1>7, <2>2, <3>2 DEF SpawningInOrder
  <2> QED
    BY <2>1, <2>2
<1>17. RowsInOrder'
  <2> SUFFICES ASSUME NEW d \in Task, row'[d] # None
               PROVE  /\ Parent[d] \in Task /\ stage[d] # "none"
                      /\ row'[d].stage # "wait" => stage[Parent[d]] \in Final
                      /\ OneStage(d) /\ row'[d].status # "init" => stage[d] \in Final
    BY <1>1 DEF RowsInOrder
  <2>1. CASE d = c
    <3>1. stage[t] \in Final \/ stage[t] = "wait"
      BY <1>2 DEF TypeOK, Stage
    <3> QED
      BY <1>1, <1>2, <1>4, <1>7, <2>1, <3>1
  <2>2. CASE d # c
    BY <1>7, <2>2 DEF RowsInOrder
  <2> QED
    BY <2>1, <2>2
<1>18. StartedInOrder'
  BY <1>1, <1>2, <1>5, <1>9, <1>11 DEF StartedInOrder
<1>19. ReportsInOrder'
  <2> SUFFICES ASSUME NEW q \in Proc PROVE Report(q)'
    BY DEF ReportsInOrder
  <2>1. CASE q = p
    BY <1>7, <2>1 DEF Report, Succeeding
  <2>2. CASE q # p
    <3> DEFINE u == Parent[job[q]]
    <3>1. pc[q] \in {"notify", "count", "check"} => u \in Task
      BY DEF JobsInOrder
    <3>2. (\A d \in Kids(u) : row[d] # None /\ row[d].stage = "wait") =>
             \A d \in Kids(u) : row'[d] # None /\ row'[d].stage = "wait"
      BY <1>2, <1>7 DEF Kids
    <3>3. Report(q)
      BY DEF ReportsInOrder
    <3> HIDE DEF u
    <3> QED
      BY <1>1, <1>7, <1>11, <2>2, <3>1, <3>2, <3>3 DEF Report, Succeeding, u
  <2> QED
    BY <2>1, <2>2
<1>20. WokenInOrder' /\ CompleteAfterSubtasks'
  <2>1. WokenInOrder'
    BY <1>1, <1>3, <1>5, <1>7, <1>11 DEF WokenInOrder
  <2>2. CompleteAfterSubtasks'
    BY <1>1, <1>11 DEF CompleteAfterSubtasks
  <2> QED
    BY <2>1, <2>2
<1> QED
  BY <1>1, <1>6, <1>8, <1>10, <1>12, <1>13, <1>14, <1>15, <1>16, <1>17, <1>18, <1>19, <1>20
-----------------------------------------------------------------------------
(***************************************************************************)
(* Reports of subtasks and of remote agents.                               *)
(***************************************************************************)
\* A task that waits is woken.
LEMMA WakeStep ==
    ASSUME TaskInv, TypeOK', LocksInOrder', JobsInOrder',
           NEW t \in Task, NEW b \in BOOLEAN, runTask(t, b),
           UNCHANGED <<stage, row, asked, next, job, bad, loc, todo, result, pstage>>,
           \A q \in Proc : pc'[q] = pc[q] \/ (pc[q] = "check" /\ pc'[q] = "done"),
           stage[t] # "none",
           ~b => /\ Parent[t] \in Task => row[t] # None
                 /\ t \in asked \/ \E c \in Kids(t) : stage[c] # "none"
                 /\ Covers(t) /\ stage[t] = "wait" => AllFinal(t)
    PROVE  TaskInv'
<1> USE DEF TaskInv
<1>1. /\ \A u \in Task : Queued(u)' => Queued(u) \/ (u = t /\ ~b)
      /\ \A u \in Task : Absent(u) /\ u # t => Absent(u)'
      /\ \A u \in Task : Once(u) /\ (u # t \/ b \/ ~Queued(u)) => Once(u)'
  BY RunTaskFacts
<1>2. /\ \A u \in Task, q \in Proc : Running(q, u)' => Running(q, u)
      /\ \A u \in Task : AllLinked(u)' <=> AllLinked(u)
      /\ \A u \in Task : AllFinal(u)' <=> AllFinal(u)
      /\ \A q \in Proc : Spawner(q)' <=> Spawner(q)
      /\ \A q \in Proc : pc'[q] # "idle" => pc[q] # "idle"
  BY DEF Running, AllLinked, AllFinal, Spawner
<1>3. NotStarted'
  <2> SUFFICES ASSUME NEW u \in Task, stage[u] = "none"
               PROVE  /\ row[u] = None /\ u \notin asked /\ Absent(u)'
                      /\ \A q \in Proc : /\ pc'[q] # "idle" => job[q] # u
                                         /\ \A i \in DOMAIN next[q] : next[q][i].task # u
    BY DEF NotStarted, Absent
  <2>1. row[u] = None /\ u \notin asked /\ Absent(u)
    BY DEF NotStarted, Absent
  <2> QED
    BY <1>1, <1>2, <2>1 DEF NotStarted
<1>4. Unlinked'
  BY <1>1, <1>2 DEF Unlinked
<1>5. OneRun'
  <2> SUFFICES ASSUME NEW u \in Task \ asked, \A d \in Kids(u) : stage[d] = "none"
               PROVE  /\ Once(u)'
                      /\ \A q \in Proc : Running(q, u)' => ~Queued(u)'
                      /\ \A q, s \in Proc : Running(q, u)' /\ Running(s, u)' => q = s
    BY DEF OneRun, Once
  <2>1. /\ Once(u)
        /\ \A q \in Proc : Running(q, u) => ~Queued(u)
        /\ \A q, s \in Proc : Running(q, u) /\ Running(s, u) => q = s
    BY DEF OneRun, Once
  <2> QED
    BY <1>1, <1>2, <2>1
<1>6. FirstStageOver'
  BY <1>2 DEF FirstStageOver
<1>7. SpawningInOrder' /\ RowsInOrder'
  BY DEF SpawningInOrder, RowsInOrder
<1>8. StartedInOrder'
  BY <1>1, <1>2 DEF StartedInOrder, OneStage
<1>9. ReportsInOrder'
  BY <1>2 DEF ReportsInOrder, Report, Succeeding, AllLinked
<1>10. WokenInOrder' /\ CompleteAfterSubtasks'
  BY <1>1, <1>2 DEF WokenInOrder, CompleteAfterSubtasks
<1> QED
  BY <1>3, <1>4, <1>5, <1>6, <1>7, <1>8, <1>9, <1>10

\* The parent is woken by the last report: the rows of all its subtasks have a
\* result then.
LEMMA CheckStep ==
    ASSUME TaskInv, NEW p \in Proc, IsCurrentStageComplete(p)
    PROVE  TaskInv'
<1> USE DEF TaskInv, dbVars
<1>1. /\ job[p] \in Task /\ pc[p] = "check" /\ Parent[job[p]] \in Task
      /\ result[p] \in {"succ", "fail"} /\ stage[job[p]] # "none"
  BY DEF IsCurrentStageComplete, At, JobsInOrder, NotStarted
<1> DEFINE t == Parent[job[p]]
           woken == some[p] /\ NoneInit(t, pstage[p])
<1>2. /\ UNCHANGED <<stage, row, owner, job, bad, loc, todo, next, result, pstage, some, asked, calls,
                     cancels, crashes>>
      /\ woken => runTask(t, DataOf(result[p]))
      /\ ~woken => UNCHANGED <<queue, dropped>>
      /\ powner' = [powner EXCEPT ![t] = None]
      /\ pc' = [pc EXCEPT ![p] = "done"]
  BY DEF IsCurrentStageComplete, Goto
<1>3. TypeOK'
  <2>1. /\ queue' \in Seq([task : Task, bad : BOOLEAN]) /\ Len(queue') <= QueueSize
        /\ dropped' \in BOOLEAN
    BY <1>1, <1>2, RunTaskFacts DEF TypeOK, DataOf
  <2>2. pc' \in [Proc -> PC] /\ powner' \in [Task -> Proc \cup {None}]
    BY <1>2 DEF TypeOK, PC
  <2> QED
    BY <1>2, <2>1, <2>2 DEF TypeOK
<1>4. /\ pc'[p] = "done" /\ powner'[t] = None
      /\ \A u \in Task : u # t => powner'[u] = powner[u]
      /\ \A q \in Proc : q # p => pc'[q] = pc[q]
  BY <1>1, <1>2 DEF TypeOK
<1>5. LocksInOrder'
  BY <1>1, <1>2, <1>4, NamesAssumption DEF LocksInOrder, Missing
<1>6. JobsInOrder'
  BY <1>1, <1>2, <1>4 DEF JobsInOrder, Spawner
<1>7. CASE ~woken
  <2>1. Alone(p)
    BY <1>2, <1>4 DEF Alone
  <2>2. Report(p)' /\ ~Spawner(p)
    BY <1>1, <1>4 DEF Report, Succeeding, Spawner
  <2> QED
    BY <1>1, <1>2, <1>3, <1>4, <1>5, <1>6, <1>7, <2>1, <2>2, CalmStep
<1>8. CASE woken
  <2>1. stage[t] # "none" /\ (Parent[t] \in Task => row[t] # None)
    BY <1>1 DEF FirstStageOver
  <2>2. \E c \in Kids(t) : stage[c] # "none"
    BY <1>1 DEF Kids
  <2>3. ASSUME result[p] = "succ", Covers(t), stage[t] = "wait" PROVE AllFinal(t)
    <3>1. pstage[p] = "wait" /\ \A c \in Kids(t) : row[c] # None /\ row[c].stage = "wait"
      BY <1>1, <2>3 DEF ReportsInOrder, Report, Final
    <3>2. \A c \in Kids(t) : row[c].status # "init"
      BY <1>8, <3>1 DEF NoneInit, Rows
    <3> QED
      BY <2>3, <3>1, <3>2 DEF AllFinal, RowsInOrder, Covers, Kids
  <2>4. ~DataOf(result[p]) => result[p] = "succ"
    BY <1>1 DEF DataOf
  <2>5. DataOf(result[p]) \in BOOLEAN
    BY DEF DataOf
  <2>6. \A q \in Proc : pc'[q] = pc[q] \/ (pc[q] = "check" /\ pc'[q] = "done")
    BY <1>1, <1>4
  <2> QED
    BY <1>1, <1>2, <1>3, <1>5, <1>6, <1>8, <2>1, <2>2, <2>3, <2>4, <2>5, <2>6, WakeStep
<1> QED
  BY <1>7, <1>8

\* The callback of a remote agent.
LEMMA ActionStep ==
    ASSUME TaskInv, NEW t \in Task, PerformAction(t)
    PROVE  TaskInv'
<1> USE DEF TaskInv, dbVars, lockVars, procVars
<1>1. PICK b \in BOOLEAN :
         /\ UNCHANGED <<stage, row, owner, powner, pc, job, bad, loc, todo, next, result, pstage, some,
                        asked, cancels, crashes>>
         /\ t \in asked /\ calls[t] < MaxCalls
         /\ calls' = [calls EXCEPT ![t] = @ + 1] /\ runTask(t, b)
  BY DEF PerformAction
<1>2. TypeOK'
  <2>1. /\ queue' \in Seq([task : Task, bad : BOOLEAN]) /\ Len(queue') <= QueueSize
        /\ dropped' \in BOOLEAN
    BY <1>1, RunTaskFacts
  <2>2. calls' \in [Task -> 0 .. MaxCalls]
    BY <1>1, BoundsAssumption DEF TypeOK
  <2> QED
    BY <1>1, <2>1, <2>2 DEF TypeOK
<1>3. LocksInOrder' /\ JobsInOrder'
  BY <1>1 DEF LocksInOrder, JobsInOrder, Missing, Spawner
<1>4. /\ stage[t] # "none" /\ t \in Async /\ Kids(t) = {}
      /\ Parent[t] \in Task => row[t] # None
  BY <1>1, TreeAssumption DEF NotStarted, Unlinked
<1>5. AllFinal(t)
  BY <1>4 DEF AllFinal
<1> QED
  BY <1>1, <1>2, <1>3, <1>4, <1>5, WakeStep

\* A result leaves the stage of the row alone.
LEMMA SavedRow == ASSUME NEW r \in Row, NEW x \in {"succ", "fail"}
                  PROVE  Saved(r, x) \in Row /\ Saved(r, x).stage = r.stage
BY DEF Saved, Row

\* The result of a subtask is in its row before the parent is told.
LEMMA SaveStep ==
    ASSUME TaskInv, NEW p \in Proc, SaveResults(p)
    PROVE  TaskInv'
<1> USE DEF TaskInv, lockVars, envVars
<1> DEFINE t == job[p]
<1>1. /\ UNCHANGED <<stage, queue, owner, powner, job, bad, loc, todo, next, result, pstage, some,
                     asked, calls, cancels, crashes, dropped>>
      /\ pc[p] = "save"
      /\ pc' = [pc EXCEPT ![p] = IF Parent[t] = None THEN "done" ELSE "notify"]
      /\ row[t] = None => row' = row
      /\ row[t] # None => row' = [row EXCEPT ![t] = Saved(row[t], result[p])]
  BY DEF SaveResults, Goto, At
<1>2. /\ t \in Task /\ result[p] \in {"succ", "fail"} /\ Parent[t] \in Task \cup {None}
      /\ OneStage(t) => stage[t] \in Final
  BY <1>1, TreeAssumption DEF JobsInOrder, ReportsInOrder, Report
<1>3. row[t] # None => /\ Saved(row[t], result[p]) \in Row
                       /\ Saved(row[t], result[p]).stage = row[t].stage
  BY <1>2, SavedRow DEF TypeOK
<1>4. /\ \A c \in Task : row'[c] = None <=> row[c] = None
      /\ \A c \in Task : row[c] # None => row'[c].stage = row[c].stage
      /\ \A c \in Task : c # t => row'[c] = row[c]
      /\ row' \in [Task -> Row \cup {None}]
  <2>1. row \in [Task -> Row \cup {None}] /\ None \notin Row
    BY NamesAssumption DEF TypeOK
  <2>2. CASE row[t] = None
    BY <1>1, <2>1, <2>2
  <2>3. CASE row[t] # None
    <3>1. PICK r \in Row : r = Saved(row[t], result[p])
      BY <1>3, <2>3
    <3>2. row' = [row EXCEPT ![t] = r] /\ r # None /\ r.stage = row[t].stage
      BY <1>1, <1>3, <2>1, <2>3, <3>1
    <3> QED
      BY <1>2, <2>1, <2>3, <3>2
  <2> QED
    BY <2>2, <2>3
<1>5. TypeOK'
  BY <1>1, <1>4 DEF TypeOK, PC
<1>6. /\ pc'[p] \in {"done", "notify"} /\ (pc'[p] = "notify" => Parent[t] \in Task)
      /\ \A q \in Proc : q # p => pc'[q] = pc[q]
  BY <1>1, <1>2 DEF TypeOK
<1>7. LocksInOrder'
  BY <1>1, <1>6 DEF LocksInOrder, Missing
<1>8. JobsInOrder'
  BY <1>1, <1>2, <1>6 DEF JobsInOrder, Spawner
<1>9. /\ \A u \in Task : Queued(u)' <=> Queued(u)
      /\ \A u \in Task, q \in Proc : Running(q, u)' <=> Running(q, u)
      /\ \A u \in Task : AllLinked(u)' <=> AllLinked(u)
      /\ \A u \in Task : AllFinal(u)' <=> AllFinal(u)
      /\ \A q \in Proc : Spawner(q)' <=> Spawner(q)
  BY <1>1, <1>4, <1>6 DEF Queued, Running, AllLinked, AllFinal, Spawner, Kids
<1>10. NotStarted' /\ Unlinked'
  BY <1>1, <1>4, <1>6, <1>9 DEF NotStarted, Unlinked
<1>11. OneRun' /\ FirstStageOver'
  <2>1. OneRun'
    BY <1>1, <1>9 DEF OneRun
  <2>2. FirstStageOver'
    BY <1>1, <1>4, <1>6, <1>9 DEF FirstStageOver
  <2> QED
    BY <2>1, <2>2
<1>12. SpawningInOrder'
  BY <1>1, <1>4, <1>6 DEF SpawningInOrder, Kids
<1>13. RowsInOrder'
  BY <1>1, <1>2, <1>4 DEF RowsInOrder
<1>14. StartedInOrder'
  BY <1>1, <1>9 DEF StartedInOrder
<1>15. ReportsInOrder'
  <2> SUFFICES ASSUME NEW q \in Proc PROVE Report(q)'
    BY DEF ReportsInOrder
  <2>1. CASE q = p
    BY <1>1, <1>6, <1>9, <2>1 DEF ReportsInOrder, Report, Succeeding
  <2>2. CASE q # p
    <3> DEFINE u == Parent[job[q]]
    <3>1. (\A d \in Kids(u) : row[d] # None /\ row[d].stage = "wait") =>
             \A d \in Kids(u) : row'[d] # None /\ row'[d].stage = "wait"
      BY <1>4 DEF Kids
    <3>2. Report(q)
      BY DEF ReportsInOrder
    <3> HIDE DEF u
    <3> QED
      BY <1>1, <1>6, <1>9, <2>2, <3>1, <3>2 DEF Report, Succeeding, u
  <2> QED
    BY <2>1, <2>2
<1>16. WokenInOrder' /\ CompleteAfterSubtasks'
  BY <1>1, <1>6, <1>9 DEF WokenInOrder, CompleteAfterSubtasks
<1> QED
  BY <1>1, <1>5, <1>7, <1>8, <1>10, <1>11, <1>12, <1>13, <1>14, <1>15, <1>16
-----------------------------------------------------------------------------
(***************************************************************************)
(* Jobs and lists.                                                         *)
(***************************************************************************)
\* The job that ran a task from the queue runs it in the goroutine.
LEMMA TakeStep ==
    ASSUME TaskInv, NEW p \in Proc, Take(p)
    PROVE  TaskInv'
<1> USE DEF TaskInv, dbVars, lockVars, envVars
<1> DEFINE h == Head(queue)
<1>1. /\ UNCHANGED <<stage, row, owner, powner, loc, todo, next, result, pstage, some, asked, calls,
                     cancels, crashes, dropped>>
      /\ pc[p] = "idle" /\ queue # <<>> /\ queue' = Tail(queue)
      /\ job' = [job EXCEPT ![p] = h.task] /\ bad' = [bad EXCEPT ![p] = h.bad]
      /\ pc' = [pc EXCEPT ![p] = "fetch"]
  BY DEF Take, Goto, At
<1>2. /\ queue \in Seq([task : Task, bad : BOOLEAN]) /\ Len(queue) <= QueueSize
      /\ Len(queue) \in Nat /\ Len(queue) > 0 /\ QueueSize \in Nat
      /\ DOMAIN queue = 1 .. Len(queue)
  BY <1>1, BoundsAssumption DEF TypeOK
<1>3. /\ h = queue[1] /\ 1 \in DOMAIN queue /\ h \in [task : Task, bad : BOOLEAN]
      /\ queue' \in Seq([task : Task, bad : BOOLEAN]) /\ Len(queue') <= QueueSize
      /\ DOMAIN queue' = 1 .. (Len(queue) - 1)
      /\ \A i \in DOMAIN queue' : queue'[i] = queue[i + 1] /\ i + 1 \in DOMAIN queue /\ i + 1 # 1
      /\ \A i, j \in DOMAIN queue' : i + 1 = j + 1 => i = j
  <2>1. h = queue[1] /\ 1 \in DOMAIN queue /\ h \in [task : Task, bad : BOOLEAN]
    <3>1. 1 \in DOMAIN queue /\ 1 \in 1 .. Len(queue)
      BY <1>2
    <3>2. queue[1] \in [task : Task, bad : BOOLEAN]
      BY <1>2, <3>1, ElementOfSeq
    <3>3. h = queue[1]
      BY <1>2
    <3> QED
      BY <3>1, <3>2, <3>3
  <2>2. /\ queue' \in Seq([task : Task, bad : BOOLEAN]) /\ Len(queue') = Len(queue) - 1
        /\ \A i \in 1 .. (Len(queue) - 1) : queue'[i] = queue[i + 1]
    BY <1>1, <1>2
  <2>3. DOMAIN queue' = 1 .. (Len(queue) - 1) /\ Len(queue') <= QueueSize
    BY <1>2, <2>2
  <2>4. /\ \A i \in 1 .. (Len(queue) - 1) : i + 1 \in DOMAIN queue /\ i + 1 # 1
        /\ \A i, j \in 1 .. (Len(queue) - 1) : i + 1 = j + 1 => i = j
    BY <1>2
  <2> QED
    BY <2>1, <2>2, <2>3, <2>4
<1>4. h.task \in Task /\ h.bad \in BOOLEAN
  BY <1>3
<1> HIDE DEF h
<1>5. TypeOK'
  <2>1. /\ job' \in [Proc -> Task \cup {None}] /\ bad' \in [Proc -> BOOLEAN]
        /\ pc' \in [Proc -> PC]
    BY <1>1, <1>4 DEF TypeOK, PC
  <2> QED
    BY <1>1, <1>3, <2>1 DEF TypeOK
<1>6. /\ pc'[p] = "fetch" /\ job'[p] = h.task /\ bad'[p] = h.bad
      /\ \A q \in Proc : q # p => pc'[q] = pc[q] /\ job'[q] = job[q] /\ bad'[q] = bad[q]
  BY <1>1 DEF TypeOK
<1>7. LocksInOrder'
  BY <1>1, <1>6 DEF LocksInOrder, Missing
<1>8. JobsInOrder'
  BY <1>1, <1>4, <1>6 DEF JobsInOrder, Spawner
<1>9. /\ \A u \in Task : Queued(u)' => Queued(u)
      /\ \A u \in Task, q \in Proc : q # p => (Running(q, u)' <=> Running(q, u))
      /\ \A u \in Task : Running(p, u)' => u = h.task /\ ~h.bad /\ Queued(u)
      /\ \A u \in Task : Absent(u) => Absent(u)' /\ u # h.task
      /\ \A u \in Task : Once(u) => Once(u)' /\ (u = h.task /\ ~h.bad => ~Queued(u)')
  <2>1. /\ \A u \in Task : Queued(u)' => Queued(u)
        /\ \A u \in Task : Absent(u) => Absent(u)' /\ u # h.task
    BY <1>3 DEF Queued, Absent
  <2>2. /\ \A u \in Task, q \in Proc : q # p => (Running(q, u)' <=> Running(q, u))
        /\ \A u \in Task : Running(p, u)' => u = h.task /\ ~h.bad /\ Queued(u)
    BY <1>3, <1>6 DEF Queued, Running
  <2>3. \A u \in Task : Once(u) => Once(u)' /\ (u = h.task /\ ~h.bad => ~Queued(u)')
    BY <1>3 DEF Once, Queued
  <2> QED
    BY <2>1, <2>2, <2>3
<1>10. /\ \A u \in Task : AllLinked(u)' <=> AllLinked(u)
       /\ \A u \in Task : AllFinal(u)' <=> AllFinal(u)
       /\ \A q \in Proc : Spawner(q)' <=> Spawner(q)
       /\ \A q \in Proc : Spawner(q) => job'[q] = job[q]
  BY <1>1, <1>6 DEF AllLinked, AllFinal, Spawner
<1>11. NotStarted'
  <2> SUFFICES ASSUME NEW u \in Task, stage[u] = "none"
               PROVE  /\ row[u] = None /\ u \notin asked /\ Absent(u)'
                      /\ \A q \in Proc : /\ pc'[q] # "idle" => job'[q] # u
                                         /\ \A i \in DOMAIN next[q] : next[q][i].task # u
    BY <1>1 DEF NotStarted, Absent
  <2>1. row[u] = None /\ u \notin asked /\ Absent(u)
    BY DEF NotStarted, Absent
  <2> QED
    BY <1>6, <1>9, <2>1 DEF NotStarted
<1>12. Unlinked'
  <2>1. \A u \in Task : (\A q \in Proc : ~Running(q, u)) /\ ~Queued(u) => \A q \in Proc : ~Running(q, u)'
    BY <1>9
  <2> QED
    BY <1>1, <1>9, <2>1 DEF Unlinked
<1>13. OneRun'
  <2> SUFFICES ASSUME NEW u \in Task \ asked, \A d \in Kids(u) : stage[d] = "none"
               PROVE  /\ Once(u)'
                      /\ \A q \in Proc : Running(q, u)' => ~Queued(u)'
                      /\ \A q, s \in Proc : Running(q, u)' /\ Running(s, u)' => q = s
    BY <1>1 DEF OneRun, Once
  <2>1. /\ Once(u)
        /\ \A q \in Proc : Running(q, u) => ~Queued(u)
        /\ \A q, s \in Proc : Running(q, u) /\ Running(s, u) => q = s
    BY DEF OneRun, Once
  <2> QED
    BY <1>9, <2>1
<1>14. FirstStageOver'
  BY <1>1, <1>6, <1>9 DEF FirstStageOver
<1>15. SpawningInOrder' /\ RowsInOrder'
  BY <1>1, <1>6 DEF SpawningInOrder, RowsInOrder
<1>16. StartedInOrder'
  BY <1>1, <1>9, <1>10 DEF StartedInOrder
<1>17. ReportsInOrder'
  BY <1>1, <1>6, <1>10 DEF ReportsInOrder, Report, Succeeding
<1>18. WokenInOrder' /\ CompleteAfterSubtasks'
  <2>1. WokenInOrder'
    BY <1>1, <1>6, <1>9, <1>10 DEF WokenInOrder
  <2>2. CompleteAfterSubtasks'
    BY <1>1, <1>10 DEF CompleteAfterSubtasks
  <2> QED
    BY <2>1, <2>2
<1> QED
  BY <1>1, <1>5, <1>7, <1>8, <1>11, <1>12, <1>13, <1>14, <1>15, <1>16, <1>17, <1>18

\* The entries of the lists, and those about tasks that have a row.
Entries == [what : {"cancel", "exec", "object"}, task : Task, stage : Stage]
Known == {e \in Entries : stage[e.task] # "none"}

\* All the entries are of that kind.
LEMMA ListsKnown == ASSUME TaskInv, NEW q \in Proc PROVE next[q] \in Seq(Known)
<1> USE DEF TaskInv
<1> DEFINE s == next[q]
<1>1. s \in Seq(Entries)
  BY DEF TypeOK, Entries
<1>2. Len(s) \in Nat /\ s \in [1 .. Len(s) -> Entries] /\ DOMAIN s = 1 .. Len(s)
  BY <1>1, LenProperties
<1>3. ASSUME NEW i \in 1 .. Len(s) PROVE s[i] \in Known
  <2>1. s[i] \in Entries
    BY <1>2
  <2>2. s[i].task \in Task
    BY <2>1 DEF Entries
  <2> QED
    BY <1>2, <2>1, <2>2 DEF NotStarted, Known
<1> HIDE DEF s
<1>4. s \in [1 .. Len(s) -> Known]
  BY <1>2, <1>3
<1>5. s \in Seq(Known)
  BY <1>2, <1>4
<1> QED
  BY <1>5 DEF s

\* An order of a finite set is a sequence.
LEMMA OrderIsSeq == ASSUME NEW S, NEW T \in SUBSET S, IsFiniteSet(T), NEW q \in Orders(T)
                    PROVE  q \in Seq(S)
<1>1. Cardinality(T) \in Nat
  BY FS_CardinalityType
<1>2. q \in [1 .. Cardinality(T) -> S]
  BY DEF Orders
<1> QED
  BY <1>1, <1>2

\* Only the lists of the canceller and the starter change.
LEMMA ListStep ==
    ASSUME TaskInv, UNCHANGED <<stage, row, queue, owner, powner, pc, job, bad, loc, todo, result,
                                pstage, some, asked, calls, crashes, dropped>>,
           cancels' \in 0 .. MaxCancels, next' \in [Proc -> Seq(Known)]
    PROVE  TaskInv'
<1> USE DEF TaskInv
<1>1. ASSUME NEW q \in Proc
      PROVE  /\ next'[q] \in Seq(Entries)
             /\ \A i \in DOMAIN next'[q] : next'[q][i].task \in Task /\ stage[next'[q][i].task] # "none"
  <2>1. next'[q] \in Seq(Known) /\ Known \subseteq Entries
    BY DEF Known
  <2>2. DOMAIN next'[q] = 1 .. Len(next'[q])
    BY <2>1, LenProperties
  <2>3. \A i \in DOMAIN next'[q] : next'[q][i] \in Known
    BY <2>1, <2>2, ElementOfSeq
  <2>4. next'[q] \in Seq(Entries)
    BY <2>1, SeqMonotonic
  <2> QED
    BY <2>3, <2>4 DEF Known, Entries
<1>2. next' \in [Proc -> Seq(Entries)]
  BY <1>1
<1>3. TypeOK'
  BY <1>2 DEF TypeOK, Entries
<1>4. LocksInOrder' /\ JobsInOrder'
  BY DEF LocksInOrder, JobsInOrder, Missing, Spawner
<1>5. NotStarted'
  BY <1>1 DEF NotStarted
<1>6. /\ \A u \in Task : Queued(u)' <=> Queued(u)
      /\ \A u \in Task, q \in Proc : Running(q, u)' <=> Running(q, u)
      /\ \A u \in Task : AllLinked(u)' <=> AllLinked(u)
      /\ \A u \in Task : AllFinal(u)' <=> AllFinal(u)
      /\ \A q \in Proc : Spawner(q)' <=> Spawner(q)
  BY DEF Queued, Running, AllLinked, AllFinal, Spawner
<1>7. Unlinked' /\ OneRun' /\ FirstStageOver'
  BY <1>6 DEF Unlinked, OneRun, FirstStageOver
<1>8. SpawningInOrder' /\ RowsInOrder' /\ StartedInOrder'
  BY <1>6 DEF SpawningInOrder, RowsInOrder, StartedInOrder
<1>9. ReportsInOrder' /\ WokenInOrder' /\ CompleteAfterSubtasks'
  <2>1. ReportsInOrder'
    BY <1>6 DEF ReportsInOrder, Report, Succeeding
  <2>2. WokenInOrder' /\ CompleteAfterSubtasks'
    BY <1>6 DEF WokenInOrder, CompleteAfterSubtasks
  <2> QED
    BY <2>1, <2>2
<1> QED
  BY <1>3, <1>4, <1>5, <1>7, <1>8, <1>9

\* The request to cancel: the list of the canceller begins with the task.
LEMMA PerformCancelStep ==
    ASSUME TaskInv, NEW t \in Task, PerformCancel(t)
    PROVE  TaskInv'
<1> DEFINE e == Entry("cancel", t, stage[t])
<1>1. /\ UNCHANGED <<stage, row, queue, owner, powner, pc, job, bad, loc, todo, result, pstage, some,
                     asked, calls, crashes, dropped>>
      /\ cancels < MaxCancels /\ cancels' = cancels + 1 /\ stage[t] # "none"
      /\ next' = [next EXCEPT ![Canceller] = <<e>>]
  BY DEF PerformCancel, dbVars, lockVars
<1>2. cancels' \in 0 .. MaxCancels
  BY <1>1, BoundsAssumption DEF TaskInv, TypeOK
<1>3. e \in Known
  BY <1>1 DEF Entry, Known, Entries, TaskInv, TypeOK
<1> HIDE DEF e
<1>4. next' \in [Proc -> Seq(Known)]
  <2>1. next \in [Proc -> Seq(Known)]
    BY ListsKnown DEF TaskInv, TypeOK
  <2>2. <<e>> \in Seq(Known)
    BY <1>3
  <2> QED
    BY <1>1, <2>1, <2>2
<1> QED
  BY <1>1, <1>2, <1>4, ListStep

\* The recursion over the subtasks that have a row.
LEMMA CancelStep ==
    ASSUME TaskInv, cancel
    PROVE  TaskInv'
<1> DEFINE e == Head(next[Canceller])
           rest == Tail(next[Canceller])
           kids == {c \in Kids(e.task) : stage[c] # "none"}
           subs == {Entry("cancel", c, stage[c]) : c \in kids}
           exec == Entry("exec", e.task, "none")
<1>1. /\ UNCHANGED <<stage, row, queue, owner, powner, pc, job, bad, loc, todo, result, pstage, some,
                     asked, calls, cancels, crashes, dropped>>
      /\ next[Canceller] # <<>>
      /\ \/ next' = [next EXCEPT ![Canceller] = rest]
         \/ \E q \in Orders(subs) : next' = [next EXCEPT ![Canceller] = q \o <<exec>> \o rest]
  BY DEF cancel, dbVars, lockVars, envVars
<1>2. next \in [Proc -> Seq(Known)] /\ Canceller \in Proc
  BY ListsKnown DEF TaskInv, TypeOK, Proc
<1>3. next[Canceller] \in Seq(Known)
  BY <1>2
<1>4. e \in Known /\ rest \in Seq(Known)
  BY <1>1, <1>3, HeadTailProperties
<1>5. exec \in Known
  BY <1>4 DEF Entry, Known, Entries, Stage
<1>6. subs \in SUBSET Known
  BY DEF Entry, Known, Entries, TaskInv, TypeOK, Kids
<1>7. IsFiniteSet(subs)
  <2> DEFINE f == [c \in kids |-> Entry("cancel", c, stage[c])]
  <2>1. IsFiniteSet(kids)
    BY FiniteAssumption, FS_Subset DEF Kids
  <2>2. f \in Surjection(kids, subs)
    BY DEF Surjection
  <2> HIDE DEF f, subs, kids
  <2> QED
    BY <2>1, <2>2, FS_Surjection
<1> HIDE DEF e, rest, subs, exec
<1>8. next' \in [Proc -> Seq(Known)]
  <2>1. CASE next' = [next EXCEPT ![Canceller] = rest]
    BY <1>2, <1>4, <2>1
  <2>2. CASE \E q \in Orders(subs) : next' = [next EXCEPT ![Canceller] = q \o <<exec>> \o rest]
    <3>1. PICK q \in Orders(subs) : next' = [next EXCEPT ![Canceller] = q \o <<exec>> \o rest]
      BY <2>2
    <3>2. q \in Seq(Known) /\ <<exec>> \in Seq(Known)
      BY <1>5, <1>6, <1>7, OrderIsSeq
    <3>3. q \o <<exec>> \o rest \in Seq(Known)
      BY <1>4, <3>2, ConcatProperties
    <3> QED
      BY <1>2, <3>1, <3>3
  <2> QED
    BY <1>1, <2>1, <2>2
<1>9. cancels' \in 0 .. MaxCancels
  BY <1>1 DEF TaskInv, TypeOK
<1> QED
  BY <1>1, <1>8, <1>9, ListStep

\* The canceller and the starter fail tasks and run none.
LEMMA ProceedStep ==
    ASSUME TaskInv, NEW p \in Proc, Proceed(p)
    PROVE  TaskInv'
<1> USE DEF TaskInv, dbVars, lockVars, envVars
<1> DEFINE e == Head(next[p])
<1>1. /\ UNCHANGED <<stage, row, queue, owner, powner, todo, result, pstage, some, asked, calls,
                     cancels, crashes, dropped>>
      /\ pc[p] = "idle" /\ next[p] # <<>>
      /\ job' = [job EXCEPT ![p] = e.task] /\ bad' = [bad EXCEPT ![p] = TRUE]
      /\ next' = [next EXCEPT ![p] = Tail(next[p])]
      /\ \/ pc' = [pc EXCEPT ![p] = "fetch"] /\ loc' = loc
         \/ /\ loc' = [loc EXCEPT ![p] = e.stage]
            /\ pc' = [pc EXCEPT ![p] = IF HasHandler(e.stage, TRUE) THEN "lock" ELSE "fail"]
  BY DEF Proceed, Goto, At, Dispatch
<1>2. next \in [Proc -> Seq(Known)] /\ e \in Known /\ Tail(next[p]) \in Seq(Known)
  <2>1. next \in [Proc -> Seq(Known)]
    BY ListsKnown DEF TypeOK
  <2> QED
    BY <1>1, <2>1, HeadTailProperties
<1>3. e.task \in Task /\ e.stage \in Stage /\ stage[e.task] # "none"
  BY <1>2 DEF Known, Entries
<1> HIDE DEF e
<1>4. ASSUME NEW q \in Proc
      PROVE  /\ next'[q] \in Seq(Entries)
             /\ \A i \in DOMAIN next'[q] : next'[q][i].task \in Task /\ stage[next'[q][i].task] # "none"
  <2>1. next'[q] \in Seq(Known) /\ Known \subseteq Entries
    BY <1>1, <1>2 DEF Known
  <2>2. DOMAIN next'[q] = 1 .. Len(next'[q])
    BY <2>1, LenProperties
  <2>3. \A i \in DOMAIN next'[q] : next'[q][i] \in Known
    BY <2>1, <2>2, ElementOfSeq
  <2>4. next'[q] \in Seq(Entries)
    BY <2>1, SeqMonotonic
  <2> QED
    BY <2>3, <2>4 DEF Known, Entries
<1>5. TypeOK'
  <2>1. next' \in [Proc -> Seq(Entries)]
    BY <1>1, <1>2, <1>4
  <2>2. /\ job' \in [Proc -> Task \cup {None}] /\ bad' \in [Proc -> BOOLEAN]
        /\ pc' \in [Proc -> PC] /\ loc' \in [Proc -> Stage]
    BY <1>1, <1>3 DEF TypeOK, PC
  <2> QED
    BY <1>1, <2>1, <2>2 DEF TypeOK, Entries
<1>6. /\ pc'[p] \in {"fetch", "lock", "fail"} /\ job'[p] = e.task /\ bad'[p]
      /\ pc'[p] = "lock" => loc'[p] \in {"on_init", "wait"}
      /\ \A q \in Proc : q # p => /\ pc'[q] = pc[q] /\ job'[q] = job[q] /\ bad'[q] = bad[q]
                                  /\ loc'[q] = loc[q]
  BY <1>1 DEF TypeOK, HasHandler
<1>7. LocksInOrder'
  BY <1>1, <1>6 DEF LocksInOrder, Missing
<1>8. JobsInOrder'
  BY <1>1, <1>3, <1>6 DEF JobsInOrder, Spawner
<1>9. /\ \A u \in Task : Queued(u)' <=> Queued(u)
      /\ \A u \in Task, q \in Proc : Running(q, u)' => Running(q, u) /\ q # p
      /\ \A u \in Task : AllLinked(u)' <=> AllLinked(u)
      /\ \A u \in Task : AllFinal(u)' <=> AllFinal(u)
      /\ \A q \in Proc : Spawner(q)' <=> Spawner(q)
      /\ \A q \in Proc : Spawner(q) => job'[q] = job[q]
  BY <1>1, <1>6 DEF Queued, Running, AllLinked, AllFinal, Spawner
<1>10. NotStarted'
  BY <1>1, <1>3, <1>4, <1>6 DEF NotStarted
<1>11. Unlinked' /\ OneRun'
  BY <1>1, <1>9 DEF Unlinked, OneRun
<1>12. FirstStageOver'
  BY <1>1, <1>6, <1>9 DEF FirstStageOver
<1>13. SpawningInOrder' /\ RowsInOrder'
  BY <1>1, <1>6 DEF SpawningInOrder, RowsInOrder
<1>14. StartedInOrder'
  BY <1>1, <1>9 DEF StartedInOrder
<1>15. ReportsInOrder'
  BY <1>1, <1>6, <1>9 DEF ReportsInOrder, Report, Succeeding
<1>16. WokenInOrder' /\ CompleteAfterSubtasks'
  <2>1. WokenInOrder'
    BY <1>1, <1>6, <1>9 DEF WokenInOrder
  <2>2. CompleteAfterSubtasks'
    BY <1>1, <1>9 DEF CompleteAfterSubtasks
  <2> QED
    BY <2>1, <2>2
<1> QED
  BY <1>1, <1>5, <1>7, <1>8, <1>10, <1>11, <1>12, <1>13, <1>14, <1>15, <1>16

\* A request starts a task that nobody has to do with.
LEMMA StartStep ==
    ASSUME TaskInv, NEW t \in Task, StartTask(t)
    PROVE  TaskInv'
<1> USE DEF TaskInv, lockVars, procVars
<1>1. /\ UNCHANGED <<row, owner, powner, pc, job, bad, loc, todo, next, result, pstage, some,
                     asked, calls, cancels, crashes>>
      /\ Parent[t] \notin Task /\ stage[t] = "none"
      /\ stage' = [stage EXCEPT ![t] = "on_init"] /\ runTask(t, FALSE)
  BY NamesAssumption DEF StartTask
<1>2. /\ queue' \in Seq([task : Task, bad : BOOLEAN]) /\ Len(queue') <= QueueSize
      /\ dropped' \in BOOLEAN
      /\ \A u \in Task : Queued(u)' => Queued(u) \/ u = t
      /\ \A u \in Task : Absent(u) /\ u # t => Absent(u)'
      /\ \A u \in Task : Once(u) /\ (u # t \/ ~Queued(u)) => Once(u)'
  BY <1>1, RunTaskFacts
<1>3. TypeOK'
  BY <1>1, <1>2 DEF TypeOK, Stage
<1>4. /\ stage'[t] = "on_init" /\ \A u \in Task : u # t => stage'[u] = stage[u]
  BY <1>1 DEF TypeOK
<1>5. /\ row[t] = None /\ ~Queued(t) /\ \A q \in Proc : ~Running(q, t) /\ (pc[q] # "idle" => job[q] # t)
  BY <1>1 DEF NotStarted, Queued, Running
<1>6. LocksInOrder' /\ JobsInOrder'
  BY <1>1 DEF LocksInOrder, JobsInOrder, Missing, Spawner
<1>7. /\ \A d \in Task, q \in Proc : Running(q, d)' <=> Running(q, d)
      /\ \A d \in Task : AllLinked(d)' <=> AllLinked(d)
      /\ \A q \in Proc : Spawner(q)' <=> Spawner(q)
      /\ \A d \in Task : stage'[d] = "none" => stage[d] = "none" /\ d # t
      /\ \A d \in Task : stage'[d] = "wait" <=> stage[d] = "wait"
      /\ \A d \in Task : stage'[d] \in Final <=> stage[d] \in Final
      /\ \A d \in Task : stage'[d] = "complete" <=> stage[d] = "complete"
  BY <1>1, <1>4 DEF Running, AllLinked, Spawner, Final
<1>8. \A d \in Task : AllFinal(d)' <=> AllFinal(d)
  BY <1>7 DEF AllFinal, Kids
<1>9. NotStarted'
  <2> SUFFICES ASSUME NEW u \in Task, stage'[u] = "none"
               PROVE  /\ row[u] = None /\ u \notin asked /\ Absent(u)'
                      /\ \A q \in Proc : /\ pc[q] # "idle" => job[q] # u
                                         /\ \A i \in DOMAIN next[q] : next[q][i].task # u
    BY <1>1 DEF NotStarted, Absent
  <2>1. stage[u] = "none" /\ u # t
    BY <1>7
  <2>2. row[u] = None /\ u \notin asked /\ Absent(u)
    BY <2>1 DEF NotStarted, Absent
  <2> QED
    BY <1>2, <2>1, <2>2 DEF NotStarted
<1>10. Unlinked'
  BY <1>1, <1>2, <1>7 DEF Unlinked
<1>11. OneRun'
  <2> SUFFICES ASSUME NEW u \in Task \ asked, \A d \in Kids(u) : stage'[d] = "none"
               PROVE  /\ Once(u)'
                      /\ \A q \in Proc : Running(q, u)' => ~Queued(u)'
                      /\ \A q, s \in Proc : Running(q, u)' /\ Running(s, u)' => q = s
    BY <1>1 DEF OneRun, Once
  <2>1. \A d \in Kids(u) : stage[d] = "none"
    BY <1>7 DEF Kids
  <2>2. /\ Once(u)
        /\ \A q \in Proc : Running(q, u) => ~Queued(u)
        /\ \A q, s \in Proc : Running(q, u) /\ Running(s, u) => q = s
    BY <2>1 DEF OneRun, Once
  <2> QED
    BY <1>2, <1>5, <1>7, <2>2
<1>12. FirstStageOver'
  <2> SUFFICES ASSUME NEW d \in Task, Parent[d] \in Task, stage'[d] # "none"
               PROVE  /\ stage'[Parent[d]] \notin {"none", "on_init"}
                      /\ Parent[Parent[d]] \in Task => row[Parent[d]] # None
                      /\ \A q \in Proc :
                            pc[q] \in {"lock", "handler"} /\ Running(q, Parent[d]) => loc[q] = "wait"
    BY <1>1, <1>7 DEF FirstStageOver
  <2>1. d # t /\ stage[d] # "none"
    BY <1>1, <1>4
  <2>2. Parent[d] # t
    BY <1>1, <2>1 DEF FirstStageOver
  <2> QED
    BY <1>4, <2>1, <2>2 DEF FirstStageOver
<1>13. SpawningInOrder'
  <2> SUFFICES ASSUME NEW q \in Proc, pc[q] \in {"spawn", "link"}
               PROVE  /\ ~bad[q] /\ loc[q] = "wait" /\ stage'[job[q]] \notin {"none", "on_init"}
                      /\ todo[q] \subseteq Kids(job[q])
                      /\ \A d \in Kids(job[q]) : d \in todo[q] <=> row[d] = None
                      /\ pc[q] = "spawn" => \A d \in todo[q] : stage'[d] = "none"
                      /\ \A d, e \in todo[q] : stage'[d] # "none" /\ stage'[e] # "none" => d = e
    BY <1>1 DEF SpawningInOrder
  <2>1. job[q] \in Task /\ job[q] # t
    BY <1>5 DEF JobsInOrder
  <2>2. todo[q] \subseteq Task /\ t \notin todo[q]
    BY <1>1, <2>1 DEF TypeOK, SpawningInOrder, Kids
  <2> QED
    BY <1>4, <2>1, <2>2 DEF SpawningInOrder
<1>14. RowsInOrder'
  BY <1>1, <1>5, <1>7 DEF RowsInOrder
<1>15. StartedInOrder'
  BY <1>1, <1>2, <1>7 DEF StartedInOrder
<1>16. ReportsInOrder'
  <2> SUFFICES ASSUME NEW q \in Proc PROVE Report(q)'
    BY DEF ReportsInOrder
  <2>1. pc[q] # "idle" => job[q] \in Task
    BY DEF JobsInOrder
  <2>2. pc[q] \in {"notify", "count", "check"} => Parent[job[q]] \in Task
    BY DEF JobsInOrder
  <2> QED
    BY <1>1, <1>7, <2>1, <2>2 DEF ReportsInOrder, Report, Succeeding
<1>17. WokenInOrder' /\ CompleteAfterSubtasks'
  <2>1. WokenInOrder'
    BY <1>1, <1>2, <1>4, <1>7, <1>8 DEF WokenInOrder
  <2>2. CompleteAfterSubtasks'
    BY <1>7, <1>8 DEF CompleteAfterSubtasks
  <2> QED
    BY <2>1, <2>2
<1> QED
  BY <1>1, <1>3, <1>6, <1>9, <1>10, <1>11, <1>12, <1>13, <1>14, <1>15, <1>16, <1>17

\* After a crash only the tables are left, and the list of what is not over.
LEMMA CrashStep ==
    ASSUME TaskInv, Crash
    PROVE  TaskInv'
<1> USE DEF TaskInv, dbVars
<1> DEFINE left == {t \in Task : Unfinished(t)}
           open == {Entry("object", t, stage[t]) : t \in left}
<1>1. PICK o \in Orders(open) :
         /\ UNCHANGED <<stage, row, asked, calls, cancels, dropped>>
         /\ crashes < MaxCrashes /\ crashes' = crashes + 1 /\ queue' = <<>>
         /\ owner' = [x \in Object |-> None] /\ powner' = [t \in Task |-> None]
         /\ pc' = [p \in Proc |-> "idle"] /\ job' = [p \in Proc |-> None]
         /\ bad' = [p \in Proc |-> FALSE] /\ loc' = [p \in Proc |-> "none"]
         /\ todo' = [p \in Proc |-> {}] /\ result' = [p \in Proc |-> "none"]
         /\ pstage' = [p \in Proc |-> "none"] /\ some' = [p \in Proc |-> FALSE]
         /\ next' = [p \in Proc |-> IF p = Starter THEN o ELSE <<>>]
  BY DEF Crash
<1>2. open \in SUBSET Known
  BY DEF Entry, Known, Entries, TypeOK, Unfinished
<1>3. IsFiniteSet(open)
  <2> DEFINE f == [t \in left |-> Entry("object", t, stage[t])]
  <2>1. IsFiniteSet(left)
    BY FiniteAssumption, FS_Subset
  <2>2. f \in Surjection(left, open)
    BY DEF Surjection
  <2> HIDE DEF f, open, left
  <2> QED
    BY <2>1, <2>2, FS_Surjection
<1> HIDE DEF open
<1>4. o \in Seq(Known)
  BY <1>2, <1>3, OrderIsSeq
<1>5. ASSUME NEW q \in Proc
      PROVE  /\ next'[q] \in Seq(Entries)
             /\ \A i \in DOMAIN next'[q] : next'[q][i].task \in Task /\ stage[next'[q][i].task] # "none"
  <2>1. next'[q] \in Seq(Known) /\ Known \subseteq Entries
    BY <1>1, <1>4 DEF Known
  <2>2. DOMAIN next'[q] = 1 .. Len(next'[q])
    BY <2>1, LenProperties
  <2>3. \A i \in DOMAIN next'[q] : next'[q][i] \in Known
    BY <2>1, <2>2, ElementOfSeq
  <2>4. next'[q] \in Seq(Entries)
    BY <2>1, SeqMonotonic
  <2> QED
    BY <2>3, <2>4 DEF Known, Entries
<1>6. TypeOK'
  <2>1. next' \in [Proc -> Seq(Entries)]
    BY <1>1, <1>5
  <2>2. /\ pc' \in [Proc -> PC] /\ loc' \in [Proc -> Stage] /\ pstage' \in [Proc -> Stage]
    BY <1>1 DEF PC, Stage
  <2>3. /\ job' \in [Proc -> Task \cup {None}] /\ bad' \in [Proc -> BOOLEAN]
        /\ todo' \in [Proc -> SUBSET Task] /\ result' \in [Proc -> {"none", "succ", "fail"}]
        /\ some' \in [Proc -> BOOLEAN]
    BY <1>1
  <2>4. /\ queue' \in Seq([task : Task, bad : BOOLEAN]) /\ Len(queue') <= QueueSize
        /\ owner' \in [Object -> Proc \cup {None}] /\ powner' \in [Task -> Proc \cup {None}]
        /\ crashes' \in 0 .. MaxCrashes
    BY <1>1, BoundsAssumption DEF TypeOK
  <2> QED
    BY <1>1, <2>1, <2>2, <2>3, <2>4 DEF TypeOK, Entries
<1>7. /\ DOMAIN queue' = {} /\ \A q \in Proc : pc'[q] = "idle"
      /\ \A x \in Object, q \in Proc : owner'[x] # q
      /\ \A t \in Task, q \in Proc : powner'[t] # q
  BY <1>1, NamesAssumption
<1>8. /\ \A t \in Task : ~Queued(t)' /\ \A q \in Proc : ~Running(q, t)'
      /\ \A t \in Task : AllFinal(t)' <=> AllFinal(t)
  BY <1>1, <1>7 DEF Queued, Running, AllFinal
<1>9. LocksInOrder' /\ JobsInOrder'
  BY <1>7 DEF LocksInOrder, JobsInOrder, Spawner
<1>10. NotStarted'
  BY <1>1, <1>5, <1>7 DEF NotStarted
<1>11. Unlinked' /\ OneRun' /\ FirstStageOver'
  <2>1. Unlinked' /\ FirstStageOver'
    BY <1>1, <1>7, <1>8 DEF Unlinked, FirstStageOver
  <2>2. OneRun'
    BY <1>7, <1>8 DEF OneRun
  <2> QED
    BY <2>1, <2>2
<1>12. SpawningInOrder' /\ RowsInOrder' /\ StartedInOrder'
  BY <1>1, <1>7, <1>8 DEF SpawningInOrder, RowsInOrder, StartedInOrder
<1>13. ReportsInOrder' /\ WokenInOrder' /\ CompleteAfterSubtasks'
  BY <1>1, <1>7, <1>8 DEF ReportsInOrder, Report, Succeeding, WokenInOrder, CompleteAfterSubtasks
<1> QED
  BY <1>1, <1>6, <1>9, <1>10, <1>11, <1>12, <1>13
-----------------------------------------------------------------------------
(***************************************************************************)
(* The theorems.                                                           *)
(***************************************************************************)
\* Every step preserves the invariant.
LEMMA NextInv == TaskInv /\ [Next]_vars => TaskInv'
<1> SUFFICES ASSUME TaskInv, [Next]_vars PROVE TaskInv'
  OBVIOUS
<1>1. ASSUME NEW p \in Proc, Exec(p) PROVE TaskInv'
  BY <1>1, TakeStep, ProceedStep, FetchStep, LockStep, LockedStep, FailStep, EndStep, AskStep,
     SpawnStep, NewTaskStep, ScheduleRunStep, SpawnedStep, SaveStep, NotifyStep, CountStep,
     CheckStep, DoneStep DEF Exec
<1>2. ASSUME NEW t \in Task, Request(t) PROVE TaskInv'
  BY <1>2, StartStep, ActionStep, PerformCancelStep DEF Request
<1>3. CASE UNCHANGED vars
  <2>1. /\ UNCHANGED <<stage, row, queue, owner, powner, pc, job, bad, loc, todo, result, pstage, some,
                       asked, calls, crashes, dropped>>
        /\ UNCHANGED <<next, cancels>>
    BY <1>3 DEF vars, dbVars, lockVars, procVars, envVars
  <2>2. next' \in [Proc -> Seq(Known)] /\ cancels' \in 0 .. MaxCancels
    BY <2>1, ListsKnown DEF TaskInv, TypeOK
  <2> QED
    BY <2>1, <2>2, ListStep
<1> QED
  BY <1>1, <1>2, <1>3, CancelStep, CrashStep DEF Next

\* The inductive invariant: whatever requests, callbacks, cancellations, crashes
\* and full queues do, locks, rows and jobs stay in order.
THEOREM TaskInvariant == Spec => []TaskInv
<1> QED
  BY InitInv, NextInv, PTL DEF Spec

\* Type correctness.
THEOREM TypeCorrect == Spec => []TypeOK
<1>1. TaskInv => TypeOK
  BY DEF TaskInv
<1> QED
  BY <1>1, TaskInvariant, PTL

\* execTaskObject sorts the objects by their ids "to avoid deadlock", and the lock
\* of a parent task is taken with the locks of the objects held: no goroutines wait
\* for each other in a circle, however many they are.
THEOREM NoDeadlock == Spec => []NoCircularWait
<1>1. TaskInv => NoCircularWait
  <2> SUFFICES ASSUME TaskInv, NEW S \in SUBSET Proc, S # {},
                      \A p \in S : \E q \in S : WaitsFor(p, q)
               PROVE  FALSE
    BY DEF NoCircularWait
  <2> USE DEF TaskInv
  <2>1. \A p \in S : pc[p] \in {"lock", "notify"}
    BY DEF WaitsFor, At
  <2>2. \A p \in S : pc[p] = "lock"
    <3>1. ASSUME NEW p \in S, pc[p] = "notify" PROVE FALSE
      <4>1. PICK q \in S : powner[Parent[job[p]]] = q
        BY <3>1 DEF WaitsFor, At
      <4>2. Parent[job[p]] \in Task
        BY <3>1 DEF JobsInOrder
      <4> QED
        BY <4>1, <4>2, <2>1 DEF LocksInOrder
    <3> QED
      BY <2>1, <3>1
  <2>3. \A p \in S : \E q \in S : \E o \in Object : o \in Missing(p) /\ owner[o] = q
    BY <2>2 DEF WaitsFor, At, NextLock
  <2> DEFINE W == {o \in Object : \E p, q \in S : o \in Missing(p) /\ owner[o] = q}
  <2>4. W # {}
    BY <2>3
  <2>5. W \in SUBSET Nat
    BY ObjsAssumption DEF Object
  <2>6. IsFiniteSet(W)
    <3>1. IsFiniteSet(Object)
      <4> DEFINE f == [t \in Task |-> Objs[t]]
                 sets == {Objs[t] : t \in Task}
      <4>1. f \in Surjection(Task, sets)
        BY DEF Surjection
      <4>2. \A X \in sets : IsFiniteSet(X)
        BY FiniteAssumption
      <4>3. Object = UNION sets
        BY DEF Object
      <4> HIDE DEF f, sets
      <4>4. IsFiniteSet(sets)
        BY <4>1, FS_Surjection, FiniteAssumption
      <4> QED
        BY <4>2, <4>3, <4>4, FS_UNION
    <3> QED
      BY <3>1, FS_Subset
  <2>7. PICK o \in W : \A x \in W : x <= o
    BY <2>4, <2>5, <2>6, HasLast
  <2>8. PICK q \in S : owner[o] = q
    OBVIOUS
  <2>9. PICK x \in W : x \in Missing(q)
    BY <2>3
  <2>10. o < x
    BY <2>2, <2>8, <2>9 DEF LocksInOrder
  <2> QED
    BY <2>5, <2>7, <2>9, <2>10
<1> QED
  BY <1>1, TaskInvariant, PTL

\* A task whose objects cover those of its one-stage subtasks completes after all
\* of them, for any tree of tasks and any number of goroutines.
THEOREM CompleteLast == Spec => []CompleteAfterSubtasks
<1>1. TaskInv => CompleteAfterSubtasks
  BY DEF TaskInv
<1> QED
  BY <1>1, TaskInvariant, PTL
=============================================================================
