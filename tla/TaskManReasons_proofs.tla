------------------------- MODULE TaskManReasons_proofs -------------------------
(***************************************************************************)
(* No task is forgotten, for any tree of tasks, any objects and any number *)
(* of workers, cancellations and crashes.                                  *)
(***************************************************************************)
EXTENDS TaskManReasons, TaskMan_proofs

\* A step of p leaves what the other goroutines do alone.
Others(p) == Alone(p) /\ \A q \in Proc : q # p => some'[q] = some[q] /\ next'[q] = next[q]

\* Nobody is at work, and no task is there.
LEMMA InitReasons == ASSUME Init PROVE ReasonsInv
<1> USE DEF Init
<1>1. Canceller \in Proc /\ Starter \in Proc /\ Worker \subseteq Proc
  BY DEF Proc
<1>2. EveryTaskHasReason /\ RowsKept
  BY DEF EveryTaskHasReason, RowsKept, Unfinished, Final
<1>3. UntouchedBeforeRow /\ AskedOnce
  <2>1. UntouchedBeforeRow
    BY <1>1 DEF UntouchedBeforeRow, InQueue
  <2>2. AskedOnce
    BY DEF AskedOnce
  <2> QED
    BY <2>1, <2>2
<1>4. ListsInOrder /\ StartedOver
  <2>1. ListsInOrder
    BY <1>1 DEF ListsInOrder
  <2>2. StartedOver
    BY <1>1 DEF StartedOver, Unfinished
  <2> QED
    BY <2>1, <2>2
<1> QED
  BY <1>2, <1>3, <1>4 DEF ReasonsInv

\* A goroutine at work goes on; the tables, the queue and the lists stay.
LEMMA CalmReasons ==
    ASSUME TaskInv, TaskInv', ReasonsInv, NEW p \in Proc, Others(p),
           UNCHANGED <<stage, row, queue, next, asked, calls, dropped>>,
           pc[p] \notin {"idle", "link", "save"}, pc'[p] \notin {"fetch", "spawn", "link", "save"},
           pc'[p] # "idle" => job'[p] = job[p] /\ bad'[p] = bad[p],
           result'[p] = "succ" => result[p] = "succ" /\ pc'[p] # "idle",
           pc[p] = "spawn" => AllLinked(job[p]) \/ Effective(p, job[p])',
           Effective(p, job[p]) /\ Unfinished(job[p]) /\ pc[p] # "spawn" => Effective(p, job[p])',
           Reporting(p, job[p]) /\ row[job[p]] # None /\ Unfinished(Parent[job[p]])
              => Reporting(p, job[p])',
           pc'[p] \in {"lock", "handler"} /\ ~bad[p] /\ job[p] \in asked => loc'[p] # "on_init"
    PROVE  ReasonsInv'
<1>1. /\ job[p] \in Task /\ Canceller \in Proc /\ Starter \in Proc /\ Worker \subseteq Proc
      /\ pc[p] = "spawn" => ~bad[p]
  BY DEF TaskInv, JobsInOrder, SpawningInOrder, Proc
<1>2. /\ EveryTaskHasReason /\ RowsKept /\ UntouchedBeforeRow /\ AskedOnce
      /\ ListsInOrder /\ StartedOver
  BY DEF ReasonsInv
<1>3. /\ \A t \in Task : Unfinished(t)' <=> Unfinished(t)
      /\ \A t \in Task : InQueue(t)' <=> InQueue(t)
      /\ \A t \in Task, q \in Proc : Listed(q, t)' <=> Listed(q, t)
      /\ \A t \in Task : Asking(t)' <=> Asking(t)
  BY DEF Unfinished, InQueue, Listed, Asking
<1>4. /\ \A t \in Task, q \in Proc : q # p => (Effective(q, t)' <=> Effective(q, t))
      /\ \A c \in Task, q \in Proc : q # p => (Reporting(q, c)' <=> Reporting(q, c))
  BY DEF Effective, Reporting, Others, Alone
<1>5. ASSUME NEW t \in Task, Unfinished(t), Effective(p, t), pc[p] # "spawn"
      PROVE  Effective(p, t)' /\ pc'[p] \notin {"spawn", "link"}
  BY <1>5 DEF Effective
<1>6. ASSUME NEW t \in Task, Unfinished(t), Doomed(t) PROVE Doomed(t)'
  BY <1>1, <1>2, <1>3, <1>4, <1>5, <1>6 DEF Doomed, ListsInOrder
<1>7. EveryTaskHasReason'
  <2> SUFFICES ASSUME NEW t \in Task, Unfinished(t), Reason(t) PROVE Reason(t)'
    BY <1>2, <1>3 DEF EveryTaskHasReason
  <2>1. CASE Ending(t)
    <3>1. Ending(t)'
      BY <1>3, <1>4, <1>5, <1>6, <2>1 DEF Ending, Others, Alone
    <3> QED
      BY <3>1 DEF Reason
  <2>2. CASE Linking(t)
    <3>1. Linking(t)'
      BY <2>2 DEF Linking, Others, Alone
    <3> QED
      BY <3>1 DEF Reason
  <2>3. CASE Spawning(t)
    <3>1. PICK q \in Proc : pc[q] \in {"spawn", "link"} /\ job[q] = t
      BY <2>3 DEF Spawning
    <3>2. CASE q = p
      <4>1. ~AllLinked(t)
        BY <2>3 DEF Spawning, AllLinked
      <4>2. Ending(t)'
        BY <3>1, <3>2, <4>1 DEF Ending, Effective
      <4> QED
        BY <4>2 DEF Reason
    <3>3. CASE q # p
      <4>1. Spawning(t)'
        BY <2>3, <3>1, <3>3 DEF Spawning, Others, Alone
      <4> QED
        BY <4>1 DEF Reason
    <3> QED
      BY <3>2, <3>3
  <2>4. CASE Asking(t)
    BY <1>3, <2>4 DEF Reason
  <2>5. ASSUME NEW c \in Kids(t), Awaited(c) PROVE Reason(t)'
    <3>1. c \in Task /\ Parent[c] = t
      BY DEF Kids
    <3>2. Awaited(c)'
      <4>1. CASE row[c].status = "init"
        BY <2>5, <4>1 DEF Awaited
      <4>2. ASSUME NEW q \in Proc, Reporting(q, c) PROVE Reporting(q, c)'
        <5>1. CASE q = p
          BY <2>5, <3>1, <4>2, <5>1 DEF Awaited, Reporting
        <5>2. CASE q # p
          BY <1>4, <3>1, <4>2, <5>2
        <5> QED
          BY <5>1, <5>2
      <4> QED
        BY <2>5, <4>1, <4>2 DEF Awaited
    <3> QED
      BY <3>2 DEF Reason
  <2> QED
    BY <2>1, <2>2, <2>3, <2>4, <2>5 DEF Reason
<1>8. RowsKept'
  <2>1. \A c \in Task, q \in Proc : pc[q] = "save" /\ job[q] = c => pc'[q] = "save" /\ job'[q] = c
    BY DEF Others, Alone
  <2>2. \A t \in Task : stage[t] = "wait" => Unfinished(t)
    BY DEF Unfinished, Final
  <2> QED
    BY <1>2, <1>3, <1>6, <2>1, <2>2 DEF RowsKept
<1>9. UntouchedBeforeRow' /\ AskedOnce'
  <2>1. UntouchedBeforeRow'
    BY <1>1, <1>2, <1>3 DEF UntouchedBeforeRow, Others, Alone
  <2>2. AskedOnce'
    BY <1>1, <1>2 DEF AskedOnce, Running, Others, Alone
  <2> QED
    BY <2>1, <2>2
<1>10. ListsInOrder'
  <2>1. \A q \in Proc : pc'[q] # "idle" => pc[q] # "idle" /\ job'[q] = job[q] /\ bad'[q] = bad[q]
    BY DEF Others, Alone
  <2> QED
    BY <1>1, <1>2, <2>1 DEF ListsInOrder
<1>11. StartedOver'
  <2>1. ~Serving' => ~Serving
    BY <1>1 DEF Serving, At, Others, Alone
  <2>2. Starter = p => pc[p] # "spawn"
    BY <1>1, <1>2 DEF ListsInOrder
  <2>3. \A t \in Task : Unfinished(t) /\ Effective(Starter, t) => Effective(Starter, t)'
    BY <1>1, <1>4, <1>5, <2>2
  <2>4. \A q \in Proc : pc'[q] # "idle" => pc[q] # "idle" /\ bad'[q] = bad[q]
    BY DEF Others, Alone
  <2>5. \A q \in Proc : result'[q] = "succ" => result[q] = "succ" /\ pc'[q] # "idle"
    BY <1>2 DEF Others, Alone, StartedOver
  <2> QED
    BY <1>1, <1>2, <1>3, <2>1, <2>3, <2>4, <2>5 DEF StartedOver
<1> QED
  BY <1>2, <1>7, <1>8, <1>9, <1>10, <1>11 DEF ReasonsInv
-----------------------------------------------------------------------------
(***************************************************************************)
(* execTask and the notification of the parent: steps that only go on.     *)
(***************************************************************************)
\* What is fetched is going to be written.
LEMMA FetchReasons ==
    ASSUME TaskInv, TaskInv', ReasonsInv, NEW p \in Proc, fetchTask(p)
    PROVE  ReasonsInv'
<1> DEFINE s == stage[job[p]]
<1>1. /\ UNCHANGED <<stage, row, queue, job, bad, todo, next, result, pstage, some,
                     asked, calls, dropped>>
      /\ pc[p] = "fetch" /\ loc' = [loc EXCEPT ![p] = s]
      /\ pc' = [pc EXCEPT ![p] = IF HasHandler(s, bad[p]) THEN "lock" ELSE "fail"]
  BY DEF fetchTask, Dispatch, Goto, At, dbVars, envVars
<1>2. /\ pc'[p] \in {"lock", "fail"} /\ loc'[p] = s
      /\ pc'[p] = "lock" => s \in {"on_init", "wait"}
      /\ \A q \in Proc : q # p => pc'[q] = pc[q] /\ loc'[q] = loc[q]
  BY <1>1 DEF TaskInv, TypeOK, HasHandler
<1>3. Others(p)
  BY <1>1, <1>2 DEF Others, Alone
<1>4. Unfinished(job[p]) => Effective(p, job[p])'
  BY <1>1, <1>2 DEF Unfinished, Effective, Final
<1>5. job[p] \in asked => loc'[p] # "on_init"
  BY <1>1, <1>2 DEF ReasonsInv, AskedOnce, TaskInv, TypeOK, JobsInOrder
<1>6. ~Reporting(p, job[p])
  BY <1>1 DEF Reporting
<1>7. result'[p] = "succ" => result[p] = "succ" /\ pc'[p] # "idle"
  BY <1>1, <1>2
<1> QED
  BY <1>1, <1>2, <1>3, <1>4, <1>5, <1>6, <1>7, CalmReasons

\* Locks.
LEMMA LockReasons ==
    ASSUME TaskInv, TaskInv', ReasonsInv, NEW p \in Proc, LockObject(p) \/ Locked(p)
    PROVE  ReasonsInv'
<1>1. /\ UNCHANGED <<stage, row, queue, job, bad, loc, todo, next, result, pstage, some,
                     asked, calls, dropped>>
      /\ pc[p] = "lock" /\ (pc' = pc \/ pc' = [pc EXCEPT ![p] = "handler"])
  BY DEF LockObject, Locked, Goto, At, dbVars, envVars, procVars
<1>2. pc'[p] \in {"lock", "handler"} /\ \A q \in Proc : q # p => pc'[q] = pc[q]
  BY <1>1 DEF TaskInv, TypeOK
<1>3. Others(p)
  BY <1>1, <1>2 DEF Others, Alone
<1>4. Effective(p, job[p])' /\ ~Reporting(p, job[p])
  BY <1>1, <1>2 DEF Effective, Reporting
<1>5. ~bad[p] /\ job[p] \in asked => loc'[p] # "on_init"
  BY <1>1 DEF ReasonsInv, AskedOnce, TaskInv, TypeOK, JobsInOrder, Running
<1>6. result'[p] = "succ" => result[p] = "succ" /\ pc'[p] # "idle"
  BY <1>1, <1>2
<1> QED
  BY <1>1, <1>2, <1>3, <1>4, <1>5, <1>6, CalmReasons

\* All the subtasks are started, or the task is going to be failed.
LEMMA SpawnedReasons ==
    ASSUME TaskInv, TaskInv', ReasonsInv, NEW p \in Proc, Spawned(p)
    PROVE  ReasonsInv'
<1>1. /\ UNCHANGED <<stage, row, queue, job, bad, loc, next, result, pstage, some,
                     asked, calls, dropped>>
      /\ pc[p] = "spawn" /\ todo' = [todo EXCEPT ![p] = {}]
      /\ pc' = [pc EXCEPT ![p] = IF todo[p] = {} THEN "done" ELSE "fail"]
  BY DEF Spawned, Goto, At, dbVars, envVars
<1>2. /\ pc'[p] = IF todo[p] = {} THEN "done" ELSE "fail"
      /\ \A q \in Proc : q # p => pc'[q] = pc[q] /\ todo'[q] = todo[q]
  BY <1>1 DEF TaskInv, TypeOK
<1>3. Others(p)
  BY <1>1, <1>2 DEF Others, Alone
<1>4. loc[p] = "wait" /\ (todo[p] = {} => AllLinked(job[p]))
  BY <1>1 DEF TaskInv, SpawningInOrder, AllLinked
<1>5. AllLinked(job[p]) \/ Effective(p, job[p])'
  BY <1>1, <1>2, <1>4 DEF Effective
<1>6. ~Reporting(p, job[p])
  BY <1>1 DEF Reporting
<1>7. result'[p] = "succ" => result[p] = "succ" /\ pc'[p] # "idle"
  BY <1>1, <1>2
<1> QED
  BY <1>1, <1>2, <1>3, <1>5, <1>6, <1>7, CalmReasons

\* The report goes on.
LEMMA NotifyReasons ==
    ASSUME TaskInv, TaskInv', ReasonsInv, NEW p \in Proc, NotifyParent(p)
    PROVE  ReasonsInv'
<1>1. /\ UNCHANGED <<stage, row, queue, job, bad, loc, todo, next, result, some,
                     asked, calls, dropped>>
      /\ pc[p] = "notify" /\ pc' = [pc EXCEPT ![p] = "count"]
      /\ pstage' = [pstage EXCEPT ![p] = stage[Parent[job[p]]]]
  BY DEF NotifyParent, Goto, At, dbVars, envVars
<1>2. /\ pc'[p] = "count"
      /\ \A q \in Proc : q # p => pc'[q] = pc[q] /\ pstage'[q] = pstage[q]
  BY <1>1 DEF TaskInv, TypeOK
<1>3. Others(p)
  BY <1>1, <1>2 DEF Others, Alone
<1>4. Reporting(p, job[p])' /\ ~Effective(p, job[p])
  BY <1>1, <1>2 DEF Effective, Reporting
<1>5. result'[p] = "succ" => result[p] = "succ" /\ pc'[p] # "idle"
  BY <1>1, <1>2
<1> QED
  BY <1>1, <1>2, <1>3, <1>4, <1>5, CalmReasons

\* The row of the subtask is one of those its parent waits for, unless the parent
\* is over.
LEMMA CountReasons ==
    ASSUME TaskInv, TaskInv', ReasonsInv, NEW p \in Proc, GetTotalSubtasksCount(p)
    PROVE  ReasonsInv'
<1> DEFINE t == Parent[job[p]]
<1>1. /\ UNCHANGED <<stage, row, queue, job, bad, loc, todo, next, result, pstage,
                     asked, calls, dropped>>
      /\ pc[p] = "count" /\ pc' = [pc EXCEPT ![p] = "check"]
      /\ some' = [some EXCEPT ![p] = Rows(t, pstage[p]) # {}]
  BY DEF GetTotalSubtasksCount, Goto, At, dbVars, envVars
<1>2. /\ pc'[p] = "check" /\ some'[p] = (Rows(t, pstage[p]) # {})
      /\ \A q \in Proc : q # p => pc'[q] = pc[q] /\ some'[q] = some[q]
  BY <1>1 DEF TaskInv, TypeOK
<1>3. Others(p)
  BY <1>1, <1>2 DEF Others, Alone
<1>4. job[p] \in Task /\ t \in Task
  BY <1>1 DEF TaskInv, JobsInOrder
<1>5. row[job[p]] # None /\ Unfinished(t) => Reporting(p, job[p])'
  <2> SUFFICES ASSUME row[job[p]] # None, Unfinished(t) PROVE Reporting(p, job[p])'
    OBVIOUS
  <2>1. pstage[p] = "wait"
    BY <1>1 DEF TaskInv, ReportsInOrder, Report, Unfinished
  <2>2. row[job[p]].stage = "wait"
    BY <1>4 DEF TaskInv, RowsInOrder, Unfinished
  <2>3. job[p] \in Rows(t, pstage[p])
    BY <1>4, <2>1, <2>2 DEF Rows, Kids
  <2> QED
    BY <1>1, <1>2, <2>3 DEF Reporting
<1>6. ~Effective(p, job[p])
  BY <1>1 DEF Effective
<1>7. result'[p] = "succ" => result[p] = "succ" /\ pc'[p] # "idle"
  BY <1>1, <1>2
<1> QED
  BY <1>1, <1>2, <1>3, <1>5, <1>6, <1>7, CalmReasons

\* The job is over.
LEMMA DoneReasons ==
    ASSUME TaskInv, TaskInv', ReasonsInv, NEW p \in Proc, Done(p)
    PROVE  ReasonsInv'
<1>1. /\ UNCHANGED <<stage, row, queue, todo, next, asked, calls, dropped>>
      /\ pc[p] = "done" /\ pc' = [pc EXCEPT ![p] = "idle"]
      /\ job' = [job EXCEPT ![p] = None] /\ bad' = [bad EXCEPT ![p] = FALSE]
      /\ loc' = [loc EXCEPT ![p] = "none"] /\ result' = [result EXCEPT ![p] = "none"]
      /\ pstage' = [pstage EXCEPT ![p] = "none"] /\ some' = [some EXCEPT ![p] = FALSE]
  BY DEF Done, Goto, At, dbVars, envVars
<1>2. /\ pc'[p] = "idle" /\ result'[p] = "none"
      /\ \A q \in Proc : q # p => /\ pc'[q] = pc[q] /\ job'[q] = job[q] /\ bad'[q] = bad[q]
                                  /\ loc'[q] = loc[q] /\ result'[q] = result[q]
                                  /\ pstage'[q] = pstage[q] /\ some'[q] = some[q]
  BY <1>1 DEF TaskInv, TypeOK
<1>3. Others(p)
  BY <1>1, <1>2 DEF Others, Alone
<1>4. ~Effective(p, job[p]) /\ ~Reporting(p, job[p])
  BY <1>1 DEF Effective, Reporting
<1> QED
  BY <1>1, <1>2, <1>3, <1>4, CalmReasons
-----------------------------------------------------------------------------
(***************************************************************************)
(* A task ends.                                                            *)
(***************************************************************************)
LEMMA FinalReasons ==
    ASSUME TaskInv, TaskInv', ReasonsInv, NEW p \in Proc, Others(p),
           UNCHANGED <<row, queue, next, asked, calls, dropped>>,
           pc[p] \in {"handler", "fail"}, pc'[p] = "save",
           job'[p] = job[p], bad'[p] = bad[p], result'[p] = "succ" => ~bad[p],
           stage'[job[p]] \in Final,
           \A t \in Task : t # job[p] => stage'[t] = stage[t]
    PROVE  ReasonsInv'
<1>1. job[p] \in Task /\ Canceller \in Proc /\ Starter \in Proc /\ Worker \subseteq Proc
  BY DEF TaskInv, JobsInOrder, Proc
<1>2. /\ EveryTaskHasReason /\ RowsKept /\ UntouchedBeforeRow /\ AskedOnce
      /\ ListsInOrder /\ StartedOver
  BY DEF ReasonsInv
<1>3. /\ \A t \in Task : Unfinished(t)' <=> Unfinished(t) /\ t # job[p]
      /\ \A t \in Task : InQueue(t)' <=> InQueue(t)
      /\ \A t \in Task, q \in Proc : Listed(q, t)' <=> Listed(q, t)
      /\ \A t \in Task : Asking(t)' <=> Asking(t)
  BY DEF Unfinished, InQueue, Listed, Asking
<1>4. /\ \A t \in Task, q \in Proc : t # job[p] => (Effective(q, t)' <=> Effective(q, t))
      /\ \A c \in Task, q \in Proc : Reporting(q, c) => Reporting(q, c)'
  BY DEF Effective, Reporting, Others, Alone
<1>5. ASSUME NEW t \in Task, t # job[p], Doomed(t) PROVE Doomed(t)'
  BY <1>1, <1>3, <1>4, <1>5 DEF Doomed
<1>6. \A q \in Proc : pc'[q] # "idle" => pc[q] # "idle" /\ job'[q] = job[q] /\ bad'[q] = bad[q]
  BY DEF Others, Alone
<1>7. EveryTaskHasReason'
  <2> SUFFICES ASSUME NEW t \in Task, t # job[p], Reason(t) PROVE Reason(t)'
    BY <1>2, <1>3 DEF EveryTaskHasReason
  <2>1. CASE Ending(t)
    <3>1. Ending(t)'
      BY <1>3, <1>4, <1>5, <2>1 DEF Ending, Others, Alone
    <3> QED
      BY <3>1 DEF Reason
  <2>2. CASE Linking(t)
    <3>1. Linking(t)'
      BY <2>2 DEF Linking, Others, Alone
    <3> QED
      BY <3>1 DEF Reason
  <2>3. CASE Spawning(t)
    <3>1. Spawning(t)'
      BY <2>3 DEF Spawning, Others, Alone
    <3> QED
      BY <3>1 DEF Reason
  <2>4. CASE Asking(t)
    BY <1>3, <2>4 DEF Reason
  <2>5. ASSUME NEW c \in Kids(t), Awaited(c) PROVE Reason(t)'
    <3>1. Awaited(c)'
      BY <1>4, <2>5 DEF Awaited, Kids
    <3> QED
      BY <3>1 DEF Reason
  <2> QED
    BY <2>1, <2>2, <2>3, <2>4, <2>5 DEF Reason
<1>8. RowsKept'
  <2> SUFFICES ASSUME NEW c \in Task, Parent[c] \in Task, stage'[Parent[c]] = "wait"
               PROVE  /\ row[c] # None /\ row[c].status = "init" =>
                            \/ Unfinished(c)' \/ Doomed(Parent[c])'
                            \/ \E q \in Proc : pc'[q] = "save" /\ job'[q] = c
                      /\ row[c] = None /\ stage'[c] \in Final => Doomed(Parent[c])'
    BY DEF RowsKept
  <2>1. Parent[c] # job[p] /\ stage[Parent[c]] = "wait" /\ Unfinished(Parent[c])
    BY DEF Unfinished, Final
  <2>2. CASE c # job[p]
    <3>1. \A q \in Proc : pc[q] = "save" /\ job[q] = c => pc'[q] = "save" /\ job'[q] = c
      BY DEF Others, Alone
    <3> QED
      BY <1>2, <1>3, <1>5, <2>1, <2>2, <3>1 DEF RowsKept
  <2>3. CASE c = job[p]
    <3>1. ASSUME row[c] = None PROVE Doomed(Parent[c])'
      <4>1. p \in {Canceller, Starter}
        BY <1>2, <2>3, <3>1 DEF UntouchedBeforeRow, Proc
      <4>2. CASE p = Canceller
        <5>1. Listed(Canceller, Parent[c])
          BY <1>1, <1>2, <2>3, <4>2 DEF ListsInOrder, Listed
        <5> QED
          BY <1>1, <1>3, <5>1 DEF Doomed
      <4>3. CASE p = Starter
        <5>1. ~Serving
          BY <4>3 DEF Serving, At
        <5>2. Listed(Starter, Parent[c])
          BY <1>1, <1>2, <2>1, <4>3, <5>1 DEF StartedOver, Effective
        <5> QED
          BY <1>1, <1>3, <5>2 DEF Doomed
      <4> QED
        BY <4>1, <4>2, <4>3
    <3> QED
      BY <2>3, <3>1
  <2> QED
    BY <2>2, <2>3
<1>9. UntouchedBeforeRow' /\ AskedOnce'
  <2>1. UntouchedBeforeRow'
    BY <1>1, <1>2, <1>3, <1>6 DEF UntouchedBeforeRow
  <2>2. AskedOnce'
    BY <1>1, <1>2 DEF AskedOnce, Running, Others, Alone, Final
  <2> QED
    BY <2>1, <2>2
<1>10. ListsInOrder'
  BY <1>1, <1>2, <1>6 DEF ListsInOrder
<1>11. StartedOver'
  <2>1. ~Serving' => ~Serving
    BY <1>1 DEF Serving, At, Others, Alone
  <2>2. \A q \in Proc : result'[q] = "succ" => ~bad'[q] /\ pc'[q] # "idle"
    BY <1>2 DEF Others, Alone, StartedOver
  <2> QED
    BY <1>1, <1>2, <1>3, <1>4, <1>6, <2>1, <2>2 DEF StartedOver
<1> QED
  BY <1>2, <1>7, <1>8, <1>9, <1>10, <1>11 DEF ReasonsInv

\* Without a method, or by a method that fails.
LEMMA FailReasons ==
    ASSUME TaskInv, TaskInv', ReasonsInv, NEW p \in Proc, NoHandler(p) \/ FailedMethod(p)
    PROVE  ReasonsInv'
<1>1. /\ UNCHANGED <<row, queue, job, bad, todo, next, pstage, some, asked, calls, dropped>>
      /\ pc[p] \in {"handler", "fail"} /\ SetStageFailed(p)
  BY DEF NoHandler, FailedMethod, At, envVars
<1>2. job[p] \in Task
  BY <1>1 DEF TaskInv, JobsInOrder
<1>3. CASE loc[p] = "failed"
  <2>1. /\ UNCHANGED <<stage, loc, result>> /\ pc' = [pc EXCEPT ![p] = "done"]
    BY <1>1, <1>3 DEF SetStageFailed, Goto
  <2>2. pc'[p] = "done" /\ \A q \in Proc : q # p => pc'[q] = pc[q]
    BY <2>1 DEF TaskInv, TypeOK
  <2>3. Others(p)
    BY <1>1, <2>1, <2>2 DEF Others, Alone
  <2>4. ~Effective(p, job[p]) /\ ~Reporting(p, job[p])
    BY <1>1, <1>3 DEF Effective, Reporting, TaskInv, JobsInOrder
  <2>5. result'[p] = "succ" => result[p] = "succ" /\ pc'[p] # "idle"
    BY <2>1, <2>2
  <2> QED
    BY <1>1, <2>1, <2>2, <2>3, <2>4, <2>5, CalmReasons
<1>4. CASE loc[p] # "failed"
  <2>1. /\ stage' = [stage EXCEPT ![job[p]] = "failed"] /\ loc' = [loc EXCEPT ![p] = "failed"]
        /\ result' = [result EXCEPT ![p] = "fail"] /\ pc' = [pc EXCEPT ![p] = "save"]
    BY <1>1, <1>4 DEF SetStageFailed, SetStage, Goto
  <2>2. /\ pc'[p] = "save" /\ result'[p] = "fail"
        /\ stage'[job[p]] = "failed" /\ \A t \in Task : t # job[p] => stage'[t] = stage[t]
        /\ \A q \in Proc : q # p => pc'[q] = pc[q] /\ loc'[q] = loc[q] /\ result'[q] = result[q]
    BY <1>2, <2>1 DEF TaskInv, TypeOK
  <2>3. Others(p)
    BY <1>1, <2>2 DEF Others, Alone
  <2> QED
    BY <1>1, <2>2, <2>3, FinalReasons DEF Final
<1> QED
  BY <1>3, <1>4

\* By a method that succeeds.
LEMMA EndReasons ==
    ASSUME TaskInv, TaskInv', ReasonsInv, NEW p \in Proc, EndMethod(p)
    PROVE  ReasonsInv'
<1>1. /\ UNCHANGED <<row, queue, job, bad, todo, next, pstage, some, asked, calls, dropped>>
      /\ pc[p] = "handler" /\ ~bad[p]
      /\ SetStage(p, "complete") /\ result' = [result EXCEPT ![p] = "succ"]
      /\ pc' = [pc EXCEPT ![p] = "save"]
  BY DEF EndMethod, SetStageComplete, Goto, At, envVars
<1>2. job[p] \in Task /\ loc[p] # "complete"
  BY <1>1 DEF TaskInv, JobsInOrder
<1>3. /\ stage' = [stage EXCEPT ![job[p]] = "complete"]
      /\ loc' = [loc EXCEPT ![p] = "complete"]
  BY <1>1, <1>2 DEF SetStage
<1>4. /\ pc'[p] = "save"
      /\ stage'[job[p]] = "complete" /\ \A t \in Task : t # job[p] => stage'[t] = stage[t]
      /\ \A q \in Proc : q # p => pc'[q] = pc[q] /\ loc'[q] = loc[q] /\ result'[q] = result[q]
  BY <1>1, <1>2, <1>3 DEF TaskInv, TypeOK
<1>5. Others(p)
  BY <1>1, <1>4 DEF Others, Alone
<1> QED
  BY <1>1, <1>4, <1>5, FinalReasons DEF Final
-----------------------------------------------------------------------------
(***************************************************************************)
(* A task moves to its second stage.                                       *)
(***************************************************************************)
LEMMA WaitReasons ==
    ASSUME TaskInv, TaskInv', ReasonsInv, NEW p \in Proc, Others(p),
           UNCHANGED <<row, queue, next, calls, dropped>>,
           pc[p] = "handler", ~bad[p], loc[p] = "on_init",
           job'[p] = job[p], bad'[p] = bad[p], result'[p] = result[p],
           \/ pc'[p] = "done" /\ asked' = asked \cup {job[p]}
           \/ pc'[p] = "spawn" /\ asked' = asked /\ Kids(job[p]) # {},
           stage'[job[p]] = "wait",
           \A t \in Task : t # job[p] => stage'[t] = stage[t]
    PROVE  ReasonsInv'
<1>1. job[p] \in Task /\ Canceller \in Proc /\ Starter \in Proc /\ Worker \subseteq Proc
  BY DEF TaskInv, JobsInOrder, Proc
<1>2. /\ EveryTaskHasReason /\ RowsKept /\ UntouchedBeforeRow /\ AskedOnce
      /\ ListsInOrder /\ StartedOver
  BY DEF ReasonsInv
<1>3. Running(p, job[p]) /\ job[p] \notin asked /\ calls[job[p]] = 0
  <2>1. Running(p, job[p])
    BY DEF Running
  <2>2. job[p] \notin asked /\ ~(calls[job[p]] > 0) /\ calls[job[p]] \in 0 .. MaxCalls
    BY <1>1, <1>2, <2>1 DEF AskedOnce, TaskInv, TypeOK
  <2> QED
    BY <2>1, <2>2, BoundsAssumption
<1>4. \A c \in Kids(job[p]) : c \in Task /\ stage[c] = "none" /\ row[c] = None
  BY <1>1, <1>3 DEF TaskInv, FirstStageOver, NotStarted, Kids
<1>5. Serving /\ p # Starter
  BY <1>1, <1>2 DEF StartedOver, Serving, At
<1>6. \A q \in Proc : Running(q, job[p]) => q = p
  BY <1>1, <1>3, <1>4 DEF TaskInv, OneRun
<1>7. /\ \A t \in Task : t # job[p] => (Unfinished(t)' <=> Unfinished(t))
      /\ \A t \in Task : InQueue(t)' <=> InQueue(t)
      /\ \A t \in Task, q \in Proc : Listed(q, t)' <=> Listed(q, t)
      /\ \A t \in Task : t # job[p] => (Asking(t)' <=> Asking(t))
  BY DEF Unfinished, InQueue, Listed, Asking
<1>8. /\ \A t \in Task, q \in Proc : t # job[p] => (Effective(q, t)' <=> Effective(q, t))
      /\ \A c \in Task, q \in Proc : Reporting(q, c) => Reporting(q, c)'
  BY DEF Effective, Reporting, Others, Alone
<1>9. ASSUME NEW t \in Task, t # job[p], Doomed(t) PROVE Doomed(t)'
  BY <1>1, <1>7, <1>8, <1>9 DEF Doomed
<1>10. \A q \in Proc : pc'[q] # "idle" => pc[q] # "idle" /\ job'[q] = job[q] /\ bad'[q] = bad[q]
  BY DEF Others, Alone
<1>11. Reason(job[p])'
  <2>1. CASE pc'[p] = "done"
    <3>1. Asking(job[p])'
      BY <1>3, <2>1 DEF Asking
    <3> QED
      BY <3>1 DEF Reason
  <2>2. CASE pc'[p] = "spawn"
    <3>1. Spawning(job[p])'
      BY <1>4, <2>2 DEF Spawning, Kids
    <3> QED
      BY <3>1 DEF Reason
  <2> QED
    BY <2>1, <2>2
<1>12. EveryTaskHasReason'
  <2> SUFFICES ASSUME NEW t \in Task, t # job[p], Reason(t) PROVE Reason(t)'
    BY <1>2, <1>7, <1>11 DEF EveryTaskHasReason
  <2>1. CASE Ending(t)
    <3>1. \A q \in Proc : Effective(q, t) => pc'[q] = pc[q]
      BY DEF Effective, Others, Alone
    <3>2. Ending(t)'
      BY <1>7, <1>8, <1>9, <2>1, <3>1 DEF Ending
    <3> QED
      BY <3>2 DEF Reason
  <2>2. CASE Linking(t)
    <3>1. Linking(t)'
      BY <2>2 DEF Linking, Others, Alone
    <3> QED
      BY <3>1 DEF Reason
  <2>3. CASE Spawning(t)
    <3>1. Spawning(t)'
      BY <2>3 DEF Spawning, Others, Alone
    <3> QED
      BY <3>1 DEF Reason
  <2>4. CASE Asking(t)
    BY <1>7, <2>4 DEF Reason
  <2>5. ASSUME NEW c \in Kids(t), Awaited(c) PROVE Reason(t)'
    <3>1. Awaited(c)'
      BY <1>8, <2>5 DEF Awaited, Kids
    <3> QED
      BY <3>1 DEF Reason
  <2> QED
    BY <2>1, <2>2, <2>3, <2>4, <2>5 DEF Reason
<1>13. RowsKept'
  <2> SUFFICES ASSUME NEW c \in Task, Parent[c] \in Task, stage'[Parent[c]] = "wait"
               PROVE  /\ row[c] # None /\ row[c].status = "init" =>
                            \/ Unfinished(c)' \/ Doomed(Parent[c])'
                            \/ \E q \in Proc : pc'[q] = "save" /\ job'[q] = c
                      /\ row[c] = None /\ stage'[c] \in Final => Doomed(Parent[c])'
    BY DEF RowsKept
  <2>1. CASE c = job[p]
    BY <2>1 DEF Unfinished, Final
  <2>2. CASE c # job[p] /\ Parent[c] = job[p]
    BY <1>4, <2>2 DEF Kids, Final
  <2>3. CASE c # job[p] /\ Parent[c] # job[p]
    <3>1. \A q \in Proc : pc[q] = "save" /\ job[q] = c => pc'[q] = "save" /\ job'[q] = c
      BY DEF Others, Alone
    <3> QED
      BY <1>2, <1>7, <1>9, <2>3, <3>1 DEF RowsKept
  <2> QED
    BY <2>1, <2>2, <2>3
<1>14. UntouchedBeforeRow' /\ AskedOnce'
  <2>1. UntouchedBeforeRow'
    BY <1>1, <1>2, <1>7, <1>10 DEF UntouchedBeforeRow
  <2>2. \A t \in Task : calls'[t] > 0 => t \in asked'
    BY <1>2 DEF AskedOnce
  <2>3. ASSUME NEW t \in Task, t \in asked'
        PROVE  /\ stage'[t] \notin {"none", "on_init"}
               /\ \A q \in Proc : pc'[q] \in {"lock", "handler"} /\ Running(q, t)'
                                     => loc'[q] # "on_init"
    <3>1. \A q \in Proc : pc'[q] \in {"lock", "handler"} /\ Running(q, t)' =>
             q # p /\ pc[q] = pc'[q] /\ Running(q, t) /\ loc'[q] = loc[q]
      BY DEF Others, Alone, Running
    <3>2. CASE t = job[p]
      BY <1>6, <3>1, <3>2
    <3>3. CASE t # job[p]
      BY <1>2, <2>3, <3>1, <3>3 DEF AskedOnce
    <3> QED
      BY <3>2, <3>3
  <2> QED
    BY <2>1, <2>2, <2>3 DEF AskedOnce
<1>15. ListsInOrder'
  BY <1>1, <1>2, <1>10 DEF ListsInOrder
<1>16. StartedOver'
  <2>1. Serving'
    BY <1>1, <1>5 DEF Serving, At, Others, Alone
  <2>2. \A q \in Proc : result'[q] = "succ" => ~bad'[q] /\ pc'[q] # "idle"
    BY <1>2 DEF Others, Alone, StartedOver
  <2> QED
    BY <2>1, <2>2 DEF StartedOver
<1> QED
  BY <1>12, <1>13, <1>14, <1>15, <1>16 DEF ReasonsInv

\* The remote agent is asked.
LEMMA AskReasons ==
    ASSUME TaskInv, TaskInv', ReasonsInv, NEW p \in Proc, AskMethod(p)
    PROVE  ReasonsInv'
<1>1. /\ UNCHANGED <<row, queue, job, bad, todo, next, result, pstage, some, calls, dropped>>
      /\ pc[p] = "handler" /\ ~bad[p] /\ loc[p] = "on_init"
      /\ stage' = [stage EXCEPT ![job[p]] = "wait"] /\ loc' = [loc EXCEPT ![p] = "wait"]
      /\ asked' = asked \cup {job[p]} /\ pc' = [pc EXCEPT ![p] = "done"]
  BY DEF AskMethod, SetStage, Goto, At
<1>2. job[p] \in Task
  BY <1>1 DEF TaskInv, JobsInOrder
<1>3. /\ pc'[p] = "done"
      /\ stage'[job[p]] = "wait" /\ \A t \in Task : t # job[p] => stage'[t] = stage[t]
      /\ \A q \in Proc : q # p => pc'[q] = pc[q] /\ loc'[q] = loc[q]
  BY <1>1, <1>2 DEF TaskInv, TypeOK
<1>4. Others(p)
  BY <1>1, <1>3 DEF Others, Alone
<1> QED
  BY <1>1, <1>3, <1>4, WaitReasons

\* The subtasks are going to be started.
LEMMA SpawnReasons ==
    ASSUME TaskInv, TaskInv', ReasonsInv, NEW p \in Proc, SpawnMethod(p)
    PROVE  ReasonsInv'
<1>1. /\ UNCHANGED <<row, queue, job, bad, next, result, pstage, some, asked, calls, dropped>>
      /\ pc[p] = "handler" /\ ~bad[p] /\ loc[p] = "on_init" /\ Kids(job[p]) # {}
      /\ stage' = [stage EXCEPT ![job[p]] = "wait"] /\ loc' = [loc EXCEPT ![p] = "wait"]
      /\ todo' = [todo EXCEPT ![p] = Kids(job[p])] /\ pc' = [pc EXCEPT ![p] = "spawn"]
  BY DEF SpawnMethod, SetStage, Goto, At, envVars
<1>2. job[p] \in Task
  BY <1>1 DEF TaskInv, JobsInOrder
<1>3. /\ pc'[p] = "spawn"
      /\ stage'[job[p]] = "wait" /\ \A t \in Task : t # job[p] => stage'[t] = stage[t]
      /\ \A q \in Proc : q # p => pc'[q] = pc[q] /\ loc'[q] = loc[q] /\ todo'[q] = todo[q]
  BY <1>1, <1>2 DEF TaskInv, TypeOK
<1>4. Others(p)
  BY <1>1, <1>3 DEF Others, Alone
<1> QED
  BY <1>1, <1>3, <1>4, WaitReasons
-----------------------------------------------------------------------------
(***************************************************************************)
(* Subtasks are started.                                                   *)
(***************************************************************************)
\* A job that is not lost is in the queue.
LEMMA RunTaskReasons ==
    ASSUME TypeOK, NEW t \in Task, NEW b \in BOOLEAN, runTask(t, b)
    PROVE  /\ \A u \in Task : InQueue(u) => InQueue(u)'
           /\ \A u \in Task : InQueue(u)' => InQueue(u) \/ u = t
           /\ ~dropped' => InQueue(t)' /\ ~dropped
           /\ (\A i \in DOMAIN queue : queue[i].bad) /\ b => \A i \in DOMAIN queue' : queue'[i].bad
<1> DEFINE e == [task |-> t, bad |-> b]
<1>1. queue \in Seq([task : Task, bad : BOOLEAN])
  BY DEF TypeOK
<1>2. CASE Room
  <2>1. queue' = Append(queue, e) /\ dropped' = dropped
    BY <1>2 DEF runTask
  <2>2. /\ DOMAIN queue' = DOMAIN queue \cup {Len(queue) + 1}
        /\ queue'[Len(queue) + 1] = e
        /\ \A i \in DOMAIN queue : queue'[i] = queue[i]
    BY <1>1, <2>1
  <2>3. e.task = t /\ e.bad = b
    OBVIOUS
  <2> HIDE DEF e
  <2> QED
    BY <2>1, <2>2, <2>3 DEF InQueue
<1>3. CASE ~Room
  BY <1>3 DEF runTask, InQueue
<1> QED
  BY <1>2, <1>3

\* A subtask with its row of tasks_tbl is about to be queued.
LEMMA NewTaskReasons ==
    ASSUME TaskInv, TaskInv', ReasonsInv, NEW p \in Proc, NewTask(p)
    PROVE  ReasonsInv'
<1>1. PICK c \in todo[p] :
         /\ UNCHANGED <<row, queue, job, bad, loc, todo, next, result, pstage, some,
                        asked, calls, dropped>>
         /\ pc[p] = "spawn" /\ pc' = [pc EXCEPT ![p] = "link"]
         /\ stage[c] = "none" /\ stage' = [stage EXCEPT ![c] = "on_init"]
  BY DEF NewTask, Goto, At, envVars
<1>2. /\ job[p] \in Task /\ Canceller \in Proc /\ Starter \in Proc /\ Worker \subseteq Proc
      /\ c \in Task /\ ~bad[p]
  BY <1>1 DEF TaskInv, JobsInOrder, SpawningInOrder, TypeOK, Proc
<1>3. /\ EveryTaskHasReason /\ RowsKept /\ UntouchedBeforeRow /\ AskedOnce
      /\ ListsInOrder /\ StartedOver
  BY DEF ReasonsInv
<1>4. Serving /\ p # Starter
  BY <1>1, <1>2, <1>3 DEF StartedOver, Serving, At
<1>5. /\ pc'[p] = "link" /\ \A q \in Proc : q # p => pc'[q] = pc[q]
      /\ stage'[c] = "on_init" /\ \A t \in Task : t # c => stage'[t] = stage[t]
  BY <1>1, <1>2 DEF TaskInv, TypeOK
<1>6. /\ \A t \in Task : t # c => (Unfinished(t)' <=> Unfinished(t))
      /\ \A t \in Task : InQueue(t)' <=> InQueue(t)
      /\ \A t \in Task, q \in Proc : Listed(q, t)' <=> Listed(q, t)
      /\ \A t \in Task : Asking(t)' <=> Asking(t)
  BY <1>1, <1>5 DEF Unfinished, InQueue, Listed, Asking
<1>7. /\ \A t \in Task, q \in Proc : Effective(q, t)' <=> Effective(q, t)
      /\ \A d \in Task, q \in Proc : Reporting(q, d)' <=> Reporting(q, d)
      /\ \A q \in Proc : pc[q] \notin {"spawn", "link"} => pc'[q] = pc[q]
  BY <1>1, <1>5 DEF Effective, Reporting
<1>8. \A t \in Task : Doomed(t)' <=> Doomed(t)
  BY <1>2, <1>6, <1>7 DEF Doomed
<1>9. Reason(c)'
  <2>1. Linking(c)'
    BY <1>1, <1>5 DEF Linking
  <2> QED
    BY <2>1 DEF Reason
<1>10. EveryTaskHasReason'
  <2> SUFFICES ASSUME NEW t \in Task, t # c, Reason(t) PROVE Reason(t)'
    BY <1>1, <1>3, <1>6, <1>9 DEF EveryTaskHasReason
  <2>1. Ending(t) => Ending(t)'
    BY <1>6, <1>7, <1>8 DEF Ending
  <2>2. Linking(t) => Linking(t)'
    BY <1>1, <1>5 DEF Linking
  <2>3. Spawning(t) => Spawning(t)'
    BY <1>1, <1>5 DEF Spawning
  <2>4. \A d \in Kids(t) : Awaited(d) => Awaited(d)'
    BY <1>1, <1>7 DEF Awaited, Kids
  <2> QED
    BY <1>6, <2>1, <2>2, <2>3, <2>4 DEF Reason
<1>11. RowsKept'
  <2> SUFFICES ASSUME NEW d \in Task, Parent[d] \in Task, stage'[Parent[d]] = "wait"
               PROVE  /\ row[d] # None /\ row[d].status = "init" =>
                            \/ Unfinished(d)' \/ Doomed(Parent[d])'
                            \/ \E q \in Proc : pc'[q] = "save" /\ job'[q] = d
                      /\ row[d] = None /\ stage'[d] \in Final => Doomed(Parent[d])'
    BY <1>1 DEF RowsKept
  <2>1. stage[Parent[d]] = "wait"
    BY <1>5
  <2>2. CASE d = c
    BY <1>5, <2>2 DEF Unfinished, Final
  <2>3. CASE d # c
    BY <1>1, <1>3, <1>5, <1>6, <1>7, <1>8, <2>1, <2>3 DEF RowsKept
  <2> QED
    BY <2>2, <2>3
<1>12. UntouchedBeforeRow' /\ AskedOnce'
  <2>1. UntouchedBeforeRow'
    BY <1>1, <1>2, <1>3, <1>5, <1>6 DEF UntouchedBeforeRow
  <2>2. c \notin asked
    BY <1>1, <1>2 DEF TaskInv, NotStarted
  <2>3. AskedOnce'
    BY <1>1, <1>3, <1>5, <2>2 DEF AskedOnce, Running
  <2> QED
    BY <2>1, <2>3
<1>13. ListsInOrder'
  BY <1>1, <1>2, <1>3, <1>5 DEF ListsInOrder
<1>14. StartedOver'
  <2>1. Serving'
    BY <1>1, <1>2, <1>4, <1>5 DEF Serving, At
  <2> QED
    BY <1>1, <1>3, <1>5, <2>1 DEF StartedOver
<1> QED
  BY <1>10, <1>11, <1>12, <1>13, <1>14 DEF ReasonsInv

\* It is queued, and its parent counts on its row.
LEMMA ScheduleRunReasons ==
    ASSUME TaskInv, TaskInv', ReasonsInv, NEW p \in Proc, ScheduleRun(p)
    PROVE  ReasonsInv'
<1> DEFINE r == [stage |-> stage[job[p]], status |-> "init"]
<1>1. PICK c \in todo[p] :
         /\ UNCHANGED <<stage, job, bad, loc, next, result, pstage, some, asked, calls>>
         /\ pc[p] = "link" /\ pc' = [pc EXCEPT ![p] = IF Room THEN "spawn" ELSE "fail"]
         /\ stage[c] # "none" /\ row' = [row EXCEPT ![c] = r]
         /\ todo' = [todo EXCEPT ![p] = @ \ {c}]
         /\ runTask(c, FALSE)
  BY DEF ScheduleRun, Goto, At
<1>2. /\ job[p] \in Task /\ Canceller \in Proc /\ Starter \in Proc /\ Worker \subseteq Proc
      /\ c \in Task /\ ~bad[p] /\ Parent[c] = job[p] /\ row[c] = None
      /\ \A d \in todo[p] : d \in Task /\ (stage[d] # "none" => d = c)
  BY <1>1 DEF TaskInv, JobsInOrder, SpawningInOrder, TypeOK, Proc, Kids
<1>3. /\ EveryTaskHasReason /\ RowsKept /\ UntouchedBeforeRow /\ AskedOnce
      /\ ListsInOrder /\ StartedOver
  BY DEF ReasonsInv
<1>4. Serving /\ p # Starter /\ p # Canceller
  BY <1>1, <1>2, <1>3 DEF StartedOver, Serving, At, ListsInOrder
<1>5. /\ pc'[p] \in {"spawn", "fail"} /\ \A q \in Proc : q # p => pc'[q] = pc[q] /\ todo'[q] = todo[q]
      /\ row'[c] = r /\ \A t \in Task : t # c => row'[t] = row[t]
  BY <1>1, <1>2 DEF TaskInv, TypeOK
<1>6. r # None /\ r.status = "init"
  BY <1>2, NamesAssumption DEF TaskInv, TypeOK, Row
<1> HIDE DEF r
<1>7. /\ \A t \in Task : Unfinished(t)' <=> Unfinished(t)
      /\ \A t \in Task, q \in Proc : Listed(q, t)' <=> Listed(q, t)
      /\ \A t \in Task : Asking(t)' <=> Asking(t)
  BY <1>1 DEF Unfinished, Listed, Asking
<1>8. /\ \A u \in Task : InQueue(u) => InQueue(u)'
      /\ \A u \in Task : InQueue(u)' => InQueue(u) \/ u = c
      /\ ~dropped' => InQueue(c)' /\ ~dropped
  BY <1>1, <1>2, RunTaskReasons DEF TaskInv
<1>9. /\ \A t \in Task, q \in Proc : q # p => (Effective(q, t)' <=> Effective(q, t))
      /\ \A d \in Task, q \in Proc : Reporting(q, d)' <=> Reporting(q, d)
  BY <1>1, <1>5 DEF Effective, Reporting
<1>10. \A t \in Task : Doomed(t)' <=> Doomed(t)
  BY <1>2, <1>4, <1>7, <1>9 DEF Doomed
<1>11. EveryTaskHasReason'
  <2> SUFFICES ASSUME ~dropped', NEW t \in Task, Unfinished(t), Reason(t) PROVE Reason(t)'
    BY <1>3, <1>7, <1>8 DEF EveryTaskHasReason
  <2>1. CASE Ending(t)
    <3>1. Ending(t)'
      BY <1>1, <1>5, <1>8, <1>9, <1>10, <2>1 DEF Ending
    <3> QED
      BY <3>1 DEF Reason
  <2>2. CASE Linking(t)
    <3>1. PICK q \in Proc : pc[q] = "link" /\ t \in todo[q]
      BY <2>2 DEF Linking
    <3>2. CASE q = p
      <4>1. t = c
        BY <1>2, <3>1, <3>2 DEF Unfinished
      <4>2. Ending(t)'
        BY <1>8, <4>1 DEF Ending
      <4> QED
        BY <4>2 DEF Reason
    <3>3. CASE q # p
      <4>1. Linking(t)'
        BY <1>5, <3>1, <3>3 DEF Linking
      <4> QED
        BY <4>1 DEF Reason
    <3> QED
      BY <3>2, <3>3
  <2>3. CASE Spawning(t)
    <3>1. CASE t = job[p]
      <4>1. Awaited(c)' /\ c \in Kids(t)
        BY <1>2, <1>5, <1>6, <3>1 DEF Awaited, Kids
      <4> QED
        BY <4>1 DEF Reason
    <3>2. CASE t # job[p]
      <4>1. \A d \in Kids(t) : d \in Task /\ d # c
        BY <1>2, <3>2 DEF Kids
      <4>2. Spawning(t)'
        BY <1>1, <1>5, <2>3, <3>2, <4>1 DEF Spawning
      <4> QED
        BY <4>2 DEF Reason
    <3> QED
      BY <3>1, <3>2
  <2>4. CASE Asking(t)
    BY <1>7, <2>4 DEF Reason
  <2>5. ASSUME NEW d \in Kids(t), Awaited(d) PROVE Reason(t)'
    <3>1. d \in Task /\ d # c
      BY <1>2, <2>5 DEF Kids, Awaited
    <3>2. Awaited(d)'
      BY <1>5, <1>9, <2>5, <3>1 DEF Awaited
    <3> QED
      BY <3>2 DEF Reason
  <2> QED
    BY <2>1, <2>2, <2>3, <2>4, <2>5 DEF Reason
<1>12. RowsKept'
  <2> SUFFICES ASSUME NEW d \in Task, Parent[d] \in Task, stage[Parent[d]] = "wait"
               PROVE  /\ row'[d] # None /\ row'[d].status = "init" =>
                            \/ Unfinished(d)' \/ Doomed(Parent[d])'
                            \/ \E q \in Proc : pc'[q] = "save" /\ job'[q] = d
                      /\ row'[d] = None /\ stage[d] \in Final => Doomed(Parent[d])'
    BY <1>1 DEF RowsKept
  <2>1. CASE d = c
    <3>1. Unfinished(c) \/ Doomed(Parent[c])
      BY <1>1, <1>2, <1>3, <2>1 DEF RowsKept, Unfinished
    <3> QED
      BY <1>5, <1>6, <1>7, <1>10, <2>1, <3>1
  <2>2. CASE d # c
    <3>1. \A q \in Proc : pc[q] = "save" /\ job[q] = d => pc'[q] = "save" /\ job'[q] = d
      BY <1>1, <1>5
    <3> QED
      BY <1>3, <1>5, <1>7, <1>10, <2>2, <3>1 DEF RowsKept
  <2> QED
    BY <2>1, <2>2
<1>13. UntouchedBeforeRow' /\ AskedOnce'
  <2>1. UntouchedBeforeRow'
    BY <1>1, <1>2, <1>3, <1>5, <1>6, <1>8 DEF UntouchedBeforeRow
  <2>2. AskedOnce'
    BY <1>1, <1>3, <1>5 DEF AskedOnce, Running
  <2> QED
    BY <2>1, <2>2
<1>14. ListsInOrder'
  BY <1>1, <1>2, <1>3, <1>5 DEF ListsInOrder
<1>15. StartedOver'
  <2>1. Serving'
    BY <1>1, <1>2, <1>4, <1>5 DEF Serving, At
  <2> QED
    BY <1>1, <1>3, <1>5, <2>1 DEF StartedOver
<1> QED
  BY <1>11, <1>12, <1>13, <1>14, <1>15 DEF ReasonsInv
-----------------------------------------------------------------------------
(***************************************************************************)
(* The result of a subtask.                                                *)
(***************************************************************************)
\* The row has a result, and the parent is going to be told.
LEMMA SaveReasons ==
    ASSUME TaskInv, TaskInv', ReasonsInv, NEW p \in Proc, SaveResults(p)
    PROVE  ReasonsInv'
<1> DEFINE c == job[p]
<1>1. /\ UNCHANGED <<stage, queue, job, bad, loc, todo, next, result, pstage, some,
                     asked, calls, dropped>>
      /\ pc[p] = "save"
      /\ pc' = [pc EXCEPT ![p] = IF Parent[c] = None THEN "done" ELSE "notify"]
      /\ row[c] = None => row' = row
      /\ row[c] # None => row' = [row EXCEPT ![c] = Saved(row[c], result[p])]
  BY DEF SaveResults, Goto, At, envVars
<1>2. /\ c \in Task /\ Canceller \in Proc /\ Starter \in Proc /\ Worker \subseteq Proc
      /\ result[p] \in {"succ", "fail"}
      /\ row[c] # None => Parent[c] \in Task
  BY <1>1 DEF TaskInv, JobsInOrder, RowsInOrder, Proc
<1>3. /\ EveryTaskHasReason /\ RowsKept /\ UntouchedBeforeRow /\ AskedOnce
      /\ ListsInOrder /\ StartedOver
  BY DEF ReasonsInv
<1>4. /\ pc'[p] \in {"done", "notify"} /\ \A q \in Proc : q # p => pc'[q] = pc[q]
      /\ row[c] # None => pc'[p] = "notify"
  BY <1>1, <1>2, NamesAssumption DEF TaskInv, TypeOK
<1>5. /\ \A d \in Task : d # c => row'[d] = row[d]
      /\ \A d \in Task : row'[d] = None <=> row[d] = None
      /\ row'[c] # None => row'[c].status # "init"
  <2>1. CASE row[c] = None
    BY <1>1, <2>1
  <2>2. CASE row[c] # None
    <3>1. row[c] \in Row /\ row \in [Task -> Row \cup {None}]
      BY <1>2, <2>2 DEF TaskInv, TypeOK
    <3>2. Saved(row[c], result[p]) \in Row /\ Saved(row[c], result[p]).status = result[p]
      BY <1>2, <3>1 DEF Saved, Row
    <3>3. row'[c] = Saved(row[c], result[p]) /\ \A d \in Task : d # c => row'[d] = row[d]
      BY <1>1, <1>2, <2>2, <3>1
    <3> QED
      BY <1>2, <2>2, <3>2, <3>3, NamesAssumption
  <2> QED
    BY <2>1, <2>2
<1>6. /\ \A t \in Task : Unfinished(t)' <=> Unfinished(t)
      /\ \A t \in Task : InQueue(t)' <=> InQueue(t)
      /\ \A t \in Task, q \in Proc : Listed(q, t)' <=> Listed(q, t)
      /\ \A t \in Task : Asking(t)' <=> Asking(t)
  BY <1>1 DEF Unfinished, InQueue, Listed, Asking
<1>7. /\ \A t \in Task, q \in Proc : Effective(q, t)' <=> Effective(q, t)
      /\ \A d \in Task, q \in Proc : Reporting(q, d) => Reporting(q, d)'
  BY <1>1, <1>4 DEF Effective, Reporting
<1>8. \A t \in Task : Doomed(t)' <=> Doomed(t)
  BY <1>2, <1>6, <1>7 DEF Doomed
<1>9. EveryTaskHasReason'
  <2> SUFFICES ASSUME NEW t \in Task, Reason(t) PROVE Reason(t)'
    BY <1>1, <1>3, <1>6 DEF EveryTaskHasReason
  <2>1. Ending(t) => Ending(t)'
    BY <1>1, <1>4, <1>6, <1>7, <1>8 DEF Ending
  <2>2. Linking(t) => Linking(t)'
    BY <1>1, <1>4 DEF Linking
  <2>3. Spawning(t) => Spawning(t)'
    BY <1>1, <1>4, <1>5 DEF Spawning, Kids
  <2>4. ASSUME NEW d \in Kids(t), Awaited(d) PROVE Awaited(d)'
    <3>1. d \in Task /\ row[d] # None
      BY <2>4 DEF Kids, Awaited
    <3>2. CASE d = c
      <4>1. Reporting(p, c)'
        BY <1>1, <1>4, <3>1, <3>2 DEF Reporting
      <4> QED
        BY <1>1, <1>5, <3>1, <3>2, <4>1 DEF Awaited
    <3>3. CASE d # c
      BY <1>5, <1>7, <2>4, <3>1, <3>3 DEF Awaited
    <3> QED
      BY <3>2, <3>3
  <2> QED
    BY <1>6, <2>1, <2>2, <2>3, <2>4 DEF Reason
<1>10. RowsKept'
  <2> SUFFICES ASSUME NEW d \in Task, Parent[d] \in Task, stage[Parent[d]] = "wait"
               PROVE  /\ row'[d] # None /\ row'[d].status = "init" =>
                            \/ Unfinished(d)' \/ Doomed(Parent[d])'
                            \/ \E q \in Proc : pc'[q] = "save" /\ job'[q] = d
                      /\ row'[d] = None /\ stage[d] \in Final => Doomed(Parent[d])'
    BY <1>1 DEF RowsKept
  <2>1. CASE d = c
    BY <1>3, <1>5, <1>8, <2>1 DEF RowsKept
  <2>2. CASE d # c
    <3>1. \A q \in Proc : pc[q] = "save" /\ job[q] = d => pc'[q] = "save" /\ job'[q] = d
      BY <1>1, <1>4, <2>2
    <3> QED
      BY <1>3, <1>5, <1>6, <1>8, <2>2, <3>1 DEF RowsKept
  <2> QED
    BY <2>1, <2>2
<1>11. UntouchedBeforeRow' /\ AskedOnce'
  <2>1. UntouchedBeforeRow'
    BY <1>1, <1>2, <1>3, <1>4, <1>5, <1>6 DEF UntouchedBeforeRow
  <2>2. AskedOnce'
    BY <1>1, <1>3, <1>4 DEF AskedOnce, Running
  <2> QED
    BY <2>1, <2>2
<1>12. ListsInOrder'
  BY <1>1, <1>2, <1>3, <1>4 DEF ListsInOrder
<1>13. StartedOver'
  <2>1. ~Serving' => ~Serving
    BY <1>1, <1>2, <1>4 DEF Serving, At
  <2> QED
    BY <1>1, <1>2, <1>3, <1>4, <1>6, <1>7, <2>1 DEF StartedOver
<1> QED
  BY <1>9, <1>10, <1>11, <1>12, <1>13 DEF ReasonsInv

\* The parent is queued, or another of its subtasks is still out.
LEMMA CheckReasons ==
    ASSUME TaskInv, TaskInv', ReasonsInv, NEW p \in Proc, IsCurrentStageComplete(p)
    PROVE  ReasonsInv'
<1> DEFINE c == job[p]
           u == Parent[c]
<1>1. /\ UNCHANGED <<stage, row, job, bad, loc, todo, next, result, pstage, some, asked, calls>>
      /\ pc[p] = "check" /\ pc' = [pc EXCEPT ![p] = "done"]
      /\ IF some[p] /\ NoneInit(u, pstage[p])
         THEN runTask(u, DataOf(result[p]))
         ELSE UNCHANGED <<queue, dropped>>
  BY DEF IsCurrentStageComplete, Goto, At, dbVars
<1>2. /\ c \in Task /\ Canceller \in Proc /\ Starter \in Proc /\ Worker \subseteq Proc
      /\ u \in Task /\ stage[c] # "none" /\ DataOf(result[p]) \in BOOLEAN
      /\ result[p] \in {"succ", "fail"}
  BY <1>1 DEF TaskInv, JobsInOrder, NotStarted, Proc, DataOf
<1>3. /\ EveryTaskHasReason /\ RowsKept /\ UntouchedBeforeRow /\ AskedOnce
      /\ ListsInOrder /\ StartedOver
  BY DEF ReasonsInv
<1>4. pc'[p] = "done" /\ \A q \in Proc : q # p => pc'[q] = pc[q]
  BY <1>1 DEF TaskInv, TypeOK
<1>5. Parent[u] \in Task => row[u] # None
  BY <1>2 DEF TaskInv, FirstStageOver
<1>6. /\ \A t \in Task : InQueue(t) => InQueue(t)'
      /\ \A t \in Task : InQueue(t)' => InQueue(t) \/ t = u
      /\ ~dropped' => ~dropped
      /\ ~dropped' /\ some[p] /\ NoneInit(u, pstage[p]) => InQueue(u)'
      /\ (\A i \in DOMAIN queue : queue[i].bad) /\ DataOf(result[p])
            => \A i \in DOMAIN queue' : queue'[i].bad
  <2>1. CASE some[p] /\ NoneInit(u, pstage[p])
    BY <1>1, <1>2, <2>1, RunTaskReasons DEF TaskInv
  <2>2. CASE ~(some[p] /\ NoneInit(u, pstage[p]))
    BY <1>1, <2>2 DEF InQueue
  <2> QED
    BY <2>1, <2>2
<1>7. /\ \A t \in Task : Unfinished(t)' <=> Unfinished(t)
      /\ \A t \in Task, q \in Proc : Listed(q, t)' <=> Listed(q, t)
      /\ \A t \in Task : Asking(t)' <=> Asking(t)
  BY <1>1 DEF Unfinished, Listed, Asking
<1>8. /\ \A t \in Task, q \in Proc : Effective(q, t)' <=> Effective(q, t)
      /\ \A d \in Task, q \in Proc : q # p => (Reporting(q, d)' <=> Reporting(q, d))
  BY <1>1, <1>4 DEF Effective, Reporting
<1>9. \A t \in Task : Doomed(t)' <=> Doomed(t)
  BY <1>2, <1>7, <1>8 DEF Doomed
<1>10. EveryTaskHasReason'
  <2> SUFFICES ASSUME ~dropped', NEW t \in Task, Reason(t) PROVE Reason(t)'
    BY <1>3, <1>6, <1>7 DEF EveryTaskHasReason
  <2>1. Ending(t) => Ending(t)'
    BY <1>1, <1>4, <1>6, <1>8, <1>9 DEF Ending
  <2>2. Linking(t) => Linking(t)'
    BY <1>1, <1>4 DEF Linking
  <2>3. Spawning(t) => Spawning(t)'
    BY <1>1, <1>4 DEF Spawning
  <2>4. ASSUME NEW d \in Kids(t), Awaited(d) PROVE Reason(t)'
    <3>1. d \in Task /\ Parent[d] = t /\ row[d] # None
      BY <2>4 DEF Kids, Awaited
    <3>2. CASE row[d].status = "init" \/ \E q \in Proc : q # p /\ Reporting(q, d)
      <4>1. Awaited(d)'
        BY <1>1, <1>8, <3>1, <3>2 DEF Awaited
      <4> QED
        BY <4>1 DEF Reason
    <3>3. CASE Reporting(p, d)
      <4>1. d = c /\ t = u /\ some[p]
        BY <1>1, <3>1, <3>3 DEF Reporting
      <4>2. CASE NoneInit(u, pstage[p])
        <5>1. Ending(t)'
          BY <1>1, <1>6, <4>1, <4>2 DEF Ending
        <5> QED
          BY <5>1 DEF Reason
      <4>3. CASE ~NoneInit(u, pstage[p])
        <5>1. PICK x \in Kids(u) : row[x] # None /\ row[x].status = "init"
          BY <4>3 DEF NoneInit, Rows
        <5>2. Awaited(x)'
          BY <1>1, <5>1 DEF Awaited
        <5> QED
          BY <4>1, <5>1, <5>2 DEF Reason
      <4> QED
        BY <4>2, <4>3
    <3> QED
      BY <2>4, <3>2, <3>3 DEF Awaited
  <2> QED
    BY <1>7, <2>1, <2>2, <2>3, <2>4 DEF Reason
<1>11. RowsKept'
  <2>1. \A d \in Task, q \in Proc : pc[q] = "save" /\ job[q] = d => pc'[q] = "save" /\ job'[q] = d
    BY <1>1, <1>4
  <2> QED
    BY <1>1, <1>3, <1>7, <1>9, <2>1 DEF RowsKept
<1>12. UntouchedBeforeRow' /\ AskedOnce'
  <2>1. UntouchedBeforeRow'
    BY <1>1, <1>2, <1>3, <1>4, <1>5, <1>6 DEF UntouchedBeforeRow
  <2>2. AskedOnce'
    BY <1>1, <1>3, <1>4 DEF AskedOnce, Running
  <2> QED
    BY <2>1, <2>2
<1>13. ListsInOrder'
  BY <1>1, <1>2, <1>3, <1>4 DEF ListsInOrder
<1>14. StartedOver'
  <2>1. ~Serving' => ~Serving
    BY <1>1, <1>2, <1>4 DEF Serving, At
  <2>2. ~Serving => DataOf(result[p])
    BY <1>1, <1>2, <1>3 DEF StartedOver, DataOf
  <2> QED
    BY <1>1, <1>2, <1>3, <1>4, <1>6, <1>7, <1>8, <2>1, <2>2 DEF StartedOver
<1> QED
  BY <1>10, <1>11, <1>12, <1>13, <1>14 DEF ReasonsInv
-----------------------------------------------------------------------------
(***************************************************************************)
(* Jobs and lists.                                                         *)
(***************************************************************************)
\* The first element of a sequence goes, the others stay.
LEMMA TailFacts ==
    ASSUME NEW S, NEW s \in Seq(S), s # <<>>
    PROVE  /\ 1 \in DOMAIN s /\ Head(s) = s[1] /\ Head(s) \in S /\ Tail(s) \in Seq(S)
           /\ DOMAIN s \subseteq Nat /\ DOMAIN Tail(s) \subseteq Nat
           /\ \A i \in DOMAIN s : i >= 1 /\ s[i] \in S
           /\ \A i \in DOMAIN Tail(s) : i + 1 \in DOMAIN s /\ i + 1 > 1 /\ Tail(s)[i] = s[i + 1]
           /\ \A i \in DOMAIN s : i # 1 =>
                 i - 1 \in DOMAIN Tail(s) /\ Tail(s)[i - 1] = s[i]
<1>1. /\ Len(s) \in Nat /\ Len(s) > 0 /\ DOMAIN s = 1 .. Len(s)
      /\ \A i \in 1 .. Len(s) : s[i] \in S
  BY LenProperties, ElementOfSeq
<1>2. /\ Head(s) = s[1] /\ Tail(s) \in Seq(S) /\ Len(Tail(s)) = Len(s) - 1
      /\ \A i \in 1 .. Len(s) - 1 : Tail(s)[i] = s[i + 1]
  BY <1>1
<1>3. DOMAIN Tail(s) = 1 .. Len(s) - 1
  BY <1>1, <1>2, LenProperties
<1>4. 1 \in 1 .. Len(s)
  BY <1>1
<1>5. \A i \in 1 .. Len(s) : i # 1 => i - 1 \in 1 .. Len(s) - 1 /\ (i - 1) + 1 = i
  BY <1>1
<1> QED
  BY <1>1, <1>2, <1>3, <1>4, <1>5

\* The entries of the lists.
LEMMA EntryFacts ==
    ASSUME TypeOK, NEW q \in Proc
    PROVE  next \in [Proc -> Seq(Entries)] /\ next[q] \in Seq(Entries)
BY DEF TypeOK, Entries

\* Who was in the queue is with a worker.
LEMMA TakeReasons ==
    ASSUME TaskInv, TaskInv', ReasonsInv, NEW p \in Proc, Take(p)
    PROVE  ReasonsInv'
<1> DEFINE h == Head(queue)
<1>1. /\ UNCHANGED <<stage, row, loc, todo, next, result, pstage, some, asked, calls, dropped>>
      /\ p \in Worker /\ pc[p] = "idle" /\ queue # <<>> /\ queue' = Tail(queue)
      /\ job' = [job EXCEPT ![p] = h.task] /\ bad' = [bad EXCEPT ![p] = h.bad]
      /\ pc' = [pc EXCEPT ![p] = "fetch"]
  BY DEF Take, Goto, At, dbVars, envVars
<1>2. /\ Canceller \in Proc /\ Starter \in Proc /\ Worker \subseteq Proc
      /\ p # Canceller /\ p # Starter
  BY <1>1, NamesAssumption DEF Proc
<1>3. /\ EveryTaskHasReason /\ RowsKept /\ UntouchedBeforeRow /\ AskedOnce
      /\ ListsInOrder /\ StartedOver
  BY DEF ReasonsInv
<1>4. queue \in Seq([task : Task, bad : BOOLEAN])
  BY DEF TaskInv, TypeOK
<1>5. /\ 1 \in DOMAIN queue /\ h = queue[1] /\ h \in [task : Task, bad : BOOLEAN]
      /\ \A i \in DOMAIN queue' : i + 1 \in DOMAIN queue /\ queue'[i] = queue[i + 1]
      /\ \A i \in DOMAIN queue : i # 1 => i - 1 \in DOMAIN queue' /\ queue'[i - 1] = queue[i]
  BY <1>1, <1>4, TailFacts
<1>6. h.task \in Task /\ h.bad \in BOOLEAN
  BY <1>5
<1> HIDE DEF h
<1>7. /\ pc'[p] = "fetch" /\ job'[p] = h.task /\ bad'[p] = h.bad
      /\ \A q \in Proc : q # p => pc'[q] = pc[q] /\ job'[q] = job[q] /\ bad'[q] = bad[q]
  BY <1>1 DEF TaskInv, TypeOK
<1>8. /\ InQueue(h.task)
      /\ \A t \in Task : InQueue(t)' => InQueue(t)
      /\ \A t \in Task : InQueue(t) => InQueue(t)' \/ t = h.task
  BY <1>5 DEF InQueue
<1>9. /\ \A t \in Task : Unfinished(t)' <=> Unfinished(t)
      /\ \A t \in Task, q \in Proc : Listed(q, t)' <=> Listed(q, t)
      /\ \A t \in Task : Asking(t)' <=> Asking(t)
  BY <1>1 DEF Unfinished, Listed, Asking
<1>10. /\ \A t \in Task, q \in Proc : q # p => (Effective(q, t)' <=> Effective(q, t))
       /\ \A t \in Task : ~Effective(p, t) /\ ~Reporting(p, t)
       /\ \A t \in Task : t = h.task => Effective(p, t)'
       /\ \A d \in Task, q \in Proc : q # p => (Reporting(q, d)' <=> Reporting(q, d))
  BY <1>1, <1>7 DEF Effective, Reporting
<1>11. \A t \in Task : Doomed(t)' <=> Doomed(t)
  BY <1>2, <1>9, <1>10 DEF Doomed
<1>12. EveryTaskHasReason'
  <2> SUFFICES ASSUME NEW t \in Task, Reason(t) PROVE Reason(t)'
    BY <1>1, <1>3, <1>9 DEF EveryTaskHasReason
  <2>2. Ending(t) /\ t # h.task => Ending(t)'
    BY <1>7, <1>8, <1>10, <1>11 DEF Ending
  <2>3. Linking(t) => Linking(t)'
    BY <1>1, <1>7 DEF Linking
  <2>4. Spawning(t) => Spawning(t)'
    BY <1>1, <1>7 DEF Spawning
  <2>5. \A d \in Kids(t) : Awaited(d) => Awaited(d)'
    BY <1>1, <1>10 DEF Awaited, Kids
  <2>6. CASE t = h.task
    <3>1. Ending(t)'
      BY <1>1, <1>7, <1>10, <2>6 DEF Ending, Effective
    <3> QED
      BY <3>1 DEF Reason
  <2>7. CASE t # h.task
    BY <1>9, <2>2, <2>3, <2>4, <2>5, <2>7 DEF Reason
  <2> QED
    BY <2>6, <2>7
<1>13. RowsKept'
  <2>1. \A d \in Task, q \in Proc : pc[q] = "save" /\ job[q] = d => pc'[q] = "save" /\ job'[q] = d
    BY <1>1, <1>7
  <2> QED
    BY <1>1, <1>3, <1>9, <1>11, <2>1 DEF RowsKept
<1>14. UntouchedBeforeRow' /\ AskedOnce'
  <2>1. UntouchedBeforeRow'
    BY <1>1, <1>2, <1>3, <1>7, <1>8 DEF UntouchedBeforeRow
  <2>2. AskedOnce'
    BY <1>1, <1>3, <1>7 DEF AskedOnce, Running
  <2> QED
    BY <2>1, <2>2
<1>15. ListsInOrder'
  BY <1>1, <1>2, <1>3, <1>7 DEF ListsInOrder
<1>16. StartedOver'
  <2>1. Serving' <=> Serving
    BY <1>1, <1>2, <1>7 DEF Serving, At
  <2>2. ~Serving => h.bad /\ \A i \in DOMAIN queue' : queue'[i].bad
    BY <1>3, <1>5 DEF StartedOver
  <2> QED
    BY <1>1, <1>2, <1>3, <1>7, <1>9, <1>10, <2>1, <2>2 DEF StartedOver
<1> QED
  BY <1>12, <1>13, <1>14, <1>15, <1>16 DEF ReasonsInv

\* Who was on the list is with the canceller or the starter.
LEMMA ProceedReasons ==
    ASSUME TaskInv, TaskInv', ReasonsInv, NEW p \in Proc, Proceed(p)
    PROVE  ReasonsInv'
<1> DEFINE e == Head(next[p])
<1>1. /\ UNCHANGED <<stage, row, queue, todo, result, pstage, some, asked, calls, dropped>>
      /\ p \in {Canceller, Starter} /\ pc[p] = "idle" /\ next[p] # <<>> /\ e.what # "cancel"
      /\ job' = [job EXCEPT ![p] = e.task] /\ bad' = [bad EXCEPT ![p] = TRUE]
      /\ next' = [next EXCEPT ![p] = Tail(next[p])]
      /\ \/ e.what = "exec" /\ pc' = [pc EXCEPT ![p] = "fetch"] /\ loc' = loc
         \/ /\ e.what # "exec" /\ loc' = [loc EXCEPT ![p] = e.stage]
            /\ pc' = [pc EXCEPT ![p] = IF HasHandler(e.stage, TRUE) THEN "lock" ELSE "fail"]
  BY DEF Proceed, Goto, At, Dispatch, dbVars, envVars
<1>2. /\ Canceller \in Proc /\ Starter \in Proc /\ Worker \subseteq Proc
      /\ p \notin Worker /\ Canceller # Starter
  BY <1>1, NamesAssumption DEF Proc
<1>3. /\ EveryTaskHasReason /\ RowsKept /\ UntouchedBeforeRow /\ AskedOnce
      /\ ListsInOrder /\ StartedOver
  BY DEF ReasonsInv
<1>4. next \in [Proc -> Seq(Entries)] /\ next[p] \in Seq(Entries)
  BY EntryFacts DEF TaskInv
<1>5. next'[p] = Tail(next[p]) /\ \A q \in Proc : q # p => next'[q] = next[q]
  BY <1>1, <1>4
<1>6. /\ 1 \in DOMAIN next[p] /\ e = next[p][1] /\ e \in Entries
      /\ DOMAIN next[p] \subseteq Nat /\ DOMAIN next'[p] \subseteq Nat
      /\ \A i \in DOMAIN next'[p] : i + 1 \in DOMAIN next[p] /\ next'[p][i] = next[p][i + 1]
      /\ \A i \in DOMAIN next[p] : i # 1 => i - 1 \in DOMAIN next'[p] /\ next'[p][i - 1] = next[p][i]
  BY <1>1, <1>4, <1>5, TailFacts
<1>7. /\ e.task \in Task /\ e.stage \in Stage
      /\ e.what = "exec" \/ (e.what = "object" /\ e.stage \notin Final /\ p = Starter)
  BY <1>1, <1>3, <1>6 DEF Entries, ListsInOrder
<1> HIDE DEF e
<1>8. /\ pc'[p] \in {"fetch", "lock", "fail"} /\ job'[p] = e.task /\ bad'[p]
      /\ pc'[p] # "fetch" => loc'[p] = e.stage /\ e.stage \notin Final
      /\ \A q \in Proc : q # p => /\ pc'[q] = pc[q] /\ job'[q] = job[q] /\ bad'[q] = bad[q]
                                  /\ loc'[q] = loc[q]
  BY <1>1, <1>7 DEF TaskInv, TypeOK
<1>9. /\ \A t \in Task : Unfinished(t)' <=> Unfinished(t)
      /\ \A t \in Task : InQueue(t)' <=> InQueue(t)
      /\ \A t \in Task, q \in Proc : Listed(q, t) => Listed(q, t)' \/ (q = p /\ t = e.task)
      /\ \A t \in Task : Asking(t)' <=> Asking(t)
  <2>1. \A t \in Task : Listed(p, t) => Listed(p, t)' \/ t = e.task
    BY <1>6 DEF Listed
  <2>2. \A t \in Task, q \in Proc : q # p /\ Listed(q, t) => Listed(q, t)'
    BY <1>5 DEF Listed
  <2> QED
    BY <1>1, <2>1, <2>2 DEF Unfinished, InQueue, Asking
<1>10. /\ \A t \in Task, q \in Proc : q # p => (Effective(q, t)' <=> Effective(q, t))
       /\ \A t \in Task : ~Effective(p, t) /\ ~Reporting(p, t)
       /\ \A t \in Task : t = e.task => Effective(p, t)'
       /\ \A d \in Task, q \in Proc : q # p => (Reporting(q, d)' <=> Reporting(q, d))
  BY <1>1, <1>8 DEF Effective, Reporting, Final
<1>11. \A t \in Task : Doomed(t) => Doomed(t)'
  BY <1>1, <1>2, <1>9, <1>10 DEF Doomed
<1>12. EveryTaskHasReason'
  <2> SUFFICES ASSUME NEW t \in Task, Reason(t) PROVE Reason(t)'
    BY <1>1, <1>3, <1>9 DEF EveryTaskHasReason
  <2>1. Ending(t) => Ending(t)'
    BY <1>8, <1>9, <1>10, <1>11 DEF Ending
  <2>2. Linking(t) => Linking(t)'
    BY <1>1, <1>8 DEF Linking
  <2>3. Spawning(t) => Spawning(t)'
    BY <1>1, <1>8 DEF Spawning
  <2>4. \A d \in Kids(t) : Awaited(d) => Awaited(d)'
    BY <1>1, <1>10 DEF Awaited, Kids
  <2> QED
    BY <1>9, <2>1, <2>2, <2>3, <2>4 DEF Reason
<1>13. RowsKept'
  <2>1. \A d \in Task, q \in Proc : pc[q] = "save" /\ job[q] = d => pc'[q] = "save" /\ job'[q] = d
    BY <1>1, <1>8
  <2> QED
    BY <1>1, <1>3, <1>9, <1>11, <2>1 DEF RowsKept
<1>14. UntouchedBeforeRow' /\ AskedOnce'
  <2>1. UntouchedBeforeRow'
    BY <1>1, <1>2, <1>3, <1>8, <1>9 DEF UntouchedBeforeRow
  <2>2. AskedOnce'
    BY <1>1, <1>3, <1>8 DEF AskedOnce, Running
  <2> QED
    BY <2>1, <2>2
<1>15. ListsInOrder'
  <2>1. /\ \A q \in Worker : next'[q] = <<>>
        /\ \A q \in {Canceller, Starter} : pc'[q] # "idle" => bad'[q]
    BY <1>2, <1>3, <1>5, <1>8 DEF ListsInOrder
  <2>2. \A i \in DOMAIN next'[Starter] :
           next'[Starter][i].what = "object" /\ next'[Starter][i].stage \notin Final
    <3>1. CASE p = Starter
      BY <1>3, <1>6, <3>1 DEF ListsInOrder
    <3>2. CASE p # Starter
      BY <1>2, <1>3, <1>5, <3>2 DEF ListsInOrder
    <3> QED
      BY <3>1, <3>2
  <2>3. CASE p # Canceller
    <3>1. UNCHANGED <<next[Canceller], pc[Canceller], job[Canceller]>>
      BY <1>2, <1>5, <1>8, <2>3
    <3> QED
      BY <1>3, <2>1, <2>2, <3>1 DEF ListsInOrder
  <2>4. CASE p = Canceller
    <3>1. ASSUME NEW i \in DOMAIN next'[p], Parent[next'[p][i].task] \in Task
          PROVE  \E j \in DOMAIN next'[p] :
                    /\ i < j /\ next'[p][j].what = "exec"
                    /\ next'[p][j].task = Parent[next'[p][i].task]
      <4>1. PICK j \in DOMAIN next[p] :
               /\ i + 1 < j /\ next[p][j].what = "exec"
               /\ next[p][j].task = Parent[next[p][i + 1].task]
        BY <1>3, <1>6, <2>4, <3>1 DEF ListsInOrder
      <4>2. i \in Nat /\ j \in Nat /\ j # 1 /\ i < j - 1
        BY <1>6, <4>1
      <4> QED
        BY <1>6, <4>1, <4>2
    <3>2. \A i \in DOMAIN next'[p] : next'[p][i].what # "object"
      BY <1>3, <1>6, <2>4 DEF ListsInOrder
    <3>3. ASSUME Parent[job'[p]] \in Task
          PROVE  \E j \in DOMAIN next'[p] :
                    next'[p][j].what = "exec" /\ next'[p][j].task = Parent[job'[p]]
      <4>1. PICK j \in DOMAIN next[p] :
               1 < j /\ next[p][j].what = "exec" /\ next[p][j].task = Parent[e.task]
        BY <1>3, <1>6, <1>8, <2>4, <3>3 DEF ListsInOrder
      <4>2. j # 1
        BY <4>1
      <4> QED
        BY <1>6, <1>8, <4>1, <4>2
    <3> QED
      BY <2>1, <2>2, <2>4, <3>1, <3>2, <3>3 DEF ListsInOrder
  <2> QED
    BY <2>3, <2>4
<1>16. StartedOver'
  <2>1. ~Serving' => ~Serving
    BY <1>1, <1>2, <1>5, <1>8 DEF Serving, At
  <2>2. \A t \in Task : Listed(Starter, t) \/ Effective(Starter, t) =>
           Listed(Starter, t)' \/ Effective(Starter, t)'
    BY <1>2, <1>9, <1>10
  <2> QED
    BY <1>1, <1>2, <1>3, <1>8, <1>9, <2>1, <2>2 DEF StartedOver
<1> QED
  BY <1>12, <1>13, <1>14, <1>15, <1>16 DEF ReasonsInv

\* Only the list of the canceller changes, and everybody it is going to fail stays
\* on it.
LEMMA ListReasons ==
    ASSUME TaskInv, TaskInv', ReasonsInv, ListsInOrder',
           UNCHANGED <<stage, row, queue, pc, job, bad, loc, todo, result, pstage, some,
                       asked, calls, dropped>>,
           \A q \in Proc : q # Canceller => next'[q] = next[q],
           \A t \in Task : Listed(Canceller, t) => Listed(Canceller, t)'
    PROVE  ReasonsInv'
<1>1. Canceller \in Proc /\ Starter \in Proc /\ Worker \subseteq Proc /\ Canceller # Starter
  BY NamesAssumption DEF Proc
<1>2. /\ EveryTaskHasReason /\ RowsKept /\ UntouchedBeforeRow /\ AskedOnce
      /\ ListsInOrder /\ StartedOver
  BY DEF ReasonsInv
<1>3. /\ \A t \in Task : Unfinished(t)' <=> Unfinished(t)
      /\ \A t \in Task : InQueue(t)' <=> InQueue(t)
      /\ \A t \in Task, q \in Proc : Effective(q, t)' <=> Effective(q, t)
      /\ \A t \in Task : Asking(t)' <=> Asking(t)
      /\ \A t \in Task : Linking(t)' <=> Linking(t)
      /\ \A t \in Task : Spawning(t)' <=> Spawning(t)
      /\ \A t \in Task : Awaited(t)' <=> Awaited(t)
  BY DEF Unfinished, InQueue, Effective, Asking, Linking, Spawning, Awaited, Reporting
<1>4. \A t \in Task : Listed(Starter, t)' <=> Listed(Starter, t)
  BY <1>1 DEF Listed
<1>5. \A t \in Task : Doomed(t) => Doomed(t)'
  BY <1>1, <1>3, <1>4 DEF Doomed
<1>6. \A t \in Task : Ending(t) => Ending(t)'
  BY <1>3, <1>5 DEF Ending
<1>7. EveryTaskHasReason'
  <2>1. \A t \in Task : Reason(t) => Reason(t)'
    BY <1>3, <1>6 DEF Reason, Kids
  <2> QED
    BY <1>2, <1>3, <2>1 DEF EveryTaskHasReason
<1>8. RowsKept'
  BY <1>2, <1>3, <1>5 DEF RowsKept
<1>9. UntouchedBeforeRow' /\ AskedOnce'
  BY <1>2, <1>3 DEF UntouchedBeforeRow, AskedOnce, Running
<1>10. StartedOver'
  <2>1. Serving' <=> Serving
    BY <1>1 DEF Serving, At
  <2> QED
    BY <1>1, <1>2, <1>3, <1>4, <2>1 DEF StartedOver
<1> QED
  BY <1>7, <1>8, <1>9, <1>10 DEF ReasonsInv

\* A request to cancel a task that has no parent.
LEMMA PerformCancelReasons ==
    ASSUME TaskInv, TaskInv', ReasonsInv, RootsOnly, NEW t \in Task, PerformCancel(t)
    PROVE  ReasonsInv'
<1> DEFINE e == Entry("cancel", t, stage[t])
<1>1. /\ UNCHANGED <<stage, row, queue, pc, job, bad, loc, todo, result, pstage, some,
                     asked, calls, dropped>>
      /\ t \in Cancelled /\ pc[Canceller] = "idle" /\ next[Canceller] = <<>>
      /\ next' = [next EXCEPT ![Canceller] = <<e>>]
  BY DEF PerformCancel, dbVars, At
<1>2. Canceller \in Proc /\ Starter \in Proc /\ Worker \subseteq Proc \ {Canceller, Starter}
      /\ Canceller # Starter
  BY NamesAssumption DEF Proc
<1>3. e.what = "cancel" /\ e.task = t /\ Parent[e.task] \notin Task
  BY <1>1, NamesAssumption DEF Entry, RootsOnly
<1> HIDE DEF e
<1>4. /\ next'[Canceller] = <<e>> /\ \A q \in Proc : q # Canceller => next'[q] = next[q]
  BY <1>1, <1>2 DEF TaskInv, TypeOK
<1>5. \A u \in Task : ~Listed(Canceller, u)
  BY <1>1 DEF Listed
<1>6. ListsInOrder'
  <2>1. \A i \in DOMAIN next'[Canceller] : next'[Canceller][i] = e
    BY <1>4
  <2>2. /\ \A q \in Worker : next'[q] = <<>>
        /\ \A q \in {Canceller, Starter} : pc'[q] # "idle" => bad'[q]
        /\ \A i \in DOMAIN next'[Starter] :
              next'[Starter][i].what = "object" /\ next'[Starter][i].stage \notin Final
    BY <1>1, <1>2, <1>4 DEF ReasonsInv, ListsInOrder
  <2> QED
    BY <1>1, <1>3, <2>1, <2>2 DEF ListsInOrder
<1> QED
  BY <1>1, <1>4, <1>5, <1>6, ListReasons

\* Sequences one after the other.
LEMMA ConcatFacts ==
    ASSUME NEW S, NEW a \in Seq(S), NEW e \in S, NEW b \in Seq(S)
    PROVE  LET s == a \o <<e>> \o b
               n == Len(a) + 1
           IN  /\ s \in Seq(S) /\ n \in Nat /\ n \in DOMAIN s /\ s[n] = e
               /\ DOMAIN s \subseteq Nat /\ DOMAIN b \subseteq Nat
               /\ \A i \in DOMAIN s : \/ i < n /\ i \in DOMAIN a /\ s[i] = a[i]
                                      \/ i = n
                                      \/ i > n /\ i - n \in DOMAIN b /\ s[i] = b[i - n]
               /\ \A i \in DOMAIN b : i + n \in DOMAIN s /\ i + n > n /\ s[i + n] = b[i]
<1> DEFINE s == a \o <<e>> \o b
           n == Len(a) + 1
<1>1. /\ Len(a) \in Nat /\ DOMAIN a = 1 .. Len(a) /\ Len(b) \in Nat /\ DOMAIN b = 1 .. Len(b)
  BY LenProperties
<1>2. /\ <<e>> \in Seq(S) /\ Len(<<e>>) = 1 /\ <<e>>[1] = e
  OBVIOUS
<1> DEFINE ae == a \o <<e>>
<1>3. /\ ae \in Seq(S) /\ Len(ae) = n /\ ae[n] = e
      /\ \A i \in 1 .. Len(a) : ae[i] = a[i]
  BY <1>1, <1>2, ConcatProperties
<1>4. s = ae \o b
  OBVIOUS
<1> HIDE DEF ae, s
<1>5. /\ s \in Seq(S) /\ Len(s) = n + Len(b)
      /\ \A i \in 1 .. n + Len(b) : s[i] = IF i <= n THEN ae[i] ELSE b[i - n]
  <2>1. /\ s \in Seq(S) /\ Len(s) = Len(ae) + Len(b)
        /\ \A i \in 1 .. Len(ae) + Len(b) : s[i] = IF i <= Len(ae) THEN ae[i] ELSE b[i - Len(ae)]
    <3>1. ae \in Seq(S)
      BY <1>3
    <3>2. /\ ae \o b \in Seq(S) /\ Len(ae \o b) = Len(ae) + Len(b)
          /\ \A i \in 1 .. Len(ae) + Len(b) :
                (ae \o b)[i] = IF i <= Len(ae) THEN ae[i] ELSE b[i - Len(ae)]
      BY <3>1, ConcatProperties
    <3> QED
      BY <3>2, <1>4
  <2> HIDE DEF n
  <2> QED
    BY <1>3, <2>1
<1>6. DOMAIN s = 1 .. n + Len(b)
  BY <1>5, LenProperties
<1>7. n \in Nat /\ n \in DOMAIN s /\ s[n] = e
  BY <1>1, <1>3, <1>5, <1>6
<1>8. \A i \in DOMAIN s : \/ i < n /\ i \in DOMAIN a /\ s[i] = a[i]
                          \/ i = n
                          \/ i > n /\ i - n \in DOMAIN b /\ s[i] = b[i - n]
  BY <1>1, <1>3, <1>5, <1>6
<1>9. \A i \in DOMAIN b : i + n \in DOMAIN s /\ i + n > n /\ s[i + n] = b[i]
  <2> SUFFICES ASSUME NEW i \in 1 .. Len(b) PROVE i + n \in DOMAIN s /\ i + n > n /\ s[i + n] = b[i]
    BY <1>1
  <2>1. i + n \in 1 .. n + Len(b) /\ i + n > n /\ (i + n) - n = i /\ ~(i + n <= n)
    BY <1>1
  <2> QED
    BY <1>5, <1>6, <2>1
<1> QED
  BY <1>1, <1>5, <1>6, <1>7, <1>8, <1>9 DEF s

\* The list with the first entry gone, or replaced by the subtasks and the task.
LEMMA CancelReasons ==
    ASSUME TaskInv, TaskInv', ReasonsInv, cancel
    PROVE  ReasonsInv'
<1> DEFINE old == next[Canceller]
           new == next'[Canceller]
           e == Head(old)
           rest == Tail(old)
           kids == {c \in Kids(e.task) : stage[c] # "none"}
           subs == {Entry("cancel", c, stage[c]) : c \in kids}
           exec == Entry("exec", e.task, "none")
<1>1. /\ UNCHANGED <<stage, row, queue, pc, job, bad, loc, todo, result, pstage, some,
                     asked, calls, dropped>>
      /\ pc[Canceller] = "idle" /\ old # <<>> /\ e.what = "cancel"
      /\ \/ e.stage \in Final /\ next' = [next EXCEPT ![Canceller] = rest]
         \/ \E q \in Orders(subs) : next' = [next EXCEPT ![Canceller] = q \o <<exec>> \o rest]
  BY DEF cancel, dbVars, envVars, At
<1>2. /\ Canceller \in Proc /\ Starter \in Proc /\ Worker \subseteq Proc \ {Canceller, Starter}
      /\ Canceller # Starter
  BY NamesAssumption DEF Proc
<1>3. next \in [Proc -> Seq(Entries)] /\ old \in Seq(Entries)
  BY <1>2, EntryFacts DEF TaskInv
<1>4. /\ 1 \in DOMAIN old /\ e = old[1] /\ e \in Entries /\ rest \in Seq(Entries)
      /\ DOMAIN old \subseteq Nat /\ DOMAIN rest \subseteq Nat
      /\ \A i \in DOMAIN rest : i + 1 \in DOMAIN old /\ rest[i] = old[i + 1]
      /\ \A i \in DOMAIN old : i # 1 => i - 1 \in DOMAIN rest /\ rest[i - 1] = old[i]
  BY <1>1, <1>3, TailFacts
<1>5. /\ ListsInOrder /\ e.task \in Task
  BY <1>4 DEF ReasonsInv, Entries
<1>6. /\ exec \in Entries /\ exec.what = "exec" /\ exec.task = e.task
      /\ subs \in SUBSET Entries
      /\ \A x \in subs : x.what = "cancel" /\ Parent[x.task] = e.task
  BY <1>5 DEF Entry, Entries, Stage, Kids, TaskInv, TypeOK
<1>7. IsFiniteSet(subs)
  <2> DEFINE f == [c \in kids |-> Entry("cancel", c, stage[c])]
  <2>1. IsFiniteSet(kids)
    BY FiniteAssumption, FS_Subset DEF Kids
  <2>2. f \in Surjection(kids, subs)
    BY DEF Surjection
  <2> HIDE DEF f, subs, kids
  <2> QED
    BY <2>1, <2>2, FS_Surjection
<1>8. \A q \in Proc : q # Canceller => next'[q] = next[q]
  BY <1>1, <1>3
<1> DEFINE Follows(s, i) == \E j \in DOMAIN s : /\ i < j /\ s[j].what = "exec"
                                               /\ s[j].task = Parent[s[i].task]
<1>9. /\ \A i \in DOMAIN old : old[i].what # "object"
      /\ \A i \in DOMAIN old : Parent[old[i].task] \in Task => Follows(old, i)
  BY <1>5 DEF ListsInOrder
<1> HIDE DEF e, rest, subs, exec, old
<1>10. \A i \in DOMAIN rest : Parent[rest[i].task] \in Task => Follows(rest, i)
  <2> SUFFICES ASSUME NEW i \in DOMAIN rest, Parent[rest[i].task] \in Task PROVE Follows(rest, i)
    OBVIOUS
  <2>1. PICK j \in DOMAIN old :
           i + 1 < j /\ old[j].what = "exec" /\ old[j].task = Parent[old[i + 1].task]
    BY <1>4, <1>9
  <2>2. i \in Nat /\ j \in Nat /\ j # 1 /\ i < j - 1
    BY <1>4, <2>1
  <2> QED
    BY <1>4, <2>1, <2>2
<1>11. Parent[e.task] \in Task =>
          \E j \in DOMAIN rest : rest[j].what = "exec" /\ rest[j].task = Parent[e.task]
  <2> SUFFICES ASSUME Parent[e.task] \in Task
               PROVE  \E j \in DOMAIN rest : rest[j].what = "exec" /\ rest[j].task = Parent[e.task]
    OBVIOUS
  <2>1. PICK j \in DOMAIN old : 1 < j /\ old[j].what = "exec" /\ old[j].task = Parent[e.task]
    BY <1>4, <1>9
  <2>2. j # 1
    BY <2>1
  <2> QED
    BY <1>4, <2>1, <2>2
<1>12. /\ \A i \in DOMAIN new : new[i].what # "object"
       /\ \A i \in DOMAIN new : Parent[new[i].task] \in Task => Follows(new, i)
       /\ \A t \in Task : Listed(Canceller, t) => Listed(Canceller, t)'
  <2>1. CASE e.stage \in Final /\ next' = [next EXCEPT ![Canceller] = rest]
    <3>1. new = rest
      BY <1>2, <1>3, <2>1
    <3>2. \A t \in Task : Listed(Canceller, t) => Listed(Canceller, t)'
      BY <1>1, <1>4, <2>1, <3>1 DEF Listed, old
    <3> QED
      BY <1>4, <1>9, <1>10, <3>1, <3>2
  <2>2. ASSUME NEW q \in Orders(subs), next' = [next EXCEPT ![Canceller] = q \o <<exec>> \o rest]
        PROVE  /\ \A i \in DOMAIN new : new[i].what # "object"
               /\ \A i \in DOMAIN new : Parent[new[i].task] \in Task => Follows(new, i)
               /\ \A t \in Task : Listed(Canceller, t) => Listed(Canceller, t)'
    <3> DEFINE n == Len(q) + 1
    <3>1. new = q \o <<exec>> \o rest
      BY <1>2, <1>3, <2>2
    <3>2. q \in Seq(Entries) /\ \A i \in DOMAIN q : q[i] \in subs
      <4>1. q \in Seq(Entries)
        BY <1>6, <1>7, OrderIsSeq
      <4> QED
        BY <4>1 DEF Orders
    <3> HIDE DEF new
    <3>3. /\ n \in Nat /\ n \in DOMAIN new /\ new[n] = exec
          /\ DOMAIN new \subseteq Nat
          /\ \A i \in DOMAIN new : \/ i < n /\ i \in DOMAIN q /\ new[i] = q[i]
                                   \/ i = n
                                   \/ i > n /\ i - n \in DOMAIN rest /\ new[i] = rest[i - n]
          /\ \A i \in DOMAIN rest : i + n \in DOMAIN new /\ i + n > n /\ new[i + n] = rest[i]
      BY <1>4, <1>6, <3>1, <3>2, ConcatFacts
    <3> HIDE DEF n
    <3>4. \A i \in DOMAIN new : new[i].what # "object"
      BY <1>4, <1>6, <1>9, <3>2, <3>3
    <3>5. ASSUME NEW i \in DOMAIN new, Parent[new[i].task] \in Task PROVE Follows(new, i)
      <4>1. CASE i < n /\ i \in DOMAIN q /\ new[i] = q[i]
        BY <1>6, <3>2, <3>3, <4>1
      <4>2. CASE i = n
        <5>1. PICK j \in DOMAIN rest : rest[j].what = "exec" /\ rest[j].task = Parent[e.task]
          BY <1>6, <1>11, <3>3, <3>5, <4>2
        <5> QED
          BY <1>6, <3>3, <4>2, <5>1
      <4>3. CASE i > n /\ i - n \in DOMAIN rest /\ new[i] = rest[i - n]
        <5>1. PICK j \in DOMAIN rest :
                 i - n < j /\ rest[j].what = "exec" /\ rest[j].task = Parent[rest[i - n].task]
          BY <1>10, <3>5, <4>3
        <5>2. i \in Nat /\ n \in Nat /\ j \in Nat
          BY <1>4, <3>3
        <5>3. i < j + n
          BY <5>1, <5>2
        <5> QED
          BY <3>3, <4>3, <5>1, <5>3
      <4> QED
        BY <3>3, <4>1, <4>2, <4>3
    <3>6. ASSUME NEW t \in Task, Listed(Canceller, t) PROVE Listed(Canceller, t)'
      <4>1. PICK i \in DOMAIN old : old[i].task = t /\ (old[i].what = "exec" \/ old[i].stage \notin Final)
        BY <3>6 DEF Listed, old
      <4>2. \E j \in DOMAIN new : new[j].task = t /\ (new[j].what = "exec" \/ new[j].stage \notin Final)
        <5>1. CASE i = 1
          BY <1>4, <1>6, <3>3, <4>1, <5>1
        <5>2. CASE i # 1
          BY <1>4, <3>3, <4>1, <5>2
        <5> QED
          BY <5>1, <5>2
      <4> QED
        BY <4>2 DEF Listed, new
    <3> QED
      BY <3>4, <3>5, <3>6
  <2> QED
    BY <1>1, <2>1, <2>2
<1>13. ListsInOrder'
  <2>1. /\ \A q \in Worker : next'[q] = <<>>
        /\ \A q \in {Canceller, Starter} : pc'[q] # "idle" => bad'[q]
        /\ \A i \in DOMAIN next'[Starter] :
              next'[Starter][i].what = "object" /\ next'[Starter][i].stage \notin Final
    BY <1>1, <1>2, <1>5, <1>8 DEF ListsInOrder
  <2> QED
    BY <1>1, <1>12, <2>1 DEF ListsInOrder
<1> QED
  BY <1>1, <1>8, <1>12, <1>13, ListReasons
-----------------------------------------------------------------------------
(***************************************************************************)
(* Requests and crashes.                                                   *)
(***************************************************************************)
\* A task that is started is in the queue.
LEMMA StartReasons ==
    ASSUME TaskInv, TaskInv', ReasonsInv, NEW u \in Task, StartTask(u)
    PROVE  ReasonsInv'
<1>1. /\ UNCHANGED <<row, pc, job, bad, loc, todo, next, result, pstage, some, asked, calls>>
      /\ Serving /\ Parent[u] \notin Task /\ stage[u] = "none"
      /\ stage' = [stage EXCEPT ![u] = "on_init"] /\ runTask(u, FALSE)
  BY NamesAssumption DEF StartTask, procVars
<1>2. /\ Canceller \in Proc /\ Starter \in Proc /\ Worker \subseteq Proc
      /\ u \notin asked
  BY <1>1 DEF Proc, TaskInv, NotStarted
<1>3. /\ EveryTaskHasReason /\ RowsKept /\ UntouchedBeforeRow /\ AskedOnce
      /\ ListsInOrder /\ StartedOver
  BY DEF ReasonsInv
<1>4. stage'[u] = "on_init" /\ \A t \in Task : t # u => stage'[t] = stage[t]
  BY <1>1 DEF TaskInv, TypeOK
<1>5. /\ \A t \in Task : InQueue(t) => InQueue(t)'
      /\ \A t \in Task : InQueue(t)' => InQueue(t) \/ t = u
      /\ ~dropped' => InQueue(u)' /\ ~dropped
  BY <1>1, RunTaskReasons DEF TaskInv
<1>6. /\ \A t \in Task : t # u => (Unfinished(t)' <=> Unfinished(t))
      /\ \A t \in Task, q \in Proc : Listed(q, t)' <=> Listed(q, t)
      /\ \A t \in Task, q \in Proc : Effective(q, t)' <=> Effective(q, t)
      /\ \A t \in Task : Asking(t)' <=> Asking(t)
      /\ \A t \in Task : Linking(t)' <=> Linking(t)
      /\ \A t \in Task : Spawning(t)' <=> Spawning(t)
      /\ \A t \in Task : Awaited(t)' <=> Awaited(t)
  BY <1>1, <1>4 DEF Unfinished, Listed, Effective, Asking, Linking, Spawning, Awaited, Reporting
<1>7. \A t \in Task : Doomed(t)' <=> Doomed(t)
  BY <1>2, <1>6 DEF Doomed
<1>8. /\ \A t \in Task : Ending(t) => Ending(t)'
      /\ ~dropped' => Ending(u)'
  BY <1>1, <1>5, <1>6, <1>7 DEF Ending
<1>9. EveryTaskHasReason'
  <2>1. \A t \in Task : Reason(t) => Reason(t)'
    BY <1>6, <1>8 DEF Reason, Kids
  <2>2. ~dropped' => Reason(u)'
    BY <1>8 DEF Reason
  <2> QED
    BY <1>3, <1>5, <1>6, <2>1, <2>2 DEF EveryTaskHasReason
<1>10. RowsKept'
  BY <1>1, <1>3, <1>4, <1>6, <1>7 DEF RowsKept
<1>11. UntouchedBeforeRow' /\ AskedOnce'
  <2>1. UntouchedBeforeRow'
    BY <1>1, <1>3, <1>5 DEF UntouchedBeforeRow
  <2>2. AskedOnce'
    BY <1>1, <1>2, <1>3, <1>4 DEF AskedOnce, Running
  <2> QED
    BY <2>1, <2>2
<1>12. ListsInOrder' /\ StartedOver'
  <2>1. Serving'
    BY <1>1 DEF Serving, At
  <2> QED
    BY <1>1, <1>3, <2>1 DEF ListsInOrder, StartedOver
<1> QED
  BY <1>9, <1>10, <1>11, <1>12 DEF ReasonsInv

\* A task whose agent has called back is in the queue.
LEMMA ActionReasons ==
    ASSUME TaskInv, TaskInv', ReasonsInv, NEW u \in Task, PerformAction(u)
    PROVE  ReasonsInv'
<1>1. PICK b \in BOOLEAN :
         /\ UNCHANGED <<stage, row, pc, job, bad, loc, todo, next, result, pstage, some, asked>>
         /\ Serving /\ u \in asked
         /\ calls' = [calls EXCEPT ![u] = @ + 1] /\ runTask(u, b)
  BY DEF PerformAction, dbVars, procVars
<1>2. /\ Canceller \in Proc /\ Starter \in Proc /\ Worker \subseteq Proc
      /\ Parent[u] \in Task => row[u] # None
  BY <1>1 DEF Proc, TaskInv, Unlinked
<1>3. /\ EveryTaskHasReason /\ RowsKept /\ UntouchedBeforeRow /\ AskedOnce
      /\ ListsInOrder /\ StartedOver
  BY DEF ReasonsInv
<1>4. \A t \in Task : t # u => calls'[t] = calls[t]
  BY <1>1 DEF TaskInv, TypeOK
<1>5. /\ \A t \in Task : InQueue(t) => InQueue(t)'
      /\ \A t \in Task : InQueue(t)' => InQueue(t) \/ t = u
      /\ ~dropped' => InQueue(u)' /\ ~dropped
  BY <1>1, RunTaskReasons DEF TaskInv
<1>6. /\ \A t \in Task : Unfinished(t)' <=> Unfinished(t)
      /\ \A t \in Task, q \in Proc : Listed(q, t)' <=> Listed(q, t)
      /\ \A t \in Task, q \in Proc : Effective(q, t)' <=> Effective(q, t)
      /\ \A t \in Task : t # u => (Asking(t)' <=> Asking(t))
      /\ \A t \in Task : Linking(t)' <=> Linking(t)
      /\ \A t \in Task : Spawning(t)' <=> Spawning(t)
      /\ \A t \in Task : Awaited(t)' <=> Awaited(t)
  BY <1>1, <1>4 DEF Unfinished, Listed, Effective, Asking, Linking, Spawning, Awaited, Reporting
<1>7. \A t \in Task : Doomed(t)' <=> Doomed(t)
  BY <1>2, <1>6 DEF Doomed
<1>8. /\ \A t \in Task : Ending(t) => Ending(t)'
      /\ ~dropped' => Ending(u)'
  BY <1>1, <1>5, <1>6, <1>7 DEF Ending
<1>9. EveryTaskHasReason'
  <2>1. \A t \in Task : t # u /\ Reason(t) => Reason(t)'
    BY <1>6, <1>8 DEF Reason, Kids
  <2>2. ~dropped' => Reason(u)'
    BY <1>8 DEF Reason
  <2> QED
    BY <1>3, <1>5, <1>6, <2>1, <2>2 DEF EveryTaskHasReason
<1>10. RowsKept'
  BY <1>1, <1>3, <1>6, <1>7 DEF RowsKept
<1>11. UntouchedBeforeRow' /\ AskedOnce'
  <2>1. UntouchedBeforeRow'
    BY <1>1, <1>2, <1>3, <1>5 DEF UntouchedBeforeRow
  <2>2. AskedOnce'
    BY <1>1, <1>3, <1>4 DEF AskedOnce, Running
  <2> QED
    BY <2>1, <2>2
<1>12. ListsInOrder' /\ StartedOver'
  <2>1. Serving'
    BY <1>1 DEF Serving, At
  <2> QED
    BY <1>1, <1>3, <2>1 DEF ListsInOrder, StartedOver
<1> QED
  BY <1>9, <1>10, <1>11, <1>12 DEF ReasonsInv

\* Whatever was lost, the starter has every task that is not over on its list.
LEMMA CrashReasons ==
    ASSUME TaskInv, TaskInv', ReasonsInv, Crash
    PROVE  ReasonsInv'
<1> DEFINE left == {t \in Task : Unfinished(t)}
           open == {Entry("object", t, stage[t]) : t \in left}
<1>1. PICK o \in Orders(open) :
         /\ UNCHANGED <<stage, row, asked, calls, dropped>> /\ queue' = <<>>
         /\ pc' = [p \in Proc |-> "idle"] /\ result' = [p \in Proc |-> "none"]
         /\ next' = [p \in Proc |-> IF p = Starter THEN o ELSE <<>>]
  BY DEF Crash, dbVars
<1>2. /\ Canceller \in Proc /\ Starter \in Proc /\ Worker \subseteq Proc \ {Canceller, Starter}
      /\ Canceller # Starter
  BY NamesAssumption DEF Proc
<1>3. /\ RowsKept /\ UntouchedBeforeRow /\ AskedOnce
  BY DEF ReasonsInv
<1>4. /\ next'[Starter] = o /\ \A q \in Proc : q # Starter => next'[q] = <<>>
      /\ \A q \in Proc : pc'[q] = "idle" /\ result'[q] = "none"
  BY <1>1, <1>2
<1>5. /\ \A x \in open : x.what = "object" /\ x.stage \notin Final
      /\ \A t \in Task : Unfinished(t) => \E x \in open : x.task = t
  <2>1. \A t \in Task : Entry("object", t, stage[t]).what = "object"
                        /\ Entry("object", t, stage[t]).task = t
                        /\ Entry("object", t, stage[t]).stage = stage[t]
    BY DEF Entry
  <2> QED
    BY <2>1 DEF Unfinished
<1> HIDE DEF open
<1>6. /\ \A i \in DOMAIN o : o[i] \in open
      /\ \A x \in open : \E i \in DOMAIN o : o[i] = x
  BY DEF Orders
<1>7. \A t \in Task : Unfinished(t)' <=> Unfinished(t)
  BY <1>1 DEF Unfinished
<1>8. \A t \in Task : Unfinished(t) => Listed(Starter, t)'
  BY <1>4, <1>5, <1>6 DEF Listed
<1>9. \A t \in Task : Unfinished(t) => Doomed(t)'
  BY <1>8 DEF Doomed
<1>10. EveryTaskHasReason'
  BY <1>7, <1>9 DEF EveryTaskHasReason, Reason, Ending
<1>11. RowsKept'
  <2>1. \A t \in Task : stage[t] = "wait" => Unfinished(t)
    BY DEF Unfinished, Final
  <2> QED
    BY <1>1, <1>9, <2>1 DEF RowsKept
<1>12. UntouchedBeforeRow' /\ AskedOnce'
  <2>1. UntouchedBeforeRow'
    BY <1>1, <1>2, <1>4 DEF UntouchedBeforeRow, InQueue
  <2>2. AskedOnce'
    BY <1>1, <1>3, <1>4 DEF AskedOnce, Running
  <2> QED
    BY <2>1, <2>2
<1>13. ListsInOrder'
  BY <1>2, <1>4, <1>5, <1>6 DEF ListsInOrder
<1>14. StartedOver'
  BY <1>1, <1>4, <1>7, <1>8 DEF StartedOver
<1> QED
  BY <1>10, <1>11, <1>12, <1>13, <1>14 DEF ReasonsInv
-----------------------------------------------------------------------------
(***************************************************************************)
(* The theorems.                                                           *)
(***************************************************************************)
\* Every step leaves every task that is not over a reason to go on.
LEMMA NextReasons == ASSUME RootsOnly, TaskInv, TaskInv', ReasonsInv, [Next]_vars
                     PROVE  ReasonsInv'
<1>1. ASSUME NEW p \in Proc, Exec(p) PROVE ReasonsInv'
  BY <1>1, TakeReasons, ProceedReasons, FetchReasons, LockReasons, FailReasons, EndReasons,
     AskReasons, SpawnReasons, NewTaskReasons, ScheduleRunReasons, SpawnedReasons, SaveReasons,
     NotifyReasons, CountReasons, CheckReasons, DoneReasons DEF Exec
<1>2. ASSUME NEW t \in Task, Request(t) PROVE ReasonsInv'
  BY <1>2, StartReasons, ActionReasons, PerformCancelReasons DEF Request
<1>3. CASE UNCHANGED vars
  <2>1. UNCHANGED <<stage, row, queue, pc, job, bad, loc, todo, next, result, pstage, some,
                    asked, calls, dropped>>
    BY <1>3 DEF vars, dbVars, procVars, envVars
  <2>2. ListsInOrder'
    BY <2>1 DEF ReasonsInv, ListsInOrder
  <2>3. \A t \in Task : Listed(Canceller, t) => Listed(Canceller, t)'
    BY <2>1 DEF Listed
  <2> QED
    BY <2>1, <2>2, <2>3, ListReasons
<1> QED
  BY <1>1, <1>2, <1>3, CancelReasons, CrashReasons DEF Next

\* As long as a task is not over, somebody is going to end it: a job in the queue
\* or at work, the canceller, the starter, its remote agent, or a subtask whose
\* row is out or about to be reported.
THEOREM EveryReason == ASSUME RootsOnly PROVE Spec => []ReasonsInv
<1>1. Init => ReasonsInv
  BY InitReasons
<1>2. TaskInv /\ TaskInv' /\ ReasonsInv /\ [Next]_vars => ReasonsInv'
  BY NextReasons
<1> QED
  BY <1>1, <1>2, TaskInvariant, PTL DEF Spec

\* Of the tasks that are not over one is deepest in the tree.
LEMMA DeepestOpen ==
    ASSUME NEW S \in SUBSET Task, S # {}
    PROVE  \E t \in S : \A c \in Kids(t) : c \notin S
<1>1. PICK depth \in [Task -> 0 .. Cardinality(Task)] :
         \A c \in Task : Parent[c] \in Task => depth[Parent[c]] < depth[c]
  BY TreeAssumption
<1>2. Cardinality(Task) \in Nat
  BY FiniteAssumption, FS_CardinalityType
<1> DEFINE D == {depth[t] : t \in S}
<1>3. D \in SUBSET (0 .. Cardinality(Task)) /\ D # {}
  OBVIOUS
<1>4. D \in SUBSET Nat /\ IsFiniteSet(D)
  <2>1. IsFiniteSet(0 .. Cardinality(Task)) /\ 0 .. Cardinality(Task) \subseteq Nat
    BY <1>2, FS_Interval
  <2> HIDE DEF D
  <2> QED
    BY <1>3, <2>1, FS_Subset
<1> HIDE DEF D
<1>5. PICK d \in D : \A x \in D : x <= d
  BY <1>3, <1>4, HasLast
<1>6. PICK t \in S : depth[t] = d
  BY <1>5 DEF D
<1>7. ASSUME NEW c \in Kids(t), c \in S PROVE FALSE
  <2>1. depth[c] \in D /\ depth[t] < depth[c] /\ depth[c] \in Nat /\ depth[t] \in Nat
    BY <1>1, <1>2, <1>7 DEF Kids, D
  <2>2. depth[c] <= depth[t]
    BY <1>5, <1>6, <2>1
  <2> QED
    BY <2>1, <2>2
<1> QED
  BY <1>6, <1>7

\* Once nothing is queued or running, no task that was started has been left
\* behind by a lost wake-up, a crash or a cancellation: every task is complete or
\* failed, for any tree of tasks, unless a job did not fit into the queue.
THEOREM NothingForgotten == ASSUME RootsOnly PROVE Spec => []NoTaskForgotten
<1>1. TaskInv /\ ReasonsInv => NoTaskForgotten
  <2> SUFFICES ASSUME TaskInv, ReasonsInv, Quiet, ~dropped
               PROVE  \A t \in Task : stage[t] \in Final \cup {"none"}
    BY DEF NoTaskForgotten
  <2> DEFINE S == {t \in Task : Unfinished(t)}
  <2>1. /\ EveryTaskHasReason /\ RowsKept /\ AskedOnce
    BY DEF ReasonsInv
  <2>2. ASSUME S # {} PROVE FALSE
    <3>1. PICK t \in S : \A c \in Kids(t) : c \notin S
      BY <2>2, DeepestOpen
    <3>2. Reason(t) /\ t \in Task /\ Unfinished(t)
      BY <2>1, <3>1 DEF EveryTaskHasReason
    <3>3. /\ \A p \in Proc : pc[p] = "idle" /\ next[p] = <<>>
          /\ Canceller \in Proc /\ Starter \in Proc /\ queue = <<>>
      BY DEF Quiet, At, Proc
    <3>4. ~InQueue(t) /\ \A p \in Proc : ~Effective(p, t) /\ ~Listed(p, t)
      BY <3>3 DEF InQueue, Effective, Listed
    <3>5. ~Ending(t) /\ ~Linking(t) /\ ~Spawning(t)
      BY <3>3, <3>4 DEF Ending, Doomed, Linking, Spawning
    <3>6. ~Asking(t)
      <4>1. t \in asked => stage[t] = "wait"
        BY <2>1, <3>2 DEF AskedOnce, Unfinished, TaskInv, TypeOK, Stage
      <4> QED
        BY <4>1 DEF Asking, Quiet
    <3>7. PICK c \in Kids(t) : Awaited(c)
      BY <3>2, <3>5, <3>6 DEF Reason
    <3>8. c \in Task /\ Parent[c] = t /\ row[c] # None /\ row[c].status = "init"
      BY <3>3, <3>7 DEF Awaited, Reporting, Kids
    <3>9. stage[t] = "wait"
      BY <3>2, <3>8 DEF TaskInv, RowsInOrder, FirstStageOver, Unfinished, TypeOK, Stage
    <3>10. Unfinished(c)
      <4>1. ~Doomed(t) /\ \A p \in Proc : pc[p] # "save"
        BY <3>3, <3>5 DEF Ending
      <4> QED
        BY <2>1, <3>2, <3>8, <3>9, <4>1 DEF RowsKept
    <3> QED
      BY <3>1, <3>7, <3>8, <3>10
  <2> QED
    BY <2>2 DEF Unfinished
<1> QED
  BY <1>1, EveryReason, TaskInvariant, PTL
=============================================================================
