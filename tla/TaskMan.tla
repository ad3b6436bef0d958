------------------------------- MODULE TaskMan -------------------------------
(***************************************************************************)
(* The task manager of pkg/cloudcommon/db/taskman: long operations are     *)
(* rows of tasks_tbl that go through stages.  A job (task, data) makes a   *)
(* goroutine fetch the row, lock the task's objects and call the method    *)
(* named after the stage; a task that waits for others is woken when the   *)
(* last of the subtasks it has started in its stage reports.               *)
(*                                                                         *)
(* The stage methods belong to the services.  Here they are those of a     *)
(* task that moves to the stage "wait", starts its subtasks, and ends when *)
(* it is called again (ContainerBatchStopTask and its like); of a task     *)
(* that does the same with a remote agent that calls back; and of a task   *)
(* that ends at once.  Rows are read and written one query per step, and   *)
(* the stage a job works with is the one it read before it had the locks.  *)
(*                                                                         *)
(* The worker manager's queue is a sequence of QueueSize places (module    *)
(* Ring) served by the goroutines Worker; locks are those of module        *)
(* ReentrantLock, held by a goroutine.  Parameters, progress and the       *)
(* notification of a parent task of another service are left out.          *)
(***************************************************************************)
EXTENDS Naturals, Sequences, FiniteSets

CONSTANTS
    Task,
    Parent,          \* the task a task is started by, or None
    Objs,            \* the ids of the objects of a task
    Async,           \* the tasks that wait for a callback of a remote agent
    FailedHandlers,  \* the stages that have a ...Failed method
    Worker,          \* the goroutines of the worker manager
    Canceller,       \* the goroutine of the API request cancel
    Starter,         \* the main goroutine of a restarted service
    None,
    QueueSize,
    MaxCalls,        \* how often a remote agent delivers its callback
    Cancelled,       \* the tasks a user may cancel
    MaxCancels,
    MaxCrashes

Kids(t) == {c \in Task : Parent[c] = t}
Object == UNION {Objs[t] : t \in Task}
Proc == Worker \cup {Canceller, Starter}
Final == {"complete", "failed"}
Stage == {"none", "on_init", "wait"} \cup Final
Row == [stage : Stage, status : {"init", "succ", "fail"}]

ASSUME TreeAssumption == /\ Parent \in [Task -> Task \cup {None}]
                         /\ \A t \in Async : Kids(t) = {}
                         /\ Cancelled \subseteq Task
                         /\ \E depth \in [Task -> 0 .. Cardinality(Task)] :
                               \A c \in Task : Parent[c] \in Task => depth[Parent[c]] < depth[c]
ASSUME NamesAssumption == /\ None \notin Task \cup Proc \cup Row
                          /\ Canceller # Starter /\ Worker \cap {Canceller, Starter} = {}
ASSUME ObjsAssumption == \A t \in Task : Objs[t] \subseteq Nat /\ Objs[t] # {}
ASSUME FiniteAssumption == /\ IsFiniteSet(Task) /\ IsFiniteSet(Worker)
                           /\ \A t \in Task : IsFiniteSet(Objs[t])
ASSUME BoundsAssumption == /\ QueueSize \in Nat /\ MaxCalls \in Nat
                           /\ MaxCancels \in Nat /\ MaxCrashes \in Nat

VARIABLES
    stage,      \* STask.Stage in the database; "none" before the row exists
    row,        \* the row of subtasks_tbl of a task: [stage, status], or None
    queue,      \* the jobs of the worker manager
    owner,      \* who has the lock of an object
    powner,     \* who has the lock ("tasks", id) of a parent task
    pc,         \* where a goroutine is
    job,        \* its task, and
    bad,        \*    whether its data says that something failed
    loc,        \*    the Stage of its copy of the task
    todo,       \* the subtasks its stage method has still to start
    next,       \* the tasks the canceller and the starter have still to do
    result,     \* what the task ended with: the parameter failed of the notification
    pstage,     \* the Stage of its copy of the parent task
    some,       \* GetTotalSubtasksCount() > 0
    asked,      \* the tasks whose remote agent has been asked
    calls,      \* how often it has called back
    cancels,
    crashes,
    dropped     \* a job has been lost because the queue was full

dbVars == <<stage, row>>
lockVars == <<owner, powner>>
procVars == <<pc, job, bad, loc, todo, next, result, pstage, some>>
envVars == <<asked, calls, cancels, crashes, dropped>>
vars == <<dbVars, queue, lockVars, procVars, envVars>>

PC == {"idle", "fetch", "lock", "handler", "spawn", "link", "fail",
       "save", "notify", "count", "check", "done"}

Init == /\ stage = [t \in Task |-> "none"]
        /\ row = [t \in Task |-> None]
        /\ queue = <<>>
        /\ owner = [o \in Object |-> None]
        /\ powner = [t \in Task |-> None]
        /\ pc = [p \in Proc |-> "idle"]
        /\ job = [p \in Proc |-> None]
        /\ bad = [p \in Proc |-> FALSE]
        /\ loc = [p \in Proc |-> "none"]
        /\ todo = [p \in Proc |-> {}]
        /\ next = [p \in Proc |-> <<>>]
        /\ result = [p \in Proc |-> "none"]
        /\ pstage = [p \in Proc |-> "none"]
        /\ some = [p \in Proc |-> FALSE]
        /\ asked = {}
        /\ calls = [t \in Task |-> 0]
        /\ cancels = 0
        /\ crashes = 0
        /\ dropped = FALSE

At(p, from) == pc[p] = from
Goto(p, to) == pc' = [pc EXCEPT ![p] = to]

\* Mutant: one job too many.
Room_Late == Len(queue) <= QueueSize

\* The queue takes another job.
Room == Len(queue) < QueueSize

\* runTask: the job is queued, or lost when the queue is full.
runTask(t, b) ==
    IF Room THEN /\ queue' = Append(queue, [task |-> t, bad |-> b])
                 /\ UNCHANGED dropped
            ELSE /\ dropped' = TRUE
                 /\ UNCHANGED queue
-----------------------------------------------------------------------------
(***************************************************************************)
(* The API.  It is served once the restarted service has been through its  *)
(* unfinished tasks.                                                       *)
(***************************************************************************)
Serving == At(Starter, "idle") /\ next[Starter] = <<>>

\* A request starts a task: NewTask without a parent, and ScheduleRun.
StartTask(t) ==
    /\ Serving
    /\ Parent[t] = None /\ stage[t] = "none"
    /\ stage' = [stage EXCEPT ![t] = "on_init"]
    /\ runTask(t, FALSE)
    /\ UNCHANGED <<row, lockVars, procVars, asked, calls, cancels, crashes>>

\* PerformAction: the remote agent of a task reports success or an error, and
\* may do so again when it missed the answer.  A refused report changes nothing.
PerformAction(t) ==
    /\ Serving
    /\ t \in asked /\ calls[t] < MaxCalls
    /\ Room
    /\ calls' = [calls EXCEPT ![t] = @ + 1]
    /\ \E b \in BOOLEAN : runTask(t, b)
    /\ UNCHANGED <<dbVars, lockVars, procVars, asked, cancels, crashes>>

(***************************************************************************)
(* What the canceller and the starter have to do is a list of             *)
(*   "cancel": STask.cancel of a copy of the task with that Stage;         *)
(*   "exec":   execTask, which fetches the task;                           *)
(*   "object": execTaskObject of a copy of the task with that Stage.       *)
(***************************************************************************)
Entry(what, t, s) == [what |-> what, task |-> t, stage |-> s]

Orders(S) == {q \in [1 .. Cardinality(S) -> S] : \A x \in S : \E i \in DOMAIN q : q[i] = x}

\* PerformCancel, of a task that is not over when the request fetches it.
PerformCancel(t) ==
    /\ Serving
    /\ At(Canceller, "idle") /\ next[Canceller] = <<>>
    /\ cancels < MaxCancels /\ t \in Cancelled
    /\ stage[t] \notin Final \cup {"none"}
    /\ cancels' = cancels + 1
    /\ next' = [next EXCEPT ![Canceller] = <<Entry("cancel", t, stage[t])>>]
    /\ UNCHANGED <<dbVars, queue, lockVars, pc, job, bad, loc, todo, result,
                   pstage, some, asked, calls, crashes, dropped>>

\* cancel: nothing when the copy is over; otherwise the subtasks are fetched and
\* cancelled one after the other, and then the task itself.
cancel ==
    /\ At(Canceller, "idle") /\ next[Canceller] # <<>>
    /\ Head(next[Canceller]).what = "cancel"
    /\ LET e == Head(next[Canceller])
           rest == Tail(next[Canceller])
           subs == {Entry("cancel", c, stage[c]) :
                       c \in {c \in Kids(e.task) : stage[c] # "none"}}
       IN IF e.stage \in Final
          THEN next' = [next EXCEPT ![Canceller] = rest]
          ELSE \E q \in Orders(subs) :
                  next' = [next EXCEPT ![Canceller] =
                              q \o <<Entry("exec", e.task, "none")>> \o rest]
    /\ UNCHANGED <<dbVars, queue, lockVars, pc, job, bad, loc, todo, result,
                   pstage, some, envVars>>

\* Mutant: complete tasks too.
Unfinished_Complete(t) == stage[t] \notin {"failed", "none"}

\* The tasks failTimeoutTasks looks for.
Unfinished(t) == stage[t] \notin Final \cup {"none"}

\* The service is killed: what is in memory is lost.  The next one begins with
\* failTimeoutTasks, on copies of all the tasks that are not over.
Crash ==
    /\ crashes < MaxCrashes
    /\ crashes' = crashes + 1
    /\ queue' = <<>>
    /\ owner' = [o \in Object |-> None]
    /\ powner' = [t \in Task |-> None]
    /\ pc' = [p \in Proc |-> "idle"]
    /\ job' = [p \in Proc |-> None]
    /\ bad' = [p \in Proc |-> FALSE]
    /\ loc' = [p \in Proc |-> "none"]
    /\ todo' = [p \in Proc |-> {}]
    /\ result' = [p \in Proc |-> "none"]
    /\ pstage' = [p \in Proc |-> "none"]
    /\ some' = [p \in Proc |-> FALSE]
    /\ LET open == {Entry("object", t, stage[t]) :
                       t \in {t \in Task : Unfinished(t)}}
       IN \E q \in Orders(open) :
             next' = [p \in Proc |-> IF p = Starter THEN q ELSE <<>>]
    /\ UNCHANGED <<dbVars, asked, calls, cancels, dropped>>
-----------------------------------------------------------------------------
(***************************************************************************)
(* execTask.                                                               *)
(***************************************************************************)
\* A worker pops a job.
Take(p) ==
    /\ p \in Worker /\ At(p, "idle") /\ queue # <<>>
    /\ job' = [job EXCEPT ![p] = Head(queue).task]
    /\ bad' = [bad EXCEPT ![p] = Head(queue).bad]
    /\ queue' = Tail(queue)
    /\ Goto(p, "fetch")
    /\ UNCHANGED <<dbVars, lockVars, loc, todo, next, result, pstage, some, envVars>>

\* The task type has a method for the stage, or for its failure.
HasHandler(s, b) == s \in {"on_init", "wait"} /\ (b => s \in FailedHandlers)

\* execITask up to the locks, with a copy of the task in stage s: without a
\* method the task is failed there and then.
Dispatch(p, s, b) ==
    /\ loc' = [loc EXCEPT ![p] = s]
    /\ Goto(p, IF HasHandler(s, b) THEN "lock" ELSE "fail")

\* The canceller and the starter go on with their list.
Proceed(p) ==
    /\ p \in {Canceller, Starter} /\ At(p, "idle") /\ next[p] # <<>>
    /\ LET e == Head(next[p])
       IN /\ e.what # "cancel"
          /\ job' = [job EXCEPT ![p] = e.task]
          /\ bad' = [bad EXCEPT ![p] = TRUE]
          /\ next' = [next EXCEPT ![p] = Tail(@)]
          /\ IF e.what = "exec" THEN Goto(p, "fetch") /\ UNCHANGED loc
                                ELSE Dispatch(p, e.stage, TRUE)
    /\ UNCHANGED <<dbVars, queue, lockVars, todo, result, pstage, some, envVars>>

\* fetchTask.
fetchTask(p) ==
    /\ At(p, "fetch")
    /\ Dispatch(p, stage[job[p]], bad[p])
    /\ UNCHANGED <<dbVars, queue, lockVars, job, bad, todo, next, result,
                   pstage, some, envVars>>

\* Mutants: any object first; none is locked.
NextLock_Unsorted(S, o) == o \in S
NextLock_Skipped(S, o) == FALSE

\* Objects are locked in the order of their ids.
NextLock(S, o) == o \in S /\ \A x \in S : o <= x

Missing(p) == {o \in Objs[job[p]] : owner[o] # p}

\* LockObject, one object after the other.
LockObject(p) ==
    /\ At(p, "lock")
    /\ \E o \in Object : /\ NextLock(Missing(p), o)
                         /\ owner[o] = None
                         /\ owner' = [owner EXCEPT ![o] = p]
    /\ UNCHANGED <<dbVars, queue, powner, procVars, envVars>>

\* All the objects are locked.
Locked(p) ==
    /\ At(p, "lock")
    /\ \A o \in Object : ~NextLock(Missing(p), o)
    /\ Goto(p, "handler")
    /\ UNCHANGED <<dbVars, queue, lockVars, job, bad, loc, todo, next, result,
                   pstage, some, envVars>>

\* SetStage: db.Update writes the stage if the copy did not have it.
SetStage(p, s) ==
    /\ stage' = IF loc[p] = s THEN stage ELSE [stage EXCEPT ![job[p]] = s]
    /\ loc' = [loc EXCEPT ![p] = s]

SetStageComplete(p) ==
    /\ SetStage(p, "complete")
    /\ result' = [result EXCEPT ![p] = "succ"]
    /\ Goto(p, "save")

SetStageFailed(p) ==
    IF loc[p] = "failed"
    THEN /\ Goto(p, "done")
         /\ UNCHANGED <<stage, loc, result>>
    ELSE /\ SetStage(p, "failed")
         /\ result' = [result EXCEPT ![p] = "fail"]
         /\ Goto(p, "save")

\* No method for the stage.
NoHandler(p) ==
    /\ At(p, "fail")
    /\ SetStageFailed(p)
    /\ UNCHANGED <<row, queue, lockVars, job, bad, todo, next, pstage, some, envVars>>

\* The Failed method of the stage, or a panic in a method.
FailedMethod(p) ==
    /\ At(p, "handler")
    /\ SetStageFailed(p)
    /\ UNCHANGED <<row, queue, lockVars, job, bad, todo, next, pstage, some, envVars>>

\* OnInit of a task without subtasks, or the method that ends a task.
EndMethod(p) ==
    /\ At(p, "handler") /\ ~bad[p]
    /\ loc[p] = "wait" \/ (Kids(job[p]) = {} /\ job[p] \notin Async)
    /\ SetStageComplete(p)
    /\ UNCHANGED <<row, queue, lockVars, job, bad, todo, next, pstage, some, envVars>>

\* OnInit of a task that asks a remote agent.
AskMethod(p) ==
    /\ At(p, "handler") /\ ~bad[p]
    /\ loc[p] = "on_init" /\ job[p] \in Async
    /\ SetStage(p, "wait")
    /\ asked' = asked \cup {job[p]}
    /\ Goto(p, "done")
    /\ UNCHANGED <<row, queue, lockVars, job, bad, todo, next, result, pstage,
                   some, calls, cancels, crashes, dropped>>

\* OnInit of a task with subtasks.
SpawnMethod(p) ==
    /\ At(p, "handler") /\ ~bad[p]
    /\ loc[p] = "on_init" /\ Kids(job[p]) # {}
    /\ SetStage(p, "wait")
    /\ todo' = [todo EXCEPT ![p] = Kids(job[p])]
    /\ Goto(p, "spawn")
    /\ UNCHANGED <<row, queue, lockVars, job, bad, next, result, pstage, some, envVars>>

\* NewTask with a parent: the row of the task.
NewTask(p) ==
    /\ At(p, "spawn")
    /\ \E c \in todo[p] : /\ stage[c] = "none"
                          /\ stage' = [stage EXCEPT ![c] = "on_init"]
    /\ Goto(p, "link")
    /\ UNCHANGED <<row, queue, lockVars, job, bad, loc, todo, next, result,
                   pstage, some, envVars>>

\* NewTask goes on: a copy of the parent is fetched, and a row with its Stage
\* inserted.  Then ScheduleRun, whose error makes the method call SetStageFailed.
ScheduleRun(p) ==
    /\ At(p, "link")
    /\ \E c \in todo[p] :
          /\ stage[c] # "none"
          /\ row' = [row EXCEPT ![c] = [stage |-> stage[job[p]], status |-> "init"]]
          /\ todo' = [todo EXCEPT ![p] = @ \ {c}]
          /\ runTask(c, FALSE)
    /\ Goto(p, IF Room THEN "spawn" ELSE "fail")
    /\ UNCHANGED <<stage, lockVars, job, bad, loc, next, result, pstage, some,
                   asked, calls, cancels, crashes>>

\* All the subtasks have been started; or something went wrong on the way and
\* the method calls SetStageFailed (or panics).
Spawned(p) ==
    /\ At(p, "spawn")
    /\ \/ todo[p] = {} /\ Goto(p, "done")
       \/ todo[p] # {} /\ Goto(p, "fail")
    /\ todo' = [todo EXCEPT ![p] = {}]
    /\ UNCHANGED <<dbVars, queue, lockVars, job, bad, loc, next, result,
                   pstage, some, envVars>>
-----------------------------------------------------------------------------
(***************************************************************************)
(* NotifyParentTaskComplete.                                               *)
(***************************************************************************)
\* Mutant: an error is not saved.
Saved_OnlySuccess(r, res) == IF res = "fail" THEN r ELSE [r EXCEPT !.status = res]

\* The row with the result.
Saved(r, res) == [r EXCEPT !.status = res]

\* GetSubTask and SaveResults, before the lock of the parent is taken.
SaveResults(p) ==
    /\ At(p, "save")
    /\ row' = IF row[job[p]] = None THEN row
              ELSE [row EXCEPT ![job[p]] = Saved(@, result[p])]
    /\ Goto(p, IF Parent[job[p]] = None THEN "done" ELSE "notify")
    /\ UNCHANGED <<stage, queue, lockVars, job, bad, loc, todo, next, result,
                   pstage, some, envVars>>

\* The lock ("tasks", id) of the parent, and fetchTask of the parent.
NotifyParent(p) ==
    LET t == Parent[job[p]] IN
    /\ At(p, "notify")
    /\ powner[t] = None
    /\ powner' = [powner EXCEPT ![t] = p]
    /\ pstage' = [pstage EXCEPT ![p] = stage[t]]
    /\ Goto(p, "count")
    /\ UNCHANGED <<dbVars, queue, owner, job, bad, loc, todo, next, result, some, envVars>>

\* The rows of the subtasks of t in stage s.
Rows(t, s) == {c \in Kids(t) : row[c] # None /\ row[c].stage = s}

\* IsCurrentStageComplete, the first query: are there subtasks.
GetTotalSubtasksCount(p) ==
    /\ At(p, "count")
    /\ some' = [some EXCEPT ![p] = Rows(Parent[job[p]], pstage[p]) # {}]
    /\ Goto(p, "check")
    /\ UNCHANGED <<dbVars, queue, lockVars, job, bad, loc, todo, next, result,
                   pstage, envVars>>

\* The second query: none of them is out.
NoneInit(t, s) == \A c \in Rows(t, s) : row[c].status # "init"

\* Mutant: an error is reported as a success.
DataOf_Lost(res) == FALSE

\* NotifyParentTaskFailure adds a __status__ to the data.
DataOf(res) == res = "fail"

\* The parent's job is queued, with the data of this subtask, if its stage is
\* complete; the lock of the parent is released.
IsCurrentStageComplete(p) ==
    LET t == Parent[job[p]] IN
    /\ At(p, "check")
    /\ IF some[p] /\ NoneInit(t, pstage[p])
       THEN runTask(t, DataOf(result[p]))
       ELSE UNCHANGED <<queue, dropped>>
    /\ powner' = [powner EXCEPT ![t] = None]
    /\ Goto(p, "done")
    /\ UNCHANGED <<dbVars, owner, job, bad, loc, todo, next, result, pstage, some,
                   asked, calls, cancels, crashes>>

\* SaveRequestContext, and the deferred ReleaseObject calls.  The local
\* variables are gone.
Done(p) ==
    /\ At(p, "done")
    /\ owner' = [o \in Object |-> IF owner[o] = p THEN None ELSE owner[o]]
    /\ Goto(p, "idle")
    /\ job' = [job EXCEPT ![p] = None]
    /\ bad' = [bad EXCEPT ![p] = FALSE]
    /\ loc' = [loc EXCEPT ![p] = "none"]
    /\ result' = [result EXCEPT ![p] = "none"]
    /\ pstage' = [pstage EXCEPT ![p] = "none"]
    /\ some' = [some EXCEPT ![p] = FALSE]
    /\ UNCHANGED <<dbVars, queue, powner, todo, next, envVars>>
-----------------------------------------------------------------------------
Exec(p) == \/ Take(p) \/ Proceed(p) \/ fetchTask(p) \/ LockObject(p) \/ Locked(p)
           \/ NoHandler(p) \/ FailedMethod(p) \/ EndMethod(p) \/ AskMethod(p)
           \/ SpawnMethod(p) \/ NewTask(p) \/ ScheduleRun(p) \/ Spawned(p)
           \/ SaveResults(p) \/ NotifyParent(p) \/ GetTotalSubtasksCount(p)
           \/ IsCurrentStageComplete(p) \/ Done(p)

Request(t) == StartTask(t) \/ PerformAction(t) \/ PerformCancel(t)

Next == \/ \E p \in Proc : Exec(p)
        \/ \E t \in Task : Request(t)
        \/ cancel
        \/ Crash

Spec == Init /\ [][Next]_vars
-----------------------------------------------------------------------------
TypeOK ==
    /\ stage \in [Task -> Stage]
    /\ row \in [Task -> Row \cup {None}]
    /\ queue \in Seq([task : Task, bad : BOOLEAN]) /\ Len(queue) <= QueueSize
    /\ owner \in [Object -> Proc \cup {None}]
    /\ powner \in [Task -> Proc \cup {None}]
    /\ pc \in [Proc -> PC]
    /\ job \in [Proc -> Task \cup {None}]
    /\ bad \in [Proc -> BOOLEAN]
    /\ loc \in [Proc -> Stage]
    /\ todo \in [Proc -> SUBSET Task]
    /\ next \in [Proc -> Seq([what : {"cancel", "exec", "object"}, task : Task, stage : Stage])]
    /\ result \in [Proc -> {"none", "succ", "fail"}]
    /\ pstage \in [Proc -> Stage]
    /\ some \in [Proc -> BOOLEAN]
    /\ asked \in SUBSET Task
    /\ calls \in [Task -> 0 .. MaxCalls]
    /\ cancels \in 0 .. MaxCancels
    /\ crashes \in 0 .. MaxCrashes
    /\ dropped \in BOOLEAN

\* Nothing is queued, running or expected from a remote agent.
Quiet == /\ queue = <<>>
         /\ \A p \in Proc : At(p, "idle") /\ next[p] = <<>>
         /\ \A t \in asked : stage[t] = "wait" => calls[t] > 0

\* No task is forgotten: once nothing is queued or running any more, every task
\* that was started is complete or failed, although subtasks report at the same
\* time, before all of them have been started or while the parent is cancelled,
\* and although the service may have been killed at any point.  Only a job that
\* did not fit into the queue leaves a task behind.
NoTaskForgotten ==
    Quiet /\ ~dropped => \A t \in Task : stage[t] \in Final \cup {"none"}

\* p waits for a lock that q has.
WaitsFor(p, q) ==
    \/ At(p, "lock") /\ \E o \in Object : NextLock(Missing(p), o) /\ owner[o] = q
    \/ At(p, "notify") /\ powner[Parent[job[p]]] = q

\* "sort objects by ids to avoid deadlock": no set of goroutines in which each
\* waits for a lock of another one of them.
NoCircularWait ==
    \A S \in SUBSET Proc : S # {} => \E p \in S : \A q \in S : ~WaitsFor(p, q)

\* A task whose objects include those of its subtasks, which end in their first
\* stage, completes after all of them: it has their objects until it has started
\* the last one, so that no early subtask can report to it before.  (A subtask
\* with more stages that is cancelled during its first one may go on.)
OneStage(c) == Kids(c) = {} /\ c \notin Async
Covers(t) == \A c \in Kids(t) : Objs[c] \subseteq Objs[t] /\ OneStage(c)
AllFinal(t) == \A c \in Kids(t) : stage[c] \in Final

CompleteAfterSubtasks ==
    \A t \in Task : Covers(t) /\ stage[t] = "complete" => AllFinal(t)

\* A task with one subtask completes only if the subtask did.
ResultReachesParent ==
    \A t, c \in Task : Kids(t) = {c} /\ stage[t] = "complete" => stage[c] = "complete"

\* PerformCancel refuses a task that is complete ("cannot cancel stage in
\* complete"): what is complete is never turned into a failure.
CompleteIsFinal ==
    [][\A t \in Task : stage[t] = "complete" => stage'[t] = "complete"]_vars
-----------------------------------------------------------------------------
(***************************************************************************)
(* The inductive invariant behind NoCircularWait and CompleteAfterSubtasks. *)
(***************************************************************************)
\* Whoever has locks is at work on a task with these objects, and waits only for
\* objects with larger ids.
LocksInOrder ==
    /\ \A o \in Object, p \in Proc : owner[o] = p =>
          /\ pc[p] \notin {"idle", "fetch"} /\ o \in Objs[job[p]]
          /\ pc[p] = "lock" => \A x \in Missing(p) : o < x
    /\ \A t \in Task, p \in Proc : powner[t] = p =>
          pc[p] \in {"count", "check"} /\ Parent[job[p]] = t

\* A goroutine that is starting subtasks, or about to give up.
Spawner(p) == \/ pc[p] \in {"spawn", "link"}
              \/ pc[p] = "fail" /\ ~bad[p] /\ loc[p] = "wait"

JobsInOrder ==
    \A p \in Proc :
        /\ pc[p] # "idle" => job[p] \in Task
        /\ pc[p] = "lock" => loc[p] \in {"on_init", "wait"}
        /\ pc[p] = "handler" \/ Spawner(p) =>
              /\ \A o \in Objs[job[p]] : owner[o] = p
              /\ loc[p] \in {"on_init", "wait"}
        /\ pc[p] \in {"save", "notify", "count", "check"} => result[p] \in {"succ", "fail"}
        /\ pc[p] \in {"notify", "count", "check"} => Parent[job[p]] \in Task

\* The jobs that are to run a task, and not to fail it.
Queued(t) == \E i \in DOMAIN queue : queue[i].task = t /\ ~queue[i].bad
Running(p, t) == pc[p] # "idle" /\ job[p] = t /\ ~bad[p]

\* Nobody has to do with a task that has no row,
NotStarted ==
    \A t \in Task : stage[t] = "none" =>
        /\ row[t] = None /\ t \notin asked
        /\ \A i \in DOMAIN queue : queue[i].task # t
        /\ \A p \in Proc : /\ pc[p] # "idle" => job[p] # t
                           /\ \A i \in DOMAIN next[p] : next[p][i].task # t

\* nor runs one that has a parent and no row of subtasks_tbl.
Unlinked ==
    \A c \in Task : Parent[c] \in Task /\ row[c] = None =>
        /\ stage[c] # "wait" /\ c \notin asked /\ ~Queued(c)
        /\ \A p \in Proc : ~Running(p, c)

\* Until a task has subtasks, or has asked its agent, one job runs it,
OneRun ==
    \A t \in Task \ asked : (\A c \in Kids(t) : stage[c] = "none") =>
        /\ \A i, j \in DOMAIN queue :
              queue[i].task = t /\ ~queue[i].bad /\ queue[j].task = t /\ ~queue[j].bad => i = j
        /\ \A p \in Proc : Running(p, t) => ~Queued(t)
        /\ \A p, q \in Proc : Running(p, t) /\ Running(q, t) => p = q

\* and then its first stage is over.
FirstStageOver ==
    \A c \in Task : Parent[c] \in Task /\ stage[c] # "none" =>
        LET t == Parent[c] IN
        /\ stage[t] \notin {"none", "on_init"}
        /\ Parent[t] \in Task => row[t] # None
        /\ \A p \in Proc : pc[p] \in {"lock", "handler"} /\ Running(p, t) => loc[p] = "wait"

\* The subtasks are started one after the other.
SpawningInOrder ==
    \A p \in Proc : pc[p] \in {"spawn", "link"} =>
        /\ ~bad[p] /\ loc[p] = "wait" /\ stage[job[p]] \notin {"none", "on_init"}
        /\ todo[p] \subseteq Kids(job[p])
        /\ \A c \in Kids(job[p]) : c \in todo[p] <=> row[c] = None
        /\ pc[p] = "spawn" => \A c \in todo[p] : stage[c] = "none"
        /\ \A c, d \in todo[p] : stage[c] # "none" /\ stage[d] # "none" => c = d

\* The rows of subtasks_tbl.
RowsInOrder ==
    \A c \in Task : row[c] # None =>
        /\ Parent[c] \in Task /\ stage[c] # "none"
        /\ row[c].stage # "wait" => stage[Parent[c]] \in Final
        /\ OneStage(c) /\ row[c].status # "init" => stage[c] \in Final

AllLinked(t) == \A c \in Kids(t) : row[c] # None

\* A subtask of one stage that runs was started by a goroutine that is still at
\* it, or has started all of them, or given up.
StartedInOrder ==
    \A c \in Task :
        Parent[c] \in Task /\ OneStage(c) /\ (Queued(c) \/ \E p \in Proc : Running(p, c)) =>
            \/ \E q \in Proc : Spawner(q) /\ job[q] = Parent[c]
            \/ AllLinked(Parent[c])
            \/ stage[Parent[c]] \in Final

\* A subtask with the objects of its parent has its method called, and succeeds,
\* only then.
Succeeding(p) == \/ pc[p] = "handler" /\ ~bad[p]
                 \/ pc[p] \in {"save", "notify", "count", "check"} /\ result[p] = "succ"

Report(p) ==
    LET t == Parent[job[p]] IN
    /\ pc[p] = "save" /\ OneStage(job[p]) => stage[job[p]] \in Final
    /\ Succeeding(p) /\ t \in Task /\ Covers(t) => AllLinked(t) \/ stage[t] \in Final
    /\ pc[p] \in {"count", "check"} =>
          \/ stage[t] \in Final
          \/ /\ pstage[p] = "wait"
             /\ result[p] = "succ" /\ Covers(t) =>
                   \A c \in Kids(t) : row[c] # None /\ row[c].stage = "wait"

ReportsInOrder == \A p \in Proc : Report(p)

\* So a task that waits is woken to go on when its subtasks are over.
WokenInOrder ==
    \A t \in Task : Covers(t) =>
        /\ stage[t] = "wait" /\ (Queued(t) \/ \E p \in Proc : pc[p] = "fetch" /\ Running(p, t))
              => AllFinal(t)
        /\ \A p \in Proc :
              pc[p] \in {"lock", "handler"} /\ Running(p, t) /\ loc[p] = "wait" => AllFinal(t)

TaskInv ==
    /\ TypeOK /\ asked \subseteq Async
    /\ LocksInOrder /\ JobsInOrder
    /\ NotStarted /\ Unlinked /\ OneRun /\ FirstStageOver
    /\ SpawningInOrder /\ RowsInOrder /\ StartedInOrder
    /\ ReportsInOrder /\ WokenInOrder /\ CompleteAfterSubtasks
=============================================================================
