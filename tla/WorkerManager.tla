---------------------------- MODULE WorkerManager ----------------------------
(***************************************************************************)
(* SWorkerManager of pkg/appsrv/workers.go: a bounded queue served by at   *)
(* most workerCount goroutines, with the request goroutines that hand it   *)
(* their work (Application.defaultHandle and responseWriterChannel.wait).  *)
(* Every service runs its API requests, its tasks, its cron jobs and its   *)
(* logs through such managers.                                             *)
(*                                                                         *)
(* A caller pushes its task under the queue's lock and then schedules      *)
(* under workerLock: two steps.  A worker loops over isDetached, Pop and   *)
(* the task, and removes itself when it finds the queue empty: three locks *)
(* taken one after the other.  A request that times out detaches the       *)
(* worker it was told about, which gives the queue a replacement.          *)
(*                                                                         *)
(* The Ring of ring.go is the sequence queue (module Ring shows that it    *)
(* may be).  The identical-task filter of worker.run asks Ring.Range,      *)
(* whose loop ends before its first iteration: it never fires.  The        *)
(* hooks queueInitHook and queueEmptyHook are set by no caller and left    *)
(* out.                                                                    *)
(***************************************************************************)
EXTENDS Naturals, Sequences, FiniteSets

CONSTANTS
    Task,          \* what callers submit
    Background,    \* the tasks submitted without a worker channel: nobody waits
    Worker,        \* the worker goroutines that can exist at a time
    None,
    workerCount,
    backlog,
    StuckSize      \* the queue length, 50, above which schedule logs a worker

ASSUME NoneAssumption == None \notin Worker \cup Task
ASSUME CountAssumption == /\ workerCount \in Nat \ {0}
                          /\ backlog \in Nat \ {0}
                          /\ StuckSize \in Nat
ASSUME TaskAssumption == Background \subseteq Task

VARIABLES
    queue,      \* wm.queue
    active,     \* wm.activeWorker, a list no worker is twice in
    detached,   \* wm.detachedWorker: how often a worker is in that list
    container,  \* worker.container: the list whose element it points to
    wstate,     \* worker.state
    wpc,        \* where in run a worker is; "gone" before and after its life
    cur,        \* the local variable task of run
    wtask,      \* worker.task
    cpc,        \* where the caller of Run is
    chan,       \* the buffered channel task.worker
    seen,       \* the local variable worker of wait
    closed,     \* the response channels of the task are closed
    runs,       \* how often the task has been executed since it was submitted
    dead        \* a panic nobody recovers has ended the process

listVars == <<active, detached, container, wstate>>
vars == <<queue, active, detached, container, wstate, wpc, cur, wtask,
          cpc, chan, seen, closed, runs, dead>>

WorkerPC == {"gone", "top", "pop", "popped", "exec", "exit"}
CallerPC == {"new", "pushed", "wait", "full", "left", "panicked"}

\* NewWorkerManager: the ring has workerCount * backlog places.
Capacity == workerCount * backlog

\* Nothing points to w any more, so that the name may stand for a new worker.
Unreferenced(w) == /\ wpc[w] = "gone" /\ detached[w] = 0
                   /\ \A t \in Task : chan[t] # w /\ seen[t] # w

Init == /\ queue = <<>>
        /\ active = {}
        /\ detached = [w \in Worker |-> 0]
        /\ container = [w \in Worker |-> "nil"]
        /\ wstate = [w \in Worker |-> "active"]
        /\ wpc = [w \in Worker |-> "gone"]
        /\ cur = [w \in Worker |-> None]
        /\ wtask = [w \in Worker |-> None]
        /\ cpc = [t \in Task |-> "new"]
        /\ chan = [t \in Task |-> None]
        /\ seen = [t \in Task |-> None]
        /\ closed = [t \in Task |-> FALSE]
        /\ runs = [t \in Task |-> 0]
        /\ dead = FALSE
-----------------------------------------------------------------------------
(***************************************************************************)
(* Callers.                                                                *)
(***************************************************************************)
CallerAt(t, from) == ~dead /\ cpc[t] = from
CallerGoto(t, to) == cpc' = [cpc EXCEPT ![t] = to]

\* A panic in a request goroutine is recovered by net/http; in any other
\* caller it ends the process.
CallerPanics(t) == /\ CallerGoto(t, "panicked")
                   /\ IF t \in Background THEN dead' = TRUE ELSE UNCHANGED dead

\* wm.Run, first half: wm.queue.Push.
Push(t) ==
    /\ CallerAt(t, "new")
    /\ IF Len(queue) < Capacity
       THEN /\ queue' = Append(queue, t)
            /\ CallerGoto(t, "pushed")
       ELSE /\ CallerGoto(t, "full")
            /\ UNCHANGED queue
    /\ UNCHANGED <<listVars, wpc, cur, wtask, chan, seen, closed, runs, dead>>

(***************************************************************************)
(* The log line of a queue longer than StuckSize dereferences the task of  *)
(* the oldest active worker (of any active worker here: the order of the   *)
(* list is left out), which a worker that has not started its first task   *)
(* does not have.  ok: no panic.                                           *)
(***************************************************************************)
StuckLog(acts, ok) ==
    IF Len(queue) > StuckSize /\ acts # {}
    THEN \E w \in acts : ok = (wtask[w] # None)
    ELSE ok = TRUE

\* Mutant: one worker too many.
HasRoom_OneMore(acts) == Cardinality(acts) <= workerCount

\* There are fewer active workers than workerCount.
HasRoom(acts) == Cardinality(acts) < workerCount

\* scheduleWithLock, on the lists its caller has left under workerLock: one new
\* worker when there are fewer than workerCount and something is queued.  The
\* names of workers mean nothing: a new one takes any that is free.
scheduleWithLock(acts, conts, states, ok) ==
    IF HasRoom(acts) /\ queue # <<>>
    THEN /\ ok = TRUE
         /\ \E w \in Worker :
              /\ Unreferenced(w) /\ w = CHOOSE x \in Worker : Unreferenced(x)
              /\ active' = acts \cup {w}
              /\ container' = [conts EXCEPT ![w] = "active"]
              /\ wstate' = [states EXCEPT ![w] = "active"]
              /\ wtask' = [wtask EXCEPT ![w] = None]
              /\ wpc' = [wpc EXCEPT ![w] = "top"]
    ELSE /\ StuckLog(acts, ok)
         /\ active' = acts /\ container' = conts /\ wstate' = states
         /\ UNCHANGED <<wtask, wpc>>

\* wm.Run, second half: wm.schedule.  A request goes on to wait for its answer.
schedule(t) ==
    /\ CallerAt(t, "pushed")
    /\ \E ok \in BOOLEAN :
          /\ scheduleWithLock(active, container, wstate, ok)
          /\ IF ok THEN /\ CallerGoto(t, IF t \in Background THEN "left" ELSE "wait")
                        /\ UNCHANGED dead
                   ELSE CallerPanics(t)
    /\ UNCHANGED <<queue, detached, cur, chan, seen, closed, runs>>

\* wait: case curWorker := <-workerChan
Receive(t) ==
    /\ CallerAt(t, "wait")
    /\ chan[t] # None
    /\ seen' = [seen EXCEPT ![t] = chan[t]]
    /\ chan' = [chan EXCEPT ![t] = None]
    /\ UNCHANGED <<queue, listVars, wpc, cur, wtask, cpc, closed, runs, dead>>

\* wait: the response channels have been closed.  The channel and the local
\* variables of the request are garbage.
Leave(t) ==
    /\ chan' = [chan EXCEPT ![t] = None]
    /\ seen' = [seen EXCEPT ![t] = None]

Answered(t) ==
    /\ CallerAt(t, "wait")
    /\ closed[t]
    /\ CallerGoto(t, "left")
    /\ Leave(t)
    /\ UNCHANGED <<queue, listVars, wpc, cur, wtask, closed, runs, dead>>

\* wait: case <-ctx.Done() before a worker is known.  The channels are closed
\* by the caller; select may choose this case although others are ready.
TimeoutQueued(t) ==
    /\ CallerAt(t, "wait")
    /\ seen[t] = None
    /\ CallerGoto(t, "left")
    /\ closed' = [closed EXCEPT ![t] = TRUE]
    /\ Leave(t)
    /\ UNCHANGED <<queue, listVars, wpc, cur, wtask, runs, dead>>

\* Mutant: the worker's state is not changed.
MarkDetached_Forgotten(w) == wstate

\* worker.state = WORKER_STATE_DETACH
MarkDetached(w) == [wstate EXCEPT ![w] = "detach"]

(***************************************************************************)
(* wait: case <-ctx.Done() with a worker, which is detached: its element   *)
(* is removed from the active list (list.Remove of a nil element panics,   *)
(* of another list's element does nothing), a new one is appended to the   *)
(* detached list, the log line dereferences worker.task, and               *)
(* scheduleWithLock may start a replacement.                               *)
(***************************************************************************)
DetachGone(t) ==
    /\ CallerAt(t, "wait")
    /\ seen[t] # None
    /\ container[seen[t]] = "nil"
    /\ wstate' = MarkDetached(seen[t])
    /\ CallerPanics(t)
    /\ Leave(t)
    /\ UNCHANGED <<queue, active, detached, container, wpc, cur, wtask, closed, runs>>

Detach(t) ==
    LET w == seen[t]
        acts == IF container[w] = "active" THEN active \ {w} ELSE active
        conts == [container EXCEPT ![w] = "detached"]
        states == MarkDetached(w)
    IN
    /\ CallerAt(t, "wait")
    /\ w # None
    /\ container[w] # "nil"
    /\ detached' = [detached EXCEPT ![w] = @ + 1]
    /\ \E ok \in BOOLEAN :
          /\ IF wtask[w] = None
             THEN /\ ok = FALSE
                  /\ active' = acts /\ container' = conts /\ wstate' = states
                  /\ UNCHANGED <<wtask, wpc>>
             ELSE scheduleWithLock(acts, conts, states, ok)
          /\ IF ok THEN /\ CallerGoto(t, "left")
                        /\ closed' = [closed EXCEPT ![t] = TRUE]
                        /\ UNCHANGED dead
                   ELSE /\ CallerPanics(t)
                        /\ UNCHANGED closed
    /\ Leave(t)
    /\ UNCHANGED <<queue, cur, runs>>

-----------------------------------------------------------------------------
(***************************************************************************)
(* Workers.                                                                *)
(***************************************************************************)
WorkerAt(w, from) == ~dead /\ wpc[w] = from
WorkerGoto(w, to) == wpc' = [wpc EXCEPT ![w] = to]

\* worker.isDetached, under workerLock.
isDetached(w) ==
    /\ WorkerAt(w, "top")
    /\ WorkerGoto(w, IF wstate[w] = "detach" THEN "exit" ELSE "pop")
    /\ UNCHANGED <<queue, listVars, cur, wtask, cpc, chan, seen, closed, runs, dead>>

\* Mutant: the value stays in the queue.
Rest_Kept == queue

\* What Pop leaves.
Rest == Tail(queue)

\* queue.Pop, under the queue's lock, and task.worker <- worker.
Pop(w) ==
    /\ WorkerAt(w, "pop")
    /\ IF queue = <<>>
       THEN /\ WorkerGoto(w, "exit")
            /\ UNCHANGED <<queue, cur, chan>>
       ELSE /\ queue' = Rest
            /\ cur' = [cur EXCEPT ![w] = Head(queue)]
            /\ chan' = IF Head(queue) \in Background \/ cpc[Head(queue)] \in {"left", "panicked"}
                       THEN chan
                       ELSE [chan EXCEPT ![Head(queue)] = w]
            /\ WorkerGoto(w, "popped")
    /\ UNCHANGED <<listVars, wtask, cpc, seen, closed, runs, dead>>

\* worker.task = task
Start(w) ==
    /\ WorkerAt(w, "popped")
    /\ wtask' = [wtask EXCEPT ![w] = cur[w]]
    /\ WorkerGoto(w, "exec")
    /\ UNCHANGED <<queue, listVars, cur, cpc, chan, seen, closed, runs, dead>>

\* execCallback: the task returns, or panics and is recovered; either way the
\* response channels get closed (by task.Run or by onError).
execCallback(w) ==
    /\ WorkerAt(w, "exec")
    /\ closed' = [closed EXCEPT ![cur[w]] = TRUE]
    /\ runs' = [runs EXCEPT ![cur[w]] = @ + 1]
    /\ cur' = [cur EXCEPT ![w] = None]
    /\ WorkerGoto(w, "top")
    /\ UNCHANGED <<queue, listVars, wtask, cpc, chan, seen, dead>>

\* Mutant: every worker is looked for in the detached list.
IsActive_Never(w) == FALSE

\* worker.state == WORKER_STATE_ACTIVE
IsActive(w) == wstate[w] = "active"

\* removeWorker, the deferred call of run: from the list its state names.
removeWorker(w) ==
    /\ WorkerAt(w, "exit")
    /\ IF IsActive(w)
       THEN /\ active' = active \ {w}
            /\ UNCHANGED detached
       ELSE /\ detached' = [detached EXCEPT ![w] = @ - 1]
            /\ UNCHANGED active
    /\ container' = [container EXCEPT ![w] = "nil"]
    /\ WorkerGoto(w, "gone")
    /\ UNCHANGED <<queue, wstate, cur, wtask, cpc, chan, seen, closed, runs, dead>>
-----------------------------------------------------------------------------
Call(t) == \/ Push(t) \/ schedule(t) \/ Receive(t) \/ Answered(t)
           \/ TimeoutQueued(t) \/ DetachGone(t) \/ Detach(t)

Work(w) == \/ isDetached(w) \/ Pop(w) \/ Start(w)
           \/ execCallback(w) \/ removeWorker(w)

Next == \/ \E t \in Task : Call(t)
        \/ \E w \in Worker : Work(w)

Spec == Init /\ [][Next]_vars

\* Worker goroutines go on, tasks return, and Run goes on to schedule.
Fairness == /\ \A w \in Worker : WF_vars(Work(w))
            /\ \A t \in Task : WF_vars(schedule(t))

FairSpec == Spec /\ Fairness
-----------------------------------------------------------------------------
TypeOK ==
    /\ queue \in Seq(Task) /\ Len(queue) <= Capacity
    /\ active \in SUBSET Worker
    /\ detached \in [Worker -> Nat]
    /\ container \in [Worker -> {"nil", "active", "detached"}]
    /\ wstate \in [Worker -> {"active", "detach"}]
    /\ wpc \in [Worker -> WorkerPC]
    /\ cur \in [Worker -> Task \cup {None}]
    /\ wtask \in [Worker -> Task \cup {None}]
    /\ cpc \in [Task -> CallerPC]
    /\ chan \in [Task -> Worker \cup {None}]
    /\ seen \in [Task -> Worker \cup {None}]
    /\ closed \in [Task -> BOOLEAN]
    /\ runs \in [Task -> Nat]
    /\ dead \in BOOLEAN

Alive(w) == wpc[w] # "gone"
Accepted(t) == cpc[t] \notin {"new", "full"}

Queued(t) == \E i \in 1 .. Len(queue) : queue[i] = t
InHand(t) == \E w \in Worker : cur[w] = t

\* A task that Run accepted is in exactly one place: at one position of the
\* queue, in the hands of one worker, or executed, once.  A task that Run
\* refused is nowhere.  Timeouts and detached workers do not change that.
NoTaskLostOrRunTwice ==
    /\ \A i, j \in 1 .. Len(queue) : queue[i] = queue[j] => i = j
    /\ \A w, x \in Worker : cur[w] = cur[x] => w = x \/ cur[w] = None
    /\ \A t \in Task :
          /\ ~(Queued(t) /\ InHand(t))
          /\ Queued(t) \/ InHand(t) => Accepted(t)
          /\ runs[t] = IF Accepted(t) /\ ~Queued(t) /\ ~InHand(t) THEN 1 ELSE 0

\* The active list is the set of the living workers that are not detached, and
\* there are never more than workerCount: although a request can detach a
\* worker that already serves somebody else, that another request has detached
\* before, or that is about to remove itself.
ActiveListExact ==
    /\ active = {w \in Worker : Alive(w) /\ wstate[w] = "active"}
    /\ Cardinality(active) <= workerCount

\* A living worker is in the list that its removeWorker will look in, so that
\* removeWorker never removes a nil element.
RemovableWorkers ==
    \A w \in Worker : Alive(w) =>
        /\ container[w] = IF wstate[w] = "active" THEN "active" ELSE "detached"
        /\ wstate[w] = "detach" => detached[w] > 0

\* A worker has a task in its hands between Pop and the return of the callback,
\* and a worker that is gone is in no list.
WorkersInOrder ==
    \A w \in Worker : /\ cur[w] # None <=> wpc[w] \in {"popped", "exec"}
                      /\ ~Alive(w) => container[w] = "nil"

\* The inductive invariant.
WorkerInv == /\ TypeOK
             /\ IsFiniteSet(active)
             /\ ActiveListExact
             /\ RemovableWorkers
             /\ WorkersInOrder
             /\ NoTaskLostOrRunTwice

\* What TestWorkerManager takes for granted when it waits for
\* ActiveWorkerCount() = 0 before it looks at the tasks: without workers, and
\* with nobody inside Run, nothing is left in the queue.
IdleMeansDrained ==
    ~dead /\ active = {} /\ (\A t \in Task : cpc[t] # "pushed") => queue = <<>>

\* SWorkerManagerStates.IsBusy, as the watchdog asks it.
IsBusy == queue # <<>> \/ active # {} \/ \E w \in Worker : detached[w] > 0

\* What the watchdog's "System is idle, no worker is busy" relies on: a manager
\* with no worker left and nothing queued is not reported as busy for ever.
IdleIsNotBusy ==
    queue = <<>> /\ (\A w \in Worker : ~Alive(w)) => ~IsBusy

\* A burst of Run calls returns: TestWorkerManager submits its tasks in a loop.
RunNeverPanics == \A t \in Background : cpc[t] # "panicked"

\* There is work, and neither a worker to do it nor a call of Run about to start
\* one: the gap that IdleMeansDrained is about.
Stranded == /\ queue # <<>> /\ active = {}
            /\ \A t \in Task : cpc[t] # "pushed"

\* Every accepted task is executed, unless the process dies or the queue is left
\* without a worker between Push and removeWorker: requests that time out,
\* workers that are detached twice, panics of callers and a replacement that
\* nobody starts do not take a task's worker away in any other way.
AcceptedTasksRun ==
    \A t \in Task : cpc[t] = "pushed" ~> runs[t] = 1 \/ dead \/ Stranded
=============================================================================
