# The coordination core of Cloudpods in TLA+

Cloudpods is a multi-cloud platform: some thirty services (compute, image,
identity, scheduler, host agent, ...) written in Go, most of them database CRUD
and cloud API calls built on one common framework.  What all of them rely on,
and what tests reach least, is the framework's coordination code: the locks
around every object, the worker pools that run every request, the channels that
carry the answer back, the task manager that carries every long operation over
stages, services and restarts, and the reservations by which the scheduler keeps
concurrent requests from getting the same room.  This project models that core, checks it with TLC and proves its invariants and
refinements with TLAPS.

- [Inventory](#inventory): the parts, their state and how they interact
- [Plan](#plan): the modules, in order
- [Modules](#modules): how state and actions correspond to the code
- [Runs](#runs): what TLC checks, the bounds and why they are enough
- [Proofs](#proofs): what TLAPS proves, from what, along which argument
- [Findings](#findings): where the code and what is said of it disagree
- [Limits](#limits): what is only model-checked, and what is not modelled

Paths are relative to the repository.  A definition keeps the name of the
function it models; `PROJECT.json` gives the lines of each.

## Inventory

```
  HTTP request ──> appsrv.Application.defaultHandle ──push──> SWorkerManager
                        │   wait / timeout / detach              │ Ring, workers
                        └───────────<── response channels ───────┘
                                                                 │ runs
  taskman.runTask ───push──> SWorkerManager (per task type) ─────┤
  cronman, syncman, cachesync, workmanager ──push──> ... ────────┘
                                                                 v
                              stage methods of the services (OnInit, ...)
                                   │ lockman.LockObject   │ NewTask, SetStage
                                   v                      v
                          lock manager (memory / etcd)   tasks_tbl, subtasks_tbl

  region (onSchedulerResults) ──schedule──> scheduler: executor ──reserve──┐
        │ save guest, expire request          │ reads                      v
        └──> ExpireManager ──> ReloadCancelQueue ──> host cache    pending usage
                                (reload, then cancel)
```

| component | state | operations | hard because |
|---|---|---|---|
| in-memory lock manager `pkg/cloudcommon/db/lockman/inmemory.go` | a record per key: holder (goroutine id), depth, waiters, condition variable | LockKey, UnlockKey | newcomers barge past woken waiters; one Signal per release; misuse ends the process |
| etcd lock manager `lockman/etcd.go` | sessions and leases in etcd, a local record per key and context | the same | leases expire under their holder; records are shared and deleted |
| ring `pkg/appsrv/ring.go` | buffer, header, tail | Push, Pop, Size, Range | wrap-around, full and empty |
| worker manager `appsrv/workers.go` | queue, active list, detached list, the state of each worker | Run, schedule, worker loop, Detach, removeWorker | three locks taken one after the other; a timeout detaches a worker that may serve somebody else |
| request handling `appsrv/appsrv.go`, `response.go` | the channels between request goroutine and worker, `isClosed` | defaultHandle, wait, closeChannels | timeout against answer; channels closed from both sides |
| task manager `pkg/cloudcommon/db/taskman` | rows of tasks_tbl and subtasks_tbl; jobs in worker managers; object locks | NewTask, ScheduleRun, execTask, SetStage..., NotifyParentTask..., PerformAction, PerformCancel, failTimeoutTasks | one query per step, copies that get old, a crash between any two |
| leader election `pkg/cloudcommon/elect` | an etcd session, the last event, subscribers | Start, subscribe | a lost session is noticed late |
| cron manager `cronman` | a heap of jobs, a context, a stop channel | AddJob..., Start, Stop, runJobs | start and stop by election events; the heap moves under the iteration |
| sync manager `syncman` | the flag syncOnce, a worker manager with one worker and one place | SyncOnce, FirstSync | the flag is reset by the queued task only |
| host work manager `workmanager` | a counter of running tasks around a worker manager | DelayTask, Stop | refused tasks are counted |
| quotas `db/quotas` | limits, usages and pending usages per key of a hierarchy | check, reserve, commit, cancel | check and reservation along a hierarchy of keys, usage refreshed in between |
| scheduler task queue `pkg/scheduler/manager` | queues of tasks and executors | AddTask, execute, callbacks | a request waits for the callback of its executor |
| scheduler reservations `pkg/scheduler/models/pending_usage.go` | pending usage per host, usage per session and host with its count and guests | AddPendingUsage, CancelPendingUsage, ClearAllPendingUsage, GCExpiredSessionUsages | four kinds of goroutines subtract from the same numbers, one of them without the lock |
| scheduler expiry `pkg/scheduler/manager/expire_queue.go`, `reload_cancel_queue.go` | a channel of requests, a bounded queue of merged tasks, two workers | expire, batchMergeExpire, processTask | a reservation must go only after the description counts the guest |
| scheduler candidate cache `pkg/scheduler/cache` | a description per host | load, update, Reload, ReloadAll | built under a mutex, stored after it; guests that are pending are left out |
| services (`pkg/compute`, `pkg/hostman`, `pkg/keystone`, ...) | their tables, hypervisors, clouds | REST handlers, stage methods | effects outside the program |

How they interact: a request goroutine never works itself, it pushes a closure
into a worker manager and waits on channels; a stage method runs in a worker,
under the object locks that `execITask` took, and starts further tasks, whose
jobs go into worker managers again; a task that ends reports to its parent,
under a lock of the parent, and the last one to report queues the parent's job.
Cron jobs, cache refreshes and host operations are closures in worker managers
too, so that what a worker manager promises bounds what everything else can.

What makes each part correct:

- *locks*: one holder per key, no forgotten waiter, termination of the process
  for the caller's mistakes only, everybody who waits gets in;
- *ring*: a FIFO of exactly the size asked for;
- *workers*: an accepted task is run exactly once, never more workers than
  configured although workers are detached, every worker is in the list that
  it will be removed from; eventually every accepted task runs;
- *tasks*: every task ends whatever fails, cancels or crashes; no deadlock of
  object locks; a parent ends after its subtasks and learns how they ended;
  what is complete stays complete;
- *response channel*: what a handler writes arrives, once and completely, unless
  the request has timed out; every request with a deadline ends, every handler
  gets out;
- *reservations*: a host's pending usage is what its sessions hold, as long as no
  session is cleared; a guest placed on a host is counted or reserved; in the end
  everything is counted;
- *election and cron*: jobs run in at most one service, and in one again after
  every change of leader;
- *sync manager*: a change requested after the last synchronisation began is
  followed by another one;
- *quotas*: usage and pending usage never exceed a limit at any key of the
  hierarchy, and pending usage that is committed or cancelled is gone;
- *scheduler tasks and work manager*: every request gets an answer, and Stop
  returns.

`PROJECT.json` lists the hazards line by line.

## Plan

In order of what the rest depends on.  The first six are done.

1. `ReentrantLock` (abstract), `InMemoryLockManager`: safety, refinement,
   liveness; proofs.
2. `BoundedFIFO` (abstract), `Ring`: refinement; proofs.
3. `WorkerManager`, over the queue that `Ring` implements, with its callers;
   proofs of its inductive invariant; liveness.
4. `TaskMan`, over the queue of `Ring` and the locks of `ReentrantLock`: jobs,
   stages, subtasks, callbacks, cancel, crash and restart; proofs.  `TaskManReasons`
   and `TaskManChain` hold two further inductive invariants; proofs.
5. `ResponseChannel`: the request goroutine, the worker and the closing of their
   channels, `isClosed` tested and set without a lock; liveness; proofs.
6. `HostPendingUsage`: the scheduler's reservations, the host cache and the expiry
   queue, with the region that uses them; liveness; proofs.
7. `Quotas`: check, reservation, commit and cancel along the key hierarchy, two
   projects of a domain.
8. `Elect` and, composed with it, `CronMan`: sessions that end, events,
   start and stop; an abstract specification of at most one leader.
9. `SyncManager` composed with `WorkerManager` (one worker, one place): the flag
   syncOnce against a task left in the queue; liveness.
10. `EtcdLockManager`: sessions, leases and the shared record, against
    `ReentrantLock`.
11. `WorkManager`, the executors' queues of the scheduler, and the parts of
    `TaskMan` left out: local tasks and the parent in another service.

Theorems still worth proving: for `TaskMan` the success of a batch (what
`ChainInv` says of chains, for siblings that all lie within the objects of their
parent); the refinement of `ReentrantLock` by `EtcdLockManager` while leases last;
the bound of `Quotas` per key.

## Modules

### ReentrantLock, InMemoryLockManager

`ReentrantLock` is what `ILockManager` promises: `asked[g]` and the number of
grants `held[g][k]`, with Ask, Grant (nobody else has a grant) and GiveBack.

`InMemoryLockManager` is `inmemory.go`.  `holder`, `depth` and `waiter` are the
fields of a record, `lockTable` the keys that have one, `pc` the goroutine's
place: in front of `rec.lock` ("lock", "unlock"), inside `cond.Wait` ("parked")
or signalled and not yet in possession of `rec.lock` ("woken").

| action | code |
|---|---|
| LockKey, UnlockKey | the lookup of the record under `tableLock` |
| LockFree, LockAgain, LockWait | the three cases of `lockContext` up to `cond.Wait` |
| WaitAgain, WaitOver | the loop around `cond.Wait` |
| unlockContext, Signal | `unlockContext` with its `cond.Signal` |
| fatalf | the three `log.Fatalf`, after which nothing moves |

The order of the waiters' FIFO is never read, so it is a set; `sync.Cond` wakes
some waiting goroutine.  `held` is what the callers were told; the invariants
relate it to the records.  The goroutines in `Stray` also release what they do
not hold.

### BoundedFIFO, Ring

`BoundedFIFO` is a sequence of at most `Capacity` values whose `Push` and `Pop`
return what the code's do.  `Ring` is the buffer with its two pointers;
`r.lock` makes each method a step.

### WorkerManager

The manager, its workers and the request goroutines that use it.  `active` and
`detached` are the two lists (how often a worker is in the second one matters:
`Detach` appends each time), `container` the list a worker's `container` element
belongs to; `wpc`, `cur` and `wtask` are the worker goroutine, its local `task`
and its field `worker.task`; `cpc`, `chan` and `seen` the caller, the channel
it receives its worker from and the one it has received.

| action | code |
|---|---|
| Push, schedule | the two halves of `Run`: `queue.Push`; `scheduleWithLock` under `workerLock` |
| Receive, Answered, TimeoutQueued, Detach, DetachGone | the cases of `responseWriterChannel.wait` |
| isDetached, Pop, Start, execCallback | the loop of `worker.run` |
| removeWorker | its deferred `removeWorker` |

`select` chooses any ready case, so a timeout may be taken although the answer
is there.  A panic of a request goroutine is recovered by net/http, any other
one sets `dead`.  A worker's name is used again when nothing refers to it any
more; which of the free names a new worker gets means nothing, so it is any
fixed one.  Response bodies, statuses and flushes are one flag `closed` per
request here and the subject of the next module.

### ResponseChannel

One request: `caller` is the goroutine in `defaultHandle` and `wait`, `worker` the
one that runs the handler, `closed` the flag `isClosed` with the five channels.
An unbuffered send is a rendezvous, so a write takes the steps send/Transfer,
Serve (the connection), Respond.  `tried`, `told` and `written` count the writes the
handler called, was told of, and that reached the connection.

| action | code |
|---|---|
| Run, schedule | `session.Run`: the task is queued or refused; then `scheduleWithLock`, which may panic while a worker already has the task |
| Receive, Timeout, Transfer, Serve, Respond, Stop | the cases of `wait`; `select` may choose any ready one |
| TimeoutError, CallerTests, CallerCloses | the end of `defaultHandle`: the error page, `closeChannels`, `task.cancel` |
| Take, Start, Write, SendPanics, Return | the worker and `appTask.Run`, `Write`/`WriteHeader`/`Flush` |
| HandlerPanics | `execCallback` recovers and calls `onError`, which writes by the same channels |
| WorkerTests, WorkerCloses | its `closeChannels`: test and close are two steps |
| HeaderRace, Expire | the connection's header map written by both; the deadline, if there is one |

A panic of the request goroutine is recovered by net/http; one of `onError` is
recovered by nobody and sets `dead`.  `deadline` is chosen in Init: `defaultHandle`
sets one only if `task.to > 0`, and pprof and the download handler ask for none
(`SetProcessNoTimeout`); such a request never expires, and has no `task.cancel`.
The three panics of the request goroutine are told apart: `panicked` (the second
close of the channels), `detachPanicked` (Detach, after a timeout) and
`runPanicked` (the log line of a long queue, `workers.go:325`, which `workers_burst`
shows in `WorkerManager`: here it may happen to any accepted request).  After the
last two the channels stay open and nobody receives.

### HostPendingUsage

A host's free capacity is `Capacity - |desc| - pending`: the guests the cached
description counts and the units promised to others.  `session[s][h]` is the
`SessionPendingUsage` in the store, with its `count` and `members`
(PendingGuestIds); `ids` are those of the host.  The processes are the executor
of a hypervisor's sessions, the two workers of `ReloadCancelQueue`, the periodic
update, the cleanup request, the collector of sessions past their TTL, and the
region, which saves each guest and then sends an expire request.

| action | code |
|---|---|
| Candidates, Schedule | `execute`: descriptions fetched, then hosts chosen with the pending usage of that moment |
| AddPendingUsage, addSessionUsage | the lookup of the session's usage, and the rest under the host's lock |
| SaveScheduleResult, ClearSchedDescSessionCache, ClearSchedDescCache | the region; a save may fail, a request may get lost |
| batchMergeExpire | all that is in the channel becomes one task, or is dropped |
| processTask, GetCancelUsage, CancelOne | a worker: reload the hosts, then cancel entry by entry |
| Read, Build, Store, LoadFails | a load: the database, the description without the pending guests, the cache after the mutex |
| ReloadAll, ClearAllPendingUsage | the cleanup: its start, the load, and the sessions older than it |
| clearPendingUsageBefore, ClearSub, ClearHost, ClearSession | for each of them, without the host's lock: `GetPendingUsage`; `Sub` and `IsEmpty`; `store.Delete` or `store.Store` of the host's usage; `store.Delete` of the session |
| GCExpiredSessionUsages, GCCancel, GCDelete | the collector |

A unit stands for CPU, memory, disks, networks and devices, of which a session
asks the same for each guest.  Time is left out: a session may pass its TTL
whenever the executor is not at work on it.  `base` and `gap` are history: what the
read behind a description saw, and whether a load failed, was overtaken
("stale") or a session was cleared ("cleared").

What the cleanup has in hand is a pointer to the usage that others change under
the host's lock, and may delete.  `hand.at` says whether it is still the usage in
the store; if not, `hand.units` and `hand.ids` are what the cleanup will store over
whatever has been made anew.  `Sub` on it is a data race: `ClearSub` may compute with
the units of an earlier read, so that what others have done since is undone, or with
those before the step of somebody who is about to change them, so that its own
subtraction is.  `blank` are the hosts whose usage is in the store with no units,
between `Sub` and `Delete`.  `clash` is history too: the hosts whose usage the
executor, a worker or the collector changed while the cleanup was at a session
of that host.

### TaskMan, TaskManReasons, TaskManChain

`stage` and `row` are the columns that decide (`tasks_tbl.stage`, the stage and
status of `subtasks_tbl`); `queue` holds jobs (task, does the data say that
something failed); `owner` and `powner` are the object locks and the lock
`("tasks", id)` of a parent.  A goroutine, worker, canceller or starter, has
the local copies the Go code has: `loc` is the stage of the task it fetched,
`pstage` that of the parent it fetched, `some` the result of the first of the
two counting queries.  Every query and every lock is a step.

| action | code |
|---|---|
| StartTask | a request's `NewTask` without a parent and `ScheduleRun` |
| Take, fetchTask, Dispatch | `execTask`, `fetchTask`, `execITask` up to the locks |
| LockObject, Locked, Done | the sorted `LockObject` loop and the deferred releases |
| EndMethod, AskMethod, SpawnMethod, FailedMethod | the stage methods, by their pattern; FailedMethod is also the recovered panic |
| NoHandler | no method for the stage: `SetStageFailed` without the locks |
| NewTask, ScheduleRun, Spawned | a subtask: row of the task, row of the subtask with the parent's current stage, job |
| SetStage, SetStageComplete, SetStageFailed | with the early return for a failed copy, and db.Update's comparison with the copy |
| SaveResults, NotifyParent, GetTotalSubtasksCount, IsCurrentStageComplete | `NotifyParentTaskComplete`: the row is written before the parent's lock is taken |
| PerformAction | a callback from a remote agent |
| PerformCancel, cancel | the request, and the recursion over the subtasks in any order |
| Crash, Proceed | kill and restart: `failTimeoutTasks` over copies of all unfinished tasks; the API serves afterwards |

The stage methods belong to the services.  They are modelled by the three
patterns the services' tasks are written in: move to a stage, start subtasks,
end when called again; the same with a remote agent; end at once.  Queue and
locks are those of the modules below, one level more abstract: the queue is the
FIFO that `Ring_proofs` shows a `Ring` to be, and a lock is free or has an owner.
The two locks that a goroutine can hold twice (`ReentrantLock`) are not nested
here, so depth is left out.

`TaskManReasons` and `TaskManChain` add no state and no action: they define, over
the variables of `TaskMan`, what the proofs of `NoTaskForgotten`, and of
`ResultReachesParent` and `CompleteIsFinal`, need.

## Runs

States are distinct states; the longest runs take about two minutes, the others
seconds.

| run | instance | shows |
|---|---|---|
| lock | 3 goroutines, one with stray releases, 3 calls each (11,255) | MutualExclusion, NoLostWakeup, OnlyMisuseIsFatal, LockInv; the refinement of ReentrantLock with its fairness (GrantsFairly); WaitersServed |
| ring | 3 values, 4 places (1,610) | ImplementsFIFO, NilOutside |
| workers | 2 requests and a background task, 2 places, StuckSize 1 (236,694) | NoTaskLostOrRunTwice, ActiveListExact, RemovableWorkers, WorkerInv; AcceptedTasksRun |
| workers_drained, workers_idle, workers_burst | 1 worker, 2 tasks | violations, see Findings |
| response | a request with or without a deadline, whose handler writes up to MaxWrites times (1,279) | ToldIsWritten, AnswerComplete, ChannelPanicsNeedTimeout, ResponseInv; RequestEnds, HandlerReturns |
| task_batch | a batch over two objects, its two subtasks, 2 workers, a queue of 2, a cancel and a crash (1.16 million) | NoTaskForgotten, NoCircularWait, CompleteAfterSubtasks, TaskInv, ReasonsInv |
| task_chain | a chain of 3 tasks, the last with a remote agent, 2 crashes (27,128) | NoTaskForgotten, ResultReachesParent, ReasonsInv, ChainInv; CompleteIsFinal |
| task_cancelled | a task and a request that cancels it | violation, see Findings |
| reservations | one host with room for two, a session of two guests, 2 workers, a queue of 1, one event (788,363) | ReservationsExact, ReloadBeforeCancel, ReservationInv; Converges |
| uncounted | one host, one guest, no failure | violation, see Findings |

Why the bounds are enough:

- *locks*: a holder, a goroutine woken and one that barges in between are three;
  three calls with a limit of two reach the recursion limit.  The theorems lift
  the bounds.
- *ring*: with four places every relative position of the pointers occurs, full
  and empty; the theorems hold for every size.
- *workers*: two requests can share a worker one after the other and both detach
  it; a third task finds the ring full; there are as many names as the
  schedules of three tasks and the detaches of two requests can use.  The
  theorems lift the bounds.  StuckSize is 50 in the code: `workers` and
  `workers_burst` lower it to 1, so that the log line is reached.
- *response*: one request at a time uses its channels; the writes are alike, and
  after the first there is nothing new.  The theorems hold for every number.
- *tasks*: two subtasks are the smallest number that can report at the same time
  or before the other is started; two jobs of the batch (its own and that of the
  cancel) that lock the same two objects are the smallest circular wait; a queue
  of two is full when the batch has started both; a crash or a cancel in every
  state; `task_chain` crashes again during its own restart, and its middle task is
  both a subtask and a parent.  A callback is delivered once in `task_chain`.
  The theorems lift all these bounds, and keep what is not a bound: in `task_batch`
  only a whole tree is cancelled, in `task_chain` nothing is.
- *reservations*: two guests of a session on one host are the smallest case in which
  a session's usage is shared, cancelled twice and counted wrongly; two expire
  tasks and two workers overtake each other; a queue of one is full with the
  second.  `MaxEvents` bounds together what need not happen at all: requests
  without a session, cleanups, failed saves and loads, lost requests.  One such
  event is met by every interleaving of the rest; two sessions, three guests or
  two events were beyond what is checked in minutes.  The theorems lift the
  bounds of `ReservationsExact` and `ReloadBeforeCancel`, not their premises: see
  Findings for how narrow that of the first is.

Symmetry is used between goroutines, or workers, that the instance does not tell
apart, and never with a liveness property.

*Fairness.*  `FairStep`: Go's scheduler and `sync.Mutex` (which has a starvation
mode) let every runnable goroutine go on.  `FairRelease`: callers release in
deferred calls, so nobody keeps a lock for ever; an assumption on the callers.
`WaitersServed` needs that only finitely many calls barge in, which the bound
`MaxCalls` provides; with an endless stream of callers the code gives no such
guarantee, because a newcomer takes a free record before the waiter that was
woken.  In
`WorkerManager` the workers and the second half of `Run` are weakly fair:
goroutines that never block except on locks held for a moment, and tasks that
return.  Requests need no fairness: they may wait or time out.
`AcceptedTasksRun` says that an accepted task is run unless the process has died
or the queue is `Stranded`: a task in it, no active worker, and no call of Run
about to start one; `workers_drained` shows that this does happen.  `TaskMan` states
no liveness but `NoTaskForgotten`: *when nothing is queued or running*, every task
is over.  In `ResponseChannel` the request goroutine goes on and the deadline
comes if the request has one (a context with a timeout); nothing is assumed of
handlers, except in `HandlerReturns` and for the requests without a deadline in
`RequestEnds`, whose premise is that the worker goes on.  In
`HostPendingUsage` the goroutines go on and the tickers of the cache and of the
collector fire again and again.  All of it is weak fairness: the periodic update
may take the builder's mutex again and again before a worker, and `Converges`
holds nevertheless.

*Converges.*  In the end each description counts the saved guests of its host but
for those in the host's PendingGuestIds, and these are empty, or the host is in
`clash`.  The exception is needed.  Without it TLC finds this: the cleanup subtracts
a session's only unit (`pending_usage.go:338`) and deletes the empty usage of the
host; the executor adds another guest of the session, which is still in the store,
so that the new usage gets the guests of the session, old and new; the cleanup
deletes the session (line 350).  No session names that usage any more, nobody
subtracts from it, and `fillGuestsResourceInfo` skips the guests in it on every
later load.  What is left to say, and checked, is that it takes somebody at the
usage of the host during the cleanup's own steps: lost requests, dropped tasks,
overtaken loads, the collector's single subtraction and a cleanup that meets nobody
all converge.

Every property has a mutant: an operator `X_Something` defined in front of `X`,
a plausible slip in that code, under which TLC finds the property violated.

Deadlock is not checked where the system may really stop: all calls made, or the
process ended.

## Proofs

All eight proof modules extend the module they are about and assume nothing but
its named ASSUMEs, which are facts about constants: `Nobody` is not a goroutine,
`None` is neither worker nor task nor row, the goroutines have different names,
limits are (positive) naturals, nil is not a value that is pushed, object ids are
numbers.  Sets of goroutines, workers, tasks, hosts and keys are arbitrary, except
that what the code keeps in lists and tables is finite: in `HostPendingUsage`
guests, sessions and workers (their units are counted), in `TaskMan` tasks,
workers and the objects of a task.  Tasks form a forest: `TreeAssumption` gives each
a depth greater than its parent's, because `NewTask` is called with the id of a
parent that exists.  Two sets of theorems about `TaskMan` have a hypothesis,
`RootsOnly` or `Chain`, which is stated in the theorem and explained below.

**InMemoryLockManager_proofs.**  `MutualExclusion` is not inductive: it speaks of
`held` only, and the code decides by `holder` and `depth`.  `LockInv` adds
`RecordsTellTheTruth` (a record's depth is the number of grants of its holder,
all others have none, the waiters are those in `cond.Wait`), from which
exclusion is immediate; `HoldersUnlock` (whoever enters `unlockContext` without
holding is stray), needed for `OnlyMisuseIsFatal`; and `NoLostWakeup`, which is
inductive with them: a release signals if there are waiters, the waiters
are those parked or woken, and whoever takes a free record away from a woken
goroutine makes the premise false until the next release.
`Refinement` maps `held` to itself and `asked` to the key a goroutine is blocked
for: LockFree, LockAgain and WaitOver are Grant, which is allowed by
`RecordsTellTheTruth`; the rest is Ask, GiveBack or a stutter.

**Ring_proofs.**  `RingInv` says that a place is nil exactly if it is not between
tail and header, counted from tail with the wrap-around.  Lemmas `Pointers`,
`PushPlaces` and `PopPlaces` do the arithmetic once; `Refinement` maps the queue to
`Contents` and shows that Push appends to it, Pop takes its head, and full and
empty are those of a FIFO of `size` places.

**WorkerManager_proofs.**  `WorkerInv` joins `ActiveListExact`, `RemovableWorkers`,
`NoTaskLostOrRunTwice`, that a worker has a task exactly between Pop and the
return of the callback, that a worker that is gone is in no list, and that the
active list is finite.  `ActiveListExact` needs `RemovableWorkers`: Detach takes a
worker out of the active list only if its element is there.  Lemma
`ScheduleLists` treats `scheduleWithLock` once, for schedule and Detach.  With
arbitrarily many workers and tasks, at most `workerCount` are active, and an
accepted task is queued, in the hands of one worker, or has been run once.

**ResponseChannel_proofs.**  `ResponseInv` is inductive, for any number of writes.
`AnswerComplete` alone is not: that nothing is missing when the caller leaves
needs `NoWriteLost` (while the request is waited for, every write the handler
called was told to it, but for the one under way) and `ToldIsWritten`; that the
worker is done by then needs `ClosedInOrder` (channels are closed by a worker that
is done, or by a caller that has given up) and `RefusedInOrder` (a refused request
has no worker).  `ChannelPanicsNeedTimeout` follows from the same: a send or a close
finds the channels closed by the other side only after a timeout, and only a
request with a deadline times out (`DeadlineInOrder`).  The panic of Run in the
request goroutine needs no timeout; it leaves the channels open for good, so that
the handler, which may be running by then, can be kept waiting but not killed.
`NoChannelPanicWithoutTimeout` is this statement as a theorem.

**HostPendingUsage_proofs.**  `ReservationInv` is inductive, `ReservationsExact` and
`ReloadBeforeCancel` are not: they say nothing of what is under way.  The
invariant follows each expire request through the channel, the queue and the
workers (`EntriesInOrder`: it is in one place at a time, so that its unit is given
back once), ties the usages in a process's hand to the store (`SubsStored`,
`AddStored`), and counts.  `SessionsCovered`: a session's count on a host is at
least the guests whose unit is still to be given back plus the workers about to
subtract one, and at most the guests reserved; so a worker that subtracts never
finds a count of zero.
`HostsCovered` counts the same for a host's pending usage, together with the
placed guests that the description has not read: these two sets cannot be counted
apart, because a lost request keeps its unit and is none of the first.  It
rests on `WorkersHaveRead` and `LoadedFirst`: a worker has read every saved guest
of its task before it cancels.  `gap` says which parts are given up, and when: a
cleared session ends the first, a worker's failed load or an overtaken load the
second.  These are premises of the theorems: `Exact` is about the time until a
session is first cleared, and `ReloadFirst` about the order in which
`processTask` reloads and cancels while loads succeed and are stored in the order in
which they read, not about loads that fail or overtake each other.
`PendingBounded` holds even then: what the cleanup computes with, stores or brings
back was in bounds.  `CleanerStep` treats the steps of the cleanup, which happen
only after a session is cleared.  Lemmas `UnitsGrow` and `UnitsShrink` say how `Units` changes with a
count; `SessionsStay`, `HostsStay` and `QuietStep` treat the actions that leave
the counts alone.

**TaskMan_proofs.**  Two arguments, joined in `TaskInv`.  *Locks*
(`LocksInOrder`, `JobsInOrder`): who has the lock of an object is at work on a task
with that object, and what it still waits for is larger; who has the lock of a
parent waits for nothing.  In a set of goroutines that all wait for each other
nobody waits for a parent's lock, hence all wait for objects; the largest of these
(`HasLast`) has an owner that waits for a larger one.  *Subtasks*: one job runs a
task until it has subtasks (`OneRun`), so they are started once, one after the
other, by a goroutine that holds the task's objects (`SpawningInOrder`,
`OneSpawner`).  A subtask with some of these objects cannot have its method called
before that goroutine is done: either all the rows are there or the parent is over
(`StartedInOrder`, `Report`).  A row has the parent's stage "wait" unless the
parent is over (`RowsInOrder`), hence a report that succeeds counts all the
subtasks, and the parent is woken to go on only when all of them have a result
(`WokenInOrder`), which a subtask of one stage saves after its last stage was
written.  Crashes need no argument of their own: everything but the tables is
about goroutines and jobs, of which none is left.  `CalmStep`, `FinalStep`,
`WakeStep` and `ListStep` each treat a group of actions; `RunTaskFacts` says what
`runTask` does to the queue.

**TaskManReasons_proofs.**  `NothingForgotten` is `NoTaskForgotten` for every
forest of tasks, any number of workers, crashes, cancels and callbacks.  The
invariant `ReasonsInv` says that each task that is not over has a `Reason` to go on:
a job, or a goroutine on its way to write its stage (`Ending`), the canceller or
the starter that has it on the list (`Doomed`), its row of `subtasks_tbl` about to be
inserted (`Linking`, `Spawning`), an agent that has not called back (`Asking`), or a
subtask whose row is out or that somebody is about to report (`Awaited`).  The last
kind points from a task to a subtask, and this is where it could be lost:
`RowsKept` says that a row in "init" belongs to a subtask that is not over itself,
or is about to be saved, unless the parent is going to be failed anyway.  So when
nothing is queued, running or expected, the deepest task that is not over
(`DeepestOpen`, from the depths of `TreeAssumption`) would have to count on a
subtask that is over: no such task is left.  Each action takes at most one reason
away and leaves another: the one that clears the last row in "init" is the report
of that subtask, which goes on to count and to queue the parent, and if two of them
report at once, each has saved its row before it counts, so that the later one to
count sees both.  The
rest of the invariant follows the two lists (`ListsInOrder`, `StartedOver`): the
canceller comes to a parent after its subtasks, and until the API is served all
that runs is going to be failed.

The hypothesis `RootsOnly`: a request cancels tasks without a parent, and thereby
their trees.  It is needed.  A subtask cancelled by itself between the two inserts
of `NewTask` has no row to save its result in; the row inserted afterwards stays in
"init", and the parent waits for ever (see Findings).  If the parent is cancelled
too it is failed after its subtasks, which is the case the invariant covers.

**TaskManChain_proofs.**  `ResultsReachParents` and `CompletedForGood` are
`ResultReachesParent` and `CompleteIsFinal` for chains of tasks of any length, with
crashes, full queues and any number of workers.  Both rest on `ChainInv`: one job
or report at a time *leads* a task, that is, may still write its stage or tell its
parent.  The lead passes from the task to the subtask it starts and comes back
with the report (`LeadHandedOver`); while a goroutine has it, its copy of the stage
is the stage in the table, although it was read before the locks were taken
(`Knows`).  A parent that is woken to go on has a subtask that is complete, and a
goroutine about to fail a task knows that the task is not complete.  After a crash
nobody leads, and what the starter fails is not complete; its leads do not count
until the API is served (`Good`, `Fine`), because by then everything that was not
over has been failed.  `WakeChain` treats the actions that queue a job,
`CalmChain`, `FinalChain` and `WaitChain` the rest.

The hypothesis `Chain`: no task has two subtasks, nothing is cancelled and an agent
calls back at most once.  Each part is needed: two siblings may both wake the
parent, a second callback may come after the first one has ended the task, and a
cancel may come while it ends; each of them leaves a second lead, whose goroutine
finds a stage without a method and fails a task that is complete.  TLC shows each:
`CompleteIsFinal` is violated in the instance of `task_chain` with `MaxCalls = 2`,
with `BatchParent`, or with `Cancelled = {p}` and `MaxCancels = 1`; and
`NoTaskForgotten` with `Cancelled = {c1}` and `MaxCancels = 1`.

The attempt to prove `CompleteAfterSubtasks` for subtasks of any kind failed for a
good reason, see Findings; the condition `OneStage` is what the argument needs.

In each module `TypeCorrect` is the type invariant, a conjunct of the inductive one.

## Findings

- `workers_drained`: a worker that found the queue empty leaves the active list in
  another critical section.  A task pushed and scheduled in between has no worker
  until somebody calls Run again (`pkg/appsrv/workers.go:317`).
- `workers_idle`: a worker that is detached by two late timeouts stays in the
  detached list once too often, and the manager is busy for ever
  (`workers.go:123`, against the watchdog's exit).
- `workers_burst`: the log line of a long queue dereferences the task of a worker
  that has none yet (`workers.go:329`).
- `task_cancelled`: a task that completes while a request cancels it is turned
  into a failure, and its parent is told so
  (`pkg/cloudcommon/db/taskman/tasks.go:1609`).
- `uncounted`: a reload leaves out the guests that are pending, because their
  reservation counts them (`pkg/scheduler/cache/candidate/hosts.go:1548`), and the
  reservation is cancelled right after that reload: until another load of the
  host the guest is counted by neither, and its room is given to others.  No
  failure and no race is needed: the counterexample is the ordinary order of a
  single guest.  `ReloadBeforeCancel`, which does hold, is the order the comments
  promise.

Noticed on the way, without a run of its own:

- In `ResponseChannel`, a timeout while `onError` writes its page ends the process:
  the send on the closed channel panics inside the deferred recover.  The same
  timeout may find the handler setting a header while the error page sets
  another: Go ends the process for concurrent map writes.
  `ChannelPanicsNeedTimeout` says that the channels and the header of a request
  that has not timed out do no such harm.  When `Detach` panics, or `Run` after it has
  queued the task (the finding of `workers_burst`, without any timeout), the channels
  stay open, and the handler may wait for ever in its next write (hence the last
  case of `HandlerReturns`).
- In `HostPendingUsage`, the collector and the cleanup subtract a session once,
  whatever its count, and delete it.  What a session reserved for its other guests
  stays reserved on the host (`pending_usage.go:148` calls the collector a "safety
  net to avoid leaked pending usages"); and when all its units have been given back
  already, the subtraction takes a unit of another session.  The second is the
  ordinary case: a cancel never deletes a session, since its usage is what one
  guest asked for, so the collector finds each of them after 30 minutes.  Hence the
  premise of `ReservationsExact`, which ends for good with the first session
  cleared: the property is about the locking of adds and cancels, not about a
  scheduler that has been up for long.
- In `HostPendingUsage`, a reservation made while the cleanup clears a session of the
  same host can be left without a session, and its guests out of every description
  for ever (see Converges above).
- In `TaskMan`, a subtask with a second stage that is cancelled while its first
  one runs may come back to life: there is no method for the failure of the first
  stage, so the canceller fails the task without the object locks; the method,
  which has an older copy, then writes the next stage over the failure
  (`tasks.go:740`).  The parent has been told and may complete while the subtask
  goes on.  TLC shows it with `Async = {c1}`, `Cancelled = {c1}` in the instance of
  `task_batch`; `CompleteAfterSubtasks` is therefore about subtasks of one stage.
- `Ring.Range` visits nothing: `i != r.header` is false at the first test.  The
  filter for identical tasks in `worker.run` therefore never fires, which is why
  WorkerManager leaves it out.  Its only user is commented out.
- In `TaskMan`, beyond what the properties of the runs say: two subtasks on different
  objects that report at the same time can both queue their parent, and the
  second job finds it complete, without a method for that, and fails it, as does a
  second callback of an agent after the first has ended the task; a task
  that does not hold its subtasks' objects can be woken by an early subtask
  before it has started the others (hence the condition in
  `CompleteAfterSubtasks`); a parent of several subtasks is given the data of the
  last one to report only (hence the single subtask in `ResultReachesParent`);
  and a subtask that is itself cancelled between its two inserts leaves a row in
  "init" that its parent waits for (hence only the parent is in `Cancelled`, and
  the hypothesis `RootsOnly`).

## Limits

*Only model-checked*: the liveness properties `WaitersServed`, `AcceptedTasksRun`,
`RequestEnds`, `HandlerReturns`, `Converges` and the fairness part of the lock's
refinement, `GrantsFairly` (TLAPS has no proof of ENABLED and fairness here).
Every invariant of a run is stated by a theorem.  Those of `TaskMan` that are false
for some values of the constants (a subtask that is cancelled by itself, siblings
on different objects, a second callback: see Findings) are checked on instances
without these, and proved under the hypotheses `RootsOnly` and `Chain`, which say
just that.

*Left out of what is modelled*: database errors (a query that fails makes the
code log and return; only the full queue is modelled); a task's parameters,
pending usage and progress; tasks with a parent in another service and local
tasks; `UpdateWorkerCount` and the queue hooks, which nobody calls; contexts and
log lines, except those that dereference a pointer; in `Dispatch` of `TaskMan` the
failures for a missing manager or object, which write the stage without the object
locks (`tasks.go:538`, 574, 607); in `runTask` the panic of `worker.Run` after the push
(`worker.go:91`, the finding of `workers_burst`), which the recover of the method that
called it would turn into a failure of the task (`tasks.go:631`), so that
`ResultReachesParent` and `CompleteIsFinal` are about queues that are not long; in
the scheduler backup candidates, baremetals, the deletion of guests, the queues of
executors per hypervisor, and what a description holds besides guests.

*Left out of the usages of a host* (`pending_usage.go`): instance groups.  `Add`
stores the session's own pointer to a group (lines 666-672), so that a second `Add`
doubles the count of both, and the first `Sub` of two then deletes the group from
the host (lines 698-707); the unit of the model does not stand for them.  Further
the concurrent accesses to the maps of a usage by the cleanup and by the loads,
which take no lock and for which Go may end the process; and `Counted` takes the
guests of a host at one moment, where `hosts.go:1536-1551` looks each of them up in
the PendingGuestIds of that moment.

*Not modelled*: the parts of the plan that are still to come (quotas, election and
cron, sync and work manager, the etcd lock manager), and the services
themselves, which are nearly all of the repository's 800,000 lines: their code is tables, formats, cloud APIs and hypervisors, whose
coordination is that of the framework above.  The scheduler's predicates and
scores are functions over snapshots without concurrency of their own.  The
components in `PROJECT.json` name the reason for each.
