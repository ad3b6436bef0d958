---------------------------- MODULE ResponseChannel ----------------------------
(***************************************************************************)
(* The answer to an HTTP request (pkg/appsrv/response.go): the handler     *)
(* runs in a worker and writes through unbuffered channels to the request  *)
(* goroutine, which alone writes to the connection (defaultHandle, wait).  *)
(*                                                                         *)
(* Either side may close the channels: the worker when the handler is      *)
(* done, the request goroutine when the request has timed out.  isClosed   *)
(* is tested without a lock: a send or a second close may panic.  A panic  *)
(* of the worker is recovered by execCallback, whose onError writes an     *)
(* error page through the same channels and closes them; a panic of        *)
(* onError itself is recovered by nobody.                                  *)
(*                                                                         *)
(* Not every request can time out: a handler may ask for no timeout        *)
(* (SetProcessNoTimeout: pprof, downloads), and its context then has no    *)
(* deadline and nobody to cancel it.  And the request goroutine may not    *)
(* get as far as wait: Run queues the task first and then schedules, where *)
(* the log line of a long queue may panic (WorkerManager); the task is     *)
(* queued all the same, and nobody will ever receive or close.             *)
(*                                                                         *)
(* One request.  Write, WriteHeader and Flush are alike and are all called *)
(* writes; isClosed is set and the channels are closed in one step, since  *)
(* nobody does between them what he could not do before or after.  The     *)
(* queue and the workers are those of WorkerManager.                       *)
(***************************************************************************)
EXTENDS Naturals

CONSTANT MaxWrites     \* bound: how often a handler writes

ASSUME WritesAssumption == MaxWrites \in Nat

VARIABLES
    caller,    \* where the request goroutine is
    worker,    \* where the worker is with this request
    mode,      \* "run", or "onError" after a panic
    left,      \* how often the worker may still write
    known,     \* wait has received the worker
    deadline,  \* task.to > 0: ctx has a deadline, and task.cancel is set
    expired,   \* ctx is done
    closed,    \* isClosed, and the channels are
    tried,     \* the writes called by the worker
    told,      \*    those it was told the outcome of
    written,   \*    those made to the connection
    answer,    \* what the request goroutine has written by itself
    dead       \* the process has died

counts == <<tried, told, written>>
vars == <<caller, worker, mode, left, known, deadline, expired, closed, counts,
          answer, dead>>

CallerPC == {"run", "schedule", "wait", "serve", "respond", "error", "close", "closing",
             "left", "panicked", "detachPanicked", "runPanicked"}
WorkerPC == {"none", "queued", "start", "handler", "send", "recv", "close", "closing", "done"}

\* HTTPError writes a header and a body.
ErrorWrites == 2

Init == /\ caller = "run" /\ worker = "none"
        /\ mode = "run" /\ left = MaxWrites
        /\ deadline \in BOOLEAN
        /\ known = FALSE /\ expired = FALSE /\ closed = FALSE
        /\ tried = 0 /\ told = 0 /\ written = 0
        /\ answer = "none" /\ dead = FALSE

CallerAt(from) == ~dead /\ caller = from
WorkerAt(from) == ~dead /\ worker = from

\* Mutant: closeChannels does not test.
MustClose_Always == TRUE

\* closeChannels goes on.
MustClose == ~closed
-----------------------------------------------------------------------------
(***************************************************************************)
(* The request goroutine.                                                  *)
(***************************************************************************)
\* The deferred task.cancel, if there is one, ends the context.
Cancel == expired' = deadline

\* session.Run: the task is queued, or the queue is full.
Run ==
    /\ CallerAt("run")
    /\ \/ caller' = "schedule" /\ worker' = "queued" /\ UNCHANGED answer
       \/ caller' = "close" /\ answer' = "refused" /\ UNCHANGED worker
    /\ UNCHANGED <<mode, left, known, deadline, expired, closed, counts, dead>>

\* Run goes on to schedule while a worker may have the task already.  It panics
\* if the queue is long and the oldest worker has not taken a task yet.
schedule ==
    /\ CallerAt("schedule")
    /\ \/ caller' = "wait" /\ UNCHANGED expired
       \/ caller' = "runPanicked" /\ Cancel
    /\ UNCHANGED <<worker, mode, left, known, deadline, closed, counts, answer, dead>>

\* The deadline of the request, if it has one.
Expire ==
    /\ ~dead /\ deadline /\ ~expired
    /\ expired' = TRUE
    /\ UNCHANGED <<caller, worker, mode, left, known, deadline, closed, counts, answer, dead>>

\* wait: case curWorker, more := <-workerChan
Receive ==
    /\ CallerAt("wait") /\ ~known
    /\ worker \notin {"none", "queued"}
    /\ known' = TRUE
    /\ UNCHANGED <<caller, worker, mode, left, deadline, expired, closed, counts, answer,
                   dead>>

\* Mutant: nobody looks at the deadline before there is a worker.
Timeout_Known ==
    /\ CallerAt("wait") /\ expired /\ known
    /\ caller' \in {"error", "detachPanicked"}
    /\ UNCHANGED <<worker, mode, left, known, deadline, expired, closed, counts, answer, dead>>

\* wait: case <-ctx.Done(), which select may prefer to other cases.  Detach of a
\* worker that has just left, or not started, panics (WorkerManager).
Timeout ==
    /\ CallerAt("wait") /\ expired
    /\ caller' \in IF known THEN {"error", "detachPanicked"} ELSE {"error"}
    /\ UNCHANGED <<worker, mode, left, known, deadline, expired, closed, counts, answer, dead>>

\* wait: case bytes, more := <-w.bodyChan, and those of the status and the flush.
Transfer ==
    /\ CallerAt("wait") /\ worker = "send" /\ ~closed
    /\ caller' = "serve"
    /\ worker' = "recv"
    /\ UNCHANGED <<mode, left, known, deadline, expired, closed, counts, answer, dead>>

\* Mutant: the write is confirmed and not made.
Serve_Lost ==
    /\ CallerAt("serve")
    /\ caller' = "respond"
    /\ UNCHANGED <<worker, mode, left, known, deadline, expired, closed, counts, answer, dead>>

\* w.backend.Write
Serve ==
    /\ CallerAt("serve")
    /\ written' = written + 1
    /\ caller' = "respond"
    /\ UNCHANGED <<worker, mode, left, known, deadline, expired, closed, tried, told, answer, dead>>

\* w.bodyResp <- ..., which the worker waits for.
Respond ==
    /\ CallerAt("respond") /\ worker = "recv"
    /\ told' = told + 1
    /\ caller' = "wait"
    /\ worker' = "handler"
    /\ UNCHANGED <<mode, left, known, deadline, expired, closed, tried, written, answer, dead>>

\* wait: the channels are closed.
Stop ==
    /\ CallerAt("wait") /\ closed
    /\ caller' = "close"
    /\ UNCHANGED <<worker, mode, left, known, deadline, expired, closed, counts, answer, dead>>

\* GeneralServerError(task.ctx, w, je): past the channels.
TimeoutError ==
    /\ CallerAt("error")
    /\ answer' = "timeout"
    /\ caller' = "close"
    /\ UNCHANGED <<worker, mode, left, known, deadline, expired, closed, counts, dead>>

\* task.fw.closeChannels(): the test.
CallerTests ==
    /\ CallerAt("close")
    /\ caller' = IF MustClose THEN "closing" ELSE "left"
    /\ IF MustClose THEN UNCHANGED expired ELSE Cancel
    /\ UNCHANGED <<worker, mode, left, known, deadline, closed, counts, answer, dead>>

\* Mutant: the channels stay open.
CallerCloses_Not ==
    /\ CallerAt("closing")
    /\ caller' = "left"
    /\ Cancel
    /\ UNCHANGED <<worker, mode, left, known, deadline, closed, counts, answer, dead>>

\* The channels are closed, by whoever is first; the second panics, which
\* net/http recovers.
CallerCloses ==
    /\ CallerAt("closing")
    /\ caller' = IF closed THEN "panicked" ELSE "left"
    /\ closed' = TRUE
    /\ Cancel
    /\ UNCHANGED <<worker, mode, left, known, deadline, counts, answer, dead>>
-----------------------------------------------------------------------------
(***************************************************************************)
(* The worker.                                                             *)
(***************************************************************************)
\* A panic of Run: execCallback recovers and calls onError.  A panic of onError.
Panic == IF mode = "run"
         THEN /\ mode' = "onError"
              /\ left' = ErrorWrites
              /\ worker' = "handler"
              /\ UNCHANGED dead
         ELSE /\ dead' = TRUE
              /\ UNCHANGED <<mode, left, worker>>

\* A worker of the manager takes the task and tells the request goroutine.
Take ==
    /\ WorkerAt("queued")
    /\ worker' = "start"
    /\ UNCHANGED <<caller, mode, left, known, deadline, expired, closed, counts, answer, dead>>

\* appTask.Run: no handler for a request that has timed out.
Start ==
    /\ WorkerAt("start")
    /\ worker' = IF expired THEN "close" ELSE "handler"
    /\ UNCHANGED <<caller, mode, left, known, deadline, expired, closed, counts, answer, dead>>

\* Write, WriteHeader, Flush: the test of isClosed.  An error when it is.
Write ==
    /\ WorkerAt("handler") /\ left > 0
    /\ left' = left - 1
    /\ tried' = tried + 1
    /\ worker' = IF closed THEN "handler" ELSE "send"
    /\ UNCHANGED <<caller, mode, known, deadline, expired, closed, told, written, answer, dead>>

\* The channel has been closed before anybody received.
SendPanics ==
    /\ WorkerAt("send") /\ closed
    /\ Panic
    /\ UNCHANGED <<caller, known, deadline, expired, closed, counts, answer>>

\* Header is the map of the connection, which HTTPError of the request goroutine
\* may be writing to: the runtime ends the process.
HeaderRace ==
    /\ WorkerAt("handler") /\ ~closed /\ caller = "error"
    /\ dead' = TRUE
    /\ UNCHANGED <<caller, worker, mode, left, known, deadline, expired, closed, counts, answer>>

HandlerPanics ==
    /\ WorkerAt("handler") /\ mode = "run"
    /\ Panic
    /\ UNCHANGED <<caller, known, deadline, expired, closed, counts, answer>>

\* The handler returns when it likes, onError when it has written the error page.
Return ==
    /\ WorkerAt("handler")
    /\ mode = "run" \/ left = 0
    /\ worker' = "close"
    /\ UNCHANGED <<caller, mode, left, known, deadline, expired, closed, counts, answer, dead>>

\* t.fw.closeChannels(), and that of onError.
WorkerTests ==
    /\ WorkerAt("close")
    /\ worker' = IF MustClose THEN "closing" ELSE "done"
    /\ UNCHANGED <<caller, mode, left, known, deadline, expired, closed, counts, answer, dead>>

WorkerCloses ==
    /\ WorkerAt("closing")
    /\ IF closed THEN Panic
                 ELSE worker' = "done" /\ UNCHANGED <<mode, left, dead>>
    /\ closed' = TRUE
    /\ UNCHANGED <<caller, known, deadline, expired, counts, answer>>
-----------------------------------------------------------------------------
Call == \/ Run \/ schedule \/ Receive \/ Timeout \/ Transfer \/ Serve \/ Respond \/ Stop
        \/ TimeoutError \/ CallerTests \/ CallerCloses

Work == \/ Take \/ Start \/ Write \/ SendPanics \/ HeaderRace \/ HandlerPanics
        \/ Return \/ WorkerTests \/ WorkerCloses

Next == Call \/ Work \/ Expire

Spec == Init /\ [][Next]_vars

\* The request goroutine goes on, and a deadline comes if there is one.  Nothing is
\* assumed of handlers, which may take for ever, nor of the queue.
FairSpec == Spec /\ WF_vars(Call) /\ WF_vars(Expire)
-----------------------------------------------------------------------------
TypeOK ==
    /\ caller \in CallerPC
    /\ worker \in WorkerPC
    /\ mode \in {"run", "onError"}
    /\ left \in Nat
    /\ known \in BOOLEAN /\ deadline \in BOOLEAN /\ expired \in BOOLEAN
    /\ closed \in BOOLEAN
    /\ tried \in Nat /\ told \in Nat /\ written \in Nat
    /\ answer \in {"none", "timeout", "refused"}
    /\ dead \in BOOLEAN

\* The request goroutine has left wait by ctx.Done().
TimedOut == caller \in {"error", "detachPanicked"} \/ answer = "timeout"

\* A handler that waits for the outcome of a write is never left alone: the
\* request goroutine is at that very write, and nobody closes the channels
\* under it.  So what a handler is told to be written is written, once.
ToldIsWritten ==
    /\ worker = "recv" <=> caller \in {"serve", "respond"}
    /\ worker = "recv" => ~closed
    /\ written = IF caller = "respond" THEN told + 1 ELSE told

\* Unless the request times out or is refused, the client gets all that the
\* handler has written, and the error page when the handler has panicked: the
\* request goroutine does not leave before.
AnswerComplete ==
    caller = "left" /\ answer = "none" => written = tried /\ worker = "done"

\* Only a timeout can make the request goroutine close the channels a second time,
\* or the process die of a send, a close or a header: the panic of a handler alone
\* does neither, nor does a handler that outlives a request goroutine that Run has
\* killed after queueing the task.
ChannelPanicsNeedTimeout == dead \/ caller = "panicked" => deadline /\ TimedOut

\* The channels are closed by the worker, which is then done with the request, or
\* by a request goroutine that does not wait for the answer any more.
ClosedInOrder ==
    /\ closed => worker = "done" \/ caller \in {"left", "panicked"}
    /\ closed /\ worker # "done" => TimedOut \/ answer = "refused"
    /\ caller = "closing" => answer # "none"
    /\ caller \in {"close", "left"} /\ answer = "none" => closed /\ worker = "done"

\* A request that is refused has no worker.
RefusedInOrder ==
    /\ worker = "none" <=> caller = "run" \/ answer = "refused"
    /\ caller \in {"run", "schedule", "wait", "serve", "respond", "error", "runPanicked"}
          => answer = "none"
    /\ caller = "run" => ~closed
    /\ answer = "refused" => /\ caller \in {"close", "closing", "left"}
                             /\ caller # "left" => ~closed

\* As long as the request is waited for, no write is lost.
NoWriteLost ==
    ~TimedOut => tried = IF worker \in {"send", "recv"} THEN told + 1 ELSE told

\* Only what has a deadline ends, and only what has ended has timed out.
DeadlineInOrder == (expired => deadline) /\ (TimedOut => expired)

\* The inductive invariant.
ResponseInv == /\ TypeOK
               /\ ToldIsWritten
               /\ AnswerComplete
               /\ ChannelPanicsNeedTimeout
               /\ ClosedInOrder
               /\ RefusedInOrder
               /\ NoWriteLost
               /\ DeadlineInOrder

\* The request goroutine has returned or panicked.
Ended == caller \in {"left", "panicked", "detachPanicked", "runPanicked"} \/ dead

\* Every accepted request that has a deadline ends, whatever its handler does; one
\* that has none ends if workers go on and its handler returns.
RequestEnds ==
    /\ caller = "schedule" /\ deadline ~> Ended
    /\ WF_vars(Work) => (caller = "schedule" ~> Ended)

\* Every worker gets out of the handler if it goes on and the handler returns,
\* also when the request goroutine has gone while the handler was about to
\* write; unless Detach or Run has panicked and left the channels open: a write
\* after that is never received.
HandlerReturns ==
    WF_vars(Work) => (worker = "start" ~>
                         \/ worker = "done" \/ dead
                         \/ worker = "send" /\ caller \in {"detachPanicked", "runPanicked"})
=============================================================================
