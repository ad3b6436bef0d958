\* A batch of two that a request cancels and that a crash may interrupt.
CONSTANTS
    p = p
    c1 = c1
    c2 = c2
    w1 = w1
    w2 = w2
    None = None
    Task = {p, c1, c2}
    Parent <- BatchParent
    Objs <- BatchObjs
    Async = {}
    FailedHandlers = {"wait"}
    Worker = {w1, w2}
    Canceller = canceller
    Starter = starter
    QueueSize = 2
    MaxCalls = 0
    Cancelled = {p}
    MaxCancels = 1
    MaxCrashes = 1
SPECIFICATION Spec
SYMMETRY WorkersAlike
INVARIANTS TypeOK NoTaskForgotten NoCircularWait CompleteAfterSubtasks TaskInv ReasonsInv
\* Everything may be done.
CHECK_DEADLOCK FALSE
