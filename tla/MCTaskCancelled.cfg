\* A task that ends while a request cancels it.
CONSTANTS
    p = p
    c1 = c1
    c2 = c2
    w1 = w1
    w2 = w2
    None = None
    Task = {p}
    Parent <- BatchParent
    Objs <- OwnObjs
    Async = {}
    FailedHandlers = {"wait"}
    Worker = {w1, w2}
    Canceller = canceller
    Starter = starter
    QueueSize = 2
    MaxCalls = 0
    Cancelled = {p}
    MaxCancels = 1
    MaxCrashes = 0
SPECIFICATION Spec
PROPERTIES CompleteIsFinal
\* Everything may be done.
CHECK_DEADLOCK FALSE
