\* A chain of three tasks, the last of which asks a remote agent, and two crashes.
CONSTANTS
    p = p
    c1 = c1
    c2 = c2
    w1 = w1
    w2 = w2
    None = None
    Task = {p, c1, c2}
    Parent <- ChainParent
    Objs <- OwnObjs
    Async = {c2}
    FailedHandlers = {"wait"}
    Worker = {w1, w2}
    Canceller = canceller
    Starter = starter
    QueueSize = 2
    MaxCalls = 1
    Cancelled = {}
    MaxCancels = 0
    MaxCrashes = 2
SPECIFICATION Spec
INVARIANTS NoTaskForgotten ResultReachesParent ReasonsInv ChainInv
PROPERTIES CompleteIsFinal
\* Everything may be done.
CHECK_DEADLOCK FALSE
