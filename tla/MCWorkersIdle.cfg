\* One worker, detached by the late timeout of the request it has answered
\* and again by that of the next one.
CONSTANTS
    w1 = w1
    w2 = w2
    w3 = w3
    w4 = w4
    w5 = w5
    r1 = r1
    r2 = r2
    b1 = b1
    b2 = b2
    None = None
    Task = {r1, r2}
    Background = {}
    Worker = {w1, w2, w3}
    workerCount = 1
    backlog = 2
    StuckSize = 50
SPECIFICATION Spec
CHECK_DEADLOCK FALSE
INVARIANTS IdleIsNotBusy
