\* One worker that has not started its first task when the queue gets longer
\* than StuckSize.
CONSTANTS
    w1 = w1
    w2 = w2
    w3 = w3
    w4 = w4
    w5 = w5
    r1 = r1
    r2 = r2
    b1 = b1
    b2 = b2
    None = None
    Task = {b1, b2}
    Background = {b1, b2}
    Worker = {w1, w2}
    workerCount = 1
    backlog = 2
    StuckSize = 1
SPECIFICATION Spec
CHECK_DEADLOCK FALSE
INVARIANTS RunNeverPanics
