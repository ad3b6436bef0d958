\* Two requests and a background task on two workers.  The ring has two
\* places, so that a third task is refused, and a queue of two is already long
\* enough for the log line of the stuck queue.  Two schedules, two detaches and
\* one more task start at most five workers.
CONSTANTS
    w1 = w1
    w2 = w2
    w3 = w3
    w4 = w4
    w5 = w5
    r1 = r1
    r2 = r2
    b1 = b1
    b2 = b2
    None = None
    Task = {r1, r2, b1}
    Background = {b1}
    Worker = {w1, w2, w3, w4, w5}
    workerCount = 2
    backlog = 1
    StuckSize = 1
SPECIFICATION FairSpec
\* Everybody may be done, or the process dead.
CHECK_DEADLOCK FALSE
INVARIANTS TypeOK NoTaskLostOrRunTwice ActiveListExact RemovableWorkers WorkerInv
PROPERTIES AcceptedTasksRun
