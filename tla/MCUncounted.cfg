\* One guest on one host: saved, reloaded and cancelled.
CONSTANTS
    h1 = h1
    s1 = s1
    w1 = w1
    w2 = w2
    None = None
    Executor = executor
    Periodic = periodic
    Cleaner = cleaner
    Collector = collector
    Host = {h1}
    Capacity <- RoomForTwo
    Guest = {1}
    Session = {s1}
    SessionOf <- OneForAll
    Worker = {w1, w2}
    QueueSize = 1
    MaxEvents = 0
SPECIFICATION Spec
\* Everything may be done.
CHECK_DEADLOCK FALSE
INVARIANTS CountedOrReserved
