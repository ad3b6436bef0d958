\* One host with room for two, a session of two guests, the two workers of the
\* queue, and one event: a failure, a cleanup or a request without session.
CONSTANTS
    h1 = h1
    s1 = s1
    w1 = w1
    w2 = w2
    None = None
    Executor = executor
    Periodic = periodic
    Cleaner = cleaner
    Collector = collector
    Host = {h1}
    Capacity <- RoomForTwo
    Guest = {1, 2}
    Session = {s1}
    SessionOf <- OneForAll
    Worker = {w1, w2}
    QueueSize = 1
    MaxEvents = 1
SPECIFICATION FairSpec
\* Everything may be done.
CHECK_DEADLOCK FALSE
INVARIANTS TypeOK ReservationsExact ReloadBeforeCancel ReservationInv
PROPERTIES Converges
