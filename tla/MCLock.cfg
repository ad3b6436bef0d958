\* Three goroutines and one key (two keys taken in opposite orders may deadlock
\* the callers, which is no fault of the locks).  One goroutine releases what it
\* does not hold; three calls with a nesting limit of two reach both fatalf of
\* the caller.
CONSTANTS
    g1 = g1
    g2 = g2
    g3 = g3
    k1 = k1
    Goroutine = {g1, g2, g3}
    Key = {k1}
    Nobody = Nobody
    MaxDepth = 2
    MaxCalls = 3
    Stray = {g1}
SPECIFICATION FairSpec
\* The process may end: fatalf, or every goroutine done.
CHECK_DEADLOCK FALSE
INVARIANTS TypeOK MutualExclusion NoLostWakeup OnlyMisuseIsFatal LockInv
PROPERTIES ImplementsReentrantLock GrantsFairly WaitersServed
