------------------------ MODULE InMemoryLockManager ------------------------
(***************************************************************************)
(* SInMemoryLockManager of pkg/cloudcommon/db/lockman/inmemory.go: the     *)
(* reentrant per-key locks that the region services hold around every      *)
(* update of a model object.                                               *)
(*                                                                         *)
(* One record per key, created on demand and never deleted (UnlockKey      *)
(* discards the needClean that unlockContext returns).  A record has a     *)
(* holder, a nesting depth, a FIFO of waiters and a condition variable.    *)
(* The mutex rec.lock makes lockContext, up to cond.Wait, and              *)
(* unlockContext atomic; the lookup of the record, under tableLock, is a   *)
(* step of its own.                                                        *)
(*                                                                         *)
(* Two abstractions.  The order inside the FIFO is never read by the code  *)
(* (it is pushed, searched, popped by value and tested for emptiness), so  *)
(* waiter[k] is a set.  sync.Cond promises to wake one waiting goroutine,  *)
(* not which, so Signal wakes any goroutine parked on the record.          *)
(***************************************************************************)
EXTENDS Naturals, FiniteSets

CONSTANTS Goroutine,   \* the goroutine ids that goid.Get returns
          Key,         \* the lock keys
          Nobody,      \* holder -1
          MaxDepth,    \* the recursion limit, 32 in the code
          MaxCalls,    \* bound: LockKey calls a goroutine makes
          Stray        \* the goroutines that may release what they do not hold

ASSUME NobodyAssumption == Nobody \notin Goroutine
ASSUME BoundAssumption == /\ MaxDepth \in Nat \ {0}
                          /\ MaxCalls \in Nat
ASSUME StrayAssumption == Stray \subseteq Goroutine

VARIABLES
    lockTable,  \* the keys that have a record
    holder,     \* rec.holder
    depth,      \* rec.depth
    waiter,     \* rec.waiter
    pc,         \* where in LockKey or UnlockKey a goroutine is
    key,        \* the key of that call
    held,       \* held[g][k]: returned LockKey calls of g on k, less its UnlockKey calls
    calls,      \* the LockKey calls a goroutine has left
    fatal       \* the log.Fatalf that ended the process, "none" while it runs

recVars == <<holder, depth, waiter>>
vars == <<lockTable, holder, depth, waiter, pc, key, held, calls, fatal>>

(***************************************************************************)
(* pc: "run" outside the lock manager, "lock" with the record in hand and  *)
(* before rec.lock, "parked" in cond.Wait, "woken" by Signal but not yet   *)
(* holding rec.lock again, "unlock" before rec.lock in unlockContext.      *)
(***************************************************************************)
PC == {"run", "lock", "parked", "woken", "unlock"}
Fatal == {"none", "deep", "waiter", "unlock"}

newInMemoryLockRecord ==
    /\ holder = [k \in Key |-> Nobody]
    /\ depth = [k \in Key |-> 0]
    /\ waiter = [k \in Key |-> {}]

Init == /\ lockTable = {}
        /\ newInMemoryLockRecord
        /\ pc = [g \in Goroutine |-> "run"]
        /\ key \in [Goroutine -> Key]
        /\ held = [g \in Goroutine |-> [k \in Key |-> 0]]
        /\ calls = [g \in Goroutine |-> MaxCalls]
        /\ fatal = "none"

At(g, loc) == fatal = "none" /\ pc[g] = loc
Goto(g, loc) == pc' = [pc EXCEPT ![g] = loc]

\* log.Fatalf: the process ends.
fatalf(why) == /\ fatal' = why
               /\ UNCHANGED <<lockTable, recVars, pc, key, held, calls>>

\* Goroutines inside cond.Wait of k's record, and those Signal has released.
Parked(k) == {g \in Goroutine : pc[g] = "parked" /\ key[g] = k}
Woken(k) == {g \in Goroutine : pc[g] = "woken" /\ key[g] = k}

\* LockKey, first half: getRecordWithLock(ctx, key, true).
LockKey(g, k) ==
    /\ At(g, "run")
    /\ calls[g] > 0
    /\ calls' = [calls EXCEPT ![g] = @ - 1]
    /\ lockTable' = lockTable \cup {k}
    /\ key' = [key EXCEPT ![g] = k]
    /\ Goto(g, "lock")
    /\ UNCHANGED <<recVars, held, fatal>>

\* lockContext returns to the caller with the lock.
Locked(g) == /\ held' = [held EXCEPT ![g][key[g]] = @ + 1]
             /\ Goto(g, "run")
             /\ UNCHANGED <<lockTable, key, calls, fatal>>

\* rec.holder = curGoid; rec.depth = 1
Take(g) == /\ holder' = [holder EXCEPT ![key[g]] = g]
           /\ depth' = [depth EXCEPT ![key[g]] = 1]
           /\ Locked(g)

\* The record is free: taken even when others are waiting for it.
LockFree(g) ==
    /\ At(g, "lock")
    /\ holder[key[g]] = Nobody
    /\ Take(g)
    /\ UNCHANGED waiter

\* Mutant: the recursion limit is not checked.
LockAgain_NoLimit(g) ==
    /\ At(g, "lock")
    /\ holder[key[g]] = g
    /\ depth' = [depth EXCEPT ![key[g]] = @ + 1]
    /\ Locked(g)
    /\ UNCHANGED <<holder, waiter>>

\* The caller holds it already.
LockAgain(g) ==
    /\ At(g, "lock")
    /\ holder[key[g]] = g
    /\ IF depth[key[g]] + 1 > MaxDepth
       THEN fatalf("deep")
       ELSE /\ depth' = [depth EXCEPT ![key[g]] = @ + 1]
            /\ Locked(g)
            /\ UNCHANGED <<holder, waiter>>

\* Another goroutine holds it: join the waiters and wait.
LockWait(g) ==
    /\ At(g, "lock")
    /\ holder[key[g]] \notin {Nobody, g}
    /\ IF g \in waiter[key[g]]
       THEN fatalf("waiter")
       ELSE /\ waiter' = [waiter EXCEPT ![key[g]] = @ \cup {g}]
            /\ Goto(g, "parked")
            /\ UNCHANGED <<lockTable, holder, depth, key, held, calls, fatal>>

\* cond.Wait returns: the loop tests the holder again.
WaitAgain(g) ==
    /\ At(g, "woken")
    /\ holder[key[g]] # Nobody
    /\ Goto(g, "parked")
    /\ UNCHANGED <<lockTable, recVars, key, held, calls, fatal>>

\* Mutant: an if where the code has a for, so a wake-up takes the record blindly.
WaitOver_NoRetest(g) ==
    /\ At(g, "woken")
    /\ waiter' = [waiter EXCEPT ![key[g]] = @ \ {g}]
    /\ Take(g)

\* Mutant: the waiter is not popped.
WaitOver_NoPop(g) ==
    /\ At(g, "woken")
    /\ holder[key[g]] = Nobody
    /\ Take(g)
    /\ UNCHANGED waiter

WaitOver(g) ==
    /\ At(g, "woken")
    /\ holder[key[g]] = Nobody
    /\ waiter' = [waiter EXCEPT ![key[g]] = @ \ {g}]
    /\ Take(g)

\* UnlockKey, first half: getRecordWithLock(ctx, key, false).  For a key that
\* never had a record it logs a BUG line and returns, which is no step here.
UnlockKey(g, k) ==
    /\ At(g, "run")
    /\ held[g][k] > 0 \/ g \in Stray
    /\ k \in lockTable
    /\ key' = [key EXCEPT ![g] = k]
    /\ Goto(g, "unlock")
    /\ UNCHANGED <<lockTable, recVars, held, calls, fatal>>

\* Mutant: the release does not signal.
Signal_Forgotten(g, k) == Goto(g, "run")

\* cond.Signal(): external, wakes one goroutine parked on k, if there is one.
Signal(g, k) ==
    IF Parked(k) = {}
    THEN Goto(g, "run")
    ELSE \E h \in Parked(k) : pc' = [pc EXCEPT ![g] = "run", ![h] = "woken"]

unlockContext(g) ==
    /\ At(g, "unlock")
    /\ IF holder[key[g]] # g
       THEN fatalf("unlock")
       ELSE /\ depth' = [depth EXCEPT ![key[g]] = @ - 1]
            /\ held' = [held EXCEPT ![g][key[g]] = @ - 1]
            /\ IF depth[key[g]] - 1 = 0
               THEN /\ holder' = [holder EXCEPT ![key[g]] = Nobody]
                    /\ IF waiter[key[g]] = {} THEN Goto(g, "run")
                                              ELSE Signal(g, key[g])
               ELSE /\ Goto(g, "run")
                    /\ UNCHANGED holder
            /\ UNCHANGED <<lockTable, waiter, key, calls, fatal>>

\* What a goroutine does inside the lock manager.
Step(g) == \/ LockFree(g) \/ LockAgain(g) \/ LockWait(g)
           \/ WaitAgain(g) \/ WaitOver(g) \/ unlockContext(g)

Next == \E g \in Goroutine :
            \/ \E k \in Key : LockKey(g, k) \/ UnlockKey(g, k)
            \/ Step(g)

Spec == Init /\ [][Next]_vars

\* The Go scheduler and sync.Mutex let every runnable goroutine go on.
FairStep == \A g \in Goroutine : WF_vars(Step(g))

\* Callers release in a deferred call: nobody keeps a lock for ever.
FairRelease == \A g \in Goroutine :
                   WF_vars(\E k \in Key : held[g][k] > 0 /\ UnlockKey(g, k))

FairSpec == Spec /\ FairStep /\ FairRelease
-----------------------------------------------------------------------------
TypeOK ==
    /\ lockTable \subseteq Key
    /\ holder \in [Key -> Goroutine \cup {Nobody}]
    /\ depth \in [Key -> 0 .. MaxDepth]
    /\ waiter \in [Key -> SUBSET Goroutine]
    /\ pc \in [Goroutine -> PC]
    /\ key \in [Goroutine -> Key]
    /\ held \in [Goroutine -> [Key -> 0 .. MaxDepth]]
    /\ calls \in [Goroutine -> 0 .. MaxCalls]
    /\ fatal \in Fatal

\* Of the goroutines that LockKey has let through, and that have not released
\* as often, at most one is inside a key: a stray UnlockKey, a barging LockKey
\* or a late wake-up never lets a second one in.
MutualExclusion ==
    \A g, h \in Goroutine, k \in Key :
        held[g][k] > 0 /\ held[h][k] > 0 => g = h

\* When a record is free and goroutines wait for it, one of them has been
\* signalled and will look at the record: no release forgets the waiters, even
\* though unlockContext signals one goroutine only and lockContext lets a
\* newcomer take the record before the one that was signalled.
NoLostWakeup ==
    \A k \in Key : holder[k] = Nobody /\ Parked(k) # {} => Woken(k) # {}

\* The process ends in fatalf for the caller's mistake only: nesting deeper
\* than the limit, or a stray release.  "try to lock from a waiter context" is
\* never reached.
OnlyMisuseIsFatal ==
    /\ fatal # "waiter"
    /\ fatal = "unlock" => \E g \in Stray : held[g][key[g]] = 0
    /\ fatal = "deep" => \E g \in Goroutine : held[g][key[g]] = MaxDepth

\* The records agree with what the callers were told: the depth of a record is
\* the number of grants its holder has, everybody else has none, and the
\* waiters are the goroutines blocked in cond.Wait.
RecordsTellTheTruth ==
    /\ \A k \in Key : holder[k] = Nobody <=> depth[k] = 0
    /\ \A g \in Goroutine, k \in Key :
           held[g][k] = IF holder[k] = g THEN depth[k] ELSE 0
    /\ \A g \in Goroutine, k \in Key :
           g \in waiter[k] <=> g \in Parked(k) \cup Woken(k)

\* Only a stray goroutine enters unlockContext without holding the key.
HoldersUnlock ==
    \A g \in Goroutine : pc[g] = "unlock" => held[g][key[g]] > 0 \/ g \in Stray

\* The inductive invariant.
LockInv == /\ TypeOK
           /\ RecordsTellTheTruth
           /\ HoldersUnlock
           /\ NoLostWakeup
           /\ OnlyMisuseIsFatal

\* A goroutine that waits in lockContext gets the lock, when every holder
\* releases and only finitely many calls barge in (MaxCalls per goroutine),
\* unless a fatalf ends the process first.
WaitersServed ==
    \A g \in Goroutine :
        pc[g] \in {"lock", "parked", "woken"} ~> pc[g] = "run" \/ fatal # "none"

\* The promise to the callers: the record, the queue and the condition variable
\* implement a reentrant lock per key.
Promise == INSTANCE ReentrantLock
    WITH asked <- [g \in Goroutine |->
                     IF pc[g] \in {"lock", "parked", "woken"} THEN {key[g]} ELSE {}]

ImplementsReentrantLock == Promise!Spec

\* While no fatalf ends the process, a key that stays free is granted to one of
\* the callers that ask for it.
GrantsFairly == [](fatal = "none") => Promise!Fairness
=============================================================================
