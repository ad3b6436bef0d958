---------------------------- MODULE ReentrantLock ----------------------------
(***************************************************************************)
(* What pkg/cloudcommon/db/lockman promises its callers through the        *)
(* ILockManager interface: for every key a reentrant lock.  A caller asks  *)
(* for a key, is granted it when nobody else holds it, may be granted it   *)
(* again while it holds it, and gives it back as often as it got it.       *)
(*                                                                         *)
(* Nothing is said about queues, wake-ups or the order of grants: LockKey  *)
(* makes no promise about them.                                            *)
(***************************************************************************)
EXTENDS Naturals

CONSTANTS Goroutine,    \* the callers
          Key           \* the keys of LockKey and UnlockKey

VARIABLES held,         \* held[g][k]: grants of k to g not yet given back
          asked         \* asked[g]: the keys g is blocked in LockKey for

vars == <<held, asked>>

\* Goroutines other than g have no grant of k.
Free(g, k) == \A h \in Goroutine \ {g} : held[h][k] = 0

Init == /\ held = [g \in Goroutine |-> [k \in Key |-> 0]]
        /\ asked = [g \in Goroutine |-> {}]

Ask(g, k) == /\ asked[g] = {}
             /\ asked' = [asked EXCEPT ![g] = {k}]
             /\ UNCHANGED held

Grant(g, k) == /\ k \in asked[g]
               /\ Free(g, k)
               /\ held' = [held EXCEPT ![g][k] = @ + 1]
               /\ asked' = [asked EXCEPT ![g] = {}]

GiveBack(g, k) == /\ asked[g] = {}
                  /\ held[g][k] > 0
                  /\ held' = [held EXCEPT ![g][k] = @ - 1]
                  /\ UNCHANGED asked

Next == \E g \in Goroutine, k \in Key :
           Ask(g, k) \/ Grant(g, k) \/ GiveBack(g, k)

Spec == Init /\ [][Next]_vars

\* A key that stays free while callers ask for it is granted to one of them.
Fairness == \A k \in Key : WF_vars(\E g \in Goroutine : Grant(g, k))

FairSpec == Spec /\ Fairness
=============================================================================
