--------------------- MODULE InMemoryLockManager_proofs ---------------------
(***************************************************************************)
(* Proofs about InMemoryLockManager, for any goroutines, keys, nesting     *)
(* limit and number of calls.                                              *)
(***************************************************************************)
EXTENDS InMemoryLockManager, TLAPS

\* The records start free, with nobody waiting.
LEMMA InitInv == Init => LockInv
  BY NobodyAssumption, BoundAssumption
     DEF Init, newInMemoryLockRecord, LockInv, TypeOK, RecordsTellTheTruth,
         HoldersUnlock, NoLostWakeup, OnlyMisuseIsFatal, Parked, Woken, PC, Fatal

\* Every step of LockKey and UnlockKey keeps the records, the waiters and the
\* wake-ups in order.
LEMMA NextInv == LockInv /\ [Next]_vars => LockInv'
<1> SUFFICES ASSUME LockInv, [Next]_vars PROVE LockInv'
  OBVIOUS
<1> USE NobodyAssumption, BoundAssumption, StrayAssumption
        DEF LockInv, TypeOK, PC, Fatal, Parked, Woken
<1>1. ASSUME NEW g \in Goroutine, NEW k \in Key, LockKey(g, k) PROVE LockInv'
  <2> USE <1>1 DEF LockKey, At, Goto, recVars
  <2>1. TypeOK'
    BY DEF RecordsTellTheTruth
  <2>2. RecordsTellTheTruth'
    BY DEF RecordsTellTheTruth
  <2>3. HoldersUnlock'
    BY DEF HoldersUnlock, RecordsTellTheTruth
  <2>4. NoLostWakeup'
    BY DEF NoLostWakeup, RecordsTellTheTruth
  <2>5. OnlyMisuseIsFatal'
    BY DEF OnlyMisuseIsFatal, HoldersUnlock, RecordsTellTheTruth
  <2> QED
    BY <2>1, <2>2, <2>3, <2>4, <2>5
<1>2. ASSUME NEW g \in Goroutine, NEW k \in Key, UnlockKey(g, k) PROVE LockInv'
  <2> USE <1>2 DEF UnlockKey, At, Goto, recVars
  <2>1. TypeOK'
    BY DEF RecordsTellTheTruth
  <2>2. RecordsTellTheTruth'
    BY DEF RecordsTellTheTruth
  <2>3. HoldersUnlock'
    BY DEF HoldersUnlock, RecordsTellTheTruth
  <2>4. NoLostWakeup'
    BY DEF NoLostWakeup, RecordsTellTheTruth
  <2>5. OnlyMisuseIsFatal'
    BY DEF OnlyMisuseIsFatal, HoldersUnlock, RecordsTellTheTruth
  <2> QED
    BY <2>1, <2>2, <2>3, <2>4, <2>5
<1>3. ASSUME NEW g \in Goroutine, LockFree(g) PROVE LockInv'
  <2> USE <1>3 DEF LockFree, Take, Locked, At, Goto
  <2>1. TypeOK'
    BY DEF RecordsTellTheTruth
  <2>2. RecordsTellTheTruth'
    BY DEF RecordsTellTheTruth
  <2>3. HoldersUnlock'
    BY DEF HoldersUnlock, RecordsTellTheTruth
  <2>4. NoLostWakeup'
    BY DEF NoLostWakeup, RecordsTellTheTruth
  <2>5. OnlyMisuseIsFatal'
    BY DEF OnlyMisuseIsFatal, HoldersUnlock, RecordsTellTheTruth
  <2> QED
    BY <2>1, <2>2, <2>3, <2>4, <2>5
<1>4. ASSUME NEW g \in Goroutine, LockAgain(g) PROVE LockInv'
  <2> DEFINE k == key[g]
  <2>0. /\ k \in Key /\ holder[k] = g /\ held[g][k] = depth[k]
        /\ fatal = "none" /\ pc[g] = "lock"
        /\ \A h \in Goroutine \ {g} : held[h][k] = 0
    BY <1>4 DEF LockAgain, At, RecordsTellTheTruth
  <2>1. CASE depth[k] + 1 > MaxDepth
    <3>1. fatal' = "deep" /\ UNCHANGED <<lockTable, recVars, pc, key, held, calls>>
      BY <1>4, <2>1 DEF LockAgain, fatalf
    <3>2. depth[k] = MaxDepth
      <4>1. depth[k] \in 0 .. MaxDepth /\ MaxDepth \in Nat
        BY <2>0
      <4> HIDE DEF k
      <4> QED
        BY ONLY <4>1, <2>1
    <3>3. OnlyMisuseIsFatal'
      BY <3>1, <3>2, <2>0 DEF OnlyMisuseIsFatal
    <3> QED
      BY <3>1, <3>3 DEF recVars, RecordsTellTheTruth, HoldersUnlock, NoLostWakeup
  <2>2. CASE ~(depth[k] + 1 > MaxDepth)
    <3>1. /\ depth' = [depth EXCEPT ![k] = @ + 1]
          /\ held' = [held EXCEPT ![g][k] = @ + 1]
          /\ pc' = [pc EXCEPT ![g] = "run"]
          /\ UNCHANGED <<lockTable, holder, waiter, key, calls, fatal>>
      BY <1>4, <2>2 DEF LockAgain, Locked, Goto
    <3>2. depth[k] + 1 \in 1 .. MaxDepth
      BY <2>0, <2>2
    <3>3. TypeOK'
      BY <3>1, <3>2, <2>0
    <3>4. RecordsTellTheTruth'
      <4>1. \A l \in Key : holder'[l] = Nobody <=> depth'[l] = 0
        BY <3>1, <3>2, <2>0 DEF RecordsTellTheTruth
      <4>2. \A h \in Goroutine, l \in Key :
               held'[h][l] = IF holder'[l] = h THEN depth'[l] ELSE 0
        BY <3>1, <2>0 DEF RecordsTellTheTruth
      <4>3. \A h \in Goroutine, l \in Key :
               h \in waiter'[l] <=> h \in (Parked(l) \cup Woken(l))'
        BY <3>1, <2>0 DEF RecordsTellTheTruth
      <4> QED
        BY <4>1, <4>2, <4>3 DEF RecordsTellTheTruth
    <3>5. HoldersUnlock'
      BY <3>1, <2>0 DEF HoldersUnlock
    <3>6. NoLostWakeup'
      BY <3>1, <2>0 DEF NoLostWakeup
    <3>7. OnlyMisuseIsFatal'
      BY <3>1, <2>0 DEF OnlyMisuseIsFatal
    <3> QED
      BY <3>3, <3>4, <3>5, <3>6, <3>7
  <2> QED
    BY <2>1, <2>2
<1>5. ASSUME NEW g \in Goroutine, LockWait(g) PROVE LockInv'
  <2> DEFINE k == key[g]
  <2>1. /\ k \in Key /\ fatal = "none" /\ pc[g] = "lock"
        /\ holder[k] # Nobody
        /\ g \notin waiter[k]
    BY <1>5 DEF LockWait, At, RecordsTellTheTruth
  <2>2. /\ waiter' = [waiter EXCEPT ![k] = @ \cup {g}]
        /\ pc' = [pc EXCEPT ![g] = "parked"]
        /\ UNCHANGED <<lockTable, holder, depth, key, held, calls, fatal>>
    BY <1>5, <2>1 DEF LockWait, Goto
  <2>3. TypeOK'
    BY <2>1, <2>2
  <2>4. RecordsTellTheTruth'
    BY <2>1, <2>2 DEF RecordsTellTheTruth
  <2>5. HoldersUnlock'
    BY <2>1, <2>2 DEF HoldersUnlock
  <2>6. NoLostWakeup'
    BY <2>1, <2>2 DEF NoLostWakeup
  <2>7. OnlyMisuseIsFatal'
    BY <2>1, <2>2 DEF OnlyMisuseIsFatal
  <2> QED
    BY <2>3, <2>4, <2>5, <2>6, <2>7
<1>6. ASSUME NEW g \in Goroutine, WaitAgain(g) PROVE LockInv'
  <2> USE <1>6 DEF WaitAgain, At, Goto, recVars
  <2>1. TypeOK'
    BY DEF RecordsTellTheTruth
  <2>2. RecordsTellTheTruth'
    BY DEF RecordsTellTheTruth
  <2>3. HoldersUnlock'
    BY DEF HoldersUnlock, RecordsTellTheTruth
  <2>4. NoLostWakeup'
    BY DEF NoLostWakeup, RecordsTellTheTruth
  <2>5. OnlyMisuseIsFatal'
    BY DEF OnlyMisuseIsFatal, HoldersUnlock, RecordsTellTheTruth
  <2> QED
    BY <2>1, <2>2, <2>3, <2>4, <2>5
<1>7. ASSUME NEW g \in Goroutine, WaitOver(g) PROVE LockInv'
  <2> USE <1>7 DEF WaitOver, Take, Locked, At, Goto
  <2>1. TypeOK'
    BY DEF RecordsTellTheTruth
  <2>2. RecordsTellTheTruth'
    BY DEF RecordsTellTheTruth
  <2>3. HoldersUnlock'
    BY DEF HoldersUnlock, RecordsTellTheTruth
  <2>4. NoLostWakeup'
    BY DEF NoLostWakeup, RecordsTellTheTruth
  <2>5. OnlyMisuseIsFatal'
    BY DEF OnlyMisuseIsFatal, HoldersUnlock, RecordsTellTheTruth
  <2> QED
    BY <2>1, <2>2, <2>3, <2>4, <2>5
<1>8. ASSUME NEW g \in Goroutine, unlockContext(g) PROVE LockInv'
  <2> DEFINE k == key[g]
  <2>0. k \in Key /\ fatal = "none" /\ pc[g] = "unlock"
    BY <1>8 DEF unlockContext, At
  <2>1. CASE holder[k] # g
    <3>1. fatal' = "unlock" /\ UNCHANGED <<lockTable, recVars, pc, key, held, calls>>
      BY <1>8, <2>1 DEF unlockContext, fatalf
    <3>2. g \in Stray /\ held[g][k] = 0
      BY <2>0, <2>1 DEF HoldersUnlock, RecordsTellTheTruth
    <3>3. OnlyMisuseIsFatal'
      BY <3>1, <3>2 DEF OnlyMisuseIsFatal
    <3> QED
      BY <3>1, <3>3 DEF recVars, RecordsTellTheTruth, HoldersUnlock, NoLostWakeup
  <2>2. CASE holder[k] = g
    <3>1. /\ depth' = [depth EXCEPT ![k] = @ - 1]
          /\ held' = [held EXCEPT ![g][k] = @ - 1]
          /\ holder' = IF depth[k] - 1 = 0 THEN [holder EXCEPT ![k] = Nobody]
                                           ELSE holder
          /\ UNCHANGED <<lockTable, waiter, key, calls, fatal>>
      BY <1>8, <2>2 DEF unlockContext
    <3>2. \/ /\ pc' = [pc EXCEPT ![g] = "run"]
             /\ depth[k] - 1 # 0 \/ Parked(k) = {}
          \/ \E h \in Parked(k) : pc' = [pc EXCEPT ![g] = "run", ![h] = "woken"]
      BY <1>8, <2>0, <2>2 DEF unlockContext, Signal, Goto, RecordsTellTheTruth
    <3>3. /\ held[g][k] = depth[k] /\ depth[k] \in 1 .. MaxDepth
          /\ \A h \in Goroutine \ {g} : held[h][k] = 0
      BY <2>0, <2>2 DEF RecordsTellTheTruth
    <3>4. TypeOK'
      <4>1. pc' \in [Goroutine -> PC]
        BY <3>2
      <4>2. depth' \in [Key -> 0 .. MaxDepth] /\ holder' \in [Key -> Goroutine \cup {Nobody}]
        BY <3>1, <3>3
      <4>3. held' \in [Goroutine -> [Key -> 0 .. MaxDepth]]
        BY <3>1, <3>3
      <4> QED
        BY <4>1, <4>2, <4>3, <3>1
    <3>5. RecordsTellTheTruth'
      <4>1. \A l \in Key : holder'[l] = Nobody <=> depth'[l] = 0
        BY <3>1, <3>3, <2>2 DEF RecordsTellTheTruth
      <4>2. \A h \in Goroutine, l \in Key :
               held'[h][l] = IF holder'[l] = h THEN depth'[l] ELSE 0
        BY <3>1, <3>3, <2>0, <2>2 DEF RecordsTellTheTruth
      <4>3. \A h \in Goroutine, l \in Key :
               h \in waiter'[l] <=> h \in (Parked(l) \cup Woken(l))'
        BY <3>1, <3>2, <2>0 DEF RecordsTellTheTruth
      <4> QED
        BY <4>1, <4>2, <4>3 DEF RecordsTellTheTruth
    <3>6. HoldersUnlock'
      <4> SUFFICES ASSUME NEW h \in Goroutine, pc'[h] = "unlock"
                   PROVE  held'[h][key'[h]] > 0 \/ h \in Stray
        BY DEF HoldersUnlock
      <4>1. h # g /\ pc[h] = "unlock"
        BY <3>2, <2>0
      <4>2. held'[h] = held[h] /\ key'[h] = key[h]
        BY <3>1, <4>1
      <4> QED
        BY <4>1, <4>2 DEF HoldersUnlock
    <3>7. NoLostWakeup'
      BY <3>1, <3>2, <3>3, <2>0, <2>2 DEF NoLostWakeup
    <3>8. OnlyMisuseIsFatal'
      BY <3>1, <2>0 DEF OnlyMisuseIsFatal
    <3> QED
      BY <3>4, <3>5, <3>6, <3>7, <3>8
  <2> QED
    BY <2>1, <2>2
<1>9. CASE UNCHANGED vars
  BY <1>9 DEF vars, RecordsTellTheTruth, HoldersUnlock, NoLostWakeup,
              OnlyMisuseIsFatal
<1>10. QED
  BY <1>1, <1>2, <1>3, <1>4, <1>5, <1>6, <1>7, <1>8, <1>9 DEF Next, Step

\* LockInv holds in every reachable state.
THEOREM Invariance == Spec => []LockInv
  BY InitInv, NextInv, PTL DEF Spec

\* The records, their depths and their waiting lists stay well formed: no depth
\* leaves the range the locks are nested to.
THEOREM TypeCorrect == Spec => []TypeOK
  BY Invariance, PTL DEF LockInv

\* lockContext lets one goroutine at a time into a key, whatever the others do.
THEOREM Exclusion == Spec => []MutualExclusion
<1>1. LockInv => MutualExclusion
  BY NobodyAssumption, BoundAssumption
     DEF LockInv, TypeOK, RecordsTellTheTruth, MutualExclusion
<1> QED
  BY <1>1, Invariance, PTL

\* unlockContext never leaves a free record with waiters that nobody woke.
THEOREM Wakeups == Spec => []NoLostWakeup
  BY Invariance, PTL DEF LockInv

\* fatalf is reached through a caller's mistake only.
THEOREM Misuse == Spec => []OnlyMisuseIsFatal
  BY Invariance, PTL DEF LockInv

-----------------------------------------------------------------------------
(***************************************************************************)
(* The refinement: LockKey is an Ask, the step on which lockContext        *)
(* returns is a Grant, unlockContext of a held key is a GiveBack, and      *)
(* everything else leaves held and asked alone.                            *)
(***************************************************************************)
\* The implementation's first state is one of the promise.
LEMMA RefineInit == Init => Promise!Init
  BY DEF Init, Promise!Init

\* Each step of the implementation is a step of the promise or leaves it alone.
LEMMA RefineNext == LockInv /\ [Next]_vars => [Promise!Next]_(Promise!vars)
<1> SUFFICES ASSUME LockInv, [Next]_vars PROVE [Promise!Next]_(Promise!vars)
  OBVIOUS
<1> USE NobodyAssumption, BoundAssumption, StrayAssumption DEF LockInv, TypeOK, PC
<1>1. ASSUME NEW g \in Goroutine, NEW k \in Key, LockKey(g, k)
      PROVE  Promise!Ask(g, k)
  BY <1>1 DEF LockKey, At, Goto, recVars, Promise!Ask
<1>2. ASSUME NEW g \in Goroutine, NEW k \in Key, UnlockKey(g, k)
      PROVE  UNCHANGED Promise!vars
  BY <1>2 DEF UnlockKey, At, Goto, recVars, Promise!vars
<1>3. ASSUME NEW g \in Goroutine, NEW k \in Key, k = key[g], Locked(g),
             pc[g] \in {"lock", "woken"}, holder[k] \in {g, Nobody}
      PROVE  Promise!Grant(g, k)
  <2>1. Promise!Free(g, k)
    BY <1>3 DEF RecordsTellTheTruth, Promise!Free
  <2> QED
    BY <1>3, <2>1 DEF Locked, Goto, Promise!Grant
<1>4. ASSUME NEW g \in Goroutine, NEW k \in Key, k = key[g], LockFree(g)
      PROVE  Promise!Grant(g, k)
  BY <1>4, <1>3 DEF LockFree, Take, At
<1>5. ASSUME NEW g \in Goroutine, NEW k \in Key, k = key[g], LockAgain(g)
      PROVE  Promise!Grant(g, k) \/ UNCHANGED Promise!vars
  BY <1>5, <1>3 DEF LockAgain, fatalf, At, Promise!vars
<1>6. ASSUME NEW g \in Goroutine, LockWait(g) PROVE UNCHANGED Promise!vars
  BY <1>6 DEF LockWait, fatalf, At, Goto, Promise!vars
<1>7. ASSUME NEW g \in Goroutine, WaitAgain(g) PROVE UNCHANGED Promise!vars
  BY <1>7 DEF WaitAgain, At, Goto, recVars, Promise!vars
<1>8. ASSUME NEW g \in Goroutine, NEW k \in Key, k = key[g], WaitOver(g)
      PROVE  Promise!Grant(g, k)
  BY <1>8, <1>3 DEF WaitOver, Take, At
<1>9. ASSUME NEW g \in Goroutine, NEW k \in Key, k = key[g], unlockContext(g)
      PROVE  Promise!GiveBack(g, k) \/ UNCHANGED Promise!vars
  <2>1. CASE holder[k] # g
    BY <1>9, <2>1 DEF unlockContext, fatalf, Promise!vars
  <2>2. CASE holder[k] = g
    <3>1. held[g][k] > 0 /\ pc[g] = "unlock"
      BY <1>9, <2>2 DEF unlockContext, At, RecordsTellTheTruth
    <3>2. /\ held' = [held EXCEPT ![g][k] = @ - 1]
          /\ key' = key
          /\ \/ pc' = [pc EXCEPT ![g] = "run"]
             \/ \E h \in Parked(k) : pc' = [pc EXCEPT ![g] = "run", ![h] = "woken"]
      BY <1>9, <2>2 DEF unlockContext, Signal, Goto
    <3> QED
      BY <3>1, <3>2 DEF Promise!GiveBack, Parked
  <2> QED
    BY <2>1, <2>2
<1>10. CASE UNCHANGED vars
  BY <1>10 DEF vars, Promise!vars
<1>11. ASSUME NEW g \in Goroutine, Step(g)
       PROVE  (\E k \in Key : Promise!Grant(g, k) \/ Promise!GiveBack(g, k))
              \/ UNCHANGED Promise!vars
  <2>1. PICK k \in Key : k = key[g]
    OBVIOUS
  <2> HIDE DEF LockInv, TypeOK, PC
  <2> QED
    BY <1>11, <2>1, <1>4, <1>5, <1>6, <1>7, <1>8, <1>9 DEF Step
<1>12. QED
  BY ONLY [Next]_vars, <1>1, <1>2, <1>10, <1>11 DEF Next, Promise!Next

\* The in-memory lock manager implements a reentrant lock per key.
THEOREM Refinement == Spec => ImplementsReentrantLock
  BY Invariance, RefineInit, RefineNext, PTL
     DEF Spec, ImplementsReentrantLock, Promise!Spec
=============================================================================
