-------------------------- MODULE TaskManChain_proofs --------------------------
(***************************************************************************)
(* A result reaches the parent and what is complete stays so, for chains   *)
(* of tasks of any length, any number of workers and crashes.              *)
(***************************************************************************)
EXTENDS TaskManChain, TaskManReasons_proofs

\* Nobody leads.
LEMMA InitChain == ASSUME Init PROVE ChainInv
<1> USE DEF Init
<1>1. Canceller \in Proc /\ Starter \in Proc
  BY DEF Proc
<1>2. OneAtATime
  BY DEF OneAtATime, OneLead, JobLeads, Leads, Telling, Asking
<1>3. LeadHandedOver
  BY DEF LeadHandedOver, NoLead, JobLeads, Leads, Telling
<1>4. MethodsInOrder
  BY DEF MethodsInOrder
<1>5. ListsSpareComplete
  BY <1>1 DEF ListsSpareComplete
<1> QED
  BY <1>2, <1>3, <1>4, <1>5 DEF ChainInv

\* A goroutine at work goes on with its task; stages, the queue and the lists stay.
LEMMA CalmChain ==
    ASSUME TaskInv, TaskInv', ReasonsInv, ChainInv, NEW p \in Proc, Others(p),
           UNCHANGED <<stage, queue, next, asked, calls>>,
           pc[p] # "idle", pc'[p] \notin {"fetch", "spawn", "link"},
           pc'[p] = "idle" => pc[p] = "done",
           pc'[p] # "idle" => job'[p] = job[p] /\ bad'[p] = bad[p],
           \A t \in Task : Leads(p, t)' => Leads(p, t),
           Leads(p, job[p]) /\ Leads(p, job[p])' /\ Knows(p) => Knows(p)',
           pc'[p] \in {"lock", "handler"} =>
              /\ pc[p] \in {"fetch", "lock", "handler"}
              /\ ~bad[p] => Unfinished(job[p])
    PROVE  ChainInv'
<1>1. /\ Canceller \in Proc /\ Starter \in Proc /\ Worker \subseteq Proc
      /\ p # Canceller /\ job[p] \in Task
  BY DEF Proc, ChainInv, ListsSpareComplete, TaskInv, JobsInOrder
<1>2. OneAtATime /\ LeadHandedOver /\ MethodsInOrder /\ ListsSpareComplete /\ StartedOver
  BY DEF ChainInv, ReasonsInv
<1>3. /\ \A t \in Task : Unfinished(t)' <=> Unfinished(t)
      /\ \A t \in Task, i \in DOMAIN queue : JobLeads(i, t)' <=> JobLeads(i, t)
      /\ \A t \in Task : Queued(t)' <=> Queued(t)
      /\ \A t \in Task : Asking(t)' <=> Asking(t)
  BY DEF Unfinished, JobLeads, Queued, Asking
<1>4. \A t \in Task : Good(t)' => Good(t)
  <2>1. ASSUME NEW t \in Task, Serving', ~Serving, Unfinished(t) PROVE FALSE
    <3>1. next[Starter] = <<>> /\ pc'[Starter] = "idle" /\ pc[Starter] # "idle"
      BY <2>1 DEF Serving, At
    <3>2. p = Starter /\ pc[p] = "done"
      BY <1>1, <3>1 DEF Others, Alone
    <3>3. ~Listed(Starter, t) /\ ~Effective(Starter, t)
      BY <3>1, <3>2 DEF Listed, Effective
    <3> QED
      BY <1>2, <2>1, <3>3 DEF StartedOver
  <2> QED
    BY <1>3, <2>1 DEF Good
<1>5. \A t \in Task : Fine(t)' => Fine(t)
  BY <1>4 DEF Fine
<1>6. \A t \in Task, q \in Proc : q # p => (Leads(q, t)' <=> Leads(q, t))
  BY DEF Leads, Telling, Others, Alone
<1>7. \A t \in Task : NoLead(t) => NoLead(t)'
  BY <1>3, <1>6 DEF NoLead
<1>8. OneAtATime'
  <2> SUFFICES ASSUME NEW t \in Task, Fine(t)
               PROVE  /\ OneLead(t)' /\ \A q \in Proc : Leads(q, t)' => Knows(q)'
                      /\ stage[t] = "complete" => \A i \in DOMAIN queue : ~JobLeads(i, t)'
                      /\ Asking(t) => NoLead(t)' /\ stage[t] # "complete"
    BY <1>3, <1>5 DEF OneAtATime
  <2>1. OneLead(t)'
    <3>1. OneLead(t)
      BY <1>2 DEF OneAtATime
    <3> QED
      BY <1>3, <1>6, <3>1 DEF OneLead
  <2>2. ASSUME NEW q \in Proc, Leads(q, t)' PROVE Knows(q)'
    <3>1. Leads(q, t) /\ Knows(q)
      BY <1>2, <1>6, <2>2 DEF OneAtATime
    <3>2. CASE q = p
      BY <2>2, <3>1, <3>2 DEF Leads
    <3>3. CASE q # p
      BY <1>3, <3>1, <3>3 DEF Knows, Telling, Leads, Others, Alone
    <3> QED
      BY <3>2, <3>3
  <2> QED
    BY <1>2, <1>3, <1>7, <2>1, <2>2 DEF OneAtATime
<1>9. LeadHandedOver'
  <2>1. \A t \in Task, q \in Proc :
           Running(q, t)' /\ pc'[q] \in {"fetch", "lock", "handler"} =>
              Running(q, t) /\ pc[q] \in {"fetch", "lock", "handler"}
    BY DEF Running, Others, Alone
  <2> QED
    BY <1>2, <1>3, <1>4, <1>7, <2>1 DEF LeadHandedOver
<1>10. MethodsInOrder'
  <2>1. \A q \in Proc : pc[q] # "idle" => job[q] \in Task
    BY DEF TaskInv, JobsInOrder
  <2> QED
    BY <1>1, <1>2, <1>3, <1>7, <2>1 DEF MethodsInOrder, Others, Alone
<1>11. ListsSpareComplete'
  BY <1>1, <1>2 DEF ListsSpareComplete, Others, Alone
<1> QED
  BY <1>8, <1>9, <1>10, <1>11 DEF ChainInv

\* The stage that is fetched is the stage of the task.
LEMMA FetchChain ==
    ASSUME TaskInv, TaskInv', ReasonsInv, ChainInv, NEW p \in Proc, fetchTask(p)
    PROVE  ChainInv'
<1> DEFINE s == stage[job[p]]
<1>1. /\ UNCHANGED <<stage, queue, job, bad, todo, next, result, pstage, some, asked, calls>>
      /\ pc[p] = "fetch" /\ loc' = [loc EXCEPT ![p] = s]
      /\ pc' = [pc EXCEPT ![p] = IF HasHandler(s, bad[p]) THEN "lock" ELSE "fail"]
  BY DEF fetchTask, Dispatch, Goto, At, dbVars, envVars
<1>2. /\ pc'[p] \in {"lock", "fail"} /\ loc'[p] = s
      /\ pc'[p] = "lock" => s \in {"on_init", "wait"}
      /\ \A q \in Proc : q # p => pc'[q] = pc[q] /\ loc'[q] = loc[q]
  BY <1>1 DEF TaskInv, TypeOK, HasHandler
<1>3. Others(p)
  BY <1>1, <1>2 DEF Others, Alone
<1>4. \A t \in Task : Leads(p, t)' => Leads(p, t)
  BY <1>1, <1>2 DEF Leads, Telling
<1>5. Knows(p) => Knows(p)'
  BY <1>1, <1>2 DEF Knows, Telling, Unfinished
<1>6. pc'[p] = "lock" => Unfinished(job[p])
  BY <1>2 DEF Unfinished, Final
<1> QED
  BY <1>1, <1>2, <1>3, <1>4, <1>5, <1>6, CalmChain

\* Locks.
LEMMA LockChain ==
    ASSUME TaskInv, TaskInv', ReasonsInv, ChainInv, NEW p \in Proc, LockObject(p) \/ Locked(p)
    PROVE  ChainInv'
<1>1. /\ UNCHANGED <<stage, queue, job, bad, loc, todo, next, result, pstage, some, asked, calls>>
      /\ pc[p] = "lock" /\ (pc' = pc \/ pc' = [pc EXCEPT ![p] = "handler"])
  BY DEF LockObject, Locked, Goto, At, dbVars, envVars, procVars
<1>2. pc'[p] \in {"lock", "handler"} /\ \A q \in Proc : q # p => pc'[q] = pc[q]
  BY <1>1 DEF TaskInv, TypeOK
<1>3. Others(p)
  BY <1>1, <1>2 DEF Others, Alone
<1>4. \A t \in Task : Leads(p, t)' => Leads(p, t)
  BY <1>1, <1>2 DEF Leads
<1>5. Knows(p) => Knows(p)'
  BY <1>1, <1>2 DEF Knows, Telling, Unfinished
<1>6. ~bad[p] => Unfinished(job[p])
  BY <1>1 DEF ChainInv, MethodsInOrder
<1> QED
  BY <1>1, <1>2, <1>3, <1>4, <1>5, <1>6, CalmChain

\* The report goes on, or ends.
LEMMA TellChain ==
    ASSUME TaskInv, TaskInv', ReasonsInv, ChainInv, NEW p \in Proc,
           SaveResults(p) \/ NotifyParent(p) \/ GetTotalSubtasksCount(p)
    PROVE  ChainInv'
<1>1. /\ UNCHANGED <<stage, queue, job, bad, loc, todo, next, result, asked, calls>>
      /\ Telling(p) /\ \E x \in {"done", "notify", "count", "check"} : pc' = [pc EXCEPT ![p] = x]
      /\ pstage' = pstage \/ \E x \in Stage : pstage' = [pstage EXCEPT ![p] = x]
      /\ some' = some \/ \E x \in BOOLEAN : some' = [some EXCEPT ![p] = x]
  <2>1. CASE SaveResults(p)
    BY <2>1 DEF SaveResults, Goto, At, envVars, Telling
  <2>2. CASE NotifyParent(p)
    <3>1. pc[p] = "notify" /\ Parent[job[p]] \in Task
      BY <2>2 DEF NotifyParent, At, TaskInv, JobsInOrder
    <3> QED
      BY <2>2, <3>1 DEF NotifyParent, Goto, At, dbVars, envVars, Telling, TaskInv, TypeOK
  <2>3. CASE GetTotalSubtasksCount(p)
    BY <2>3 DEF GetTotalSubtasksCount, Goto, At, dbVars, envVars, Telling
  <2> QED
    BY <2>1, <2>2, <2>3
<1>2. /\ pc'[p] \in {"done", "notify", "count", "check"}
      /\ \A q \in Proc : q # p => pc'[q] = pc[q] /\ pstage'[q] = pstage[q] /\ some'[q] = some[q]
  BY <1>1 DEF TaskInv, TypeOK
<1>3. Others(p)
  BY <1>1, <1>2 DEF Others, Alone
<1>4. \A t \in Task : Leads(p, t)' => Leads(p, t)
  BY <1>1, <1>2 DEF Leads, Telling
<1>5. Leads(p, job[p])' /\ Knows(p) => Knows(p)'
  BY <1>1, <1>2 DEF Knows, Leads, Telling
<1>6. pc[p] # "idle"
  BY <1>1 DEF Telling
<1> QED
  BY <1>1, <1>2, <1>3, <1>4, <1>5, <1>6, CalmChain

\* The job is over.
LEMMA DoneChain ==
    ASSUME TaskInv, TaskInv', ReasonsInv, ChainInv, NEW p \in Proc, Done(p)
    PROVE  ChainInv'
<1>1. /\ UNCHANGED <<stage, queue, todo, next, asked, calls>>
      /\ pc[p] = "done" /\ pc' = [pc EXCEPT ![p] = "idle"]
      /\ job' = [job EXCEPT ![p] = None] /\ bad' = [bad EXCEPT ![p] = FALSE]
      /\ loc' = [loc EXCEPT ![p] = "none"] /\ result' = [result EXCEPT ![p] = "none"]
      /\ pstage' = [pstage EXCEPT ![p] = "none"] /\ some' = [some EXCEPT ![p] = FALSE]
  BY DEF Done, Goto, At, dbVars, envVars
<1>2. /\ pc'[p] = "idle"
      /\ \A q \in Proc : q # p => /\ pc'[q] = pc[q] /\ job'[q] = job[q] /\ bad'[q] = bad[q]
                                  /\ loc'[q] = loc[q] /\ result'[q] = result[q]
                                  /\ pstage'[q] = pstage[q] /\ some'[q] = some[q]
  BY <1>1 DEF TaskInv, TypeOK
<1>3. Others(p)
  BY <1>1, <1>2 DEF Others, Alone
<1>4. \A t \in Task : ~Leads(p, t)'
  BY <1>2 DEF Leads, Telling
<1>5. ~Leads(p, job[p])'
  BY <1>2 DEF Leads, Telling
<1> QED
  BY <1>1, <1>2, <1>3, <1>4, <1>5, CalmChain
-----------------------------------------------------------------------------
(***************************************************************************)
(* A task ends.  Nobody else leads it, and nobody leads its subtask.       *)
(***************************************************************************)
LEMMA FinalChain ==
    ASSUME TaskInv, TaskInv', ReasonsInv, ChainInv, NEW p \in Proc, Others(p),
           UNCHANGED <<queue, next, asked, calls>>,
           pc[p] = "handler" \/ (pc[p] = "fail" /\ loc[p] # "failed"), pc'[p] = "save",
           job'[p] = job[p], bad'[p] = bad[p],
           \/ result'[p] = "fail" /\ stage'[job[p]] = "failed"
           \/ /\ result'[p] = "succ" /\ stage'[job[p]] = "complete" /\ pc[p] = "handler" /\ ~bad[p]
              /\ loc[p] = "wait" \/ Kids(job[p]) = {},
           \A t \in Task : t # job[p] => stage'[t] = stage[t]
    PROVE  ChainInv'
<1> DEFINE u == job[p]
<1>1. /\ Canceller \in Proc /\ Starter \in Proc /\ Worker \subseteq Proc
      /\ p # Canceller /\ u \in Task /\ Leads(p, u)
      /\ \A q \in Proc : pc[q] # "idle" => job[q] \in Task
  BY DEF Proc, ChainInv, ListsSpareComplete, TaskInv, JobsInOrder, Leads
<1>2. OneAtATime /\ LeadHandedOver /\ MethodsInOrder /\ ListsSpareComplete /\ StartedOver
  BY DEF ChainInv, ReasonsInv
<1>3. Serving' <=> Serving
  BY <1>1 DEF Serving, At, Others, Alone
<1>4. stage[u] # "complete"
  <2>1. stage[u] = "complete" => Fine(u) /\ ~Unfinished(u)
    BY DEF Fine, Good, Unfinished, Final
  <2>2. ~Telling(p)
    BY DEF Telling
  <2> QED
    BY <1>1, <1>2, <2>1, <2>2 DEF OneAtATime, Knows
<1>5. stage'[u] = "complete" => Good(u)
  BY <1>1, <1>2 DEF StartedOver, MethodsInOrder, Good
<1>6. /\ \A t \in Task : t # u => (Unfinished(t)' <=> Unfinished(t))
      /\ ~Unfinished(u)'
      /\ \A t \in Task, i \in DOMAIN queue : t # u => (JobLeads(i, t)' <=> JobLeads(i, t))
      /\ \A t \in Task : Queued(t)' <=> Queued(t)
      /\ \A t \in Task : Asking(t)' <=> Asking(t)
  BY DEF Unfinished, JobLeads, Queued, Asking, Final
<1>7. \A t \in Task : Good(t)' => Good(t)
  BY <1>3, <1>5, <1>6 DEF Good
<1>8. \A t \in Task : Fine(t)' => Fine(t)
  BY <1>7 DEF Fine
<1>9. /\ \A t \in Task, q \in Proc : t # u => (Leads(q, t)' <=> Leads(q, t))
      /\ \A q \in Proc : Leads(q, u)' => Leads(q, u)
      /\ Telling(p)'
  <2>1. \A q \in Proc : q # p => (Telling(q)' <=> Telling(q))
    BY DEF Telling, Others, Alone
  <2>2. \A t \in Task, q \in Proc : t # u => (Leads(q, t)' <=> Leads(q, t))
    BY <2>1 DEF Leads, Others, Alone
  <2>3. \A q \in Proc : q # p /\ Leads(q, u)' => Leads(q, u)
    <3>1. stage[u] # "failed" \/ stage'[u] = "failed" \/ stage'[u] = "complete"
      OBVIOUS
    <3>2. stage[u] = "failed" => stage'[u] = "failed"
      BY <1>5 DEF Good, Unfinished, Final
    <3> QED
      BY <2>1, <3>2 DEF Leads, Others, Alone
  <2>4. Telling(p)'
    BY DEF Telling
  <2> QED
    BY <1>1, <2>2, <2>3, <2>4
<1>10. \A i \in DOMAIN queue : JobLeads(i, u)' => JobLeads(i, u)
  BY <1>5 DEF JobLeads, Good, Unfinished, Final
<1>11. \A t \in Task : NoLead(t) => NoLead(t)'
  BY <1>6, <1>9, <1>10 DEF NoLead
<1>12. OneAtATime'
  <2> SUFFICES ASSUME NEW t \in Task, Fine(t)
               PROVE  /\ OneLead(t)' /\ \A q \in Proc : Leads(q, t)' => Knows(q)'
                      /\ stage'[t] = "complete" => \A i \in DOMAIN queue : ~JobLeads(i, t)'
                      /\ Asking(t) => NoLead(t)' /\ stage'[t] # "complete"
    BY <1>6, <1>8 DEF OneAtATime
  <2>1. OneLead(t) /\ \A q \in Proc : Leads(q, t) => Knows(q)
    BY <1>2 DEF OneAtATime
  <2>2. OneLead(t)'
    BY <1>6, <1>9, <1>10, <2>1 DEF OneLead
  <2>3. ASSUME NEW q \in Proc, Leads(q, t)' PROVE Knows(q)'
    <3>1. Leads(q, t) /\ Knows(q)
      BY <1>9, <2>1, <2>3
    <3>2. CASE q = p
      BY <1>9, <3>2 DEF Knows
    <3>3. CASE q # p
      <4>1. t # u
        BY <1>1, <2>1, <3>1, <3>3 DEF OneLead
      <4>2. job[q] = t /\ job'[q] = t
        BY <3>1, <3>3 DEF Leads, Others, Alone
      <4> QED
        BY <1>6, <3>1, <3>3, <4>1, <4>2 DEF Knows, Telling, Others, Alone
    <3> QED
      BY <3>2, <3>3
  <2>4. CASE t = u
    <3>1. ~NoLead(u) /\ \A i \in DOMAIN queue : ~JobLeads(i, u)
      BY <1>1, <2>1, <2>4 DEF OneLead, NoLead
    <3> QED
      BY <1>2, <1>10, <2>2, <2>3, <2>4, <3>1 DEF OneAtATime
  <2>5. CASE t # u
    BY <1>2, <1>6, <1>11, <2>2, <2>3, <2>5 DEF OneAtATime
  <2> QED
    BY <2>4, <2>5
<1>13. LeadHandedOver'
  <2> SUFFICES ASSUME NEW c \in Task, Parent[c] \in Task
               PROVE  LET t == Parent[c] IN
                      /\ Good(t)' /\ ~NoLead(t)' => NoLead(c)' /\ stage'[c] # "wait"
                      /\ stage'[t] = "complete" => NoLead(c)' /\ stage'[c] = "complete"
                      /\ stage'[t] = "wait" /\
                            (\/ Queued(t)'
                             \/ \E q \in Proc : /\ Running(q, t)'
                                                /\ pc'[q] \in {"fetch", "lock", "handler"})
                            => stage'[c] = "complete"
    BY DEF LeadHandedOver
  <2> DEFINE t == Parent[c]
  <2>1. Good(t)' /\ ~NoLead(t)' => NoLead(c)' /\ stage'[c] # "wait"
    BY <1>2, <1>7, <1>11 DEF LeadHandedOver
  <2>2. \A q \in Proc : Running(q, t)' /\ pc'[q] \in {"fetch", "lock", "handler"} =>
              Running(q, t) /\ pc[q] \in {"fetch", "lock", "handler"}
    BY DEF Running, Others, Alone
  <2>3. stage[c] = "complete" => stage'[c] = "complete"
    BY <1>4
  <2>4. CASE t # u
    BY <1>2, <1>11, <2>1, <2>2, <2>3, <2>4 DEF LeadHandedOver, Queued
  <2>5. CASE t = u
    <3>1. ASSUME stage'[u] = "complete" PROVE NoLead(c)' /\ stage'[c] = "complete"
      <4>1. NoLead(c)
        BY <1>1, <1>2, <1>5, <2>5, <3>1 DEF LeadHandedOver, NoLead
      <4>2. stage[u] = "wait"
        <5>1. c \in Kids(u)
          BY <2>5 DEF Kids
        <5>2. Knows(p) /\ ~Telling(p)
          BY <1>1, <1>2, <1>5, <3>1 DEF OneAtATime, Fine, Telling
        <5> QED
          BY <3>1, <5>1, <5>2 DEF Knows
      <4>3. Running(p, u)
        BY <3>1 DEF Running
      <4>4. stage[c] = "complete"
        BY <1>2, <2>5, <3>1, <4>2, <4>3 DEF LeadHandedOver
      <4> QED
        BY <1>11, <2>3, <4>1, <4>4
    <3> QED
      BY <2>1, <2>5, <3>1
  <2> QED
    BY <2>4, <2>5
<1>14. MethodsInOrder'
  <2> SUFFICES ASSUME NEW q \in Proc
               PROVE  /\ pc'[q] \in {"lock", "handler"} /\ ~bad'[q] => Unfinished(job[q])'
                      /\ pc'[q] \in {"spawn", "link"} /\ todo'[q] # {} =>
                            /\ stage'[job'[q]] = "wait" /\ NoLead(job[q])'
                            /\ \A c \in todo'[q] : stage'[c] \in {"none", "on_init"}
    BY DEF MethodsInOrder
  <2>1. CASE q = p
    BY <2>1
  <2>2. CASE q # p
    <3>1. /\ pc'[q] = pc[q] /\ job'[q] = job[q] /\ bad'[q] = bad[q] /\ todo'[q] = todo[q]
      BY <2>2 DEF Others, Alone
    <3>2. ASSUME pc[q] \in {"lock", "handler"}, ~bad[q] PROVE Unfinished(job[q])'
      <4>1. Unfinished(job[q]) /\ Serving /\ job[q] \in Task /\ Leads(q, job[q])
        BY <1>1, <1>2, <3>2 DEF MethodsInOrder, StartedOver, Leads
      <4>2. OneLead(job[q])
        BY <1>2, <4>1 DEF OneAtATime, Fine, Good
      <4>3. job[q] # u
        BY <1>1, <2>2, <4>1, <4>2 DEF OneLead
      <4> QED
        BY <3>1, <4>1, <4>3 DEF Unfinished
    <3>3. ASSUME pc[q] \in {"spawn", "link"}, todo[q] # {}
          PROVE  /\ stage'[job'[q]] = "wait" /\ NoLead(job[q])'
                 /\ \A c \in todo[q] : stage'[c] \in {"none", "on_init"}
      <4>1. /\ stage[job[q]] = "wait" /\ NoLead(job[q]) /\ job[q] \in Task
            /\ \A c \in todo[q] : stage[c] \in {"none", "on_init"}
            /\ todo[q] \subseteq Kids(job[q]) /\ ~bad[q]
            /\ \A c \in todo[q] : c \in Task /\ Parent[c] \in Task /\ row[c] = None
        BY <1>1, <1>2, <3>3 DEF MethodsInOrder, TaskInv, SpawningInOrder, Kids
      <4>2. job[q] # u
        BY <1>1, <4>1 DEF NoLead
      <4>3. NoLead(job[q])'
        <5>1. \A t \in Task : t = job[q] => NoLead(t)'
          BY <1>11, <4>1
        <5> QED
          BY <3>1, <4>1, <5>1 DEF NoLead
      <4>4. Serving
        BY <1>2, <3>3, <4>1 DEF StartedOver
      <4>5. \A c \in todo[q] : c # u
        <5>1. p \in Worker
          BY <1>1, <4>4 DEF Proc, Serving, At
        <5> QED
          BY <4>1, <5>1 DEF ReasonsInv, UntouchedBeforeRow
      <4> QED
        BY <3>1, <4>1, <4>2, <4>3, <4>5
    <3> QED
      BY <3>1, <3>2, <3>3
  <2> QED
    BY <2>1, <2>2
<1>15. ListsSpareComplete'
  <2>1. stage'[u] = "complete" => next[Starter] = <<>>
    BY <1>5, <1>4 DEF Good, Serving
  <2>2. \A i \in DOMAIN next[Starter] : next[Starter][i].task \in Task
    <3>1. next[Starter] \in Seq(Entries)
      BY <1>1, EntryFacts DEF TaskInv
    <3>2. DOMAIN next[Starter] = 1 .. Len(next[Starter])
      BY <3>1, LenProperties
    <3>3. \A i \in DOMAIN next[Starter] : next[Starter][i] \in Entries
      BY <3>1, <3>2, ElementOfSeq
    <3> QED
      BY <3>3 DEF Entries
  <2>3. pc'[Canceller] = "idle"
    BY <1>1, <1>2 DEF ListsSpareComplete, Others, Alone
  <2>4. \A i \in DOMAIN next[Starter] : stage'[next[Starter][i].task] # "complete"
    BY <1>2, <2>1, <2>2 DEF ListsSpareComplete
  <2> QED
    BY <1>2, <2>3, <2>4 DEF ListsSpareComplete
<1> QED
  BY <1>12, <1>13, <1>14, <1>15 DEF ChainInv

\* Without a method, or by a method that fails.
LEMMA FailChain ==
    ASSUME TaskInv, TaskInv', ReasonsInv, ChainInv, NEW p \in Proc, NoHandler(p) \/ FailedMethod(p)
    PROVE  ChainInv'
<1>1. /\ UNCHANGED <<queue, job, bad, todo, next, pstage, some, asked, calls>>
      /\ pc[p] \in {"handler", "fail"} /\ SetStageFailed(p)
  BY DEF NoHandler, FailedMethod, At, envVars
<1>2. job[p] \in Task
  BY <1>1 DEF TaskInv, JobsInOrder
<1>3. CASE loc[p] = "failed"
  <2>1. /\ UNCHANGED <<stage, loc, result>> /\ pc' = [pc EXCEPT ![p] = "done"]
    BY <1>1, <1>3 DEF SetStageFailed, Goto
  <2>2. pc'[p] = "done" /\ \A q \in Proc : q # p => pc'[q] = pc[q]
    BY <2>1 DEF TaskInv, TypeOK
  <2>3. Others(p)
    BY <1>1, <2>1, <2>2 DEF Others, Alone
  <2>4. ~Leads(p, job[p])' /\ \A t \in Task : ~Leads(p, t)'
    BY <2>2 DEF Leads, Telling
  <2> QED
    BY <1>1, <2>1, <2>2, <2>3, <2>4, CalmChain
<1>4. CASE loc[p] # "failed"
  <2>1. /\ stage' = [stage EXCEPT ![job[p]] = "failed"] /\ loc' = [loc EXCEPT ![p] = "failed"]
        /\ result' = [result EXCEPT ![p] = "fail"] /\ pc' = [pc EXCEPT ![p] = "save"]
    BY <1>1, <1>4 DEF SetStageFailed, SetStage, Goto
  <2>2. /\ pc'[p] = "save" /\ result'[p] = "fail"
        /\ stage'[job[p]] = "failed" /\ \A t \in Task : t # job[p] => stage'[t] = stage[t]
        /\ \A q \in Proc : q # p => pc'[q] = pc[q] /\ loc'[q] = loc[q] /\ result'[q] = result[q]
    BY <1>2, <2>1 DEF TaskInv, TypeOK
  <2>3. Others(p)
    BY <1>1, <2>2 DEF Others, Alone
  <2> QED
    BY <1>1, <1>4, <2>2, <2>3, FinalChain
<1> QED
  BY <1>3, <1>4

\* By a method that succeeds.
LEMMA EndChain ==
    ASSUME TaskInv, TaskInv', ReasonsInv, ChainInv, NEW p \in Proc, EndMethod(p)
    PROVE  ChainInv'
<1>1. /\ UNCHANGED <<queue, job, bad, todo, next, pstage, some, asked, calls>>
      /\ pc[p] = "handler" /\ ~bad[p] /\ (loc[p] = "wait" \/ Kids(job[p]) = {})
      /\ SetStage(p, "complete") /\ result' = [result EXCEPT ![p] = "succ"]
      /\ pc' = [pc EXCEPT ![p] = "save"]
  BY DEF EndMethod, SetStageComplete, Goto, At, envVars
<1>2. job[p] \in Task /\ loc[p] # "complete"
  BY <1>1 DEF TaskInv, JobsInOrder
<1>3. /\ stage' = [stage EXCEPT ![job[p]] = "complete"]
      /\ loc' = [loc EXCEPT ![p] = "complete"]
  BY <1>1, <1>2 DEF SetStage
<1>4. /\ pc'[p] = "save" /\ result'[p] = "succ"
      /\ stage'[job[p]] = "complete" /\ \A t \in Task : t # job[p] => stage'[t] = stage[t]
      /\ \A q \in Proc : q # p => pc'[q] = pc[q] /\ loc'[q] = loc[q] /\ result'[q] = result[q]
  BY <1>1, <1>2, <1>3 DEF TaskInv, TypeOK
<1>5. Others(p)
  BY <1>1, <1>4 DEF Others, Alone
<1> QED
  BY <1>1, <1>4, <1>5, FinalChain
-----------------------------------------------------------------------------
(***************************************************************************)
(* A task moves to its second stage: nobody leads it for a while.          *)
(***************************************************************************)
LEMMA WaitChain ==
    ASSUME TaskInv, TaskInv', ReasonsInv, ChainInv, NEW p \in Proc, Others(p),
           UNCHANGED <<queue, next, calls>>,
           pc[p] = "handler", ~bad[p], loc[p] = "on_init", job'[p] = job[p], bad'[p] = bad[p],
           \/ pc'[p] = "done" /\ asked' = asked \cup {job[p]}
           \/ pc'[p] = "spawn" /\ asked' = asked /\ todo'[p] = Kids(job[p]),
           stage'[job[p]] = "wait",
           \A t \in Task : t # job[p] => stage'[t] = stage[t]
    PROVE  ChainInv'
<1> DEFINE u == job[p]
<1>1. /\ Canceller \in Proc /\ Starter \in Proc /\ Worker \subseteq Proc
      /\ u \in Task /\ Leads(p, u)
      /\ \A q \in Proc : pc[q] # "idle" => job[q] \in Task
  BY DEF Proc, TaskInv, JobsInOrder, Leads
<1>2. OneAtATime /\ LeadHandedOver /\ MethodsInOrder /\ ListsSpareComplete /\ StartedOver
  BY DEF ChainInv, ReasonsInv
<1>3. Serving /\ Good(u) /\ Serving' /\ p \in Worker
  <2>1. Serving /\ Unfinished(u)
    BY <1>1, <1>2 DEF StartedOver, MethodsInOrder
  <2>2. p # Canceller /\ p # Starter
    BY <1>2, <2>1 DEF ListsSpareComplete, Serving, At
  <2>3. Serving'
    BY <1>1, <2>1, <2>2 DEF Serving, At, Others, Alone
  <2> QED
    BY <2>1, <2>2, <2>3 DEF Good, Proc
<1>4. /\ OneLead(u) /\ stage[u] = "on_init"
  BY <1>1, <1>2, <1>3 DEF OneAtATime, Fine, Knows, Telling
<1>5. \A c \in Kids(u) : c \in Task /\ stage[c] = "none"
  BY <1>1 DEF TaskInv, FirstStageOver, Kids, Running
<1>6. /\ \A t \in Task : Unfinished(t)' <=> Unfinished(t)
      /\ \A t \in Task, i \in DOMAIN queue : JobLeads(i, t)' <=> JobLeads(i, t)
      /\ \A t \in Task : Queued(t)' <=> Queued(t)
      /\ \A t \in Task : t # u => (Asking(t)' <=> Asking(t))
  BY <1>4 DEF Unfinished, JobLeads, Queued, Asking, Final
<1>7. \A t \in Task : Good(t)' <=> Good(t)
  BY <1>3, <1>4, <1>6 DEF Good
<1>8. \A t \in Task : Fine(t)' <=> Fine(t)
  BY <1>7 DEF Fine
<1>9. /\ \A t \in Task, q \in Proc : q # p => (Leads(q, t)' <=> Leads(q, t))
      /\ \A t \in Task : ~Leads(p, t)'
  BY <1>4 DEF Leads, Telling, Others, Alone
<1>10. NoLead(u)' /\ \A t \in Task : NoLead(t) => NoLead(t)'
  <2>1. \A t \in Task : NoLead(t) => NoLead(t)'
    BY <1>6, <1>9 DEF NoLead
  <2>2. \A i \in DOMAIN queue : ~JobLeads(i, u)
    BY <1>1, <1>4 DEF OneLead
  <2>3. \A q \in Proc : q # p => ~Leads(q, u)
    BY <1>1, <1>4 DEF OneLead
  <2>4. \A t \in Task : t = u => NoLead(t)'
    BY <1>6, <1>9, <2>2, <2>3 DEF NoLead
  <2> QED
    BY <1>1, <2>1, <2>4
<1>11. OneAtATime'
  <2> SUFFICES ASSUME NEW t \in Task, Fine(t)
               PROVE  /\ OneLead(t)' /\ \A q \in Proc : Leads(q, t)' => Knows(q)'
                      /\ stage'[t] = "complete" => \A i \in DOMAIN queue : ~JobLeads(i, t)'
                      /\ Asking(t)' => NoLead(t)' /\ stage'[t] # "complete"
    BY <1>8 DEF OneAtATime
  <2>1. OneLead(t) /\ \A q \in Proc : Leads(q, t) => Knows(q)
    BY <1>2 DEF OneAtATime
  <2>2. OneLead(t)'
    BY <1>6, <1>9, <2>1 DEF OneLead
  <2>3. ASSUME NEW q \in Proc, Leads(q, t)' PROVE Knows(q)'
    <3>1. q # p /\ Leads(q, t) /\ Knows(q)
      BY <1>9, <2>1, <2>3
    <3>2. t # u
      BY <1>1, <1>4, <3>1 DEF OneLead
    <3>3. job[q] = t /\ job'[q] = t
      BY <3>1 DEF Leads, Others, Alone
    <3> QED
      BY <1>6, <3>1, <3>2, <3>3 DEF Knows, Telling, Others, Alone
  <2>4. CASE t = u
    BY <1>10, <2>2, <2>3, <2>4
  <2>5. CASE t # u
    BY <1>2, <1>6, <1>10, <2>2, <2>3, <2>5 DEF OneAtATime
  <2> QED
    BY <2>4, <2>5
<1>12. LeadHandedOver'
  <2> SUFFICES ASSUME NEW c \in Task, Parent[c] \in Task
               PROVE  LET t == Parent[c] IN
                      /\ Good(t)' /\ ~NoLead(t)' => NoLead(c)' /\ stage'[c] # "wait"
                      /\ stage'[t] = "complete" => NoLead(c)' /\ stage'[c] = "complete"
                      /\ stage'[t] = "wait" /\
                            (\/ Queued(t)'
                             \/ \E q \in Proc : /\ Running(q, t)'
                                                /\ pc'[q] \in {"fetch", "lock", "handler"})
                            => stage'[c] = "complete"
    BY DEF LeadHandedOver
  <2> DEFINE t == Parent[c]
  <2>1. \A x \in Task, q \in Proc : Running(q, x)' /\ pc'[q] \in {"fetch", "lock", "handler"} =>
              q # p /\ Running(q, x) /\ pc[q] \in {"fetch", "lock", "handler"}
    BY DEF Running, Others, Alone
  <2>2. CASE t = u
    <3>1. NoLead(t)'
      BY <1>10, <2>2
    <3>2. ~Queued(t)'
      BY <1>10, <2>2 DEF Queued, NoLead, JobLeads
    <3>3. \A q \in Proc : ~(Running(q, t)' /\ pc'[q] \in {"fetch", "lock", "handler"})
      BY <2>2, <3>1 DEF NoLead, Leads, Running
    <3> QED
      BY <2>2, <3>1, <3>2, <3>3
  <2>3. CASE t # u /\ c = u
    <3>1. ~NoLead(c) /\ stage[c] # "complete"
      BY <1>1, <1>4, <2>3 DEF NoLead
    <3> QED
      BY <1>2, <1>6, <1>7, <1>10, <2>1, <2>3, <3>1 DEF LeadHandedOver
  <2>4. CASE t # u /\ c # u
    BY <1>2, <1>6, <1>7, <1>10, <2>1, <2>4 DEF LeadHandedOver
  <2> QED
    BY <2>2, <2>3, <2>4
<1>13. MethodsInOrder'
  <2> SUFFICES ASSUME NEW q \in Proc
               PROVE  /\ pc'[q] \in {"lock", "handler"} /\ ~bad'[q] => Unfinished(job[q])'
                      /\ pc'[q] \in {"spawn", "link"} /\ todo'[q] # {} =>
                            /\ stage'[job'[q]] = "wait" /\ NoLead(job[q])'
                            /\ \A c \in todo'[q] : stage'[c] \in {"none", "on_init"}
    BY DEF MethodsInOrder
  <2>1. CASE q = p
    <3>1. NoLead(job[q])'
      BY <1>10, <2>1
    <3>2. \A c \in Kids(u) : stage'[c] = "none"
      BY <1>4, <1>5
    <3> QED
      BY <2>1, <3>1, <3>2
  <2>2. CASE q # p
    <3>1. /\ pc'[q] = pc[q] /\ job'[q] = job[q] /\ bad'[q] = bad[q] /\ todo'[q] = todo[q]
      BY <2>2 DEF Others, Alone
    <3>2. ASSUME pc[q] \in {"lock", "handler"}, ~bad[q] PROVE Unfinished(job[q])'
      BY <1>1, <1>2, <1>6, <3>1, <3>2 DEF MethodsInOrder, Unfinished
    <3>3. ASSUME pc[q] \in {"spawn", "link"}, todo[q] # {}
          PROVE  /\ stage'[job'[q]] = "wait" /\ NoLead(job[q])'
                 /\ \A c \in todo[q] : stage'[c] \in {"none", "on_init"}
      <4>1. /\ stage[job[q]] = "wait" /\ NoLead(job[q]) /\ job[q] \in Task
            /\ \A c \in todo[q] : stage[c] \in {"none", "on_init"}
            /\ \A c \in todo[q] : c \in Task /\ Parent[c] \in Task /\ row[c] = None
        BY <1>1, <1>2, <3>3 DEF MethodsInOrder, TaskInv, SpawningInOrder, Kids
      <4>2. NoLead(job[q])'
        <5>1. \A t \in Task : t = job[q] => NoLead(t)'
          BY <1>10, <4>1
        <5> QED
          BY <3>1, <4>1, <5>1 DEF NoLead
      <4>3. \A c \in todo[q] : c # u
        BY <1>3, <4>1 DEF ReasonsInv, UntouchedBeforeRow
      <4> QED
        BY <1>4, <3>1, <4>1, <4>2, <4>3
    <3> QED
      BY <3>1, <3>2, <3>3
  <2> QED
    BY <2>1, <2>2
<1>14. ListsSpareComplete'
  <2>1. next[Starter] = <<>> /\ pc'[Canceller] = "idle" /\ next[Canceller] = <<>>
    BY <1>1, <1>2, <1>3 DEF ListsSpareComplete, Serving, Others, Alone
  <2> QED
    BY <2>1 DEF ListsSpareComplete
<1> QED
  BY <1>11, <1>12, <1>13, <1>14 DEF ChainInv

\* The agent is asked, or the subtask is going to be started.
LEMMA SecondStageChain ==
    ASSUME TaskInv, TaskInv', ReasonsInv, ChainInv, NEW p \in Proc, AskMethod(p) \/ SpawnMethod(p)
    PROVE  ChainInv'
<1>1. /\ UNCHANGED <<queue, job, bad, next, result, pstage, some, calls>>
      /\ pc[p] = "handler" /\ ~bad[p] /\ loc[p] = "on_init"
      /\ stage' = [stage EXCEPT ![job[p]] = "wait"] /\ loc' = [loc EXCEPT ![p] = "wait"]
      /\ \/ asked' = asked \cup {job[p]} /\ pc' = [pc EXCEPT ![p] = "done"] /\ todo' = todo
         \/ /\ asked' = asked /\ pc' = [pc EXCEPT ![p] = "spawn"]
            /\ todo' = [todo EXCEPT ![p] = Kids(job[p])]
  BY DEF AskMethod, SpawnMethod, SetStage, Goto, At, envVars
<1>2. job[p] \in Task
  BY <1>1 DEF TaskInv, JobsInOrder
<1>3. /\ \/ pc'[p] = "done" /\ asked' = asked \cup {job[p]}
         \/ pc'[p] = "spawn" /\ asked' = asked /\ todo'[p] = Kids(job[p])
      /\ stage'[job[p]] = "wait" /\ \A t \in Task : t # job[p] => stage'[t] = stage[t]
      /\ \A q \in Proc : q # p => pc'[q] = pc[q] /\ loc'[q] = loc[q] /\ todo'[q] = todo[q]
  BY <1>1, <1>2 DEF TaskInv, TypeOK
<1>4. Others(p)
  BY <1>1, <1>3 DEF Others, Alone
<1> QED
  BY <1>1, <1>3, <1>4, WaitChain
-----------------------------------------------------------------------------
(***************************************************************************)
(* The subtask is started, and takes the lead; or something goes wrong.    *)
(***************************************************************************)
\* Nobody leads a task that has no row.
LEMMA NoneNoLead ==
    ASSUME TaskInv, NEW t \in Task, stage[t] = "none"
    PROVE  NoLead(t) /\ ~Asking(t) /\ \A p \in Proc : pc[p] # "idle" => job[p] # t
BY DEF TaskInv, NotStarted, NoLead, JobLeads, Leads, Telling, Asking

\* Nothing runs a task that nobody leads, and whose stage is not "failed".
LEMMA NoLeadNoRun ==
    ASSUME NEW t, NoLead(t), stage[t] # "failed"
    PROVE  /\ ~Queued(t)
           /\ ~\E q \in Proc : Running(q, t) /\ pc[q] \in {"fetch", "lock", "handler"}
BY DEF NoLead, JobLeads, Leads, Queued, Running

\* One goroutine starts the subtasks of a task, while the API is served.
LEMMA SpawningChain ==
    ASSUME TaskInv, ReasonsInv, ChainInv, NEW p \in Proc, pc[p] \in {"spawn", "link"}, todo[p] # {}
    PROVE  /\ Serving /\ p \in Worker /\ job[p] \in Task /\ ~bad[p] /\ loc[p] = "wait"
           /\ stage[job[p]] = "wait" /\ NoLead(job[p])
           /\ \A c \in todo[p] : /\ c \in Task /\ Parent[c] = job[p] /\ row[c] = None
                                 /\ stage[c] \in {"none", "on_init"} /\ NoLead(c)
<1>1. /\ OneAtATime /\ LeadHandedOver /\ MethodsInOrder /\ ListsSpareComplete /\ StartedOver
      /\ UntouchedBeforeRow
  BY DEF ChainInv, ReasonsInv
<1>2. /\ job[p] \in Task /\ ~bad[p] /\ loc[p] = "wait"
      /\ stage[job[p]] = "wait" /\ NoLead(job[p])
      /\ \A c \in todo[p] : /\ c \in Task /\ Parent[c] = job[p] /\ row[c] = None
                            /\ stage[c] \in {"none", "on_init"}
  BY <1>1 DEF MethodsInOrder, TaskInv, JobsInOrder, SpawningInOrder, Kids
<1>3. Serving
  BY <1>1, <1>2 DEF StartedOver
<1>4. p \in Worker
  BY <1>1, <1>3 DEF Proc, Serving, At, ListsSpareComplete
<1>5. \A c \in todo[p] : NoLead(c)
  <2> SUFFICES ASSUME NEW c \in todo[p] PROVE NoLead(c)
    OBVIOUS
  <2>1. ~InQueue(c) /\ \A q \in Worker : pc[q] # "idle" => job[q] # c
    BY <1>1, <1>2 DEF UntouchedBeforeRow
  <2>2. \A q \in Proc : ~Leads(q, c)
    BY <1>1, <1>3, <2>1 DEF Leads, Telling, Serving, At, ListsSpareComplete, Proc
  <2> QED
    BY <2>1, <2>2 DEF NoLead, JobLeads, InQueue
<1> QED
  BY <1>2, <1>3, <1>4, <1>5

\* The subtask has its row of tasks_tbl.
LEMMA NewTaskChain ==
    ASSUME TaskInv, TaskInv', ReasonsInv, ChainInv, NEW p \in Proc, NewTask(p)
    PROVE  ChainInv'
<1>1. PICK c \in todo[p] :
         /\ UNCHANGED <<row, queue, job, bad, loc, todo, next, result, pstage, some, asked, calls>>
         /\ pc[p] = "spawn" /\ pc' = [pc EXCEPT ![p] = "link"]
         /\ stage[c] = "none" /\ stage' = [stage EXCEPT ![c] = "on_init"]
  BY DEF NewTask, Goto, At, envVars
<1> DEFINE u == job[p]
<1>2. /\ Serving /\ p \in Worker /\ u \in Task /\ stage[u] = "wait" /\ NoLead(u)
      /\ c \in Task /\ Parent[c] = u
      /\ Canceller \in Proc /\ Starter \in Proc /\ p # Starter /\ p # Canceller
  BY <1>1, SpawningChain, NamesAssumption DEF Proc
<1>3. OneAtATime /\ LeadHandedOver /\ MethodsInOrder /\ ListsSpareComplete
  BY DEF ChainInv
<1>4. /\ pc'[p] = "link" /\ \A q \in Proc : q # p => pc'[q] = pc[q]
      /\ stage'[c] = "on_init" /\ \A t \in Task : t # c => stage'[t] = stage[t]
  BY <1>1, <1>2 DEF TaskInv, TypeOK
<1>5. Serving'
  BY <1>1, <1>2, <1>4 DEF Serving, At
<1>6. /\ \A t \in Task : t # c => (Unfinished(t)' <=> Unfinished(t))
      /\ \A t \in Task : t # c => (Good(t)' <=> Good(t))
      /\ \A t \in Task : Queued(t)' <=> Queued(t)
      /\ \A t \in Task : Asking(t)' <=> Asking(t)
  BY <1>1, <1>2, <1>4, <1>5 DEF Unfinished, Good, Queued, Asking
<1>7. \A q \in Proc : pc[q] # "idle" => job[q] # c /\ job[q] \in Task
  BY <1>1, <1>2, NoneNoLead DEF TaskInv, JobsInOrder
<1>8. /\ \A t \in Task, i \in DOMAIN queue : JobLeads(i, t)' => JobLeads(i, t)
      /\ \A t \in Task, q \in Proc : Leads(q, t)' => Leads(q, t)
  <2>1. \A i \in DOMAIN queue : queue[i].task # c
    BY <1>1, <1>2 DEF TaskInv, NotStarted
  <2> QED
    BY <1>1, <1>2, <1>4, <1>7, <2>1 DEF JobLeads, Leads, Telling
<1>9. \A t \in Task : NoLead(t) => NoLead(t)'
  BY <1>1, <1>8 DEF NoLead
<1>10. \A t \in Task : Parent[t] = c => stage[t] = "none"
  BY <1>1, <1>2 DEF TaskInv, FirstStageOver
<1>11. OneAtATime'
  <2> SUFFICES ASSUME NEW t \in Task, Fine(t)'
               PROVE  /\ OneLead(t)' /\ \A q \in Proc : Leads(q, t)' => Knows(q)'
                      /\ stage'[t] = "complete" => \A i \in DOMAIN queue : ~JobLeads(i, t)'
                      /\ Asking(t)' => NoLead(t)' /\ stage'[t] # "complete"
    BY <1>1 DEF OneAtATime
  <2>1. CASE stage[t] = "none"
    <3>1. NoLead(t)' /\ ~Asking(t)'
      BY <1>6, <1>9, <2>1, NoneNoLead
    <3> QED
      BY <1>1, <3>1 DEF OneLead, NoLead
  <2>2. CASE stage[t] # "none"
    <3>1. t # c /\ Parent[t] # c /\ Fine(t)
      BY <1>1, <1>6, <1>10, <2>2 DEF Fine
    <3>2. OneLead(t) /\ \A q \in Proc : Leads(q, t) => Knows(q)
      BY <1>3, <3>1 DEF OneAtATime
    <3>3. OneLead(t)'
      BY <1>1, <1>8, <3>2 DEF OneLead
    <3>4. ASSUME NEW q \in Proc, Leads(q, t)' PROVE Knows(q)'
      <4>1. Leads(q, t) /\ Knows(q) /\ job[q] = t
        BY <1>8, <3>2, <3>4 DEF Leads
      <4>2. q # p
        BY <1>1, <4>1 DEF Leads, Telling
      <4> QED
        BY <1>1, <1>4, <1>6, <3>1, <4>1, <4>2 DEF Knows, Telling
    <3> QED
      BY <1>3, <1>4, <1>6, <1>8, <1>9, <3>1, <3>3, <3>4 DEF OneAtATime
  <2> QED
    BY <2>1, <2>2
<1>12. LeadHandedOver'
  <2> SUFFICES ASSUME NEW d \in Task, Parent[d] \in Task
               PROVE  LET t == Parent[d] IN
                      /\ Good(t)' /\ ~NoLead(t)' => NoLead(d)' /\ stage'[d] # "wait"
                      /\ stage'[t] = "complete" => NoLead(d)' /\ stage'[d] = "complete"
                      /\ stage'[t] = "wait" /\
                            (\/ Queued(t)'
                             \/ \E q \in Proc : /\ Running(q, t)'
                                                /\ pc'[q] \in {"fetch", "lock", "handler"})
                            => stage'[d] = "complete"
    BY DEF LeadHandedOver
  <2> DEFINE t == Parent[d]
  <2>1. \A x \in Task, q \in Proc : Running(q, x)' /\ pc'[q] \in {"fetch", "lock", "handler"} =>
              Running(q, x) /\ pc[q] \in {"fetch", "lock", "handler"}
    BY <1>1, <1>4 DEF Running
  <2>2. CASE t = c
    BY <1>1, <1>2, <1>4, <1>9, <2>2, NoneNoLead
  <2>3. CASE d = c /\ t # c
    BY <1>2, <1>4, <1>6, <1>9, <2>1, <2>3, NoLeadNoRun
  <2>4. CASE t # c /\ d # c
    BY <1>3, <1>4, <1>6, <1>9, <2>1, <2>4 DEF LeadHandedOver
  <2> QED
    BY <2>2, <2>3, <2>4
<1>13. MethodsInOrder'
  <2> SUFFICES ASSUME NEW q \in Proc
               PROVE  /\ pc'[q] \in {"lock", "handler"} /\ ~bad[q] => Unfinished(job[q])'
                      /\ pc'[q] \in {"spawn", "link"} /\ todo[q] # {} =>
                            /\ stage'[job[q]] = "wait" /\ NoLead(job[q])'
                            /\ \A d \in todo[q] : stage'[d] \in {"none", "on_init"}
    BY <1>1 DEF MethodsInOrder
  <2>1. ASSUME pc'[q] \in {"lock", "handler"}, ~bad[q] PROVE Unfinished(job[q])'
    BY <1>1, <1>3, <1>4, <1>7, <2>1 DEF MethodsInOrder, Unfinished
  <2>2. ASSUME pc'[q] \in {"spawn", "link"}, todo[q] # {}
        PROVE  /\ stage'[job[q]] = "wait" /\ NoLead(job[q])'
               /\ \A d \in todo[q] : stage'[d] \in {"none", "on_init"}
    <3>1. pc[q] \in {"spawn", "link"}
      BY <1>1, <1>4, <2>2
    <3>2. /\ stage[job[q]] = "wait" /\ NoLead(job[q]) /\ job[q] \in Task
          /\ \A d \in todo[q] : d \in Task /\ stage[d] \in {"none", "on_init"}
      BY <2>2, <3>1, SpawningChain
    <3>3. \A t \in Task : t = job[q] => NoLead(t)'
      BY <1>9, <3>2
    <3>4. NoLead(job[q])'
      BY <1>1, <3>2, <3>3 DEF NoLead
    <3> QED
      BY <1>4, <1>7, <3>1, <3>2, <3>4
  <2> QED
    BY <2>1, <2>2
<1>14. ListsSpareComplete'
  <2>1. next[Starter] = <<>> /\ pc'[Canceller] = "idle" /\ next[Canceller] = <<>>
    BY <1>2, <1>3, <1>4 DEF ListsSpareComplete, Serving
  <2> QED
    BY <1>1, <2>1 DEF ListsSpareComplete
<1> QED
  BY <1>11, <1>12, <1>13, <1>14 DEF ChainInv

\* The goroutine gives up, and leads the task again.
LEMMA GiveUpChain ==
    ASSUME Chain, TaskInv, TaskInv', ReasonsInv, ChainInv, NEW p \in Proc, Others(p),
           UNCHANGED <<stage, queue, next, asked, calls>>,
           pc[p] \in {"spawn", "link"}, todo[p] # {}, pc'[p] = "fail",
           job'[p] = job[p], bad'[p] = bad[p], loc'[p] = loc[p]
    PROVE  ChainInv'
<1> DEFINE u == job[p]
<1>1. PICK c \in todo[p] : TRUE
  OBVIOUS
<1>2. /\ Serving /\ p \in Worker /\ u \in Task /\ loc[p] = "wait" /\ stage[u] = "wait" /\ NoLead(u)
      /\ c \in Task /\ Parent[c] = u /\ stage[c] \in {"none", "on_init"} /\ NoLead(c)
      /\ Canceller \in Proc /\ Starter \in Proc /\ p # Starter /\ p # Canceller
  BY SpawningChain, NamesAssumption DEF Proc
<1>3. OneAtATime /\ LeadHandedOver /\ MethodsInOrder /\ ListsSpareComplete
  BY DEF ChainInv
<1>4. Serving'
  BY <1>2 DEF Serving, At, Others, Alone
<1>5. /\ \A t \in Task : Unfinished(t)' <=> Unfinished(t)
      /\ \A t \in Task : Good(t)' <=> Good(t)
      /\ \A t \in Task : Queued(t)' <=> Queued(t)
      /\ \A t \in Task : Asking(t)' <=> Asking(t)
  BY <1>2, <1>4 DEF Unfinished, Good, Queued, Asking
<1>6. /\ \A t \in Task, i \in DOMAIN queue : JobLeads(i, t)' <=> JobLeads(i, t)
      /\ \A t \in Task, q \in Proc : q # p => (Leads(q, t)' <=> Leads(q, t))
      /\ \A t \in Task : t # u => ~Leads(p, t)'
  BY DEF JobLeads, Leads, Telling, Others, Alone
<1>7. \A t \in Task : t # u /\ NoLead(t) => NoLead(t)'
  BY <1>6 DEF NoLead
<1>8. c # u /\ NoLead(c)'
  BY <1>2, <1>7
<1>9. OneAtATime'
  <2> SUFFICES ASSUME NEW t \in Task, Fine(t)
               PROVE  /\ OneLead(t)' /\ \A q \in Proc : Leads(q, t)' => Knows(q)'
                      /\ stage[t] = "complete" => \A i \in DOMAIN queue : ~JobLeads(i, t)'
                      /\ Asking(t)' => NoLead(t)' /\ stage[t] # "complete"
    BY <1>5 DEF OneAtATime, Fine
  <2>1. CASE t = u
    <3>1. \A q \in Proc : Leads(q, t)' => q = p
      BY <1>2, <1>6, <2>1 DEF NoLead
    <3>2. \A i \in DOMAIN queue : ~JobLeads(i, t)'
      BY <1>2, <1>6, <2>1 DEF NoLead
    <3>3. Knows(p)'
      BY <1>2 DEF Knows, Telling, Unfinished, Final
    <3>4. ~Asking(t)'
      BY <1>2, <2>1, TreeAssumption DEF Asking, TaskInv, Kids
    <3> QED
      BY <1>2, <2>1, <3>1, <3>2, <3>3, <3>4 DEF OneLead
  <2>2. CASE t # u
    <3>1. OneLead(t) /\ \A q \in Proc : Leads(q, t) => Knows(q)
      BY <1>3 DEF OneAtATime
    <3>2. OneLead(t)'
      BY <1>6, <2>2, <3>1 DEF OneLead
    <3>3. ASSUME NEW q \in Proc, Leads(q, t)' PROVE Knows(q)'
      <4>1. q # p /\ Leads(q, t) /\ Knows(q) /\ job[q] = t
        BY <1>6, <2>2, <3>1, <3>3 DEF Leads
      <4> QED
        BY <1>5, <4>1 DEF Knows, Telling, Others, Alone
    <3> QED
      BY <1>3, <1>5, <1>6, <1>7, <2>2, <3>2, <3>3 DEF OneAtATime
  <2> QED
    BY <2>1, <2>2
<1>10. LeadHandedOver'
  <2> SUFFICES ASSUME NEW d \in Task, Parent[d] \in Task
               PROVE  LET t == Parent[d] IN
                      /\ Good(t)' /\ ~NoLead(t)' => NoLead(d)' /\ stage[d] # "wait"
                      /\ stage[t] = "complete" => NoLead(d)' /\ stage[d] = "complete"
                      /\ stage[t] = "wait" /\
                            (\/ Queued(t)'
                             \/ \E q \in Proc : /\ Running(q, t)'
                                                /\ pc'[q] \in {"fetch", "lock", "handler"})
                            => stage[d] = "complete"
    BY DEF LeadHandedOver
  <2> DEFINE t == Parent[d]
  <2>1. \A x \in Task, q \in Proc : Running(q, x)' /\ pc'[q] \in {"fetch", "lock", "handler"} =>
              Running(q, x) /\ pc[q] \in {"fetch", "lock", "handler"}
    BY DEF Running, Others, Alone
  <2>2. CASE t = u
    <3>1. d = c
      BY <1>2, <2>2 DEF Chain, Kids
    <3> QED
      BY <1>2, <1>5, <1>8, <2>1, <2>2, <3>1, NoLeadNoRun
  <2>3. CASE t # u
    BY <1>2, <1>3, <1>5, <1>7, <2>1, <2>3 DEF LeadHandedOver
  <2> QED
    BY <2>2, <2>3
<1>11. MethodsInOrder'
  <2> SUFFICES ASSUME NEW q \in Proc, q # p
               PROVE  /\ pc[q] \in {"lock", "handler"} /\ ~bad[q] => Unfinished(job[q])'
                      /\ pc[q] \in {"spawn", "link"} /\ todo[q] # {} =>
                            /\ stage[job[q]] = "wait" /\ NoLead(job[q])'
                            /\ \A d \in todo[q] : stage[d] \in {"none", "on_init"}
    BY DEF MethodsInOrder, Others, Alone
  <2>1. job'[q] = job[q]
    BY DEF Others, Alone
  <2>2. pc[q] \in {"lock", "handler"} /\ ~bad[q] => Unfinished(job[q])'
    BY <1>3, <2>1 DEF MethodsInOrder, Unfinished
  <2>3. ASSUME pc[q] \in {"spawn", "link"}, todo[q] # {}
        PROVE  /\ stage[job[q]] = "wait" /\ NoLead(job[q])'
               /\ \A d \in todo[q] : stage[d] \in {"none", "on_init"}
    <3>1. /\ stage[job[q]] = "wait" /\ NoLead(job[q]) /\ job[q] \in Task
          /\ \A d \in todo[q] : d \in Task /\ stage[d] \in {"none", "on_init"}
      BY <2>3, SpawningChain
    <3>2. job[q] # u
      BY <2>3, OneSpawner DEF Spawner
    <3>3. \A t \in Task : t = job[q] => NoLead(t)'
      BY <1>7, <3>1, <3>2
    <3>4. NoLead(job[q])'
      BY <2>1, <3>1, <3>3 DEF NoLead
    <3> QED
      BY <3>1, <3>4
  <2> QED
    BY <2>2, <2>3
<1>12. ListsSpareComplete'
  BY <1>2, <1>3 DEF ListsSpareComplete, Others, Alone
<1> QED
  BY <1>9, <1>10, <1>11, <1>12 DEF ChainInv

\* All the subtasks have been started, or not.
LEMMA SpawnedChain ==
    ASSUME Chain, TaskInv, TaskInv', ReasonsInv, ChainInv, NEW p \in Proc, Spawned(p)
    PROVE  ChainInv'
<1>1. /\ UNCHANGED <<stage, queue, job, bad, loc, next, result, pstage, some, asked, calls>>
      /\ pc[p] = "spawn" /\ todo' = [todo EXCEPT ![p] = {}]
      /\ \/ todo[p] = {} /\ pc' = [pc EXCEPT ![p] = "done"]
         \/ todo[p] # {} /\ pc' = [pc EXCEPT ![p] = "fail"]
  BY DEF Spawned, Goto, At, dbVars, envVars
<1>2. /\ (todo[p] = {} /\ pc'[p] = "done") \/ (todo[p] # {} /\ pc'[p] = "fail")
      /\ \A q \in Proc : q # p => pc'[q] = pc[q] /\ todo'[q] = todo[q]
  BY <1>1 DEF TaskInv, TypeOK
<1>3. Others(p)
  BY <1>1, <1>2 DEF Others, Alone
<1>4. CASE pc'[p] = "done"
  <2>1. ~Leads(p, job[p])' /\ \A t \in Task : ~Leads(p, t)'
    BY <1>4 DEF Leads, Telling
  <2> QED
    BY <1>1, <1>3, <1>4, <2>1, CalmChain
<1>5. CASE pc'[p] = "fail"
  BY <1>1, <1>2, <1>3, <1>5, GiveUpChain
<1> QED
  BY <1>2, <1>4, <1>5
-----------------------------------------------------------------------------
(***************************************************************************)
(* A job is queued for a task that nobody leads.                           *)
(***************************************************************************)
\* The queue with its new place, if there is room for it.
LEMMA PlaceFacts ==
    ASSUME TypeOK, NEW t \in Task, NEW b \in BOOLEAN, runTask(t, b)
    PROVE  \E k : /\ k \notin DOMAIN queue /\ DOMAIN queue \subseteq DOMAIN queue'
                  /\ \A i \in DOMAIN queue' :
                        i \in DOMAIN queue \/ (i = k /\ queue'[i].task = t /\ queue'[i].bad = b)
                  /\ \A i \in DOMAIN queue : queue'[i] = queue[i]
<1> DEFINE e == [task |-> t, bad |-> b]
<1>1. queue \in Seq([task : Task, bad : BOOLEAN]) /\ (queue' = Append(queue, e) \/ queue' = queue)
  BY DEF TypeOK, runTask
<1>2. Len(queue) + 1 \notin DOMAIN queue
  BY <1>1
<1>3. CASE queue' = Append(queue, e)
  <2>1. /\ DOMAIN queue' = DOMAIN queue \cup {Len(queue) + 1}
        /\ queue'[Len(queue) + 1] = e
        /\ \A i \in DOMAIN queue : queue'[i] = queue[i]
    BY <1>1, <1>3
  <2>2. e.task = t /\ e.bad = b
    OBVIOUS
  <2> QED
    BY <1>2, <2>1, <2>2
<1>4. CASE queue' = queue
  BY <1>2, <1>4
<1> QED
  BY <1>1, <1>3, <1>4

LEMMA WakeChain ==
    ASSUME TaskInv, TaskInv', ReasonsInv, ChainInv,
           NEW x \in Task, NEW b \in BOOLEAN, runTask(x, b),
           UNCHANGED <<next, job, bad, loc, result>>,
           \A q \in Proc : \/ pc'[q] = pc[q] \/ (pc[q] = "check" /\ pc'[q] = "done")
                           \/ (pc[q] = "link" /\ pc'[q] = "spawn"),
           \A q \in Proc : todo'[q] \subseteq todo[q],
           \A q \in Proc : pc'[q] \in {"spawn", "link"} /\ todo'[q] # {} => job[q] # x,
           \A t \in Task : Asking(t)' => Asking(t) /\ t # x,
           \A t \in Task : t # x => stage'[t] = stage[t],
           stage'[x] = stage[x] \/ (stage[x] = "none" /\ stage'[x] = "on_init" /\ Serving),
           stage'[x] # "complete",
           stage'[x] = "failed" \/ (Fine(x) => NoLead(x)),
           \A d \in Kids(x) : Good(x)' => /\ stage[d] # "wait" /\ d # x
                                          /\ \A i \in DOMAIN queue : ~JobLeads(i, d)
                                          /\ \A q \in Proc : ~Leads(q, d)',
           \A d \in Kids(x) : stage'[x] = "wait" /\ ~b => stage[d] = "complete",
           \/ stage'[x] = "failed" \/ Parent[x] \notin Task \/ ~Good(Parent[x])
           \/ NoLead(Parent[x]) /\ stage[Parent[x]] # "complete" /\ Parent[x] # x
    PROVE  ChainInv'
<1>1. /\ OneAtATime /\ LeadHandedOver /\ MethodsInOrder /\ ListsSpareComplete
      /\ Canceller \in Proc /\ Starter \in Proc
      /\ \A q \in Proc : pc[q] # "idle" => job[q] \in Task
  BY DEF ChainInv, Proc, TaskInv, JobsInOrder
<1>2. PICK k : /\ k \notin DOMAIN queue /\ DOMAIN queue \subseteq DOMAIN queue'
               /\ \A i \in DOMAIN queue' :
                     i \in DOMAIN queue \/ (i = k /\ queue'[i].task = x /\ queue'[i].bad = b)
               /\ \A i \in DOMAIN queue : queue'[i] = queue[i]
  BY PlaceFacts DEF TaskInv
<1>3. Serving' <=> Serving
  BY <1>1 DEF Serving, At
<1>4. stage[x] = "none" => /\ \A i \in DOMAIN queue : queue[i].task # x
                           /\ \A q \in Proc : pc[q] # "idle" => job[q] # x
                           /\ \A t \in Task : Parent[t] = x => stage[t] = "none"
                           /\ NoLead(x)
  <2>1. \A t \in Task : stage[x] = "none" /\ Parent[t] = x => stage[t] = "none"
    BY DEF TaskInv, FirstStageOver
  <2> QED
    BY <2>1, NoneNoLead DEF TaskInv, NotStarted
<1>5. /\ \A t \in Task : t # x => (Unfinished(t)' <=> Unfinished(t)) /\ (Good(t)' <=> Good(t))
      /\ stage[x] = "none" \/ ((Unfinished(x)' <=> Unfinished(x)) /\ (Good(x)' <=> Good(x)))
  BY <1>3 DEF Unfinished, Good
<1>6. \A t \in Task : Fine(t)' => Fine(t) \/ stage[t] = "none"
  BY <1>4, <1>5 DEF Fine
<1>7. /\ \A t \in Task, i \in DOMAIN queue : JobLeads(i, t)' => JobLeads(i, t)
      /\ \A t \in Task, i \in DOMAIN queue' :
            i \notin DOMAIN queue /\ JobLeads(i, t)' => i = k /\ t = x /\ stage'[x] # "failed"
  BY <1>2, <1>4 DEF JobLeads
<1>8. \A t \in Task, q \in Proc : Leads(q, t)' => Leads(q, t) /\ pc'[q] = pc[q]
  <2> SUFFICES ASSUME NEW t \in Task, NEW q \in Proc, Leads(q, t)'
               PROVE  Leads(q, t) /\ pc'[q] = pc[q]
    OBVIOUS
  <2>1. pc'[q] = pc[q] /\ pc[q] # "idle" /\ job[q] = t
    BY DEF Leads, Telling
  <2>2. stage'[t] = stage[t]
    BY <1>4, <2>1
  <2> QED
    BY <2>1, <2>2 DEF Leads, Telling
<1>9. \A t \in Task : NoLead(t) /\ t # x => NoLead(t)'
  BY <1>2, <1>7, <1>8 DEF NoLead
<1>10. /\ stage'[x] = "failed" /\ NoLead(x) => NoLead(x)'
       /\ \A t \in Task : Queued(t)' => Queued(t) \/ (t = x /\ ~b)
  <2>1. stage'[x] = "failed" /\ NoLead(x) => NoLead(x)'
    BY <1>2, <1>7, <1>8 DEF NoLead
  <2> QED
    BY <1>2, <2>1 DEF Queued
<1>11. OneAtATime'
  <2> SUFFICES ASSUME NEW t \in Task, Fine(t)'
               PROVE  /\ OneLead(t)' /\ \A q \in Proc : Leads(q, t)' => Knows(q)'
                      /\ stage'[t] = "complete" => \A i \in DOMAIN queue' : ~JobLeads(i, t)'
                      /\ Asking(t)' => NoLead(t)' /\ stage'[t] # "complete"
    BY DEF OneAtATime
  <2>1. CASE NoLead(t)
    <3>1. CASE t # x
      <4>1. NoLead(t)'
        BY <1>9, <2>1, <3>1
      <4>2. Asking(t)' => stage[t] # "complete"
        <5>1. Asking(t)' => stage[t] # "none" /\ Asking(t)
          BY NoneNoLead
        <5> QED
          BY <1>1, <1>6, <5>1 DEF OneAtATime
      <4> QED
        BY <3>1, <4>1, <4>2 DEF NoLead, OneLead
    <3>2. CASE t = x
      <4>1. \A i \in DOMAIN queue' : JobLeads(i, t)' => i = k
        BY <1>2, <1>7, <2>1 DEF NoLead
      <4>2. \A q \in Proc : ~Leads(q, t)'
        BY <1>8, <2>1 DEF NoLead
      <4> QED
        BY <3>2, <4>1, <4>2 DEF OneLead
    <3> QED
      BY <3>1, <3>2
  <2>2. CASE ~NoLead(t)
    <3>1. stage[t] # "none" /\ Fine(t) /\ (t = x => stage'[x] = "failed")
      BY <1>6, <2>2, NoneNoLead
    <3>2. /\ stage'[t] = stage[t] /\ (Unfinished(t)' <=> Unfinished(t))
          /\ \A i \in DOMAIN queue' : JobLeads(i, t)' => i \in DOMAIN queue
      BY <1>5, <1>7, <3>1
    <3>3. OneLead(t) /\ \A q \in Proc : Leads(q, t) => Knows(q)
      BY <1>1, <3>1 DEF OneAtATime
    <3>4. OneLead(t)'
      BY <1>2, <1>7, <1>8, <3>2, <3>3 DEF OneLead
    <3>5. ASSUME NEW q \in Proc, Leads(q, t)' PROVE Knows(q)'
      <4>1. Leads(q, t) /\ Knows(q) /\ job[q] = t /\ pc'[q] = pc[q]
        BY <1>8, <3>3, <3>5 DEF Leads
      <4> QED
        BY <3>2, <4>1 DEF Knows, Telling
    <3> QED
      BY <1>1, <1>2, <1>7, <2>2, <3>1, <3>2, <3>4, <3>5 DEF OneAtATime
  <2> QED
    BY <2>1, <2>2
<1>12. LeadHandedOver'
  <2> SUFFICES ASSUME NEW d \in Task, Parent[d] \in Task
               PROVE  LET t == Parent[d] IN
                      /\ Good(t)' /\ ~NoLead(t)' => NoLead(d)' /\ stage'[d] # "wait"
                      /\ stage'[t] = "complete" => NoLead(d)' /\ stage'[d] = "complete"
                      /\ stage'[t] = "wait" /\
                            (\/ Queued(t)'
                             \/ \E q \in Proc : /\ Running(q, t)'
                                                /\ pc'[q] \in {"fetch", "lock", "handler"})
                            => stage'[d] = "complete"
    BY DEF LeadHandedOver
  <2> DEFINE t == Parent[d]
  <2>1. \A y \in Task, q \in Proc : Running(q, y)' /\ pc'[q] \in {"fetch", "lock", "handler"} =>
              Running(q, y) /\ pc[q] \in {"fetch", "lock", "handler"}
    BY DEF Running
  <2>2. stage[d] = "complete" => d # x
    BY DEF Final
  <2>3. CASE t = x
    <3>1. d \in Kids(x)
      BY <2>3 DEF Kids
    <3>2. Good(x)' => NoLead(d)' /\ stage'[d] # "wait"
      BY <1>2, <1>7, <3>1 DEF NoLead
    <3>3. stage'[x] = "wait" /\
                            (\/ Queued(x)'
                             \/ \E q \in Proc : /\ Running(q, x)'
                                                /\ pc'[q] \in {"fetch", "lock", "handler"})
                            => stage'[d] = "complete"
      BY <1>1, <1>10, <2>1, <2>2, <2>3, <3>1 DEF LeadHandedOver
    <3> QED
      BY <2>3, <3>2, <3>3
  <2>4. CASE t # x /\ d = x
    BY <1>1, <1>5, <1>9, <1>10, <2>1, <2>2, <2>4 DEF LeadHandedOver, Good
  <2>5. CASE t # x /\ d # x
    BY <1>1, <1>5, <1>9, <1>10, <2>1, <2>5 DEF LeadHandedOver
  <2> QED
    BY <2>3, <2>4, <2>5
<1>13. MethodsInOrder'
  <2> SUFFICES ASSUME NEW q \in Proc
               PROVE  /\ pc'[q] \in {"lock", "handler"} /\ ~bad[q] => Unfinished(job[q])'
                      /\ pc'[q] \in {"spawn", "link"} /\ todo'[q] # {} =>
                            /\ stage'[job[q]] = "wait" /\ NoLead(job[q])'
                            /\ \A d \in todo'[q] : stage'[d] \in {"none", "on_init"}
    BY DEF MethodsInOrder
  <2>1. ASSUME pc'[q] \in {"lock", "handler"}, ~bad[q] PROVE Unfinished(job[q])'
    <3>1. pc[q] = pc'[q] /\ job[q] \in Task /\ (stage[x] = "none" => job[q] # x)
      BY <1>1, <1>4, <2>1
    <3> QED
      BY <1>1, <2>1, <3>1 DEF MethodsInOrder, Unfinished
  <2>2. ASSUME pc'[q] \in {"spawn", "link"}, todo'[q] # {}
        PROVE  /\ stage'[job[q]] = "wait" /\ NoLead(job[q])'
               /\ \A d \in todo'[q] : stage'[d] \in {"none", "on_init"}
    <3>1. pc[q] \in {"spawn", "link"} /\ todo[q] # {} /\ job[q] # x
      BY <2>2
    <3>2. /\ stage[job[q]] = "wait" /\ NoLead(job[q]) /\ job[q] \in Task
          /\ \A d \in todo[q] : d \in Task /\ stage[d] \in {"none", "on_init"}
      BY <3>1, SpawningChain
    <3>3. \A t \in Task : t = job[q] => NoLead(t)'
      BY <1>9, <3>1, <3>2
    <3>4. NoLead(job[q])'
      BY <3>2, <3>3 DEF NoLead
    <3> QED
      BY <3>1, <3>2, <3>4
  <2> QED
    BY <2>1, <2>2
<1>14. ListsSpareComplete'
  <2>1. pc'[Canceller] = "idle" /\ next[Canceller] = <<>>
    BY <1>1 DEF ListsSpareComplete
  <2>2. \A t \in Task : stage'[t] = "complete" => stage[t] = "complete"
    OBVIOUS
  <2>3. \A i \in DOMAIN next[Starter] : next[Starter][i].task \in Task
    <3>1. next[Starter] \in Seq(Entries)
      BY <1>1, EntryFacts DEF TaskInv
    <3>2. \A i \in DOMAIN next[Starter] : next[Starter][i] \in Entries
      BY <3>1, LenProperties, ElementOfSeq
    <3> QED
      BY <3>2 DEF Entries
  <2> QED
    BY <1>1, <2>1, <2>2, <2>3 DEF ListsSpareComplete
<1> QED
  BY <1>11, <1>12, <1>13, <1>14 DEF ChainInv

\* No task is its own parent.
LEMMA NotOwnParent == ASSUME NEW t \in Task PROVE Parent[t] # t
<1>1. PICK depth \in [Task -> 0 .. Cardinality(Task)] :
         \A c \in Task : Parent[c] \in Task => depth[Parent[c]] < depth[c]
  BY TreeAssumption
<1>2. depth[t] \in Int
  BY <1>1
<1> QED
  BY <1>1, <1>2

\* Nobody leads the parent of a task that waits.
LEMMA ParentOfWaiting ==
    ASSUME ChainInv, NEW t \in Task, stage[t] = "wait", Parent[t] \in Task, Good(Parent[t])
    PROVE  NoLead(Parent[t]) /\ stage[Parent[t]] # "complete" /\ Parent[t] # t
BY NotOwnParent DEF ChainInv, LeadHandedOver

\* The subtask of a task that has none yet.
LEMMA NoKidsYet ==
    ASSUME TaskInv, NEW t \in Task, stage[t] \in {"none", "on_init"}, NEW d \in Kids(t)
    PROVE  /\ d \in Task /\ d # t /\ stage[d] = "none" /\ \A i \in DOMAIN queue : ~JobLeads(i, d)
           /\ \A q \in Proc : pc[q] # "idle" => job[q] # d
<1>1. d \in Task /\ Parent[d] = t
  BY DEF Kids
<1>2. stage[d] = "none" /\ d # t
  BY <1>1, NotOwnParent DEF TaskInv, FirstStageOver
<1> QED
  BY <1>1, <1>2, NoneNoLead DEF NoLead

\* A request starts a task.
LEMMA StartChain ==
    ASSUME TaskInv, TaskInv', ReasonsInv, ChainInv, NEW t \in Task, StartTask(t)
    PROVE  ChainInv'
<1>1. /\ UNCHANGED <<next, pc, job, bad, loc, todo, result, asked, calls>>
      /\ Serving /\ Parent[t] = None /\ stage[t] = "none"
      /\ stage' = [stage EXCEPT ![t] = "on_init"] /\ runTask(t, FALSE)
  BY DEF StartTask, procVars
<1>2. /\ Parent[t] \notin Task /\ stage'[t] = "on_init"
      /\ \A d \in Task : d # t => stage'[d] = stage[d]
  BY <1>1, NamesAssumption DEF TaskInv, TypeOK
<1>3. NoLead(t) /\ ~Asking(t) /\ \A q \in Proc : pc[q] # "idle" => job[q] # t
  BY <1>1, NoneNoLead
<1>4. \A d \in Task : Asking(d)' => Asking(d) /\ d # t
  BY <1>1, <1>3 DEF Asking
<1>5. \A d \in Kids(t) : /\ stage[d] # "wait" /\ d # t
                         /\ \A i \in DOMAIN queue : ~JobLeads(i, d)
                         /\ \A q \in Proc : ~Leads(q, d)'
  <2> SUFFICES ASSUME NEW d \in Kids(t)
               PROVE  /\ stage[d] # "wait" /\ d # t
                      /\ \A i \in DOMAIN queue : ~JobLeads(i, d)
                      /\ \A q \in Proc : ~Leads(q, d)'
    OBVIOUS
  <2>1. /\ d # t /\ stage[d] = "none" /\ \A i \in DOMAIN queue : ~JobLeads(i, d)
        /\ \A q \in Proc : pc[q] # "idle" => job[q] # d
    BY <1>1, NoKidsYet
  <2> QED
    BY <1>1, <2>1 DEF Leads, Telling
<1> QED
  BY <1>1, <1>2, <1>3, <1>4, <1>5, WakeChain

\* The agent calls back.
LEMMA ActionChain ==
    ASSUME Chain, TaskInv, TaskInv', ReasonsInv, ChainInv, NEW t \in Task, PerformAction(t)
    PROVE  ChainInv'
<1>1. PICK b \in BOOLEAN :
         /\ UNCHANGED <<stage, next, pc, job, bad, loc, todo, result, asked>>
         /\ t \in asked /\ calls[t] < MaxCalls /\ calls' = [calls EXCEPT ![t] = @ + 1]
         /\ runTask(t, b)
  BY DEF PerformAction, dbVars, procVars
<1>2. /\ calls[t] = 0 /\ calls'[t] = 1 /\ \A d \in Task : d # t => calls'[d] = calls[d]
  BY <1>1, BoundsAssumption DEF Chain, TaskInv, TypeOK
<1>3. Asking(t) /\ \A d \in Task : Asking(d)' => Asking(d) /\ d # t
  BY <1>1, <1>2 DEF Asking
<1>4. stage[t] # "complete" /\ (Fine(t) => NoLead(t))
  BY <1>3 DEF ChainInv, OneAtATime, Fine, Good
<1>5. stage[t] \in {"wait", "failed"}
  <2>1. stage[t] \in Stage
    BY DEF TaskInv, TypeOK
  <2> QED
    BY <1>1, <1>4, <2>1 DEF ReasonsInv, AskedOnce, Stage, Final
<1>6. Kids(t) = {}
  BY <1>1, TreeAssumption DEF TaskInv
<1>7. \A q \in Proc : pc[q] \in {"spawn", "link"} /\ todo[q] # {} => job[q] # t
  BY <1>6, SpawningChain DEF Kids
<1>8. \/ stage[t] = "failed" \/ Parent[t] \notin Task \/ ~Good(Parent[t])
      \/ NoLead(Parent[t]) /\ stage[Parent[t]] # "complete" /\ Parent[t] # t
  BY <1>5, ParentOfWaiting
<1> QED
  BY <1>1, <1>3, <1>4, <1>6, <1>7, <1>8, WakeChain

\* The first job of a subtask.
LEMMA ScheduleRunChain ==
    ASSUME Chain, TaskInv, TaskInv', ReasonsInv, ChainInv, NEW p \in Proc, ScheduleRun(p)
    PROVE  ChainInv'
<1>1. PICK c \in todo[p] :
         /\ UNCHANGED <<stage, job, bad, loc, next, result, pstage, some, asked, calls>>
         /\ pc[p] = "link" /\ pc' = [pc EXCEPT ![p] = IF Room THEN "spawn" ELSE "fail"]
         /\ stage[c] # "none" /\ todo' = [todo EXCEPT ![p] = @ \ {c}]
         /\ runTask(c, FALSE)
  BY DEF ScheduleRun, Goto, At
<1> DEFINE u == job[p]
<1>2. /\ u \in Task /\ stage[u] = "wait" /\ NoLead(u)
      /\ c \in Task /\ Parent[c] = u /\ row[c] = None /\ stage[c] = "on_init" /\ NoLead(c)
      /\ \A d \in todo[p] : d \in Task /\ Parent[d] = u
  BY <1>1, SpawningChain
<1>3. /\ pc'[p] = IF Room THEN "spawn" ELSE "fail"
      /\ todo'[p] = todo[p] \ {c}
      /\ \A q \in Proc : q # p => pc'[q] = pc[q] /\ todo'[q] = todo[q]
  BY <1>1 DEF TaskInv, TypeOK
<1>4. todo'[p] = {}
  BY <1>2, <1>3 DEF Chain, Kids
<1>5. CASE ~Room
  <2>1. queue' = queue
    BY <1>1, <1>5 DEF runTask
  <2>2. Others(p)
    BY <1>1, <1>3 DEF Others, Alone
  <2> QED
    BY <1>1, <1>3, <1>5, <2>1, <2>2, GiveUpChain
<1>6. CASE Room
  <2>1. \A q \in Proc : pc'[q] \in {"spawn", "link"} /\ todo'[q] # {} => job[q] # c
    BY <1>2, <1>3, <1>4, SpawningChain
  <2>2. c \notin asked
    BY <1>2 DEF TaskInv, Unlinked
  <2>3. \A d \in Task : Asking(d)' => Asking(d) /\ d # c
    BY <1>1, <2>2 DEF Asking
  <2>4. \A q \in Proc : /\ pc'[q] = pc[q] \/ (pc[q] = "link" /\ pc'[q] = "spawn")
                        /\ todo'[q] \subseteq todo[q]
    BY <1>1, <1>3, <1>6
  <2>5. \A d \in Kids(c) : /\ stage[d] # "wait" /\ d # c
                           /\ \A i \in DOMAIN queue : ~JobLeads(i, d)
                           /\ \A q \in Proc : ~Leads(q, d)'
    <3> SUFFICES ASSUME NEW d \in Kids(c)
                 PROVE  /\ stage[d] # "wait" /\ d # c
                        /\ \A i \in DOMAIN queue : ~JobLeads(i, d)
                        /\ \A q \in Proc : ~Leads(q, d)'
      OBVIOUS
    <3>1. /\ d # c /\ stage[d] = "none" /\ \A i \in DOMAIN queue : ~JobLeads(i, d)
          /\ \A q \in Proc : pc[q] # "idle" => job[q] # d
      BY <1>2, NoKidsYet
    <3> QED
      BY <1>1, <2>4, <3>1 DEF Leads, Telling
  <2> QED
    BY <1>1, <1>2, <2>1, <2>3, <2>4, <2>5, WakeChain
<1> QED
  BY <1>5, <1>6

\* A subtask that is over hands the lead back.
LEMMA CheckChain ==
    ASSUME Chain, TaskInv, TaskInv', ReasonsInv, ChainInv, NEW p \in Proc, IsCurrentStageComplete(p)
    PROVE  ChainInv'
<1> DEFINE c == job[p]
           u == Parent[c]
<1>1. /\ UNCHANGED <<stage, row, job, bad, loc, todo, next, result, pstage, some, asked, calls>>
      /\ pc[p] = "check" /\ pc' = [pc EXCEPT ![p] = "done"]
      /\ queue' = queue \/ runTask(u, DataOf(result[p]))
  BY DEF IsCurrentStageComplete, Goto, At, dbVars
<1>2. /\ c \in Task /\ u \in Task /\ stage[c] # "none" /\ Starter \in Proc
      /\ result[p] \in {"succ", "fail"} /\ Leads(p, c) /\ Telling(p)
  BY <1>1 DEF TaskInv, JobsInOrder, NotStarted, Proc, Leads, Telling
<1>3. pc'[p] = "done" /\ \A q \in Proc : q # p => pc'[q] = pc[q]
  BY <1>1 DEF TaskInv, TypeOK
<1>4. CASE queue' = queue
  <2>1. Others(p)
    BY <1>1, <1>3 DEF Others, Alone
  <2>2. ~Leads(p, job[p])' /\ \A t \in Task : ~Leads(p, t)'
    BY <1>3 DEF Leads, Telling
  <2> QED
    BY <1>1, <1>3, <1>4, <2>1, <2>2, CalmChain
<1>5. CASE runTask(u, DataOf(result[p]))
  <2> DEFINE b == DataOf(result[p])
  <2>1. OneAtATime /\ LeadHandedOver /\ MethodsInOrder /\ ListsSpareComplete /\ StartedOver
    BY DEF ChainInv, ReasonsInv
  <2>2. b \in BOOLEAN /\ (~b => result[p] = "succ")
    BY <1>2 DEF DataOf
  <2>3. ~NoLead(c) /\ c \in Kids(u) /\ \A d \in Kids(u) : d = c
    BY <1>2 DEF NoLead, Chain, Kids
  <2>4. stage[u] \in {"wait", "failed"}
    <3>1. stage[u] \in Stage /\ stage[u] \notin {"none", "on_init"}
      BY <1>2 DEF TaskInv, TypeOK, FirstStageOver
    <3>2. stage[u] # "complete"
      BY <1>2, <2>1, <2>3 DEF LeadHandedOver
    <3> QED
      BY <3>1, <3>2 DEF Stage, Final
  <2>5. \A q \in Proc : pc'[q] \in {"spawn", "link"} /\ todo[q] # {} => job[q] # u
    <3>1. \A q \in Proc : pc'[q] \in {"spawn", "link"} => pc[q] \in {"spawn", "link"}
      BY <1>3
    <3>2. ASSUME NEW q \in Proc, pc[q] \in {"spawn", "link"}, todo[q] # {} PROVE job[q] # u
      BY <2>3, <3>2, SpawningChain DEF Kids
    <3> QED
      BY <3>1, <3>2
  <2>6. \A t \in Task : Asking(t)' => Asking(t) /\ t # u
    BY <1>1, <2>3, TreeAssumption DEF Asking, TaskInv
  <2>7. stage[u] = "failed" \/ (Fine(u) => Good(u) /\ NoLead(u))
    <3>1. stage[u] = "wait" /\ Fine(u) => Good(u)
      <4>1. stage[u] = "wait" => Unfinished(u)
        BY DEF Unfinished, Final
      <4> QED
        BY <4>1, ParentOfWaiting, <1>2 DEF Fine, Good
    <3> QED
      BY <1>2, <2>1, <2>3, <2>4, <3>1 DEF LeadHandedOver
  <2>8. Good(u) => /\ OneLead(c) /\ stage[c] # "wait" /\ c # u
                   /\ result[p] = "succ" => stage[c] = "complete"
    <3>1. Good(u) => OneLead(c) /\ Knows(p)
      BY <1>2, <2>1 DEF OneAtATime, Fine
    <3> QED
      BY <1>2, <3>1, NotOwnParent DEF Knows
  <2>9. \A d \in Kids(u) : Good(u)' => /\ stage[d] # "wait" /\ d # u
                                       /\ \A i \in DOMAIN queue : ~JobLeads(i, d)
                                       /\ \A q \in Proc : ~Leads(q, d)'
    <3>1. Good(u)' => Good(u)
      <4>1. Serving' => Serving
        BY <1>1, <1>2, <1>3 DEF Serving, At
      <4>2. \A t \in Task : Good(t)' => Good(t)
        BY <1>1, <4>1 DEF Good, Unfinished
      <4>3. \A t \in Task : t = u => (Good(u)' <=> Good(t)')
        BY <1>1 DEF Good, Unfinished, Serving, At
      <4> QED
        BY <1>2, <4>2, <4>3
    <3>2. ASSUME Good(u), NEW d \in Kids(u)
          PROVE  /\ stage[d] # "wait" /\ d # u
                 /\ \A i \in DOMAIN queue : ~JobLeads(i, d)
                 /\ \A q \in Proc : ~Leads(q, d)'
      <4>1. d = c /\ d \in Task
        BY <1>2, <2>3
      <4>2. /\ \A i \in DOMAIN queue : ~JobLeads(i, d)
            /\ \A q \in Proc : q # p => ~Leads(q, d)
        BY <1>2, <2>8, <3>2, <4>1 DEF OneLead
      <4>3. \A q \in Proc : Leads(q, d)' => q # p /\ Leads(q, d)
        BY <1>1, <1>3 DEF Leads, Telling
      <4> QED
        BY <2>8, <3>2, <4>1, <4>2, <4>3
    <3> QED
      BY <3>1, <3>2
  <2>10. \A d \in Kids(u) : stage[u] = "wait" /\ ~b => stage[d] = "complete"
    <3>1. ~b => Serving
      BY <1>1, <2>1, <2>2 DEF StartedOver
    <3>2. stage[u] = "wait" /\ ~b => Good(u)
      BY <3>1 DEF Good, Unfinished, Final
    <3> QED
      BY <2>2, <2>3, <2>8, <3>2
  <2>11. \/ stage[u] = "failed" \/ Parent[u] \notin Task \/ ~Good(Parent[u])
         \/ NoLead(Parent[u]) /\ stage[Parent[u]] # "complete" /\ Parent[u] # u
    BY <1>2, <2>4, ParentOfWaiting
  <2>12. \A q \in Proc : pc'[q] = pc[q] \/ (pc[q] = "check" /\ pc'[q] = "done")
    BY <1>1, <1>3
  <2> HIDE DEF b
  <2>13. runTask(u, b)
    BY <1>5 DEF b
  <2> QED
    BY <1>1, <1>2, <2>2, <2>4, <2>5, <2>6, <2>7, <2>9, <2>10, <2>11, <2>12, <2>13, WakeChain
<1> QED
  BY <1>1, <1>4, <1>5
-----------------------------------------------------------------------------
(***************************************************************************)
(* Jobs and lists.                                                         *)
(***************************************************************************)
\* The lead goes from the queue to a worker.
LEMMA TakeChain ==
    ASSUME TaskInv, TaskInv', ReasonsInv, ChainInv, NEW p \in Proc, Take(p)
    PROVE  ChainInv'
<1> DEFINE h == Head(queue)
<1>1. /\ UNCHANGED <<stage, loc, todo, next, result, asked, calls>>
      /\ p \in Worker /\ pc[p] = "idle" /\ queue # <<>> /\ queue' = Tail(queue)
      /\ job' = [job EXCEPT ![p] = h.task] /\ bad' = [bad EXCEPT ![p] = h.bad]
      /\ pc' = [pc EXCEPT ![p] = "fetch"]
  BY DEF Take, Goto, At, dbVars, envVars
<1>2. /\ Canceller \in Proc /\ Starter \in Proc /\ p # Canceller /\ p # Starter
      /\ OneAtATime /\ LeadHandedOver /\ MethodsInOrder /\ ListsSpareComplete
      /\ \A q \in Proc : pc[q] # "idle" => job[q] \in Task
  BY <1>1, NamesAssumption DEF Proc, ChainInv, TaskInv, JobsInOrder
<1>3. queue \in Seq([task : Task, bad : BOOLEAN])
  BY DEF TaskInv, TypeOK
<1>4. /\ 1 \in DOMAIN queue /\ h = queue[1] /\ h \in [task : Task, bad : BOOLEAN]
      /\ \A i \in DOMAIN queue' : /\ i + 1 \in DOMAIN queue /\ i + 1 # 1 /\ i \in Nat
                                  /\ queue'[i] = queue[i + 1]
  <2>1. /\ 1 \in DOMAIN queue /\ h = queue[1] /\ h \in [task : Task, bad : BOOLEAN]
        /\ \A i \in DOMAIN queue' : i + 1 \in DOMAIN queue /\ queue'[i] = queue[i + 1]
        /\ DOMAIN queue' \subseteq Nat
    BY <1>1, <1>3, TailFacts
  <2>2. \A i \in Nat : i + 1 # 1 \/ i = 0
    OBVIOUS
  <2>3. \A i \in DOMAIN queue' : i # 0
    BY <1>1, <1>3, LenProperties
  <2> HIDE DEF h
  <2> QED
    BY <2>1, <2>2, <2>3
<1>5. h.task \in Task /\ h.bad \in BOOLEAN /\ stage[h.task] # "none"
  BY <1>4 DEF TaskInv, NotStarted
<1> HIDE DEF h
<1>6. /\ pc'[p] = "fetch" /\ job'[p] = h.task /\ bad'[p] = h.bad
      /\ \A q \in Proc : q # p => pc'[q] = pc[q] /\ job'[q] = job[q] /\ bad'[q] = bad[q]
  BY <1>1 DEF TaskInv, TypeOK
<1>7. Serving' <=> Serving
  BY <1>1, <1>2, <1>6 DEF Serving, At
<1>8. /\ \A t \in Task : Unfinished(t)' <=> Unfinished(t)
      /\ \A t \in Task : Good(t)' <=> Good(t)
      /\ \A t \in Task : Asking(t)' <=> Asking(t)
  BY <1>1, <1>7 DEF Unfinished, Good, Asking
<1>9. /\ \A t \in Task, i \in DOMAIN queue' : JobLeads(i, t)' => JobLeads(i + 1, t)
      /\ \A t \in Task, q \in Proc : q # p => (Leads(q, t)' <=> Leads(q, t))
      /\ \A t \in Task : Leads(p, t)' => t = h.task /\ JobLeads(1, t)
  BY <1>1, <1>4, <1>6 DEF JobLeads, Leads, Telling
<1>10. \A t \in Task : NoLead(t) => NoLead(t)'
  BY <1>4, <1>9 DEF NoLead
<1>11. OneAtATime'
  <2> SUFFICES ASSUME NEW t \in Task, Fine(t)
               PROVE  /\ OneLead(t)' /\ \A q \in Proc : Leads(q, t)' => Knows(q)'
                      /\ stage[t] = "complete" => \A i \in DOMAIN queue' : ~JobLeads(i, t)'
                      /\ Asking(t) => NoLead(t)' /\ stage[t] # "complete"
    BY <1>1, <1>8 DEF OneAtATime, Fine
  <2>1. OneLead(t) /\ \A q \in Proc : Leads(q, t) => Knows(q)
    BY <1>2 DEF OneAtATime
  <2>2. OneLead(t)'
    <3>1. \A i, j \in DOMAIN queue' : JobLeads(i, t)' /\ JobLeads(j, t)' => i = j
      <4> SUFFICES ASSUME NEW i \in DOMAIN queue', NEW j \in DOMAIN queue',
                          JobLeads(i, t)', JobLeads(j, t)'
                   PROVE  i = j
        OBVIOUS
      <4>1. i + 1 = j + 1
        BY <1>4, <1>9, <2>1 DEF OneLead
      <4> QED
        BY <1>4, <4>1
    <3>2. \A i \in DOMAIN queue', q \in Proc : ~(JobLeads(i, t)' /\ Leads(q, t)')
      <4> SUFFICES ASSUME NEW i \in DOMAIN queue', NEW q \in Proc, JobLeads(i, t)', Leads(q, t)'
                   PROVE  FALSE
        OBVIOUS
      <4>1. i + 1 \in DOMAIN queue /\ i + 1 # 1 /\ JobLeads(i + 1, t)
        BY <1>4, <1>9
      <4> QED
        BY <1>4, <1>9, <2>1, <4>1 DEF OneLead
    <3>3. \A q, r \in Proc : Leads(q, t)' /\ Leads(r, t)' => q = r
      BY <1>4, <1>9, <2>1 DEF OneLead
    <3> QED
      BY <3>1, <3>2, <3>3 DEF OneLead
  <2>3. ASSUME NEW q \in Proc, Leads(q, t)' PROVE Knows(q)'
    <3>1. CASE q = p
      <4>1. t = h.task /\ JobLeads(1, t)
        BY <1>9, <2>3, <3>1
      <4>2. Unfinished(t)
        BY <1>2, <1>4, <1>5, <4>1 DEF OneAtATime, JobLeads, Unfinished, Final
      <4> QED
        BY <1>1, <1>6, <3>1, <4>1, <4>2 DEF Knows, Telling, Unfinished
    <3>2. CASE q # p
      <4>1. Leads(q, t) /\ Knows(q) /\ job[q] = t
        BY <1>9, <2>1, <2>3, <3>2 DEF Leads
      <4> QED
        BY <1>1, <1>6, <1>8, <3>2, <4>1 DEF Knows, Telling
    <3> QED
      BY <3>1, <3>2
  <2> QED
    BY <1>2, <1>4, <1>9, <1>10, <2>2, <2>3 DEF OneAtATime
<1>12. LeadHandedOver'
  <2>1. \A t \in Task : Queued(t)' => Queued(t)
    BY <1>4 DEF Queued
  <2>2. \A t \in Task, q \in Proc : Running(q, t)' /\ pc'[q] \in {"fetch", "lock", "handler"} =>
              Queued(t) \/ (Running(q, t) /\ pc[q] \in {"fetch", "lock", "handler"})
    BY <1>1, <1>4, <1>6 DEF Running, Queued
  <2> SUFFICES ASSUME NEW d \in Task, Parent[d] \in Task
               PROVE  LET t == Parent[d] IN
                      /\ Good(t)' /\ ~NoLead(t)' => NoLead(d)' /\ stage[d] # "wait"
                      /\ stage[t] = "complete" => NoLead(d)' /\ stage[d] = "complete"
                      /\ stage[t] = "wait" /\
                            (\/ Queued(t)'
                             \/ \E q \in Proc : /\ Running(q, t)'
                                                /\ pc'[q] \in {"fetch", "lock", "handler"})
                            => stage[d] = "complete"
    BY <1>1 DEF LeadHandedOver
  <2> QED
    BY <1>2, <1>8, <1>10, <2>1, <2>2 DEF LeadHandedOver
<1>13. MethodsInOrder'
  <2> SUFFICES ASSUME NEW q \in Proc, q # p
               PROVE  /\ pc[q] \in {"lock", "handler"} /\ ~bad[q] => Unfinished(job[q])'
                      /\ pc[q] \in {"spawn", "link"} /\ todo[q] # {} =>
                            /\ stage[job[q]] = "wait" /\ NoLead(job[q])'
                            /\ \A d \in todo[q] : stage[d] \in {"none", "on_init"}
    BY <1>1, <1>6 DEF MethodsInOrder
  <2>1. pc[q] \in {"lock", "handler"} /\ ~bad[q] => Unfinished(job[q])'
    BY <1>1, <1>2, <1>6 DEF MethodsInOrder, Unfinished
  <2>2. ASSUME pc[q] \in {"spawn", "link"}, todo[q] # {}
        PROVE  /\ stage[job[q]] = "wait" /\ NoLead(job[q])'
               /\ \A d \in todo[q] : stage[d] \in {"none", "on_init"}
    <3>1. /\ stage[job[q]] = "wait" /\ NoLead(job[q]) /\ job[q] \in Task
          /\ \A d \in todo[q] : d \in Task /\ stage[d] \in {"none", "on_init"}
      BY <2>2, SpawningChain
    <3>2. \A t \in Task : t = job[q] => NoLead(t)'
      BY <1>10, <3>1
    <3>3. NoLead(job[q])'
      BY <1>6, <3>1, <3>2 DEF NoLead
    <3> QED
      BY <3>1, <3>3
  <2> QED
    BY <2>1, <2>2
<1>14. ListsSpareComplete'
  BY <1>1, <1>2, <1>6 DEF ListsSpareComplete
<1> QED
  BY <1>11, <1>12, <1>13, <1>14 DEF ChainInv

\* The starter fails a task that is not complete: no lead matters until it is done.
LEMMA ProceedChain ==
    ASSUME TaskInv, TaskInv', ReasonsInv, ChainInv, NEW p \in Proc, Proceed(p)
    PROVE  ChainInv'
<1> DEFINE e == Head(next[p])
<1>1. /\ OneAtATime /\ LeadHandedOver /\ MethodsInOrder /\ ListsSpareComplete
      /\ ListsInOrder /\ StartedOver
      /\ \A q \in Proc : pc[q] # "idle" => job[q] \in Task
  BY DEF ChainInv, ReasonsInv, TaskInv, JobsInOrder
<1>2. p = Starter /\ next[p] # <<>> /\ pc[p] = "idle" /\ Canceller \in Proc /\ p # Canceller
  BY <1>1, NamesAssumption DEF Proceed, At, ListsSpareComplete, Proc
<1>3. next[p] \in Seq(Entries)
  BY EntryFacts DEF TaskInv
<1>4. /\ 1 \in DOMAIN next[p] /\ e = next[p][1] /\ e \in Entries
      /\ \A i \in DOMAIN Tail(next[p]) : i + 1 \in DOMAIN next[p] /\ Tail(next[p])[i] = next[p][i + 1]
  BY <1>2, <1>3, TailFacts
<1>5. e.what = "object" /\ e.task \in Task /\ stage[e.task] # "complete"
  BY <1>1, <1>2, <1>4 DEF ListsInOrder, ListsSpareComplete, Entries
<1>6. /\ UNCHANGED <<stage, queue, todo, result, asked, calls>>
      /\ job' = [job EXCEPT ![p] = e.task] /\ bad' = [bad EXCEPT ![p] = TRUE]
      /\ next' = [next EXCEPT ![p] = Tail(@)] /\ loc' = [loc EXCEPT ![p] = e.stage]
      /\ \E x \in {"lock", "fail"} : pc' = [pc EXCEPT ![p] = x]
  BY <1>5 DEF Proceed, Dispatch, Goto, dbVars, envVars
<1>7. next \in [Proc -> Seq(Entries)]
  BY EntryFacts DEF TaskInv
<1> HIDE DEF e
<1>8. /\ pc'[p] \in {"lock", "fail"} /\ job'[p] = e.task /\ bad'[p] /\ next'[p] = Tail(next[p])
      /\ \A q \in Proc : q # p => /\ pc'[q] = pc[q] /\ job'[q] = job[q] /\ bad'[q] = bad[q]
                                  /\ loc'[q] = loc[q] /\ next'[q] = next[q]
  BY <1>6, <1>7 DEF TaskInv, TypeOK
<1>9. ~Serving /\ ~Serving'
  BY <1>2, <1>8 DEF Serving, At
<1>10. /\ \A t \in Task : Good(t)' <=> stage[t] = "complete"
       /\ \A t \in Task : Good(t) <=> stage[t] = "complete"
       /\ \A t \in Task : Asking(t)' <=> Asking(t)
       /\ \A t \in Task : Fine(t)' => Fine(t) /\ stage[t] = "complete"
  <2>1. /\ \A t \in Task : Good(t)' <=> stage[t] = "complete"
        /\ \A t \in Task : Good(t) <=> stage[t] = "complete"
        /\ \A t \in Task : Asking(t)' <=> Asking(t)
    BY <1>6, <1>9 DEF Good, Asking
  <2> QED
    BY <1>1, <2>1 DEF Fine, LeadHandedOver
<1>11. /\ \A t \in Task, i \in DOMAIN queue : JobLeads(i, t)' <=> JobLeads(i, t)
       /\ \A t \in Task, q \in Proc : t # e.task => (Leads(q, t)' => q # p /\ Leads(q, t))
       /\ \A t \in Task : Queued(t)' <=> Queued(t)
  BY <1>6, <1>8 DEF JobLeads, Leads, Telling, Queued
<1>12. \A t \in Task : NoLead(t) /\ t # e.task => NoLead(t)'
  BY <1>6, <1>11 DEF NoLead
<1>13. OneAtATime'
  <2> SUFFICES ASSUME NEW t \in Task, Fine(t), stage[t] = "complete"
               PROVE  /\ OneLead(t)' /\ \A q \in Proc : Leads(q, t)' => Knows(q)'
                      /\ stage[t] = "complete" => \A i \in DOMAIN queue : ~JobLeads(i, t)'
                      /\ Asking(t) => NoLead(t)' /\ stage[t] # "complete"
    BY <1>6, <1>10 DEF OneAtATime
  <2>1. t # e.task /\ OneLead(t) /\ \A q \in Proc : Leads(q, t) => Knows(q)
    BY <1>1, <1>5 DEF OneAtATime
  <2>2. OneLead(t)'
    BY <1>6, <1>11, <2>1 DEF OneLead
  <2>3. ASSUME NEW q \in Proc, Leads(q, t)' PROVE Knows(q)'
    <3>1. q # p /\ Leads(q, t) /\ Knows(q) /\ job[q] = t
      BY <1>11, <2>1, <2>3 DEF Leads
    <3> QED
      BY <1>6, <1>8, <3>1 DEF Knows, Telling, Unfinished
  <2> QED
    BY <1>1, <1>11, <1>12, <2>1, <2>2, <2>3 DEF OneAtATime
<1>14. LeadHandedOver'
  <2>1. \A t \in Task, q \in Proc : Running(q, t)' /\ pc'[q] \in {"fetch", "lock", "handler"} =>
              Running(q, t) /\ pc[q] \in {"fetch", "lock", "handler"}
    BY <1>8 DEF Running
  <2> SUFFICES ASSUME NEW d \in Task, Parent[d] \in Task
               PROVE  LET t == Parent[d] IN
                      /\ Good(t)' /\ ~NoLead(t)' => NoLead(d)' /\ stage[d] # "wait"
                      /\ stage[t] = "complete" => NoLead(d)' /\ stage[d] = "complete"
                      /\ stage[t] = "wait" /\
                            (\/ Queued(t)'
                             \/ \E q \in Proc : /\ Running(q, t)'
                                                /\ pc'[q] \in {"fetch", "lock", "handler"})
                            => stage[d] = "complete"
    BY <1>6 DEF LeadHandedOver
  <2>2. stage[Parent[d]] = "complete" => NoLead(d)' /\ stage[d] = "complete"
    BY <1>1, <1>5, <1>12 DEF LeadHandedOver
  <2> QED
    BY <1>1, <1>10, <1>11, <2>1, <2>2 DEF LeadHandedOver
<1>15. MethodsInOrder'
  <2>1. \A q \in Proc : q # p /\ pc[q] # "idle" => bad[q]
    BY <1>1, <1>9 DEF StartedOver
  <2>2. \A q \in Proc : pc[q] \in {"spawn", "link"} => ~bad[q]
    BY DEF TaskInv, SpawningInOrder
  <2>3. \A q \in Proc : pc'[q] # "idle" => bad'[q]
    BY <1>8, <2>1
  <2>4. \A q \in Proc : pc'[q] \notin {"spawn", "link"}
    BY <1>8, <2>1, <2>2
  <2> QED
    BY <2>3, <2>4 DEF MethodsInOrder
<1>16. ListsSpareComplete'
  BY <1>1, <1>2, <1>4, <1>6, <1>8 DEF ListsSpareComplete
<1> QED
  BY <1>13, <1>14, <1>15, <1>16 DEF ChainInv

\* Nobody leads after a crash; what is complete is so, with its subtasks.
LEMMA CrashChain ==
    ASSUME TaskInv, TaskInv', ReasonsInv, ChainInv, Crash
    PROVE  ChainInv'
<1> DEFINE open == {Entry("object", t, stage[t]) : t \in {t \in Task : Unfinished(t)}}
<1>1. PICK s \in Orders(open) :
         /\ UNCHANGED <<stage, asked, calls>> /\ queue' = <<>>
         /\ pc' = [q \in Proc |-> "idle"]
         /\ next' = [q \in Proc |-> IF q = Starter THEN s ELSE <<>>]
  BY DEF Crash, dbVars
<1>2. /\ OneAtATime /\ LeadHandedOver /\ Canceller \in Proc /\ Starter \in Proc /\ Canceller # Starter
  BY NamesAssumption DEF ChainInv, Proc
<1>3. /\ \A q \in Proc : pc'[q] = "idle"
      /\ next'[Starter] = s /\ next'[Canceller] = <<>>
  BY <1>1, <1>2
<1>4. \A t \in Task : NoLead(t)'
  BY <1>1, <1>3 DEF NoLead, Leads, Telling
<1>5. OneAtATime'
  <2>1. \A t \in Task : OneLead(t)' /\ \A q \in Proc : ~Leads(q, t)'
    BY <1>1, <1>4 DEF OneLead, NoLead
  <2>2. \A t \in Task : Asking(t)' => stage[t] # "complete"
    BY <1>1, <1>2 DEF OneAtATime, Asking, Fine, Good
  <2> QED
    BY <1>1, <1>4, <2>1, <2>2 DEF OneAtATime
<1>6. LeadHandedOver'
  BY <1>1, <1>2, <1>3, <1>4 DEF LeadHandedOver, Queued
<1>7. MethodsInOrder'
  BY <1>3 DEF MethodsInOrder
<1>8. ListsSpareComplete'
  <2>1. \A i \in DOMAIN s : s[i] \in open
    BY DEF Orders
  <2>2. \A e \in open : stage[e.task] # "complete"
    BY DEF Entry, Unfinished, Final
  <2> HIDE DEF open
  <2> QED
    BY <1>1, <1>2, <1>3, <2>1, <2>2 DEF ListsSpareComplete
<1> QED
  BY <1>5, <1>6, <1>7, <1>8 DEF ChainInv
-----------------------------------------------------------------------------
(***************************************************************************)
(* The theorems.                                                           *)
(***************************************************************************)
\* Nothing is going to be cancelled.
LEMMA NoCancelChain ==
    ASSUME Chain, ChainInv PROVE ~cancel /\ \A t \in Task : ~PerformCancel(t)
BY DEF Chain, ChainInv, ListsSpareComplete, cancel, PerformCancel

\* Every step keeps the lead in order.
LEMMA NextChain == ASSUME Chain, TaskInv, TaskInv', ReasonsInv, ChainInv, [Next]_vars
                   PROVE  ChainInv'
<1>1. ASSUME NEW p \in Proc, Exec(p) PROVE ChainInv'
  BY <1>1, TakeChain, ProceedChain, FetchChain, LockChain, FailChain, EndChain,
     SecondStageChain, NewTaskChain, ScheduleRunChain, SpawnedChain, TellChain,
     CheckChain, DoneChain DEF Exec
<1>2. ASSUME NEW t \in Task, Request(t) PROVE ChainInv'
  BY <1>2, StartChain, ActionChain, NoCancelChain DEF Request
<1>3. CASE UNCHANGED vars
  <2> USE DEF vars, dbVars, procVars, envVars
  <2>1. OneAtATime'
    BY <1>3 DEF ChainInv, OneAtATime, Fine, Good, Serving, At, Unfinished, OneLead, NoLead,
                JobLeads, Leads, Telling, Knows, Asking
  <2>2. LeadHandedOver'
    BY <1>3 DEF ChainInv, LeadHandedOver, Good, Serving, At, Unfinished, NoLead, JobLeads, Leads,
                Telling, Queued, Running
  <2>3. MethodsInOrder' /\ ListsSpareComplete'
    BY <1>3 DEF ChainInv, MethodsInOrder, ListsSpareComplete, Unfinished, NoLead, JobLeads, Leads,
                Telling
  <2> QED
    BY <2>1, <2>2, <2>3 DEF ChainInv
<1> QED
  BY <1>1, <1>2, <1>3, NoCancelChain, CrashChain DEF Next

\* In a chain of tasks one job or report at a time leads a task, knows its stage,
\* and hands the lead over to the subtask or back, in spite of crashes.
THEOREM OneLeads == ASSUME Chain PROVE Spec => []ChainInv
<1>1. Init => ChainInv
  BY InitChain
<1>2. TaskInv /\ TaskInv' /\ ReasonsInv /\ ChainInv /\ [Next]_vars => ChainInv'
  BY NextChain
<1>3. RootsOnly
  BY DEF Chain, RootsOnly
<1>4. Spec => []ReasonsInv
  BY <1>3, EveryReason
<1> QED
  BY <1>1, <1>2, <1>4, TaskInvariant, PTL DEF Spec

\* A task with a subtask completes only if the subtask did: the failure of a
\* subtask is never taken for a success on the way up the chain.
THEOREM ResultsReachParents == ASSUME Chain PROVE Spec => []ResultReachesParent
<1>1. ChainInv => ResultReachesParent
  BY DEF ChainInv, LeadHandedOver, ResultReachesParent, Kids
<1> QED
  BY <1>1, OneLeads, PTL

\* Whoever is about to write a stage knows that the task is not complete.
LEMMA WritersKnow ==
    ASSUME TaskInv, ChainInv, NEW p \in Proc,
           pc[p] = "handler" \/ (pc[p] = "fail" /\ loc[p] # "failed")
    PROVE  job[p] \in Task /\ stage[job[p]] # "complete"
<1>1. job[p] \in Task /\ Leads(p, job[p]) /\ ~Telling(p)
  BY DEF TaskInv, JobsInOrder, Leads, Telling
<1>2. stage[job[p]] = "complete" => Fine(job[p]) /\ ~Unfinished(job[p])
  BY DEF Fine, Good, Unfinished, Final
<1> QED
  BY <1>1, <1>2 DEF ChainInv, OneAtATime, Knows

\* No step takes a task out of its stage "complete".
LEMMA StaysComplete ==
    ASSUME TaskInv, ChainInv, [Next]_vars, NEW t \in Task, stage[t] = "complete"
    PROVE  stage'[t] = "complete"
<1>0. stage \in [Task -> Stage]
  BY DEF TaskInv, TypeOK
<1>1. ASSUME NEW p \in Proc, Exec(p) PROVE stage'[t] = "complete"
  <2>1. CASE NoHandler(p) \/ FailedMethod(p)
    <3>1. pc[p] = "handler" \/ pc[p] = "fail"
      BY <2>1 DEF NoHandler, FailedMethod, At
    <3>2. \/ stage' = stage
          \/ loc[p] # "failed" /\ stage' = [stage EXCEPT ![job[p]] = "failed"]
      BY <2>1 DEF NoHandler, FailedMethod, SetStageFailed, SetStage
    <3> QED
      BY <1>0, <3>1, <3>2, WritersKnow
  <2>2. CASE EndMethod(p) \/ AskMethod(p) \/ SpawnMethod(p)
    <3>1. pc[p] = "handler"
      BY <2>2 DEF EndMethod, AskMethod, SpawnMethod, At
    <3>2. stage' = stage \/ \E s \in {"complete", "wait"} : stage' = [stage EXCEPT ![job[p]] = s]
      BY <2>2 DEF EndMethod, AskMethod, SpawnMethod, SetStageComplete, SetStage
    <3> QED
      BY <1>0, <3>1, <3>2, WritersKnow
  <2>3. CASE NewTask(p)
    <3>1. PICK c : stage[c] = "none" /\ stage' = [stage EXCEPT ![c] = "on_init"]
      BY <2>3 DEF NewTask
    <3> QED
      BY <1>0, <3>1
  <2>4. CASE \/ Take(p) \/ Proceed(p) \/ fetchTask(p) \/ LockObject(p) \/ Locked(p)
             \/ ScheduleRun(p) \/ Spawned(p) \/ SaveResults(p) \/ NotifyParent(p)
             \/ GetTotalSubtasksCount(p) \/ IsCurrentStageComplete(p) \/ Done(p)
    BY <2>4 DEF Take, Proceed, fetchTask, LockObject, Locked, ScheduleRun, Spawned, SaveResults,
                NotifyParent, GetTotalSubtasksCount, IsCurrentStageComplete, Done, dbVars
  <2> QED
    BY <1>1, <2>1, <2>2, <2>3, <2>4 DEF Exec
<1>2. ASSUME NEW u \in Task, Request(u) PROVE stage'[t] = "complete"
  <2>1. CASE StartTask(u)
    BY <1>0, <2>1 DEF StartTask
  <2>2. CASE PerformAction(u) \/ PerformCancel(u)
    BY <2>2 DEF PerformAction, PerformCancel, dbVars
  <2> QED
    BY <1>2, <2>1, <2>2 DEF Request
<1>3. CASE cancel \/ Crash \/ UNCHANGED vars
  BY <1>3 DEF cancel, Crash, vars, dbVars
<1> QED
  BY <1>1, <1>2, <1>3 DEF Next

\* What is complete stays complete: no late report, callback or restart of
\* the service turns the success of a task of a chain into a failure.
THEOREM CompletedForGood == ASSUME Chain PROVE Spec => CompleteIsFinal
<1>1. TaskInv /\ ChainInv /\ [Next]_vars =>
         [\A t \in Task : stage[t] = "complete" => stage'[t] = "complete"]_vars
  BY StaysComplete
<1> QED
  BY <1>1, OneLeads, TaskInvariant, PTL DEF Spec, CompleteIsFinal
=============================================================================
