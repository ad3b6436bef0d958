---------------------------- MODULE TaskManChain ----------------------------
(***************************************************************************)
(* Why a result reaches the parent, and stays: in a chain of tasks, each   *)
(* started by the one before, one job or report at a time leads.  ChainInv *)
(* is the inductive invariant behind ResultReachesParent and               *)
(* CompleteIsFinal for chains of any length, crashes included.             *)
(***************************************************************************)
EXTENDS TaskManReasons

\* No task has two subtasks (both of which may wake it), nothing is cancelled
\* and an agent calls back once.
Chain == /\ \A t \in Task : \A c, d \in Kids(t) : c = d
         /\ MaxCalls <= 1 /\ Cancelled = {}

\* A crash has nothing to do with t, or came after its end.
Good(t) == stage[t] = "complete" \/ (Serving /\ Unfinished(t))
Fine(t) == Good(t) \/ (Parent[t] \in Task /\ Good(Parent[t]))

\* Who is going to write the stage of t, or to tell its parent.
JobLeads(i, t) == queue[i].task = t /\ stage[t] # "failed"

Telling(p) == pc[p] \in {"save", "notify", "count", "check"}

Leads(p, t) ==
    /\ job[p] = t
    /\ \/ pc[p] = "fetch" /\ stage[t] # "failed"
       \/ pc[p] \in {"lock", "handler"} \/ (pc[p] = "fail" /\ loc[p] # "failed")
       \/ Telling(p)

NoLead(t) == /\ \A i \in DOMAIN queue : ~JobLeads(i, t)
             /\ \A p \in Proc : ~Leads(p, t)

OneLead(t) == /\ \A i, j \in DOMAIN queue : JobLeads(i, t) /\ JobLeads(j, t) => i = j
              /\ \A i \in DOMAIN queue, p \in Proc : ~(JobLeads(i, t) /\ Leads(p, t))
              /\ \A p, q \in Proc : Leads(p, t) /\ Leads(q, t) => p = q

\* What a goroutine knows of its task is so.
Knows(p) ==
    LET s == stage[job[p]] IN
    IF Telling(p) THEN s = IF result[p] = "succ" THEN "complete" ELSE "failed"
                  ELSE Unfinished(job[p]) /\ (pc[p] # "fetch" => loc[p] = s)

OneAtATime ==
    \A t \in Task : Fine(t) =>
        /\ OneLead(t)
        /\ \A p \in Proc : Leads(p, t) => Knows(p)
        /\ stage[t] = "complete" => \A i \in DOMAIN queue : ~JobLeads(i, t)
        /\ Asking(t) => NoLead(t) /\ stage[t] # "complete"

\* The lead goes from the task to its subtask and back.
LeadHandedOver ==
    \A c \in Task : Parent[c] \in Task =>
        LET t == Parent[c] IN
        /\ Good(t) /\ ~NoLead(t) => NoLead(c) /\ stage[c] # "wait"
        /\ stage[t] = "complete" => NoLead(c) /\ stage[c] = "complete"
        /\ stage[t] = "wait" /\ (\/ Queued(t)
                                 \/ \E p \in Proc : /\ Running(p, t)
                                                    /\ pc[p] \in {"fetch", "lock", "handler"})
              => stage[c] = "complete"

\* A method is called, and a subtask started, only while the task goes on.
MethodsInOrder ==
    \A p \in Proc :
        /\ pc[p] \in {"lock", "handler"} /\ ~bad[p] => Unfinished(job[p])
        /\ pc[p] \in {"spawn", "link"} /\ todo[p] # {} =>
              /\ stage[job[p]] = "wait" /\ NoLead(job[p])
              /\ \A c \in todo[p] : stage[c] \in {"none", "on_init"}

\* Nothing is cancelled, and the starter has nothing to do with what is complete.
ListsSpareComplete ==
    /\ pc[Canceller] = "idle" /\ next[Canceller] = <<>>
    /\ \A i \in DOMAIN next[Starter] : stage[next[Starter][i].task] # "complete"

ChainInv == OneAtATime /\ LeadHandedOver /\ MethodsInOrder /\ ListsSpareComplete
=============================================================================
