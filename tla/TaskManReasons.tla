--------------------------- MODULE TaskManReasons ---------------------------
(***************************************************************************)
(* Why no task is forgotten: as long as a task is not over there is a      *)
(* reason for it to go on, and whatever takes one reason away leaves       *)
(* another.  ReasonsInv is the inductive invariant behind NoTaskForgotten  *)
(* for trees of tasks of any shape, when requests cancel whole trees.      *)
(***************************************************************************)
EXTENDS TaskMan

\* A subtask is not cancelled by itself.  (One that is cancelled between the
\* two inserts of NewTask has no row of subtasks_tbl in which to save its
\* result, and gets one that is never updated afterwards.)
RootsOnly == \A t \in Cancelled : Parent[t] = None

\* p is on the way to write another stage of t.
Effective(p, t) ==
    /\ job[p] = t
    /\ \/ pc[p] \in {"fetch", "lock", "handler", "spawn", "link"}
       \/ pc[p] = "fail" /\ loc[p] # "failed"

InQueue(t) == \E i \in DOMAIN queue : queue[i].task = t

\* p is going to fail t when it comes to it in its list.
Listed(p, t) == \E i \in DOMAIN next[p] :
                   /\ next[p][i].task = t
                   /\ next[p][i].what = "exec" \/ next[p][i].stage \notin Final

Doomed(t) == \E p \in {Canceller, Starter} : Listed(p, t) \/ Effective(p, t)

\* p is going to end t, unless it starts the subtasks of t or asks its agent.
Ending(t) == \/ InQueue(t) \/ Doomed(t)
             \/ \E p \in Proc : Effective(p, t) /\ pc[p] \notin {"spawn", "link"}

\* t has its row of tasks_tbl and is about to be queued.
Linking(t) == \E p \in Proc : pc[p] = "link" /\ t \in todo[p]

\* The first subtask of t is about to be started.
Spawning(t) == /\ Kids(t) # {} /\ \A c \in Kids(t) : row[c] = None
               /\ \E p \in Proc : pc[p] \in {"spawn", "link"} /\ job[p] = t

\* The remote agent of t has not called back.
Asking(t) == t \in asked /\ calls[t] = 0

\* The parent of c counts on c, or on somebody who is about to report for c.
Reporting(p, c) == /\ job[p] = c
                   /\ pc[p] \in {"notify", "count"} \/ (pc[p] = "check" /\ some[p])

Awaited(c) == /\ row[c] # None
              /\ row[c].status = "init" \/ \E p \in Proc : Reporting(p, c)

Reason(t) == \/ Ending(t) \/ Linking(t) \/ Spawning(t) \/ Asking(t)
             \/ \E c \in Kids(t) : Awaited(c)

EveryTaskHasReason == ~dropped => \A t \in Task : Unfinished(t) => Reason(t)

\* A subtask whose parent counts on its row is not over, or about to be saved;
\* otherwise the parent itself is going to be failed.
RowsKept ==
    \A c \in Task : Parent[c] \in Task /\ stage[Parent[c]] = "wait" =>
        /\ row[c] # None /\ row[c].status = "init" =>
              \/ Unfinished(c) \/ Doomed(Parent[c])
              \/ \E p \in Proc : pc[p] = "save" /\ job[p] = c
        /\ row[c] = None /\ stage[c] \in Final => Doomed(Parent[c])

\* Only the canceller and the starter touch a subtask without a row.
UntouchedBeforeRow ==
    \A c \in Task : Parent[c] \in Task /\ row[c] = None =>
        ~InQueue(c) /\ \A p \in Worker : pc[p] # "idle" => job[p] # c

\* An agent is asked once, and calls back only then.
AskedOnce ==
    \A t \in Task :
        /\ calls[t] > 0 => t \in asked
        /\ t \in asked => /\ stage[t] \notin {"none", "on_init"}
                          /\ \A p \in Proc : pc[p] \in {"lock", "handler"} /\ Running(p, t)
                                                => loc[p] # "on_init"

\* The canceller and the starter fail what they come to.  The canceller comes to
\* the parent after the subtasks.
ListsInOrder ==
    /\ \A p \in Worker : next[p] = <<>>
    /\ \A p \in {Canceller, Starter} : pc[p] # "idle" => bad[p]
    /\ \A i \in DOMAIN next[Starter] :
          next[Starter][i].what = "object" /\ next[Starter][i].stage \notin Final
    /\ \A i \in DOMAIN next[Canceller] :
          LET e == next[Canceller][i] IN
          /\ e.what # "object"
          /\ Parent[e.task] \in Task =>
                \E j \in DOMAIN next[Canceller] :
                   /\ i < j /\ next[Canceller][j].what = "exec"
                   /\ next[Canceller][j].task = Parent[e.task]
    /\ pc[Canceller] # "idle" /\ Parent[job[Canceller]] \in Task =>
          \E j \in DOMAIN next[Canceller] :
             next[Canceller][j].what = "exec" /\ next[Canceller][j].task = Parent[job[Canceller]]

\* Until the API is served nothing runs that is not failed, and all the tasks
\* that are not over are on the starter's list.
StartedOver ==
    /\ \A p \in Proc : result[p] = "succ" => ~bad[p] /\ pc[p] # "idle"
    /\ ~Serving =>
          /\ \A i \in DOMAIN queue : queue[i].bad
          /\ \A p \in Proc : pc[p] # "idle" => bad[p]
          /\ \A t \in Task : Unfinished(t) => Listed(Starter, t) \/ Effective(Starter, t)

ReasonsInv == /\ EveryTaskHasReason /\ RowsKept /\ UntouchedBeforeRow /\ AskedOnce
              /\ ListsInOrder /\ StartedOver
=============================================================================
