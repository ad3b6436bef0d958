--------------------------- MODULE HostPendingUsage ---------------------------
(***************************************************************************)
(* The reservations of the scheduler (pkg/scheduler).                      *)
(*                                                                         *)
(* A host's free capacity is that of the cached description, built from    *)
(* the guests that the database has on it, less its pending usage: what    *)
(* the scheduler has promised to guests that the description does not yet  *)
(* count.  A schedule session reserves one unit per guest.  The region     *)
(* service saves the guest with its host and then sends an expire request, *)
(* upon which the description is loaded again and the unit given back.     *)
(*                                                                         *)
(* The processes: the executor of a hypervisor's sessions; the expire      *)
(* manager; the two workers of ReloadCancelQueue; the periodic update of   *)
(* the cache; the cleanup request, which loads every host and clears the   *)
(* older reservations; the collector of reservations past their TTL; and   *)
(* the region.                                                             *)
(*                                                                         *)
(* A unit stands for the CPU, memory, disks and networks of a guest, which *)
(* a session asks for in the same amount for each of its guests.  Time is  *)
(* abstract: a reservation may reach its TTL of 30 minutes whenever the    *)
(* executor is not at work on its session.  Instance groups, whose usage   *)
(* Add and Sub also keep, backup candidates, baremetals and the deletion   *)
(* of guests are left out.                                                 *)
(***************************************************************************)
EXTENDS Integers, Sequences, FiniteSets

CONSTANTS
    Host,
    Capacity,      \* the guests a host has room for
    Guest,         \* numbers: the region handles a session's guests in their order
    Session,
    SessionOf,     \* the session that asks for a guest
    Worker,        \* the workers of ReloadCancelQueue
    Executor, Periodic, Cleaner, Collector,
    None,
    QueueSize,     \* ExpireQueueMaxLength
    MaxEvents      \* bound: expire requests without a session, cleanup requests,
                   \*        saves and loads that fail, and requests that get lost

Loader == Worker \cup {Periodic, Cleaner}
Proc == Loader \cup {Executor, Collector}

ASSUME GuestAssumption == /\ Guest \subseteq Nat
                          /\ SessionOf \in [Guest -> Session]
ASSUME CapacityAssumption == Capacity \in [Host -> Nat]
ASSUME NamesAssumption == /\ None \notin Guest \cup Host \cup Session \cup Proc
                          /\ Guest \cap Host = {}
                          /\ Periodic \notin Worker /\ Cleaner \notin Worker \cup {Periodic}
                          /\ Executor \notin Loader /\ Collector \notin Loader \cup {Executor}
ASSUME FiniteAssumption == IsFiniteSet(Guest) /\ IsFiniteSet(Session) /\ IsFiniteSet(Worker)
ASSUME BoundsAssumption == QueueSize \in Nat /\ MaxEvents \in Nat

VARIABLES
    saved,      \* the guests that the database has on their host
    desc,       \* desc[h]: the guests that the cached HostDesc counts
    pending,    \* SPendingUsage of a host; 0 when it has none
    ids,        \*    its PendingGuestIds
    blank,      \* the hosts whose usage in the store is one of 0 units
    session,    \* session[s][h]: the SessionPendingUsage in the store, named by the
                \* guest it was made for
    count,      \*    its count
    members,    \*    its PendingGuestIds
    old,        \*    created before the cleanup in progress began
    channel,    \* ExpireManager.expireChannel: a guest stands for its host and session,
                \* a host for itself
    queue,      \* ReloadCancelQueue.queue
    mutex,      \* who builds descriptions
    pc,
    work,       \* what a process has to do: guests to reserve for, entries to expire,
                \* usages to clear
    ptr,        \* the SessionPendingUsage it has in hand
    seen,       \* the guests a loader has read from the database
    built,      \* those among them that its descriptions count
    copy,       \* the descriptions the executor schedules with
    hand,       \* the SPendingUsage that clearPendingUsageBefore works on
    host,       \* the host a guest has been given
    region,     \* how far the region is with a guest
    events,
    base,       \* history: the guests of the database read behind desc[h], while gap is "none"
    gap,        \* history: the worst that has happened so far
    clash       \* history: the hosts whose usage somebody changed while the cleanup was at it

dbVars == <<saved, host, region>>
usageVars == <<pending, ids, blank, session, count, members>>
queueVars == <<channel, queue>>
histVars == <<events, base, gap, clash>>
vars == <<dbVars, usageVars, old, desc, queueVars, mutex, pc, work, ptr,
          seen, built, copy, hand, histVars>>

\* hand.at tells whether it is the usage in the store.  When it has been deleted
\* there, units and ids are what is left in it; units is also what was read of it.
NoUsage == [at |-> "store", units |-> 0, ids |-> {}]

Init == /\ saved = {}
        /\ desc = [h \in Host |-> {}]
        /\ pending = [h \in Host |-> 0]
        /\ ids = [h \in Host |-> {}]
        /\ blank = {}
        /\ session = [s \in Session |-> [h \in Host |-> None]]
        /\ count = [g \in Guest |-> 0]
        /\ members = [g \in Guest |-> {}]
        /\ old = {}
        /\ channel = {}
        /\ queue = <<>>
        /\ mutex = None
        /\ pc = [p \in Proc |-> "idle"]
        /\ work = [p \in Proc |-> {}]
        /\ ptr = [p \in Proc |-> None]
        /\ seen = [p \in Loader |-> {}]
        /\ built = [p \in Loader |-> {}]
        /\ copy = [h \in Host |-> {}]
        /\ hand = NoUsage
        /\ host = [g \in Guest |-> None]
        /\ region = [g \in Guest |-> "none"]
        /\ events = 0
        /\ base = [h \in Host |-> {}]
        /\ gap = "none"
        /\ clash = {}

PC == {"idle", "schedule", "lookup", "add", "read", "build", "store", "cancel", "sub",
       "range", "clear", "write", "drop", "put", "delete"}

At(p, from) == pc[p] = from
Goto(p, to) == pc' = [pc EXCEPT ![p] = to]
Guests(s) == {g \in Guest : SessionOf[g] = s}
On(h) == {g \in Guest : host[g] = h}

\* A lapse that no later one undoes.
Lapse(kind) == /\ gap' = IF gap = "cleared" THEN gap ELSE kind
               /\ base' = [h \in Host |-> {}]
-----------------------------------------------------------------------------
(***************************************************************************)
(* SPendingUsage and the store.                                            *)
(***************************************************************************)
\* The cleanup is at a session of a host; others may change the host's usage.
Clearing == {"write", "drop", "put", "delete"}
Clash(h) == clash' = IF pc[Cleaner] \in Clearing /\ host[ptr[Cleaner]] = h
                     THEN clash \cup {h} ELSE clash

\* It has the usage of the host in hand, and will write it.
InHand(h) == pc[Cleaner] \in {"write", "put"} /\ host[ptr[Cleaner]] = h

\* Somebody is about to change the usage of the host, or is doing it.
Contended(h) == \E p \in Worker \cup {Executor, Collector} :
                    pc[p] \in {"add", "sub"} /\ host[ptr[p]] = h

\* quotas.NonNegative(n - 1)
Less(n) == IF n = 0 THEN 0 ELSE n - 1

\* Mutant: the guests stay.
SubIds_Kept(S, u) == S

\* Sub takes all the guests of the session from those of the host.
SubIds(S, u) == S \ members[u]

\* Sub of usage u, and SetPendingUsage, which deletes what has become empty: the
\* cleanup may have it in hand.
Sub(h, u) ==
    LET left == Less(pending[h]) IN
    /\ pending' = [pending EXCEPT ![h] = left]
    /\ ids' = [ids EXCEPT ![h] = IF left = 0 THEN {} ELSE SubIds(@, u)]
    /\ blank' = blank \ {h}
    /\ hand' = IF left = 0 /\ InHand(h) /\ hand.at = "store"
               THEN [hand EXCEPT !.at = "deleted", !.ids = SubIds(ids[h], u)]
               ELSE hand

\* SubCount: one guest is removed, any one.
SubCount(u) ==
    /\ count' = [count EXCEPT ![u] = @ - 1]
    /\ \/ members[u] = {} /\ UNCHANGED members
       \/ \E g \in members[u] : members' = [members EXCEPT ![u] = @ \ {g}]

\* CancelPendingUsage, under the lock of the host.
CancelPendingUsage(u) ==
    LET h == host[u] IN
    IF pending[h] = 0 /\ h \notin blank
    THEN UNCHANGED <<pending, ids, blank, count, members, hand>>
    ELSE /\ Sub(h, u)
         /\ SubCount(u)

\* DeleteSessionUsage: by session and host, whatever is stored there now.
DeleteSessionUsage(u) ==
    session' = [session EXCEPT ![SessionOf[u]][host[u]] = None]
-----------------------------------------------------------------------------
(***************************************************************************)
(* The executor: one session at a time.                                    *)
(***************************************************************************)
\* execute, Candidates: the cached descriptions.
Candidates(s) ==
    /\ At(Executor, "idle")
    /\ \A g \in Guests(s) : host[g] = None /\ region[g] = "none"
    /\ Guests(s) # {}
    /\ copy' = desc
    /\ work' = [work EXCEPT ![Executor] = Guests(s)]
    /\ Goto(Executor, "schedule")
    /\ UNCHANGED <<dbVars, usageVars, old, desc, queueVars, mutex, ptr, seen,
                   built, hand, histVars>>

\* GetFreeMemSize and its like: the description may be an old one, the pending
\* usage is that of now.
Free(h) == Capacity[h] - Cardinality(copy[h]) - pending[h]

\* The executor has work left, or the task is complete and the region gets its
\* answer.
Reserved(rest, r, hs) ==
    /\ work' = [work EXCEPT ![Executor] = rest]
    /\ Goto(Executor, IF rest = {} THEN "idle" ELSE "lookup")
    /\ region' = IF rest # {} THEN r
                 ELSE [g \in Guest |-> IF r[g] = "none" /\ hs[g] # None THEN "told" ELSE r[g]]

\* genericScheduler.Schedule: hosts with room for as many guests as possible,
\* whatever the priorities.  The others get an error.
Schedule ==
    /\ At(Executor, "schedule")
    /\ \E f \in [work[Executor] -> Host \cup {None}] :
          LET put(h) == {g \in DOMAIN f : f[g] = h} IN
          /\ \A h \in Host : put(h) # {} => Cardinality(put(h)) <= Free(h)
          /\ put(None) # {} => \A h \in Host : Cardinality(put(h)) >= Free(h)
          /\ host' = [g \in Guest |-> IF g \in DOMAIN f THEN f[g] ELSE host[g]]
          /\ Reserved(DOMAIN f \ put(None),
                      [g \in Guest |-> IF g \in put(None) THEN "done" ELSE region[g]], host')
    /\ copy' = [h \in Host |-> {}]
    /\ UNCHANGED <<saved, usageVars, old, desc, queueVars, mutex, ptr, seen,
                   built, hand, histVars>>

First(S) == CHOOSE g \in S : \A x \in S : g <= x

\* AddPendingUsage, before the lock: the session's usage, or a new one.
AddPendingUsage ==
    /\ At(Executor, "lookup")
    /\ LET g == First(work[Executor])
           u == session[SessionOf[g]][host[g]]
       IN ptr' = [ptr EXCEPT ![Executor] = IF u = None THEN g ELSE u]
    /\ Goto(Executor, "add")
    /\ UNCHANGED <<dbVars, usageVars, old, desc, queueVars, mutex, work,
                   seen, built, copy, hand, histVars>>

\* addSessionUsage, under the lock of the host.
addSessionUsage ==
    LET u == ptr[Executor]
        h == host[u]
        g == First(work[Executor])
    IN
    /\ At(Executor, "add")
    /\ pending' = [pending EXCEPT ![h] = @ + 1]
    /\ ids' = [ids EXCEPT ![h] = @ \cup members[u] \cup {g}]
    /\ blank' = blank \ {h}
    /\ count' = [count EXCEPT ![u] = @ + 1]
    /\ members' = [members EXCEPT ![u] = @ \cup {g}]
    /\ session' = [session EXCEPT ![SessionOf[g]][h] = u]
    /\ ptr' = [ptr EXCEPT ![Executor] = None]
    /\ Reserved(work[Executor] \ {g}, region, host)
    /\ Clash(h)
    /\ UNCHANGED <<saved, host, old, desc, queueVars, mutex, seen, built, copy,
                   hand, events, base, gap>>
-----------------------------------------------------------------------------
(***************************************************************************)
(* The region: onSchedulerResults, and the tasks of running guests.        *)
(***************************************************************************)
Turn(g) == \A x \in Guests(SessionOf[g]) : x < g => region[x] = "done"

\* SaveScheduleResult; when it fails the guest is not on the host.
SaveScheduleResult(g) ==
    /\ region[g] = "told" /\ Turn(g)
    /\ \/ /\ saved' = saved \cup {g} /\ region' = [region EXCEPT ![g] = "saved"]
          /\ UNCHANGED events
       \/ /\ events < MaxEvents /\ events' = events + 1
          /\ region' = [region EXCEPT ![g] = "unsaved"] /\ UNCHANGED saved
    /\ UNCHANGED <<host, usageVars, old, desc, queueVars, mutex, pc, work, ptr,
                   seen, built, copy, hand, base, gap, clash>>

\* ClearSchedDescSessionCache, whose error nobody looks at.
ClearSchedDescSessionCache(g) ==
    /\ region[g] \in {"saved", "unsaved"}
    /\ region' = [region EXCEPT ![g] = "done"]
    /\ \/ channel' = channel \cup {g} /\ UNCHANGED events
       \/ events < MaxEvents /\ events' = events + 1 /\ UNCHANGED channel
    /\ UNCHANGED <<saved, host, usageVars, old, desc, queue, mutex, pc, work, ptr,
                   seen, built, copy, hand, base, gap, clash>>

\* ClearSchedDescCache, of a task of some guest on the host: no session.
ClearSchedDescCache(h) ==
    /\ events < MaxEvents
    /\ events' = events + 1
    /\ saved \cap On(h) # {}
    /\ channel' = channel \cup {h}
    /\ UNCHANGED <<dbVars, usageVars, old, desc, queue, mutex, pc, work, ptr,
                   seen, built, copy, hand, base, gap, clash>>
-----------------------------------------------------------------------------
(***************************************************************************)
(* The expire manager and ReloadCancelQueue.                               *)
(***************************************************************************)
\* Mutant: one task too many.
Room_Late == Len(queue) <= QueueSize

Room == Len(queue) < QueueSize

\* All that is in the channel becomes one task; it is dropped when the queue is full.
batchMergeExpire ==
    /\ channel # {}
    /\ channel' = {}
    /\ queue' = IF Room THEN Append(queue, channel) ELSE queue
    /\ UNCHANGED <<dbVars, usageVars, old, desc, mutex, pc, work, ptr, seen,
                   built, copy, hand, histVars>>

\* The worker goes on with its task, or is done with it.
GoOn(p, rest) == /\ work' = [work EXCEPT ![p] = rest]
                 /\ Goto(p, IF rest = {} THEN "idle" ELSE "cancel")

\* Mutant: nothing is reloaded before.
processTask_NoReload(p) ==
    /\ At(p, "idle") /\ queue # <<>>
    /\ queue' = Tail(queue)
    /\ GoOn(p, Head(queue) \ Host)
    /\ UNCHANGED <<dbVars, usageVars, old, desc, channel, mutex, ptr, seen,
                   built, copy, hand, histVars>>

\* processTask: a worker takes a task, and reloads the hosts of its entries.
processTask(p) ==
    /\ At(p, "idle") /\ queue # <<>>
    /\ work' = [work EXCEPT ![p] = Head(queue)]
    /\ queue' = Tail(queue)
    /\ Goto(p, "read")
    /\ UNCHANGED <<dbVars, usageVars, old, desc, channel, mutex, ptr, seen,
                   built, copy, hand, histVars>>

\* CancelCandidatesPendingUsage, one entry after the other: GetCancelUsage.
GetCancelUsage(p) ==
    /\ At(p, "cancel")
    /\ \E e \in work[p] :
          LET u == session[SessionOf[e]][host[e]] IN
          IF u = None
          THEN /\ GoOn(p, work[p] \ {e})
               /\ UNCHANGED ptr
          ELSE /\ work' = [work EXCEPT ![p] = @ \ {e}]
               /\ ptr' = [ptr EXCEPT ![p] = u]
               /\ Goto(p, "sub")
    /\ UNCHANGED <<dbVars, usageVars, old, desc, queueVars, mutex, seen, built, copy,
                   hand, histVars>>

\* Mutant: the session's usage is deleted, although it may have reserved more.
CancelOne_Deletes(p) ==
    /\ At(p, "sub")
    /\ CancelPendingUsage(ptr[p])
    /\ Clash(host[ptr[p]])
    /\ DeleteSessionUsage(ptr[p])
    /\ ptr' = [ptr EXCEPT ![p] = None]
    /\ GoOn(p, work[p])
    /\ UNCHANGED <<dbVars, old, desc, queueVars, mutex, seen, built, copy, events, base, gap>>

\* ... and CancelPendingUsage.  The session's usage stays: Usage.IsEmpty tells
\* what one guest asked for, and that is never nothing.
CancelOne(p) ==
    /\ At(p, "sub")
    /\ CancelPendingUsage(ptr[p])
    /\ Clash(host[ptr[p]])
    /\ ptr' = [ptr EXCEPT ![p] = None]
    /\ GoOn(p, work[p])
    /\ UNCHANGED <<dbVars, session, old, desc, queueVars, mutex, seen, built, copy,
                   events, base, gap>>
-----------------------------------------------------------------------------
(***************************************************************************)
(* The cache of host descriptions.                                         *)
(***************************************************************************)
\* The usages in the store.
Stored == {session[s][h] : s \in Session, h \in Host} \ {None}

\* ReloadAll begins: SetReloadAllStartTime.
ReloadAll ==
    /\ At(Cleaner, "idle") /\ events < MaxEvents
    /\ events' = events + 1
    /\ old' = Stored \cup (IF At(Executor, "add") THEN {ptr[Executor]} ELSE {})
    /\ Goto(Cleaner, "read")
    /\ UNCHANGED <<dbVars, usageVars, desc, queueVars, mutex, work, ptr, seen,
                   built, copy, hand, base, gap, clash>>

HostOf(e) == IF e \in Host THEN e ELSE host[e]
Loaded(p) == IF p \in Worker THEN {HostOf(e) : e \in work[p]} ELSE Host

\* After a load: the worker cancels the entries that have a session, ReloadAll
\* clears what is older if the load has not failed.
AfterLoad(p, ok) ==
    IF p \in Worker
    THEN GoOn(p, work[p] \ Host)
    ELSE /\ Goto(p, IF p = Cleaner /\ ok THEN "range" ELSE "idle")
         /\ UNCHANGED work

\* The builder reads the guests of the hosts from the database.  The periodic
\* update, when its turn to load everything comes, has nothing to do before.
Read(p) ==
    /\ At(p, IF p = Periodic THEN "idle" ELSE "read")
    /\ mutex = None
    /\ mutex' = p
    /\ seen' = [seen EXCEPT ![p] = saved \cap UNION {On(h) : h \in Loaded(p)}]
    /\ Goto(p, "build")
    /\ UNCHANGED <<dbVars, usageVars, old, desc, queueVars, work, ptr, built, copy,
                   hand, histVars>>

\* The load fails; a worker cancels nevertheless.
LoadFails(p) ==
    /\ At(p, "build") /\ events < MaxEvents
    /\ events' = events + 1
    /\ mutex' = None
    /\ seen' = [seen EXCEPT ![p] = {}]
    /\ IF p \in Worker THEN Lapse("stale") ELSE UNCHANGED <<base, gap>>
    /\ AfterLoad(p, FALSE)
    /\ UNCHANGED <<dbVars, usageVars, old, desc, queueVars, ptr, built, copy, hand,
                   clash>>

\* fillGuestsResourceInfo does not count the guests that are pending.
Counted(p, h) == (seen[p] \cap On(h)) \ ids[h]

\* The descriptions are built, and the mutex released before they are stored.
Build(p) ==
    /\ At(p, "build")
    /\ built' = [built EXCEPT ![p] = UNION {Counted(p, h) : h \in Loaded(p)}]
    /\ mutex' = None
    /\ Goto(p, "store")
    /\ UNCHANGED <<dbVars, usageVars, old, desc, queueVars, work, ptr, seen,
                   copy, hand, histVars>>

\* loadObjects puts the descriptions into the cache, where those of a load that
\* read the database later may already be.
Store(p) ==
    /\ At(p, "store")
    /\ desc' = [h \in Host |-> IF h \in Loaded(p) THEN built[p] \cap On(h) ELSE desc[h]]
    /\ IF gap = "none" /\ \A h \in Loaded(p) : base[h] \subseteq seen[p]
       THEN /\ base' = [h \in Host |-> IF h \in Loaded(p) THEN seen[p] \cap On(h) ELSE base[h]]
            /\ UNCHANGED gap
       ELSE Lapse("stale")
    /\ seen' = [seen EXCEPT ![p] = {}]
    /\ built' = [built EXCEPT ![p] = {}]
    /\ AfterLoad(p, TRUE)
    /\ UNCHANGED <<dbVars, usageVars, old, queueVars, mutex, ptr, copy, hand, events, clash>>
-----------------------------------------------------------------------------
(***************************************************************************)
(* What releases reservations that nobody expires.                         *)
(***************************************************************************)
\* ClearAllPendingUsage: the usages created before the cleanup began.
ClearAllPendingUsage ==
    /\ At(Cleaner, "range")
    /\ work' = [work EXCEPT ![Cleaner] = Stored \cap old]
    /\ IF Stored \cap old = {}
       THEN Goto(Cleaner, "idle") /\ UNCHANGED <<base, gap>>
       ELSE Goto(Cleaner, "clear") /\ Lapse("cleared")
    /\ old' = {}
    /\ UNCHANGED <<dbVars, usageVars, desc, queueVars, mutex, ptr, seen, built,
                   copy, hand, events, clash>>

\* clearPendingUsageBefore, one usage after the other and without the host's lock:
\* GetPendingUsage gives the very usage that others change,
clearPendingUsageBefore ==
    /\ At(Cleaner, "clear")
    /\ \E u \in work[Cleaner] :
          LET h == host[u] IN
          /\ ptr' = [ptr EXCEPT ![Cleaner] = u]
          /\ work' = [work EXCEPT ![Cleaner] = @ \ {u}]
          /\ IF pending[h] = 0 /\ h \notin blank
             THEN Goto(Cleaner, "delete") /\ hand' = NoUsage
             ELSE Goto(Cleaner, "write") /\ hand' = [NoUsage EXCEPT !.units = pending[h]]
    /\ UNCHANGED <<dbVars, usageVars, old, desc, queueVars, mutex, seen, built,
                   copy, histVars>>

\* Sub in place, and IsEmpty.  The units may be those of an earlier read, which undoes
\* what others have done since; or Sub itself is undone by somebody who has read
\* before and writes after it.
ClearSub ==
    LET u == ptr[Cleaner]
        h == host[u]
        now == IF hand.at = "store" THEN pending[h] ELSE 0
    IN
    /\ At(Cleaner, "write")
    /\ \E n \in {hand.units, now} \cup (IF Contended(h) THEN {now + 1} ELSE {}) :
          /\ Goto(Cleaner, IF Less(n) = 0 THEN "drop" ELSE "put")
          /\ IF hand.at = "store"
             THEN /\ pending' = [pending EXCEPT ![h] = Less(n)]
                  /\ ids' = [ids EXCEPT ![h] = SubIds(@, u)]
                  /\ blank' = IF Less(n) = 0 THEN blank \cup {h} ELSE blank \ {h}
                  /\ hand' = [hand EXCEPT !.units = 0]
             ELSE /\ hand' = [hand EXCEPT !.units = Less(n), !.ids = SubIds(@, u)]
                  /\ UNCHANGED <<pending, ids, blank>>
    /\ UNCHANGED <<dbVars, session, count, members, old, desc, queueVars, mutex, work,
                   ptr, seen, built, copy, histVars>>

\* store.Delete of the host's usage, whichever is stored by now, or store.Store of
\* the one in hand, over whichever is stored by now,
ClearHost ==
    LET h == host[ptr[Cleaner]] IN
    /\ \/ /\ At(Cleaner, "drop")
          /\ pending' = [pending EXCEPT ![h] = 0]
          /\ ids' = [ids EXCEPT ![h] = {}]
          /\ blank' = blank \ {h}
       \/ /\ At(Cleaner, "put") /\ hand.at = "store"
          /\ UNCHANGED <<pending, ids, blank>>
       \/ /\ At(Cleaner, "put") /\ hand.at = "deleted"
          /\ pending' = [pending EXCEPT ![h] = hand.units]
          /\ ids' = [ids EXCEPT ![h] = hand.ids]
          /\ blank' = IF hand.units = 0 THEN blank \cup {h} ELSE blank \ {h}
    /\ hand' = NoUsage
    /\ Goto(Cleaner, "delete")
    /\ UNCHANGED <<dbVars, session, count, members, old, desc, queueVars, mutex, work,
                   ptr, seen, built, copy, histVars>>

\* and store.Delete of the session's.
ClearSession ==
    /\ At(Cleaner, "delete")
    /\ DeleteSessionUsage(ptr[Cleaner])
    /\ ptr' = [ptr EXCEPT ![Cleaner] = None]
    /\ Goto(Cleaner, IF work[Cleaner] = {} THEN "idle" ELSE "clear")
    /\ UNCHANGED <<dbVars, pending, ids, blank, count, members, old, desc, queueVars,
                   mutex, work, seen, built, copy, hand, histVars>>

\* GCExpiredSessionUsages finds a usage past its TTL,
GCExpiredSessionUsages ==
    /\ At(Collector, "idle")
    /\ \E u \in Stored :
          /\ \A g \in work[Executor] : SessionOf[g] # SessionOf[u]
          /\ ptr' = [ptr EXCEPT ![Collector] = u]
    /\ Lapse("cleared")
    /\ Goto(Collector, "sub")
    /\ UNCHANGED <<dbVars, usageVars, old, desc, queueVars, mutex, work, seen, built,
                   copy, hand, events, clash>>

\* cancels it once, whatever its count,
GCCancel ==
    /\ At(Collector, "sub")
    /\ CancelPendingUsage(ptr[Collector])
    /\ Clash(host[ptr[Collector]])
    /\ Goto(Collector, "delete")
    /\ UNCHANGED <<dbVars, session, old, desc, queueVars, mutex, work, ptr, seen, built,
                   copy, events, base, gap>>

\* and deletes it.
GCDelete ==
    /\ At(Collector, "delete")
    /\ DeleteSessionUsage(ptr[Collector])
    /\ ptr' = [ptr EXCEPT ![Collector] = None]
    /\ Goto(Collector, "idle")
    /\ UNCHANGED <<dbVars, pending, ids, blank, count, members, old, desc, queueVars,
                   mutex, work, seen, built, copy, hand, histVars>>
-----------------------------------------------------------------------------
Execute == Schedule \/ AddPendingUsage \/ addSessionUsage
Answer(g) == SaveScheduleResult(g) \/ ClearSchedDescSessionCache(g)
Cancel(p) == GetCancelUsage(p) \/ CancelOne(p)
Load(p) == Read(p) \/ Build(p) \/ Store(p)
Clear == \/ ClearAllPendingUsage \/ clearPendingUsageBefore
         \/ ClearSub \/ ClearHost \/ ClearSession
Collect == GCExpiredSessionUsages \/ GCCancel \/ GCDelete

Next == \/ \E s \in Session : Candidates(s)
        \/ Execute
        \/ \E g \in Guest : Answer(g)
        \/ \E h \in Host : ClearSchedDescCache(h)
        \/ batchMergeExpire
        \/ \E p \in Worker : processTask(p) \/ Cancel(p)
        \/ ReloadAll
        \/ \E p \in Loader : Load(p) \/ LoadFails(p)
        \/ Clear
        \/ Collect

Spec == Init /\ [][Next]_vars

(***************************************************************************)
(* The goroutines go on; the tickers of the cache and of the collector     *)
(* fire again and again.  Nothing is assumed of who gets the mutex: the    *)
(* periodic update may keep a worker waiting.  Sessions, tasks of guests   *)
(* and cleanups need not come.                                             *)
(***************************************************************************)
Fairness ==
    /\ WF_vars(Execute) /\ WF_vars(Clear) /\ WF_vars(Collect)
    /\ \A s \in Session : WF_vars(\E g \in Guests(s) : Answer(g))
    /\ WF_vars(batchMergeExpire)
    /\ \A p \in Worker : WF_vars(processTask(p) \/ Cancel(p))
    /\ \A p \in Loader : WF_vars(Load(p))

FairSpec == Spec /\ Fairness
-----------------------------------------------------------------------------
Usage == [at : {"store", "deleted"}, units : 0 .. Cardinality(Guest), ids : SUBSET Guest]

TypeOK ==
    /\ saved \subseteq Guest
    /\ desc \in [Host -> SUBSET Guest] /\ base \in [Host -> SUBSET Guest]
    /\ pending \in [Host -> 0 .. Cardinality(Guest)]
    /\ ids \in [Host -> SUBSET Guest] /\ blank \subseteq Host
    /\ session \in [Session -> [Host -> Guest \cup {None}]]
    /\ count \in [Guest -> Int]
    /\ members \in [Guest -> SUBSET Guest]
    /\ old \subseteq Guest
    /\ channel \subseteq Guest \cup Host
    /\ queue \in Seq(SUBSET (Guest \cup Host)) /\ Len(queue) <= QueueSize
    /\ mutex \in Loader \cup {None}
    /\ pc \in [Proc -> PC]
    /\ work \in [Proc -> SUBSET (Guest \cup Host)]
    /\ ptr \in [Proc -> Guest \cup {None}]
    /\ seen \in [Loader -> SUBSET Guest] /\ built \in [Loader -> SUBSET Guest]
    /\ copy \in [Host -> SUBSET Guest]
    /\ hand \in Usage
    /\ host \in [Guest -> Host \cup {None}]
    /\ region \in [Guest -> {"none", "told", "saved", "unsaved", "done"}]
    /\ events \in 0 .. MaxEvents
    /\ gap \in {"none", "stale", "cleared"}
    /\ clash \subseteq Host

\* The units of the sessions on a host that are still reserved.
Units(h) == {x \in Session \X (1 .. Cardinality(Guest)) :
                session[x[1]][h] # None /\ x[2] <= count[session[x[1]][h]]}

\* The pending usage of a host is what the sessions have reserved there and not
\* given back, whatever the order in which workers cancel and the executor adds,
\* until a cleanup or the collector first clears a session.  A cancel never deletes
\* a session, so the collector clears each of them after its TTL: the property is
\* about the first 30 minutes of the first sessions.  From then on a session takes
\* one unit with it whatever its count: one too few leaves units behind for ever,
\* and one too many, when its count is 0, is a unit of another session.
ReservationsExact ==
    gap # "cleared" => \A h \in Host : pending[h] = Cardinality(Units(h))

\* The guests that have got the host, and that have not failed to be saved.
Placed(h) == {g \in On(h) \ work[Executor] :
                 region[g] \in {"none", "told", "saved"} \/ g \in saved}

\* Reload before cancel: every guest placed on a host either was in the database
\* when the cached description was made, or has its unit reserved.  A failed
\* load, a load overtaken by a later one, and a cleared session are the only
\* ways around it.
ReloadBeforeCancel ==
    gap = "none" => \A h \in Host :
                    Cardinality(Placed(h) \ base[h]) <= pending[h]

(***************************************************************************)
(* The inductive invariant behind the two.                                 *)
(***************************************************************************)
\* The guests on a host whose unit has been reserved.
Added(h) == On(h) \ work[Executor]

\* The request to expire the reservation of a guest is under way, in one place.
InChannel(g) == g \in channel
InQueue(g, i) == g \in queue[i]
InWork(g, p) == g \in work[p]
UnderWay(g) == \/ InChannel(g)
               \/ \E i \in DOMAIN queue : InQueue(g, i)
               \/ \E p \in Worker : InWork(g, p)

EntriesInOrder ==
    \A g \in Guest :
        /\ UnderWay(g) => region[g] = "done" /\ host[g] \in Host
        /\ region[g] \in {"told", "saved", "unsaved"} => host[g] \in Host
        /\ InChannel(g) => /\ \A i \in DOMAIN queue : ~InQueue(g, i)
                           /\ \A p \in Worker : ~InWork(g, p)
        /\ \A i \in DOMAIN queue : InQueue(g, i) =>
              /\ \A j \in DOMAIN queue : InQueue(g, j) => i = j
              /\ \A p \in Worker : ~InWork(g, p)
        /\ \A p, q \in Worker : InWork(g, p) /\ InWork(g, q) => p = q

\* The executor is at work on guests of one session, and adds to the usage of
\* that session and host.
ExecutorInOrder ==
    /\ pc[Executor] \in {"idle", "schedule", "lookup", "add"}
    /\ work[Executor] \subseteq Guest
    /\ pc[Executor] = "idle" <=> work[Executor] = {}
    /\ \A g \in work[Executor] :
          /\ region[g] = "none"
          /\ IF pc[Executor] = "schedule" THEN host[g] = None ELSE host[g] \in Host
          /\ \A x \in work[Executor] : SessionOf[x] = SessionOf[g]
    /\ pc[Executor] = "add" =>
          LET u == ptr[Executor]
              g == First(work[Executor])
          IN /\ u \in Guest /\ SessionOf[u] = SessionOf[g] /\ host[u] = host[g]
             /\ u = g \/ u \notin work[Executor]

\* The other processes are where they can be, with usages of some host in hand.
ProcsInOrder ==
    /\ \A p \in Worker :
          /\ pc[p] \in {"idle", "read", "build", "store", "cancel", "sub"}
          /\ pc[p] \in {"cancel", "sub"} => work[p] \subseteq Guest
          /\ pc[p] = "sub" => ptr[p] \in Guest /\ host[ptr[p]] \in Host
    /\ pc[Periodic] \in {"idle", "build", "store"}
    /\ pc[Cleaner] \in {"idle", "read", "build", "store", "range", "clear"} \cup Clearing
    /\ pc[Cleaner] \in Clearing => ptr[Cleaner] \in Guest /\ host[ptr[Cleaner]] \in Host
    /\ \A u \in work[Cleaner] : u \in Guest /\ host[u] \in Host
    /\ pc[Collector] \in {"idle", "sub", "delete"}
    /\ pc[Collector] # "idle" => ptr[Collector] \in Guest /\ host[ptr[Collector]] \in Host
    /\ pc[Cleaner] \in {"clear"} \cup Clearing \/ pc[Collector] # "idle" => gap = "cleared"

\* A usage is stored under its session and host.
StoreInOrder ==
    \A s \in Session, h \in Host :
        LET u == session[s][h] IN
        u # None => SessionOf[u] = s /\ host[u] = h /\ u \notin work[Executor]

\* Pending usage never exceeds what has been reserved, also after a cleanup.
PendingBounded ==
    /\ \A h \in Host : pending[h] <= Cardinality(Added(h))
    /\ pc[Cleaner] \in Clearing => hand.units <= Cardinality(Added(host[ptr[Cleaner]]))

\* The reserved guests of a host, or of a session there, whose unit has not been
\* asked back, and the workers that are about to give one back.
Due(g) == region[g] # "done" \/ UnderWay(g)
DueOn(h) == {g \in Added(h) : Due(g)}
SubsOn(h) == {p \in Worker : pc[p] = "sub" /\ host[ptr[p]] = h}
AddedFor(s, h) == {g \in Added(h) : SessionOf[g] = s}
DueFor(s, h) == {g \in DueOn(h) : SessionOf[g] = s}
SubsOf(u) == {p \in Worker : pc[p] = "sub" /\ ptr[p] = u}

\* Until a session is cleared its count covers the units to be given back,
SessionsCovered ==
    \A s \in Session, h \in Host :
        LET u == session[s][h] IN
        IF u = None
        THEN AddedFor(s, h) = {}
        ELSE /\ Cardinality(DueFor(s, h)) + Cardinality(SubsOf(u)) <= count[u]
             /\ count[u] <= Cardinality(AddedFor(s, h))

\* a usage that was never stored counts nothing,
FreshCounts ==
    \A g \in Guest : host[g] = None \/ g \in work[Executor] => count[g] = 0

\* and who has a usage in hand has the one in the store.
SubsStored ==
    \A p \in Worker : pc[p] = "sub" => session[SessionOf[ptr[p]]][host[ptr[p]]] = ptr[p]

AddStored ==
    pc[Executor] = "add" =>
        LET u == ptr[Executor]
            g == First(work[Executor])
        IN session[SessionOf[g]][host[g]] = IF u = g THEN None ELSE u

\* A worker has read every saved guest of its task from the database when it has
\* loaded the hosts.
WorkersHaveRead ==
    \A p \in Worker : pc[p] \in {"build", "store"} =>
        work[p] \cap saved \subseteq seen[p]

\* What is about to be given back is behind the description; so the pending usage
\* covers what is due and what the description does not know of.
LoadedFirst ==
    \A p \in Worker : pc[p] \in {"cancel", "sub"} =>
        \A g \in work[p] \cap saved : g \in base[host[g]]

OpenOn(h) == DueOn(h) \cup (Placed(h) \ base[h])

HostsCovered ==
    \A h \in Host : Cardinality(OpenOn(h)) + Cardinality(SubsOn(h)) <= pending[h]

ReservationInv ==
    /\ TypeOK
    /\ EntriesInOrder
    /\ ExecutorInOrder
    /\ ProcsInOrder
    /\ StoreInOrder
    /\ PendingBounded
    /\ WorkersHaveRead
    /\ gap # "cleared" => /\ SessionsCovered /\ FreshCounts /\ SubsStored /\ AddStored
                          /\ ReservationsExact
    /\ gap = "none" => LoadedFirst /\ HostsCovered

\* What reload-before-cancel is for: a guest placed on a host is counted by the
\* cached description or reserved, so that its room is never given away.
CountedOrReserved ==
    gap = "none" => \A h \in Host : Cardinality(Placed(h) \ desc[h]) <= pending[h]

\* The cached descriptions converge to the database: in the end every saved guest is
\* counted but for those in the PendingGuestIds of the host, although requests get
\* lost, tasks are dropped, and an old description may be stored after a newer one;
\* and no guest stays in PendingGuestIds, however it was cancelled, collected or
\* cleared, unless a cleanup was clearing a session, without the host's lock, when the
\* executor, a worker or the collector changed the usage of the host.
Converges ==
    <>[](\A h \in Host : /\ desc[h] = (saved \cap On(h)) \ ids[h]
                         /\ ids[h] = {} \/ h \in clash)
=============================================================================
