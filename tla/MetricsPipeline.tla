--------------------------- MODULE MetricsPipeline ---------------------------
(***************************************************************************)
(* How a denormalised counter (a post's votes and comments, a comment's    *)
(* replies, a profile's followers, posts and comments) follows the rows it *)
(* counts.  A request commits rows and publishes an event on Redis; an     *)
(* async controller turns the event into a BullMQ job; the worker's        *)
(* handle() notes which metrics of which item to refresh and (re)arms a    *)
(* debounce timer; the timer starts a flush, which takes a Redis lock per  *)
(* item, counts the rows and then writes the counters.                     *)
(*                                                                         *)
(* The three processors of the code have this one shape.  The module is    *)
(* written against the post processor; PostMetrics, CommentMetrics and     *)
(* ProfileMetrics instantiate it with each processor's own tables.         *)
(*                                                                         *)
(* The data are abstracted to versions: truth[i][c] numbers the committed  *)
(* states of the rows behind column c of item i, and stored[i][c] is the   *)
(* version the stored counter was computed from.                           *)
(***************************************************************************)
EXTENDS Integers, FiniteSets

CONSTANTS
    Items,          \* posts, comments or profiles
    Metrics,        \* what a job may ask to refresh
    Columns,        \* the counters stored on an item
    ColumnsOf,      \* [Metrics -> SUBSET Columns]: the counters a metric's refresh writes
    Rank,           \* [Metrics -> Nat]: the order in which flush refreshes the metrics
    Events,         \* payloads a request publishes; equal payloads have equal job ids
    Handled,        \* the events some controller turns into a job of this queue
    ItemsOf,        \* [Events -> SUBSET Items]: the items handle() schedules
    MetricsOf,      \* [Events -> SUBSET Metrics]: eventMetricsMap
    Touches,        \* [Events -> SUBSET (Items \X Columns)]: the counters whose rows change
    Flushes,        \* flush calls that may be awaiting something at the same time
    Free, Orphan,   \* a lock nobody holds; a lock whose holder crashed
    NoItem,         \* a flush between two items
    Faults,         \* the kinds of failure that may happen
    MaxVersion      \* bound: committed changes per counter, events on their way per payload

FaultKinds == {"event_lost", "lease_expires", "redis_error", "db_error",
               "redis_restart", "crash"}

ASSUME TablesAssumption ==
    /\ ColumnsOf \in [Metrics -> SUBSET Columns]
    /\ Rank \in [Metrics -> Nat]
    /\ Handled \subseteq Events
    /\ ItemsOf \in [Events -> SUBSET Items]
    /\ MetricsOf \in [Events -> SUBSET Metrics]
    /\ Touches \in [Events -> SUBSET (Items \X Columns)]

ASSUME ValuesAssumption ==
    /\ Free \notin Flushes
    /\ Orphan \notin Flushes
    /\ Free # Orphan
    /\ NoItem \notin Items
    /\ Faults \subseteq FaultKinds
    /\ MaxVersion \in Nat

VARIABLES
    truth,          \* version of the committed rows behind each counter
    stored,         \* version each stored counter was computed from
    inflight,       \* events committed but not yet received by the controller
    jobs,           \* the BullMQ queue, keyed by job id
    toUpdate,       \* the processor's in-memory map: metrics wanted per item
    flushTimeout,   \* TRUE while the debounce timer is armed
    entries,        \* per flush: the snapshot entries it has not reached yet
    at,             \* per flush: the item it is refreshing
    left,           \* per flush: metricsToUpdate not yet refreshed for that item
    read,           \* per flush: the counts read for the current metric
    lock,           \* the Redis lock of each item
    abandoned       \* history: counters a failure, a refused lock or an event
                    \* nobody handles left behind, until a refresh heals them

vars == <<truth, stored, inflight, jobs, toUpdate, flushTimeout, entries, at,
          left, read, lock, abandoned>>

flushVars == <<entries, at, left, read, lock>>

Unread == -1
Nothing == [i \in Items |-> {}]
NoCounts == [c \in Columns |-> Unread]

\* Refreshing the metrics ms writes counter c ...
Wants(ms, c) == \E m \in ms : c \in ColumnsOf[m]

\* ... so these are the counters of item i it writes.
Cells(i, ms) == {i} \X {c \in Columns : Wants(ms, c)}

\* The counters that the job of event e gets refreshed.
Refreshed(e) == ItemsOf[e] \X {c \in Columns : Wants(MetricsOf[e], c)}

Stale == {x \in Items \X Columns : stored[x[1]][x[2]] # truth[x[1]][x[2]]}

-----------------------------------------------------------------------------
(***************************************************************************)
(* Requests and delivery.                                                  *)
(***************************************************************************)

(***************************************************************************)
(* A service commits rows and publishes e.  publish() is fire-and-forget   *)
(* on a Redis channel: with no subscriber the event is gone at once.       *)
(***************************************************************************)
Change(e) ==
    /\ inflight[e] < MaxVersion
    /\ \A x \in Touches[e] : truth[x[1]][x[2]] < MaxVersion
    /\ truth' = [i \in Items |-> [c \in Columns |->
                    IF <<i, c>> \in Touches[e] THEN truth[i][c] + 1 ELSE truth[i][c]]]
    /\ inflight' = [inflight EXCEPT ![e] = IF e \in Handled THEN @ + 1 ELSE @]
    /\ abandoned' = abandoned \union (IF e \in Handled THEN Touches[e] \ Refreshed(e) ELSE Touches[e])
    /\ UNCHANGED <<stored, jobs, toUpdate, flushTimeout, flushVars>>

\* Mutant of Deliver: a retried acknowledgement counts the same event twice.
DeliverUnguarded(e) ==
    /\ jobs[e] = "none"
    /\ inflight' = [inflight EXCEPT ![e] = @ - 1]
    /\ jobs' = [jobs EXCEPT ![e] = "waiting"]
    /\ UNCHANGED <<truth, stored, toUpdate, flushTimeout, flushVars, abandoned>>

(***************************************************************************)
(* The controller receives e and adds a job whose id is the payload.  A    *)
(* job of that id still in the queue, waiting or active, makes the add a   *)
(* no-op.                                                                  *)
(***************************************************************************)
Deliver(e) ==
    /\ inflight[e] > 0
    /\ inflight' = [inflight EXCEPT ![e] = @ - 1]
    /\ jobs' = [jobs EXCEPT ![e] = IF @ = "none" THEN "waiting" ELSE @]
    /\ UNCHANGED <<truth, stored, toUpdate, flushTimeout, flushVars, abandoned>>

\* Mutants of Merged and Rearmed: an existing entry is overwritten; a running
\* timer is cleared but not set again.
MergedOverwriting(e) ==
    [i \in Items |-> IF i \in ItemsOf[e] /\ MetricsOf[e] # {} THEN MetricsOf[e] ELSE toUpdate[i]]
RearmedOnlyOnce(e) ==
    IF MetricsOf[e] # {} /\ ItemsOf[e] # {} THEN ~flushTimeout ELSE flushTimeout

\* schedule...Update: the metrics join those already wanted for the item ...
Merged(e) ==
    [i \in Items |-> IF i \in ItemsOf[e] THEN toUpdate[i] \union MetricsOf[e] ELSE toUpdate[i]]

\* ... and the debounce timer is cleared and set again.
Rearmed(e) == flushTimeout \/ (MetricsOf[e] # {} /\ ItemsOf[e] # {})

\* The worker (concurrency 1) takes a job; handle() runs synchronously.
HandleJob(e) ==
    /\ jobs[e] = "waiting"
    /\ \A d \in Events : jobs[d] # "active"
    /\ jobs' = [jobs EXCEPT ![e] = "active"]
    /\ toUpdate' = Merged(e)
    /\ flushTimeout' = Rearmed(e)
    /\ UNCHANGED <<truth, stored, inflight, flushVars, abandoned>>

\* removeOnComplete: a completed job leaves the queue and frees its id.
FinishJob(e) ==
    /\ jobs[e] = "active"
    /\ jobs' = [jobs EXCEPT ![e] = "none"]
    /\ UNCHANGED <<truth, stored, inflight, toUpdate, flushTimeout, flushVars, abandoned>>

-----------------------------------------------------------------------------
(***************************************************************************)
(* The flush.                                                              *)
(***************************************************************************)

Idle(f) == at[f] = NoItem /\ entries[f] = Nothing

(***************************************************************************)
(* Timing assumption: the debounce delay (0.5 s to 6 s, counted from the   *)
(* last handle()) is longer than the acknowledgement of a handled job, so  *)
(* the timer does not fire while a job is still active.                    *)
(***************************************************************************)
AckBeforeFlush == \A e \in Events : jobs[e] # "active"

\* Mutant of FlushStart: the map is not cleared after the snapshot.
FlushStartKeepingMap(f) ==
    /\ flushTimeout
    /\ AckBeforeFlush
    /\ Idle(f)
    /\ entries' = [entries EXCEPT ![f] = toUpdate]
    /\ flushTimeout' = FALSE
    /\ UNCHANGED <<truth, stored, inflight, jobs, toUpdate, at, left, read, lock, abandoned>>

\* The timer fires: snapshot the map and clear it, before any await.
FlushStart(f) ==
    /\ flushTimeout
    /\ AckBeforeFlush
    /\ Idle(f)
    /\ entries' = [entries EXCEPT ![f] = toUpdate]
    /\ toUpdate' = Nothing
    /\ flushTimeout' = FALSE
    /\ UNCHANGED <<truth, stored, inflight, jobs, at, left, read, lock, abandoned>>

Acquire(f, i) ==
    /\ at[f] = NoItem
    /\ entries[f][i] # {}
    /\ lock[i] = Free
    /\ lock' = [lock EXCEPT ![i] = f]
    /\ at' = [at EXCEPT ![f] = i]
    /\ left' = [left EXCEPT ![f] = entries[f][i]]
    /\ entries' = [entries EXCEPT ![f][i] = {}]
    /\ UNCHANGED <<truth, stored, inflight, jobs, toUpdate, flushTimeout, read, abandoned>>

(***************************************************************************)
(* "if (!lock) continue": every attempt found the lock held, or Redis      *)
(* failed.  The entry is skipped and was already removed from the map.     *)
(***************************************************************************)
LockRefused(f, i) ==
    /\ at[f] = NoItem
    /\ entries[f][i] # {}
    /\ lock[i] # Free \/ "redis_error" \in Faults
    /\ entries' = [entries EXCEPT ![f][i] = {}]
    /\ abandoned' = abandoned \union Cells(i, entries[f][i])
    /\ UNCHANGED <<truth, stored, inflight, jobs, toUpdate, flushTimeout, at, left, read, lock>>

\* The metric the flush refreshes next.
IsNext(f, m) == m \in left[f] /\ \A n \in left[f] : Rank[m] <= Rank[n]

\* Mutant of Count: the count sees a row that is not committed yet.
CountUncommitted(f, m, c) ==
    /\ at[f] # NoItem
    /\ IsNext(f, m)
    /\ c \in ColumnsOf[m]
    /\ read[f][c] = Unread
    /\ read' = [read EXCEPT ![f][c] = truth[at[f]][c] + 1]
    /\ UNCHANGED <<truth, stored, inflight, jobs, toUpdate, flushTimeout, entries,
                   at, left, lock, abandoned>>

\* One SELECT COUNT of a refresh; the two of the score run in either order.
Count(f, m, c) ==
    /\ at[f] # NoItem
    /\ IsNext(f, m)
    /\ c \in ColumnsOf[m]
    /\ read[f][c] = Unread
    /\ read' = [read EXCEPT ![f][c] = truth[at[f]][c]]
    /\ UNCHANGED <<truth, stored, inflight, jobs, toUpdate, flushTimeout, entries,
                   at, left, lock, abandoned>>

\* The counts are local to one refresh call. Mutant: they are kept for the next one.
ForgottenNever(f) == read
Forgotten(f) == [read EXCEPT ![f] = NoCounts]

(***************************************************************************)
(* The UPDATE that ends a refresh.  The counters it writes are healed when *)
(* they are up to date and the lock was held throughout; they are          *)
(* abandoned when the lock was lost in the meantime, since the write may   *)
(* then undo a newer one.                                                  *)
(***************************************************************************)
Write(f, m) ==
    LET i == at[f]
        current == {x \in Cells(i, {m}) : read[f][x[2]] = truth[i][x[2]]}
    IN  /\ i # NoItem
        /\ IsNext(f, m)
        /\ \A c \in ColumnsOf[m] : read[f][c] # Unread
        /\ stored' = [j \in Items |-> [c \in Columns |->
                        IF j = i /\ c \in ColumnsOf[m] THEN read[f][c] ELSE stored[j][c]]]
        /\ left' = [left EXCEPT ![f] = @ \ {m}]
        /\ read' = Forgotten(f)
        /\ abandoned' = IF lock[i] = f THEN abandoned \ current
                                       ELSE abandoned \union Cells(i, {m})
        /\ UNCHANGED <<truth, inflight, jobs, toUpdate, flushTimeout, entries, at, lock>>

\* catch: a failed query ends the item's refresh; nothing is retried.
RefreshFails(f) ==
    /\ "db_error" \in Faults
    /\ at[f] # NoItem
    /\ left[f] # {}
    /\ left' = [left EXCEPT ![f] = {}]
    /\ read' = Forgotten(f)
    /\ abandoned' = abandoned \union Cells(at[f], left[f])
    /\ UNCHANGED <<truth, stored, inflight, jobs, toUpdate, flushTimeout, entries, at, lock>>

\* finally: the script deletes the key only if it still holds this lock's value.
Release(f) ==
    /\ at[f] # NoItem
    /\ left[f] = {}
    /\ lock' = [i \in Items |-> IF i = at[f] /\ lock[i] = f THEN Free ELSE lock[i]]
    /\ at' = [at EXCEPT ![f] = NoItem]
    /\ UNCHANGED <<truth, stored, inflight, jobs, toUpdate, flushTimeout, entries,
                   left, read, abandoned>>

-----------------------------------------------------------------------------
(***************************************************************************)
(* Failures.                                                               *)
(***************************************************************************)

\* Pub/sub delivers at most once: no subscriber connected, or emit() failed.
LoseEvent(e) ==
    /\ "event_lost" \in Faults
    /\ inflight[e] > 0
    /\ inflight' = [inflight EXCEPT ![e] = @ - 1]
    /\ abandoned' = abandoned \union Refreshed(e)
    /\ UNCHANGED <<truth, stored, jobs, toUpdate, flushTimeout, flushVars>>

\* The lock's TTL passes while its holder still works, or after it crashed.
LeaseExpires(i) ==
    /\ "lease_expires" \in Faults
    /\ lock[i] # Free
    /\ lock' = [lock EXCEPT ![i] = Free]
    /\ UNCHANGED <<truth, stored, inflight, jobs, toUpdate, flushTimeout, entries,
                   at, left, read, abandoned>>

(***************************************************************************)
(* Redis restarts without persistence (--save "" --appendonly no): queue,  *)
(* locks and undelivered events are gone, the API's own memory is not.     *)
(***************************************************************************)
RedisRestart ==
    /\ "redis_restart" \in Faults
    /\ inflight' = [e \in Events |-> 0]
    /\ jobs' = [e \in Events |-> "none"]
    /\ lock' = [i \in Items |-> Free]
    /\ abandoned' = abandoned \union Stale
    /\ UNCHANGED <<truth, stored, toUpdate, flushTimeout, entries, at, left, read>>

(***************************************************************************)
(* The API process dies and is restarted (restart: always): the map, the   *)
(* timer, the running flushes and the events on their way are lost.  Redis *)
(* keeps the queue, where a stalled active job goes back to waiting, and   *)
(* the locks until they expire.                                            *)
(***************************************************************************)
Crash ==
    /\ "crash" \in Faults
    /\ inflight' = [e \in Events |-> 0]
    /\ jobs' = [e \in Events |-> IF jobs[e] = "active" THEN "waiting" ELSE jobs[e]]
    /\ toUpdate' = Nothing
    /\ flushTimeout' = FALSE
    /\ entries' = [f \in Flushes |-> Nothing]
    /\ at' = [f \in Flushes |-> NoItem]
    /\ left' = [f \in Flushes |-> {}]
    /\ read' = [f \in Flushes |-> NoCounts]
    /\ lock' = [i \in Items |-> IF lock[i] = Free THEN Free ELSE Orphan]
    /\ abandoned' = abandoned \union Stale
    /\ UNCHANGED <<truth, stored>>

-----------------------------------------------------------------------------
Init ==
    /\ truth = [i \in Items |-> [c \in Columns |-> 0]]
    /\ stored = truth
    /\ inflight = [e \in Events |-> 0]
    /\ jobs = [e \in Events |-> "none"]
    /\ toUpdate = Nothing
    /\ flushTimeout = FALSE
    /\ entries = [f \in Flushes |-> Nothing]
    /\ at = [f \in Flushes |-> NoItem]
    /\ left = [f \in Flushes |-> {}]
    /\ read = [f \in Flushes |-> NoCounts]
    /\ lock = [i \in Items |-> Free]
    /\ abandoned = {}

FlushStep(f) ==
    \/ \E i \in Items : Acquire(f, i) \/ LockRefused(f, i)
    \/ \E m \in Metrics : Write(f, m) \/ \E c \in Columns : Count(f, m, c)
    \/ RefreshFails(f)
    \/ Release(f)

Next ==
    \/ \E e \in Events : Change(e) \/ Deliver(e) \/ HandleJob(e) \/ FinishJob(e)
                         \/ LoseEvent(e)
    \/ \E f \in Flushes : FlushStart(f) \/ FlushStep(f)
    \/ \E i \in Items : LeaseExpires(i)
    \/ RedisRestart
    \/ Crash

Spec == Init /\ [][Next]_vars

(***************************************************************************)
(* What the runtime schedules keeps going: delivery, the worker, the timer *)
(* and every running flush.  Requests and failures are not fair.           *)
(***************************************************************************)
Fairness ==
    /\ \A e \in Events : WF_vars(Deliver(e)) /\ WF_vars(HandleJob(e)) /\ WF_vars(FinishJob(e))
    /\ WF_vars(\E f \in Flushes : FlushStart(f))
    /\ \A f \in Flushes : WF_vars(FlushStep(f))

FairSpec == Spec /\ Fairness

-----------------------------------------------------------------------------
(***************************************************************************)
(* Correctness.                                                            *)
(***************************************************************************)

TypeOK ==
    /\ truth \in [Items -> [Columns -> Nat]]
    /\ stored \in [Items -> [Columns -> Nat]]
    /\ inflight \in [Events -> Nat]
    /\ jobs \in [Events -> {"none", "waiting", "active"}]
    /\ toUpdate \in [Items -> SUBSET Metrics]
    /\ flushTimeout \in BOOLEAN
    /\ entries \in [Flushes -> [Items -> SUBSET Metrics]]
    /\ at \in [Flushes -> Items \union {NoItem}]
    /\ left \in [Flushes -> SUBSET Metrics]
    /\ read \in [Flushes -> [Columns -> Nat \union {Unread}]]
    /\ lock \in [Items -> Flushes \union {Free, Orphan}]
    /\ abandoned \subseteq Items \X Columns

\* Something that will still count the rows behind counter c of i.
Queued(i, c) ==
    \/ \E e \in Events : <<i, c>> \in Refreshed(e) /\ (inflight[e] > 0 \/ jobs[e] = "waiting")
    \/ Wants(toUpdate[i], c)
    \/ \E f \in Flushes : Wants(entries[f][i], c)
    \/ \E f \in Flushes : at[f] = i /\ Wants(left[f], c) /\ read[f][c] = Unread

\* A flush holds its current count and has still to write it.
Landing(i, c) ==
    \E f \in Flushes : at[f] = i /\ Wants(left[f], c) /\ read[f][c] = truth[i][c]

Covered(i, c) == Queued(i, c) \/ Landing(i, c) \/ <<i, c>> \in abandoned

(***************************************************************************)
(* A counter that differs from its rows always has a refresh on its way,   *)
(* unless it is one of those a failure, a refused lock or an unhandled     *)
(* event abandoned: clearing the map before the awaits, merging into       *)
(* existing entries, the job ids and the lock lose no update between them. *)
(***************************************************************************)
NoLostUpdate ==
    \A i \in Items, c \in Columns : stored[i][c] # truth[i][c] => Covered(i, c)

(***************************************************************************)
(* Metrics never wait in the map without a timer that will flush them.     *)
(***************************************************************************)
NoForgottenEntry == toUpdate # Nothing => flushTimeout

(***************************************************************************)
(* The counters of an item never go back to an older count, except where   *)
(* a flush went on writing after it lost its lock: flushes of one item may *)
(* overlap, but the lock orders their count-then-write sections.           *)
(***************************************************************************)
NoRegression ==
    [][\A i \in Items, c \in Columns :
          stored'[i][c] >= stored[i][c] \/ <<i, c>> \in abandoned']_vars

(***************************************************************************)
(* The pipeline keeps the counters the way CounterSync promises: every     *)
(* value a flush writes was the count of a state the rows were in, values  *)
(* move forward, and an abandoned counter is cleared only when current.    *)
(***************************************************************************)
Counters == INSTANCE CounterSync
                WITH Items <- Items, Columns <- Columns,
                     truth <- truth, stored <- stored, abandoned <- abandoned

ImplementsCounterSync == Counters!Spec

(***************************************************************************)
(* Once requests and crashes stop, every counter not abandoned ends up     *)
(* equal to what its rows say.  Requests have to stop: each handled job    *)
(* re-arms the debounce timer, so a steady stream may keep a flush from    *)
(* ever starting.                                                          *)
(***************************************************************************)
Quiet == ~Crash /\ \A e \in Events : ~Change(e)

Convergence == <>[][Quiet]_vars => <>[](Stale \subseteq abandoned)

-----------------------------------------------------------------------------
(***************************************************************************)
(* The inductive invariant behind NoLostUpdate and NoRegression.           *)
(***************************************************************************)

\* A flush between items, or done with one, carries nothing over.
CleanFlush ==
    \A f \in Flushes : /\ (at[f] = NoItem => left[f] = {})
                        /\ (left[f] = {} => read[f] = NoCounts)

\* Counts are never ahead of the rows.
FromThePast ==
    /\ \A i \in Items, c \in Columns : stored[i][c] <= truth[i][c]
    /\ \A f \in Flushes, i \in Items, c \in Columns :
          at[f] = i => read[f][c] <= truth[i][c]

\* What an active job asked for is still in the map, so dropping an event
\* with the same job id loses nothing.
ActiveJobScheduled ==
    \A e \in Events : jobs[e] = "active" =>
        \A i \in ItemsOf[e] : MetricsOf[e] \subseteq toUpdate[i]

\* The holder of a lock is about to write a count that is older than its rows
\* only if another refresh follows, and never one older than what is stored.
HolderIsSafe ==
    \A f \in Flushes, i \in Items, c \in Columns :
        (at[f] = i /\ lock[i] = f /\ read[f][c] # Unread) =>
            /\ (read[f][c] # truth[i][c] => Covered(i, c))
            /\ stored[i][c] <= read[f][c] \/ <<i, c>> \in abandoned

IInv ==
    /\ TypeOK
    /\ CleanFlush
    /\ FromThePast
    /\ ActiveJobScheduled
    /\ NoForgottenEntry
    /\ HolderIsSafe
    /\ NoLostUpdate

=============================================================================
