------------------------ MODULE MetricsPipeline_proof ------------------------
(***************************************************************************)
(* Proofs about MetricsPipeline, for every choice of its constants.        *)
(***************************************************************************)
EXTENDS MetricsPipeline, TLAPS

(***************************************************************************)
(* Each variable keeps its type under each action.                         *)
(***************************************************************************)
LEMMA TypeStep == ASSUME TypeOK, [Next]_vars PROVE TypeOK'
<1> USE TablesAssumption, ValuesAssumption DEF TypeOK, flushVars, Nothing, NoCounts, Unread
<1>1. ASSUME NEW e \in Events, Change(e) PROVE TypeOK'
  <2>1. truth' \in [Items -> [Columns -> Nat]]
    BY <1>1 DEF Change
  <2>2. abandoned' \subseteq Items \X Columns
    BY <1>1 DEF Change
  <2> QED BY <1>1, <2>1, <2>2 DEF Change
<1>2. ASSUME NEW e \in Events, Deliver(e) PROVE TypeOK'
  BY <1>2 DEF Deliver
<1>3. ASSUME NEW e \in Events, HandleJob(e) PROVE TypeOK'
  BY <1>3 DEF HandleJob, Merged, Rearmed
<1>4. ASSUME NEW e \in Events, FinishJob(e) PROVE TypeOK'
  BY <1>4 DEF FinishJob
<1>5. ASSUME NEW e \in Events, LoseEvent(e) PROVE TypeOK'
  <2>1. Refreshed(e) \subseteq Items \X Columns
    BY DEF Refreshed
  <2> QED BY <1>5, <2>1 DEF LoseEvent
<1>6. ASSUME NEW f \in Flushes, FlushStart(f) PROVE TypeOK'
  BY <1>6 DEF FlushStart
<1>7. ASSUME NEW f \in Flushes, NEW i \in Items, Acquire(f, i) PROVE TypeOK'
  BY <1>7 DEF Acquire
<1>8. ASSUME NEW f \in Flushes, NEW i \in Items, LockRefused(f, i) PROVE TypeOK'
  BY <1>8 DEF LockRefused, Cells
<1>9. ASSUME NEW f \in Flushes, NEW m \in Metrics, NEW c \in Columns, Count(f, m, c)
      PROVE  TypeOK'
  <2>1. truth[at[f]][c] \in Nat
    BY <1>9 DEF Count
  <2> QED BY <1>9, <2>1 DEF Count
<1>10. ASSUME NEW f \in Flushes, NEW m \in Metrics, Write(f, m) PROVE TypeOK'
  <2>1. stored' \in [Items -> [Columns -> Nat]]
    BY <1>10 DEF Write
  <2>2. read' \in [Flushes -> [Columns -> Nat \union {Unread}]]
    BY <1>10 DEF Write, Forgotten
  <2>3. abandoned' \subseteq Items \X Columns
    BY <1>10 DEF Write, Cells
  <2> QED BY <1>10, <2>1, <2>2, <2>3 DEF Write
<1>11. ASSUME NEW f \in Flushes, RefreshFails(f) PROVE TypeOK'
  BY <1>11 DEF RefreshFails, Forgotten, Cells
<1>12. ASSUME NEW f \in Flushes, Release(f) PROVE TypeOK'
  BY <1>12 DEF Release
<1>13. ASSUME NEW i \in Items, LeaseExpires(i) PROVE TypeOK'
  BY <1>13 DEF LeaseExpires
<1>14. ASSUME RedisRestart PROVE TypeOK'
  BY <1>14 DEF RedisRestart, Stale
<1>15. ASSUME Crash PROVE TypeOK'
  BY <1>15 DEF Crash, Stale
<1>16. ASSUME UNCHANGED vars PROVE TypeOK'
  BY <1>16 DEF vars
<1> QED
  BY <1>1, <1>2, <1>3, <1>4, <1>5, <1>6, <1>7, <1>8, <1>9, <1>10, <1>11, <1>12, <1>13,
     <1>14, <1>15, <1>16 DEF Next, FlushStep

LEMMA InitTypeOK == Init => TypeOK
<1> SUFFICES ASSUME Init PROVE TypeOK
  OBVIOUS
<1>1. NoCounts \in [Columns -> Nat \union {Unread}]
  BY DEF NoCounts
<1>2. Nothing \in [Items -> SUBSET Metrics]
  BY DEF Nothing
<1>3. truth \in [Items -> [Columns -> Nat]] /\ stored \in [Items -> [Columns -> Nat]]
  BY DEF Init
<1> QED BY <1>1, <1>2, <1>3 DEF Init, TypeOK

(***************************************************************************)
(* Every variable always has its type.                                     *)
(***************************************************************************)
THEOREM TypeCorrect == Spec => []TypeOK
<1>1. TypeOK /\ [Next]_vars => TypeOK'
  BY TypeStep
<1> QED BY <1>1, InitTypeOK, PTL DEF Spec

-----------------------------------------------------------------------------
(***************************************************************************)
(* A case split on Next that the lemmas below share: one case per action,  *)
(* the two restarts last.                                                  *)
(***************************************************************************)
QuietStep ==
    \/ \E e \in Events : \/ Change(e) \/ Deliver(e) \/ HandleJob(e) \/ FinishJob(e)
                          \/ LoseEvent(e)
    \/ \E f \in Flushes : FlushStart(f) \/ RefreshFails(f) \/ Release(f)
    \/ \E f \in Flushes, i \in Items : Acquire(f, i) \/ LockRefused(f, i)
    \/ \E f \in Flushes, m \in Metrics, c \in Columns : Count(f, m, c)
    \/ \E i \in Items : LeaseExpires(i)
    \/ UNCHANGED vars

LEMMA NextSplit ==
    ASSUME [Next]_vars
    PROVE  \/ QuietStep
           \/ \E f \in Flushes, m \in Metrics : Write(f, m)
           \/ RedisRestart
           \/ Crash
BY DEF Next, FlushStep, QuietStep

LEMMA CleanStep == ASSUME TypeOK, CleanFlush, [Next]_vars PROVE CleanFlush'
<1> USE ValuesAssumption DEF TypeOK, CleanFlush, flushVars
<1>1. ASSUME NEW e \in Events,
             Change(e) \/ Deliver(e) \/ HandleJob(e) \/ FinishJob(e) \/ LoseEvent(e)
      PROVE  CleanFlush'
  BY <1>1 DEF Change, Deliver, HandleJob, FinishJob, LoseEvent
<1>2. ASSUME NEW f \in Flushes, NEW i \in Items, Acquire(f, i) PROVE CleanFlush'
  BY <1>2 DEF Acquire
<1>3. ASSUME NEW f \in Flushes, NEW i \in Items, LockRefused(f, i) PROVE CleanFlush'
  BY <1>3 DEF LockRefused
<1>4. ASSUME NEW f \in Flushes, NEW m \in Metrics, NEW c \in Columns, Count(f, m, c)
      PROVE  CleanFlush'
  BY <1>4 DEF Count, IsNext
<1>5. ASSUME NEW f \in Flushes, NEW m \in Metrics, Write(f, m) PROVE CleanFlush'
  BY <1>5 DEF Write, Forgotten
<1>6. ASSUME NEW f \in Flushes, FlushStart(f) \/ RefreshFails(f) \/ Release(f)
      PROVE  CleanFlush'
  BY <1>6 DEF FlushStart, RefreshFails, Release, Forgotten
<1>7. ASSUME (\E i \in Items : LeaseExpires(i)) \/ RedisRestart \/ Crash \/ UNCHANGED vars
      PROVE  CleanFlush'
  BY <1>7 DEF LeaseExpires, RedisRestart, Crash, vars
<1> QED BY <1>1, <1>2, <1>3, <1>4, <1>5, <1>6, <1>7 DEF Next, FlushStep

(***************************************************************************)
(* What a commit does to one counter.                                      *)
(***************************************************************************)
LEMMA ChangeAt ==
    ASSUME TypeOK, NEW e \in Events, Change(e), NEW i \in Items, NEW c \in Columns
    PROVE  /\ <<i, c>> \in Touches[e] => truth'[i][c] = truth[i][c] + 1
           /\ <<i, c>> \notin Touches[e] => truth'[i][c] = truth[i][c]
           /\ truth[i][c] \in Nat
<1>1. truth' = [j \in Items |-> [d \in Columns |->
                   IF <<j, d>> \in Touches[e] THEN truth[j][d] + 1 ELSE truth[j][d]]]
  BY DEF Change
<1>2. truth'[i][c] = IF <<i, c>> \in Touches[e] THEN truth[i][c] + 1 ELSE truth[i][c]
  BY <1>1
<1>3. truth[i][c] \in Nat
  BY DEF TypeOK
<1> QED BY <1>2, <1>3

LEMMA PastStep == ASSUME TypeOK, FromThePast, CleanFlush, [Next]_vars PROVE FromThePast'
<1> USE ValuesAssumption DEF TypeOK, FromThePast, flushVars
<1>1. ASSUME NEW e \in Events, Change(e) PROVE FromThePast'
  <2>1. ASSUME NEW i \in Items, NEW c \in Columns
        PROVE  /\ truth[i][c] \in Int
               /\ truth'[i][c] \in Int
               /\ truth[i][c] <= truth'[i][c]
    <3> HIDE DEF TypeOK, FromThePast
    <3>1. CASE <<i, c>> \in Touches[e]
      BY <1>1, <3>1, ChangeAt
    <3>2. CASE <<i, c>> \notin Touches[e]
      BY <1>1, <3>2, ChangeAt
    <3> QED BY <3>1, <3>2
  <2>2. \A f \in Flushes, c \in Columns : read[f][c] \in Int
    BY DEF Unread
  <2>3. \A i \in Items, c \in Columns : stored[i][c] \in Int
    OBVIOUS
  <2>4. UNCHANGED <<stored, at, read>>
    BY <1>1 DEF Change
  <2> HIDE DEF TypeOK
  <2>5. \A i \in Items, c \in Columns : stored'[i][c] <= truth'[i][c]
    BY <2>1, <2>3, <2>4
  <2>6. \A f \in Flushes, i \in Items, c \in Columns : at'[f] = i => read'[f][c] <= truth'[i][c]
    BY <2>1, <2>2, <2>4
  <2> QED BY <2>5, <2>6
<1>2. ASSUME NEW e \in Events, Deliver(e) \/ HandleJob(e) \/ FinishJob(e) \/ LoseEvent(e)
      PROVE  FromThePast'
  BY <1>2 DEF Deliver, HandleJob, FinishJob, LoseEvent
<1>3. ASSUME NEW f \in Flushes, NEW i \in Items, Acquire(f, i) PROVE FromThePast'
  <2>1. \A c \in Columns : read[f][c] = Unread
    <3>1. at[f] = NoItem
      BY <1>3 DEF Acquire
    <3>2. read[f] = NoCounts
      BY <3>1 DEF CleanFlush
    <3> QED BY <3>2 DEF NoCounts
  <2>2. at'[f] = i /\ \A g \in Flushes \ {f} : at'[g] = at[g]
    BY <1>3 DEF Acquire
  <2>3. \A j \in Items, c \in Columns : truth[j][c] \in Nat
    OBVIOUS
  <2>4. \A g \in Flushes, j \in Items, c \in Columns : at'[g] = j => read[g][c] <= truth[j][c]
    <3>1. ASSUME NEW j \in Items, NEW c \in Columns PROVE read[f][c] <= truth[j][c]
      BY <2>1, <2>3 DEF Unread
    <3> QED BY <2>2, <3>1
  <2> QED BY <1>3, <2>4 DEF Acquire
<1>4. ASSUME NEW f \in Flushes, NEW i \in Items, LockRefused(f, i) PROVE FromThePast'
  BY <1>4 DEF LockRefused
<1>5. ASSUME NEW f \in Flushes, NEW m \in Metrics, NEW c \in Columns, Count(f, m, c)
      PROVE  FromThePast'
  BY <1>5 DEF Count
<1>6. ASSUME NEW f \in Flushes, NEW m \in Metrics, Write(f, m) PROVE FromThePast'
  BY <1>6 DEF Write, Forgotten, NoCounts, Unread
<1>7. ASSUME NEW f \in Flushes, FlushStart(f) \/ RefreshFails(f) \/ Release(f)
      PROVE  FromThePast'
  <2>1. CASE FlushStart(f)
    BY <2>1 DEF FlushStart
  <2>2. CASE RefreshFails(f)
    BY <2>2 DEF RefreshFails, Forgotten, NoCounts, Unread
  <2>3. CASE Release(f)
    BY <2>3 DEF Release
  <2> QED BY <1>7, <2>1, <2>2, <2>3
<1>8. ASSUME (\E i \in Items : LeaseExpires(i)) \/ RedisRestart \/ Crash \/ UNCHANGED vars
      PROVE  FromThePast'
  BY <1>8 DEF LeaseExpires, RedisRestart, Crash, vars
<1> QED BY <1>1, <1>2, <1>3, <1>4, <1>5, <1>6, <1>7, <1>8 DEF Next, FlushStep

LEMMA ActiveStep ==
    ASSUME TypeOK, ActiveJobScheduled, [Next]_vars PROVE ActiveJobScheduled'
<1> USE TablesAssumption DEF TypeOK, ActiveJobScheduled, flushVars
<1>1. ASSUME NEW e \in Events, Change(e) \/ Deliver(e) \/ FinishJob(e) \/ LoseEvent(e)
      PROVE  ActiveJobScheduled'
  BY <1>1 DEF Change, Deliver, FinishJob, LoseEvent
<1>2. ASSUME NEW e \in Events, HandleJob(e) PROVE ActiveJobScheduled'
  BY <1>2 DEF HandleJob, Merged
<1>3. ASSUME NEW f \in Flushes, FlushStart(f) PROVE ActiveJobScheduled'
  BY <1>3 DEF FlushStart, AckBeforeFlush
<1>4. ASSUME NEW f \in Flushes, FlushStep(f) PROVE ActiveJobScheduled'
  BY <1>4 DEF FlushStep, Acquire, LockRefused, Count, Write, RefreshFails, Release
<1>5. ASSUME (\E i \in Items : LeaseExpires(i)) \/ RedisRestart \/ Crash \/ UNCHANGED vars
      PROVE  ActiveJobScheduled'
  BY <1>5 DEF LeaseExpires, RedisRestart, Crash, vars
<1> QED BY <1>1, <1>2, <1>3, <1>4, <1>5 DEF Next

LEMMA EntryStep == ASSUME TypeOK, NoForgottenEntry, [Next]_vars PROVE NoForgottenEntry'
<1> USE TablesAssumption DEF TypeOK, NoForgottenEntry, flushVars
<1>1. ASSUME NEW e \in Events, Change(e) \/ Deliver(e) \/ FinishJob(e) \/ LoseEvent(e)
      PROVE  NoForgottenEntry'
  BY <1>1 DEF Change, Deliver, FinishJob, LoseEvent, Nothing
<1>2. ASSUME NEW e \in Events, HandleJob(e) PROVE NoForgottenEntry'
  <2>1. CASE Rearmed(e)
    BY <1>2, <2>1 DEF HandleJob
  <2>2. CASE ~Rearmed(e)
    <3>1. \A i \in Items : Merged(e)[i] = {}
      BY <2>2 DEF Rearmed, Merged, Nothing
    <3>2. toUpdate' = [i \in Items |-> {}]
      BY <1>2, <3>1 DEF HandleJob, Merged
    <3> QED BY <3>2 DEF Nothing
  <2> QED BY <2>1, <2>2
<1>3. ASSUME NEW f \in Flushes, FlushStart(f) \/ FlushStep(f) PROVE NoForgottenEntry'
  BY <1>3 DEF FlushStart, FlushStep, Acquire, LockRefused, Count, Write, RefreshFails,
              Release, Nothing
<1>4. ASSUME (\E i \in Items : LeaseExpires(i)) \/ RedisRestart \/ Crash \/ UNCHANGED vars
      PROVE  NoForgottenEntry'
  BY <1>4 DEF LeaseExpires, RedisRestart, Crash, vars, Nothing
<1> QED BY <1>1, <1>2, <1>3, <1>4 DEF Next

-----------------------------------------------------------------------------
(***************************************************************************)
(* A counter with a refresh on its way keeps one in every step that does   *)
(* not write counters: each action that removes the refresh from one place *)
(* (events, job queue, map, snapshot, current item) has put it into the    *)
(* next one, or has abandoned the counter.                                 *)
(***************************************************************************)
LEMMA DeliverKeeps ==
    ASSUME TypeOK, ActiveJobScheduled, NEW i \in Items, NEW c \in Columns, Covered(i, c),
           NEW e \in Events, Deliver(e) \/ HandleJob(e) \/ FinishJob(e) \/ LoseEvent(e)
    PROVE  Covered(i, c)'
<1> USE TablesAssumption DEF flushVars, TypeOK
<1>1. CASE Deliver(e)
  <2>1. ASSUME <<i, c>> \in Refreshed(e) PROVE Covered(i, c)'
    <3>1. CASE jobs[e] = "active"
      <4>1. Wants(MetricsOf[e], c) /\ i \in ItemsOf[e]
        BY <2>1 DEF Refreshed
      <4>2. MetricsOf[e] \subseteq toUpdate[i]
        BY <3>1, <4>1 DEF ActiveJobScheduled
      <4>3. Wants(toUpdate'[i], c)
        BY <1>1, <4>1, <4>2 DEF Wants, Deliver
      <4> QED BY <4>3 DEF Covered, Queued
    <3>2. CASE jobs[e] # "active"
      <4>1. jobs'[e] = "waiting"
        BY <1>1, <3>2 DEF Deliver
      <4> QED BY <4>1, <2>1 DEF Covered, Queued, Refreshed
    <3> QED BY <3>1, <3>2
  <2>2. ASSUME <<i, c>> \notin Refreshed(e) PROVE Covered(i, c)'
    <3>1. \A d \in Events \ {e} : inflight'[d] = inflight[d] /\ jobs'[d] = jobs[d]
      BY <1>1 DEF Deliver
    <3> QED BY <1>1, <2>2, <3>1 DEF Deliver, Covered, Queued, Landing, Wants, Refreshed
  <2> QED BY <2>1, <2>2
<1>2. CASE HandleJob(e)
  <2>1. \A d \in Events \ {e} : inflight'[d] = inflight[d] /\ jobs'[d] = jobs[d]
    BY <1>2 DEF HandleJob
  <2>2. toUpdate[i] \subseteq toUpdate'[i]
    BY <1>2 DEF HandleJob, Merged
  <2>3. ASSUME <<i, c>> \in Refreshed(e) PROVE Wants(toUpdate'[i], c)
    <3>1. Wants(MetricsOf[e], c) /\ i \in ItemsOf[e]
      BY <2>3 DEF Refreshed
    <3>2. MetricsOf[e] \subseteq toUpdate'[i]
      BY <1>2, <3>1 DEF HandleJob, Merged
    <3> QED BY <3>1, <3>2 DEF Wants
  <2>4. inflight' = inflight /\ UNCHANGED <<truth, flushVars, abandoned>>
    BY <1>2 DEF HandleJob
  <2>5. CASE <<i, c>> \in Refreshed(e)
    BY <2>3, <2>5 DEF Covered, Queued
  <2>6. CASE <<i, c>> \notin Refreshed(e)
    BY <2>1, <2>2, <2>4, <2>6 DEF Covered, Queued, Landing, Wants, Refreshed
  <2> QED BY <2>5, <2>6
<1>3. CASE FinishJob(e)
  <2>1. \A d \in Events : jobs[d] = "waiting" => jobs'[d] = "waiting"
    BY <1>3 DEF FinishJob
  <2> QED BY <1>3, <2>1 DEF FinishJob, Covered, Queued, Landing, Wants, Refreshed
<1>4. CASE LoseEvent(e)
  <2>1. \A d \in Events \ {e} : inflight'[d] = inflight[d]
    BY <1>4 DEF LoseEvent
  <2>2. abandoned' = abandoned \union Refreshed(e)
    BY <1>4 DEF LoseEvent
  <2>3. CASE <<i, c>> \in Refreshed(e)
    BY <2>2, <2>3 DEF Covered
  <2>4. CASE <<i, c>> \notin Refreshed(e)
    BY <1>4, <2>1, <2>2, <2>4 DEF LoseEvent, Covered, Queued, Landing, Wants, Refreshed
  <2> QED BY <2>3, <2>4
<1> QED BY <1>1, <1>2, <1>3, <1>4

LEMMA FlushKeeps ==
    ASSUME TypeOK, CleanFlush, NEW i \in Items, NEW c \in Columns, Covered(i, c),
           NEW f \in Flushes,
           \/ FlushStart(f) \/ RefreshFails(f) \/ Release(f)
           \/ \E j \in Items : Acquire(f, j) \/ LockRefused(f, j)
           \/ \E m \in Metrics, d \in Columns : Count(f, m, d)
    PROVE  Covered(i, c)'
<1> USE TablesAssumption, ValuesAssumption DEF flushVars, TypeOK
<1>1. CASE FlushStart(f)
  <2>1. \A m \in toUpdate[i] : m \in entries'[f][i]
    BY <1>1 DEF FlushStart
  <2>2. \A g \in Flushes : entries[g][i] \subseteq entries'[g][i]
    BY <1>1 DEF FlushStart, Idle, Nothing
  <2>3. UNCHANGED <<truth, inflight, jobs, at, left, read, abandoned>>
    BY <1>1 DEF FlushStart
  <2> HIDE DEF TypeOK
  <2> QED BY <2>1, <2>2, <2>3 DEF Covered, Queued, Landing, Wants, Refreshed
<1>2. CASE RefreshFails(f)
  <2>1. \A g \in Flushes \ {f} : left'[g] = left[g] /\ read'[g] = read[g]
    BY <1>2 DEF RefreshFails, Forgotten
  <2>2. abandoned' = abandoned \union Cells(at[f], left[f])
    BY <1>2 DEF RefreshFails
  <2>3. UNCHANGED <<truth, inflight, jobs, toUpdate, entries, at>>
    BY <1>2 DEF RefreshFails
  <2> HIDE DEF TypeOK
  <2>4. CASE at[f] = i /\ Wants(left[f], c)
    BY <2>2, <2>4 DEF Covered, Cells
  <2>5. CASE ~(at[f] = i /\ Wants(left[f], c))
    BY <2>1, <2>2, <2>3, <2>5 DEF Covered, Queued, Landing, Wants, Refreshed
  <2> QED BY <2>4, <2>5
<1>3. CASE Release(f)
  <2>1. \A g \in Flushes \ {f} : at'[g] = at[g]
    BY <1>3 DEF Release
  <2>2. ~Wants(left[f], c)
    BY <1>3 DEF Release, Wants
  <2>3. UNCHANGED <<truth, inflight, jobs, toUpdate, entries, left, read, abandoned>>
    BY <1>3 DEF Release
  <2> HIDE DEF TypeOK
  <2> QED BY <2>1, <2>2, <2>3 DEF Covered, Queued, Landing, Wants, Refreshed
<1>4. ASSUME NEW j \in Items, Acquire(f, j) PROVE Covered(i, c)'
  <2>1. at[f] = NoItem /\ at'[f] = j /\ left'[f] = entries[f][j]
    BY <1>4 DEF Acquire
  <2>2. read[f] = NoCounts
    BY <2>1 DEF CleanFlush
  <2>3. read[f][c] = Unread
    BY <2>2 DEF NoCounts
  <2>4. \A g \in Flushes \ {f} : at'[g] = at[g] /\ left'[g] = left[g] /\ entries'[g] = entries[g]
    BY <1>4 DEF Acquire
  <2>5. \A k \in Items \ {j} : entries'[f][k] = entries[f][k]
    BY <1>4 DEF Acquire
  <2>6. UNCHANGED <<truth, inflight, jobs, toUpdate, read, abandoned>>
    BY <1>4 DEF Acquire
  <2> HIDE DEF TypeOK
  <2>7. CASE i = j /\ Wants(entries[f][j], c)
    BY <2>1, <2>3, <2>6, <2>7 DEF Covered, Queued
  <2>8. CASE ~(i = j /\ Wants(entries[f][j], c))
    BY <2>1, <2>4, <2>5, <2>6, <2>8 DEF Covered, Queued, Landing, Wants, Refreshed
  <2> QED BY <2>7, <2>8
<1>5. ASSUME NEW j \in Items, LockRefused(f, j) PROVE Covered(i, c)'
  <2>1. abandoned' = abandoned \union Cells(j, entries[f][j])
    BY <1>5 DEF LockRefused
  <2>2. \A g \in Flushes, k \in Items : entries'[g][k] = entries[g][k] \/ (g = f /\ k = j)
    BY <1>5 DEF LockRefused
  <2>3. UNCHANGED <<truth, inflight, jobs, toUpdate, at, left, read>>
    BY <1>5 DEF LockRefused
  <2> HIDE DEF TypeOK
  <2>4. CASE i = j /\ Wants(entries[f][j], c)
    BY <2>1, <2>4 DEF Covered, Cells
  <2>5. CASE ~(i = j /\ Wants(entries[f][j], c))
    BY <2>1, <2>2, <2>3, <2>5 DEF Covered, Queued, Landing, Wants, Refreshed
  <2> QED BY <2>4, <2>5
<1>6. ASSUME NEW m \in Metrics, NEW d \in Columns, Count(f, m, d) PROVE Covered(i, c)'
  <2>1. \A g \in Flushes, b \in Columns : read'[g][b] = read[g][b] \/ (g = f /\ b = d)
    BY <1>6 DEF Count
  <2>2. read'[f][d] = truth[at[f]][d]
    BY <1>6 DEF Count
  <2>3. UNCHANGED <<truth, inflight, jobs, toUpdate, entries, at, left, abandoned>>
    BY <1>6 DEF Count
  <2> HIDE DEF TypeOK
  <2>4. CASE at[f] = i /\ c = d /\ Wants(left[f], c)
    BY <2>2, <2>3, <2>4 DEF Covered, Landing
  <2>5. CASE ~(at[f] = i /\ c = d /\ Wants(left[f], c))
    BY <2>1, <2>3, <2>5 DEF Covered, Queued, Landing, Wants, Refreshed
  <2> QED BY <2>4, <2>5
<1> QED BY <1>1, <1>2, <1>3, <1>4, <1>5, <1>6

(***************************************************************************)
(* A commit sends an event that will refresh each counter it touches, or   *)
(* abandons that counter.                                                  *)
(***************************************************************************)
LEMMA ChangeCovers ==
    ASSUME TypeOK, NEW e \in Events, Change(e), NEW i \in Items, NEW c \in Columns
    PROVE  /\ <<i, c>> \in Touches[e] => Covered(i, c)'
           /\ Covered(i, c) => Covered(i, c)'
<1>1. ASSUME <<i, c>> \in Touches[e] PROVE Covered(i, c)'
  <2>1. CASE e \in Handled /\ <<i, c>> \in Refreshed(e)
    <3>1. inflight'[e] > 0
      BY <2>1 DEF Change, TypeOK
    <3> QED BY <2>1, <3>1 DEF Covered, Queued
  <2>2. CASE ~(e \in Handled /\ <<i, c>> \in Refreshed(e))
    <3>1. <<i, c>> \in abandoned'
      BY <1>1, <2>2 DEF Change
    <3> QED BY <3>1 DEF Covered
  <2> QED BY <2>1, <2>2
<1>2. ASSUME <<i, c>> \notin Touches[e], Covered(i, c) PROVE Covered(i, c)'
  <2>1. truth'[i][c] = truth[i][c]
    BY <1>2, ChangeAt
  <2>2. \A d \in Events : inflight[d] > 0 => inflight'[d] > 0
    BY DEF Change, TypeOK
  <2>3. abandoned \subseteq abandoned'
    BY DEF Change
  <2>4. UNCHANGED <<stored, jobs, toUpdate, flushTimeout, entries, at, left, read>>
    BY DEF Change, flushVars
  <2> QED BY <1>2, <2>1, <2>2, <2>3, <2>4 DEF Covered, Queued, Landing, Wants, Refreshed
<1> QED BY <1>1, <1>2

(***************************************************************************)
(* The same for every step that writes no counter and restarts nothing.    *)
(***************************************************************************)
LEMMA QuietKeeps ==
    ASSUME TypeOK, CleanFlush, ActiveJobScheduled, QuietStep,
           NEW i \in Items, NEW c \in Columns
    PROVE  /\ Covered(i, c) => Covered(i, c)'
           /\ truth'[i][c] = truth[i][c] \/ Covered(i, c)'
           /\ stored' = stored
           /\ abandoned \subseteq abandoned'
<1>1. ASSUME NEW e \in Events, Change(e)
      PROVE  /\ Covered(i, c) => Covered(i, c)'
             /\ truth'[i][c] = truth[i][c] \/ Covered(i, c)'
             /\ stored' = stored
             /\ abandoned \subseteq abandoned'
  <2>1. stored' = stored /\ abandoned \subseteq abandoned'
    BY <1>1 DEF Change
  <2> QED BY <1>1, <2>1, ChangeAt, ChangeCovers
<1>2. ASSUME NEW e \in Events, Deliver(e) \/ HandleJob(e) \/ FinishJob(e) \/ LoseEvent(e)
      PROVE  /\ Covered(i, c) => Covered(i, c)'
             /\ truth' = truth
             /\ stored' = stored
             /\ abandoned \subseteq abandoned'
  <2>1. UNCHANGED <<truth, stored>> /\ abandoned \subseteq abandoned'
    BY <1>2 DEF Deliver, HandleJob, FinishJob, LoseEvent
  <2> QED BY <1>2, <2>1, DeliverKeeps
<1>3. ASSUME NEW f \in Flushes,
             \/ FlushStart(f) \/ RefreshFails(f) \/ Release(f)
             \/ \E j \in Items : Acquire(f, j) \/ LockRefused(f, j)
             \/ \E m \in Metrics, d \in Columns : Count(f, m, d)
      PROVE  /\ Covered(i, c) => Covered(i, c)'
             /\ truth' = truth
             /\ stored' = stored
             /\ abandoned \subseteq abandoned'
  <2>1. UNCHANGED <<truth, stored>> /\ abandoned \subseteq abandoned'
    BY <1>3 DEF FlushStart, RefreshFails, Release, Acquire, LockRefused, Count
  <2> QED BY <1>3, <2>1, FlushKeeps
<1>4. ASSUME (\E j \in Items : LeaseExpires(j)) \/ UNCHANGED vars
      PROVE  /\ Covered(i, c) => Covered(i, c)'
             /\ truth' = truth
             /\ stored' = stored
             /\ abandoned \subseteq abandoned'
  BY <1>4 DEF LeaseExpires, vars, Covered, Queued, Landing, Wants, Refreshed
<1> QED BY <1>1, <1>2, <1>3, <1>4 DEF QuietStep

(***************************************************************************)
(* A flush that holds a lock and a count after such a step held them       *)
(* before, or has just made the count.                                     *)
(***************************************************************************)
LEMMA QuietHolder ==
    ASSUME TypeOK, CleanFlush, QuietStep, NEW f \in Flushes, NEW i \in Items, NEW c \in Columns,
           at'[f] = i, lock'[i] = f, read'[f][c] # Unread
    PROVE  \/ at[f] = i /\ lock[i] = f /\ read[f][c] = read'[f][c]
           \/ read'[f][c] = truth'[i][c] /\ truth' = truth
<1> USE ValuesAssumption DEF flushVars
<1> DEFINE Goal == \/ at[f] = i /\ lock[i] = f /\ read[f][c] = read'[f][c]
                   \/ read'[f][c] = truth'[i][c] /\ truth' = truth
<1>1. ASSUME NEW e \in Events,
             Change(e) \/ Deliver(e) \/ HandleJob(e) \/ FinishJob(e) \/ LoseEvent(e)
      PROVE  Goal
  BY <1>1 DEF Change, Deliver, HandleJob, FinishJob, LoseEvent
<1>2. ASSUME NEW g \in Flushes, FlushStart(g) PROVE Goal
  BY <1>2 DEF FlushStart
<1>3. ASSUME NEW g \in Flushes, RefreshFails(g) PROVE Goal
  <2>1. f = g => read'[f][c] = Unread
    BY <1>3 DEF RefreshFails, Forgotten, NoCounts, TypeOK
  <2>2. f # g => read'[f] = read[f]
    BY <1>3 DEF RefreshFails, Forgotten, TypeOK
  <2> QED BY <1>3, <2>1, <2>2 DEF RefreshFails
<1>4. ASSUME NEW g \in Flushes, Release(g) PROVE Goal
  BY <1>4 DEF Release, TypeOK
<1>5. ASSUME NEW g \in Flushes, NEW j \in Items, Acquire(g, j) PROVE Goal
  <2>1. read[g] = NoCounts
    BY <1>5 DEF Acquire, CleanFlush
  <2>2. f # g
    BY <1>5, <2>1 DEF Acquire, NoCounts
  <2>3. i # j
    BY <1>5, <2>2 DEF Acquire, TypeOK
  <2> QED BY <1>5, <2>2, <2>3 DEF Acquire, TypeOK
<1>6. ASSUME NEW g \in Flushes, NEW j \in Items, LockRefused(g, j) PROVE Goal
  BY <1>6 DEF LockRefused
<1>7. ASSUME NEW g \in Flushes, NEW m \in Metrics, NEW d \in Columns, Count(g, m, d)
      PROVE  Goal
  <2>1. CASE f = g /\ c = d
    BY <1>7, <2>1 DEF Count, TypeOK
  <2>2. CASE ~(f = g /\ c = d)
    <3>1. read'[f][c] = read[f][c]
      BY <1>7, <2>2 DEF Count, TypeOK
    <3> QED BY <1>7, <3>1 DEF Count
  <2> QED BY <2>1, <2>2
<1>8. ASSUME NEW j \in Items, LeaseExpires(j) PROVE Goal
  BY <1>8 DEF LeaseExpires, TypeOK
<1>9. CASE UNCHANGED vars
  BY <1>9 DEF vars
<1> QED BY <1>1, <1>2, <1>3, <1>4, <1>5, <1>6, <1>7, <1>8, <1>9 DEF QuietStep

(***************************************************************************)
(* A write leaves every other counter as it was.  A counter it writes      *)
(* keeps a refresh on its way unless the count was current, and is         *)
(* abandoned when the lock was lost.                                       *)
(***************************************************************************)
LEMMA WriteKeeps ==
    ASSUME TypeOK, NEW f \in Flushes, NEW m \in Metrics, Write(f, m),
           NEW j \in Items, NEW c \in Columns
    PROVE  /\ (j # at[f] \/ c \notin ColumnsOf[m]) =>
                 /\ stored'[j][c] = stored[j][c]
                 /\ <<j, c>> \in abandoned => <<j, c>> \in abandoned'
                 /\ Covered(j, c) => Covered(j, c)'
           /\ (j = at[f] /\ c \in ColumnsOf[m]) =>
                 /\ stored'[j][c] = read[f][c]
                 /\ lock[j] # f => <<j, c>> \in abandoned'
                 /\ (Covered(j, c) /\ read[f][c] # truth[j][c]) => Covered(j, c)'
           /\ read[f][c] # truth[j][c] /\ <<j, c>> \in abandoned => <<j, c>> \in abandoned'
           /\ UNCHANGED <<truth, lock, at>>
<1> USE TablesAssumption DEF TypeOK
<1>1. stored'[j][c] = IF j = at[f] /\ c \in ColumnsOf[m] THEN read[f][c] ELSE stored[j][c]
  BY DEF Write
<1>2. UNCHANGED <<truth, inflight, jobs, toUpdate, entries, lock, at>>
  BY DEF Write
<1>3. /\ \A g \in Flushes \ {f} : left'[g] = left[g] /\ read'[g] = read[g]
      /\ left'[f] = left[f] \ {m}
      /\ read'[f][c] = Unread
  BY DEF Write, Forgotten, NoCounts
<1>4. /\ lock[at[f]] # f => abandoned' = abandoned \union Cells(at[f], {m})
      /\ lock[at[f]] = f =>
            abandoned' = abandoned \ {x \in Cells(at[f], {m}) : read[f][x[2]] = truth[at[f]][x[2]]}
  BY DEF Write
<1>5. <<j, c>> \in Cells(at[f], {m}) <=> j = at[f] /\ c \in ColumnsOf[m]
  BY DEF Cells, Wants
<1>6. \A d \in ColumnsOf[m] : read[f][d] # Unread
  BY DEF Write
<1> HIDE DEF TypeOK
<1>7. read[f][c] # truth[j][c] /\ <<j, c>> \in abandoned => <<j, c>> \in abandoned'
  BY <1>4, <1>5
<1>8. ASSUME j # at[f] \/ c \notin ColumnsOf[m], Covered(j, c)
      PROVE  Covered(j, c)'
  <2>1. <<j, c>> \in abandoned => <<j, c>> \in abandoned'
    BY <1>4, <1>5, <1>8
  <2>2. ASSUME at[f] = j, Wants(left[f], c) PROVE Covered(j, c)'
    <3>1. Wants(left'[f], c)
      BY <1>3, <1>8, <2>2 DEF Wants
    <3> QED BY <1>2, <1>3, <2>2, <3>1 DEF Covered, Queued
  <2>3. ASSUME ~(at[f] = j /\ Wants(left[f], c)) PROVE Covered(j, c)'
    BY <1>2, <1>3, <1>8, <2>1, <2>3 DEF Covered, Queued, Landing, Wants, Refreshed
  <2> QED BY <2>2, <2>3
<1>9. ASSUME j = at[f], c \in ColumnsOf[m], Covered(j, c), read[f][c] # truth[j][c]
      PROVE  Covered(j, c)'
  BY <1>2, <1>3, <1>6, <1>7, <1>9 DEF Covered, Queued, Landing, Wants, Refreshed
<1>10. (j # at[f] \/ c \notin ColumnsOf[m]) /\ <<j, c>> \in abandoned => <<j, c>> \in abandoned'
  BY <1>4, <1>5
<1>11. j = at[f] /\ c \in ColumnsOf[m] /\ lock[j] # f => <<j, c>> \in abandoned'
  BY <1>4, <1>5
<1> QED BY <1>1, <1>2, <1>7, <1>8, <1>9, <1>10, <1>11

(***************************************************************************)
(* After a restart of Redis or of the process no flush holds a lock with a *)
(* count, and what was stale is abandoned.                                 *)
(***************************************************************************)
LEMMA RestartStep ==
    ASSUME TypeOK, RedisRestart \/ Crash, NEW i \in Items, NEW c \in Columns
    PROVE  /\ truth' = truth /\ stored' = stored /\ abandoned \subseteq abandoned'
           /\ stored[i][c] # truth[i][c] => <<i, c>> \in abandoned'
           /\ \A f \in Flushes : at'[f] = i => lock'[i] # f
<1> USE ValuesAssumption
<1>1. truth' = truth /\ stored' = stored /\ abandoned' = abandoned \union Stale
  BY DEF RedisRestart, Crash
<1>2. \A f \in Flushes : at'[f] = i => lock'[i] # f
  BY DEF RedisRestart, Crash
<1> QED BY <1>1, <1>2 DEF Stale

(***************************************************************************)
(* The invariant, one conjunct at a time.                                  *)
(***************************************************************************)
LEMMA UpdateStep == ASSUME IInv, [Next]_vars PROVE NoLostUpdate'
<1> SUFFICES ASSUME NEW i \in Items, NEW c \in Columns, stored'[i][c] # truth'[i][c]
             PROVE  Covered(i, c)'
  BY DEF NoLostUpdate
<1>1. CASE QuietStep
  BY <1>1, QuietKeeps DEF IInv, NoLostUpdate
<1>2. ASSUME NEW f \in Flushes, NEW m \in Metrics, Write(f, m) PROVE Covered(i, c)'
  <2>1. truth' = truth
    BY <1>2, WriteKeeps DEF IInv
  <2>2. CASE i # at[f] \/ c \notin ColumnsOf[m]
    BY <1>2, <2>1, <2>2, WriteKeeps DEF IInv, NoLostUpdate
  <2>3. CASE i = at[f] /\ c \in ColumnsOf[m] /\ lock[i] # f
    <3>1. <<i, c>> \in abandoned'
      BY <1>2, <2>3, WriteKeeps DEF IInv
    <3> QED BY <3>1 DEF Covered
  <2>4. CASE i = at[f] /\ c \in ColumnsOf[m] /\ lock[i] = f
    <3>1. read[f][c] # truth[i][c]
      BY <1>2, <2>1, <2>4, WriteKeeps DEF IInv
    <3>2. read[f][c] # Unread
      BY <1>2, <2>4 DEF Write
    <3>3. Covered(i, c)
      BY <2>4, <3>1, <3>2 DEF IInv, HolderIsSafe
    <3> QED BY <1>2, <2>4, <3>1, <3>3, WriteKeeps DEF IInv
  <2> QED BY <2>2, <2>3, <2>4
<1>3. CASE RedisRestart \/ Crash
  <2>1. <<i, c>> \in abandoned'
    BY <1>3, RestartStep DEF IInv
  <2> QED BY <2>1 DEF Covered
<1> QED BY <1>1, <1>2, <1>3, NextSplit

LEMMA HolderStep == ASSUME IInv, [Next]_vars PROVE HolderIsSafe'
<1> SUFFICES ASSUME NEW g \in Flushes, NEW i \in Items, NEW c \in Columns,
                    at'[g] = i, lock'[i] = g, read'[g][c] # Unread
             PROVE  /\ read'[g][c] # truth'[i][c] => Covered(i, c)'
                    /\ stored'[i][c] <= read'[g][c] \/ <<i, c>> \in abandoned'
  BY DEF HolderIsSafe
<1>1. CASE QuietStep
  <2>1. /\ Covered(i, c) => Covered(i, c)'
        /\ truth'[i][c] = truth[i][c] \/ Covered(i, c)'
        /\ stored' = stored
        /\ abandoned \subseteq abandoned'
    BY <1>1, QuietKeeps DEF IInv
  <2>2. CASE at[g] = i /\ lock[i] = g /\ read[g][c] = read'[g][c]
    BY <2>1, <2>2 DEF IInv, HolderIsSafe
  <2>3. CASE read'[g][c] = truth'[i][c] /\ truth' = truth
    BY <2>1, <2>3 DEF IInv, FromThePast
  <2> QED BY <1>1, <2>2, <2>3, QuietHolder DEF IInv
<1>2. ASSUME NEW f \in Flushes, NEW m \in Metrics, Write(f, m)
      PROVE  /\ read'[g][c] # truth'[i][c] => Covered(i, c)'
             /\ stored'[i][c] <= read'[g][c] \/ <<i, c>> \in abandoned'
  <2>1. UNCHANGED <<truth, lock, at>>
    BY <1>2, WriteKeeps DEF IInv
  <2>2. g # f
    BY <1>2 DEF Write, Forgotten, NoCounts, IInv, TypeOK
  <2>3. read'[g] = read[g]
    BY <1>2, <2>2 DEF Write, Forgotten, IInv, TypeOK
  <2>4. /\ read[g][c] # truth[i][c] => Covered(i, c)
        /\ stored[i][c] <= read[g][c] \/ <<i, c>> \in abandoned
    BY <2>1, <2>3 DEF IInv, HolderIsSafe
  <2>5. CASE i # at[f] \/ c \notin ColumnsOf[m]
    <3>1. /\ stored'[i][c] = stored[i][c]
          /\ <<i, c>> \in abandoned => <<i, c>> \in abandoned'
          /\ Covered(i, c) => Covered(i, c)'
      BY <1>2, <2>5, WriteKeeps DEF IInv
    <3> QED BY <2>1, <2>3, <2>4, <3>1
  <2>6. CASE i = at[f] /\ c \in ColumnsOf[m]
    <3>1. <<i, c>> \in abandoned'
      BY <1>2, <2>1, <2>2, <2>6, WriteKeeps DEF IInv
    <3> QED BY <3>1 DEF Covered
  <2> QED BY <2>5, <2>6
<1>3. CASE RedisRestart \/ Crash
  BY <1>3, RestartStep DEF IInv
<1> QED BY <1>1, <1>2, <1>3, NextSplit

LEMMA InitIInv == Init => IInv
<1> SUFFICES ASSUME Init PROVE IInv
  OBVIOUS
<1> USE ValuesAssumption DEF Init
<1>1. TypeOK
  BY InitTypeOK
<1>2. CleanFlush /\ ActiveJobScheduled /\ NoForgottenEntry
  BY DEF CleanFlush, ActiveJobScheduled, NoForgottenEntry
<1>3. FromThePast
  BY DEF FromThePast, NoCounts, Unread
<1>4. HolderIsSafe
  BY DEF HolderIsSafe
<1>5. NoLostUpdate
  BY DEF NoLostUpdate
<1> QED BY <1>1, <1>2, <1>3, <1>4, <1>5 DEF IInv

LEMMA IInvStep == IInv /\ [Next]_vars => IInv'
<1> SUFFICES ASSUME IInv, [Next]_vars PROVE IInv'
  OBVIOUS
<1>1. TypeOK'
  BY TypeStep DEF IInv
<1>2. CleanFlush'
  BY CleanStep DEF IInv
<1>3. FromThePast'
  BY PastStep DEF IInv
<1>4. ActiveJobScheduled'
  BY ActiveStep DEF IInv
<1>5. NoForgottenEntry'
  BY EntryStep DEF IInv
<1> QED BY <1>1, <1>2, <1>3, <1>4, <1>5, HolderStep, UpdateStep DEF IInv

(***************************************************************************)
(* IInv is an inductive invariant of the pipeline.                         *)
(***************************************************************************)
THEOREM Inductive == Spec => []IInv
BY InitIInv, IInvStep, PTL DEF Spec

(***************************************************************************)
(* No interleaving of requests, deliveries, flushes and failures leaves a  *)
(* counter stale with no refresh on its way, unless it is abandoned.       *)
(***************************************************************************)
THEOREM NothingLost == Spec => []NoLostUpdate
<1>1. IInv => NoLostUpdate
  BY DEF IInv
<1> QED BY <1>1, Inductive, PTL

(***************************************************************************)
(* The in-memory map is never left with entries and no armed timer.        *)
(***************************************************************************)
THEOREM NothingForgotten == Spec => []NoForgottenEntry
<1>1. IInv => NoForgottenEntry
  BY DEF IInv
<1> QED BY <1>1, Inductive, PTL

\* No event, no job, no armed timer and no running flush.
Drained ==
    /\ \A e \in Events : inflight[e] = 0 /\ jobs[e] = "none"
    /\ ~flushTimeout
    /\ \A f \in Flushes : Idle(f)

(***************************************************************************)
(* When nothing is under way, every counter that is not abandoned equals   *)
(* its rows: the safety half of Convergence, to which fairness has to add  *)
(* only that the pipeline empties.                                         *)
(***************************************************************************)
THEOREM DrainedIsCurrent == Spec => [](Drained => Stale \subseteq abandoned)
<1>1. IInv => (Drained => Stale \subseteq abandoned)
  <2> SUFFICES ASSUME IInv, Drained, NEW i \in Items, NEW c \in Columns,
                      stored[i][c] # truth[i][c]
               PROVE  <<i, c>> \in abandoned
    BY DEF Stale
  <2>1. Covered(i, c)
    BY DEF IInv, NoLostUpdate
  <2>2. toUpdate = Nothing /\ \A f \in Flushes : at[f] = NoItem /\ entries[f] = Nothing
    BY DEF IInv, NoForgottenEntry, Drained, Idle
  <2>3. NoItem # i
    BY ValuesAssumption
  <2>4. ~Wants(toUpdate[i], c) /\ \A f \in Flushes : ~Wants(entries[f][i], c)
    BY <2>2 DEF Nothing, Wants
  <2>5. \A e \in Events : ~(inflight[e] > 0 \/ jobs[e] = "waiting")
    BY DEF Drained
  <2>6. ~Queued(i, c) /\ ~Landing(i, c)
    BY <2>2, <2>3, <2>4, <2>5 DEF Queued, Landing
  <2> QED BY <2>1, <2>6 DEF Covered
<1> QED BY <1>1, Inductive, PTL

-----------------------------------------------------------------------------
(***************************************************************************)
(* The step property, and the implementation of CounterSync.               *)
(***************************************************************************)
LEMMA RegressionStep ==
    ASSUME IInv, [Next]_vars, NEW i \in Items, NEW c \in Columns
    PROVE  stored'[i][c] >= stored[i][c] \/ <<i, c>> \in abandoned'
<1> USE DEF IInv, TypeOK
<1>1. CASE QuietStep
  <2>1. stored' = stored
    BY <1>1, QuietKeeps
  <2> QED BY <2>1
<1>2. ASSUME NEW f \in Flushes, NEW m \in Metrics, Write(f, m)
      PROVE  stored'[i][c] >= stored[i][c] \/ <<i, c>> \in abandoned'
  <2>1. stored[i][c] \in Nat /\ truth[i][c] \in Nat /\ stored[i][c] <= truth[i][c]
    BY DEF FromThePast
  <2>2. read[f][c] \in Int
    BY DEF Unread
  <2> HIDE DEF TypeOK
  <2>3. CASE i # at[f] \/ c \notin ColumnsOf[m]
    <3>1. stored'[i][c] = stored[i][c]
      BY <1>2, <2>3, WriteKeeps
    <3> QED BY <2>1, <3>1
  <2>4. CASE i = at[f] /\ c \in ColumnsOf[m] /\ lock[i] # f
    BY <1>2, <2>4, WriteKeeps
  <2>5. CASE i = at[f] /\ c \in ColumnsOf[m] /\ lock[i] = f
    <3>1. read[f][c] # Unread
      BY <1>2, <2>5 DEF Write
    <3>2. stored[i][c] <= read[f][c] \/ <<i, c>> \in abandoned
      BY <2>5, <3>1 DEF HolderIsSafe
    <3>3. stored'[i][c] = read[f][c]
      BY <1>2, <2>5, WriteKeeps
    <3>4. CASE read[f][c] = truth[i][c]
      BY <2>1, <3>3, <3>4
    <3>5. CASE read[f][c] # truth[i][c] /\ <<i, c>> \in abandoned
      BY <1>2, <3>5, WriteKeeps
    <3> QED BY <2>1, <2>2, <3>2, <3>3, <3>4, <3>5
  <2> QED BY <2>3, <2>4, <2>5
<1>3. CASE RedisRestart \/ Crash
  <2>1. stored' = stored
    BY <1>3, RestartStep
  <2> QED BY <2>1
<1> QED BY <1>1, <1>2, <1>3, NextSplit

(***************************************************************************)
(* Counters never move back to an older count, except abandoned ones.      *)
(***************************************************************************)
THEOREM NeverBack == Spec => NoRegression
<1>1. IInv /\ [Next]_vars =>
        [\A i \in Items, c \in Columns :
            stored'[i][c] >= stored[i][c] \/ <<i, c>> \in abandoned']_vars
  BY RegressionStep
<1> QED BY <1>1, Inductive, PTL DEF Spec, NoRegression

LEMMA QuietImplements == ASSUME IInv, QuietStep PROVE Counters!Commit \/ Counters!GiveUp
<1>1. CASE \E e \in Events : Change(e)
  <2>1. PICK e \in Events : Change(e)
    BY <1>1
  <2>2. \A i \in Items, c \in Columns : truth'[i][c] \in {truth[i][c], truth[i][c] + 1}
    BY <2>1, ChangeAt DEF IInv
  <2>3. abandoned \subseteq abandoned' /\ UNCHANGED stored
    BY <2>1 DEF Change
  <2> QED BY <2>2, <2>3 DEF Counters!Commit
<1>2. CASE ~\E e \in Events : Change(e)
  <2>1. abandoned \subseteq abandoned' /\ UNCHANGED <<truth, stored>>
    BY <1>2 DEF QuietStep, Deliver, HandleJob, FinishJob, LoseEvent, FlushStart,
                RefreshFails, Release, Acquire, LockRefused, Count, LeaseExpires, vars
  <2> QED BY <2>1 DEF Counters!GiveUp
<1> QED BY <1>1, <1>2

LEMMA WriteImplements ==
    ASSUME IInv, NEW f \in Flushes, NEW m \in Metrics, Write(f, m), [Next]_vars
    PROVE  \E i \in Items : Counters!Refresh(i)
<1> DEFINE i == at[f]
<1>1. i \in Items
  BY DEF Write, IInv, TypeOK
<1>2. \A j \in Items \ {i} : stored'[j] = stored[j]
  BY DEF Write, IInv, TypeOK
<1>3. ASSUME NEW c \in Columns
      PROVE  /\ stored'[i][c] \in 0 .. truth[i][c]
             /\ stored'[i][c] < stored[i][c] => <<i, c>> \in abandoned'
             /\ <<i, c>> \in abandoned \ abandoned' => stored'[i][c] = truth[i][c]
  <2>1. /\ stored[i][c] \in Nat /\ truth[i][c] \in Nat /\ stored[i][c] <= truth[i][c]
        /\ stored'[i][c] \in Nat
    BY <1>1, TypeStep DEF IInv, TypeOK, FromThePast
  <2>2. stored'[i][c] >= stored[i][c] \/ <<i, c>> \in abandoned'
    BY <1>1, RegressionStep
  <2>3. CASE c \notin ColumnsOf[m]
    BY <1>1, <2>1, <2>3, WriteKeeps DEF IInv
  <2>4. CASE c \in ColumnsOf[m]
    <3>1. stored'[i][c] = read[f][c]
      BY <1>1, <2>4, WriteKeeps DEF IInv
    <3>2. read[f][c] <= truth[i][c]
      BY <1>1 DEF IInv, FromThePast
    <3>3. <<i, c>> \in abandoned \ abandoned' => read[f][c] = truth[i][c]
      BY <1>1, WriteKeeps DEF IInv
    <3> QED BY <2>1, <2>2, <3>1, <3>2, <3>3
  <2> QED BY <2>3, <2>4
<1>4. abandoned \ abandoned' \subseteq {i} \X Columns
  <2>1. Cells(i, {m}) \subseteq {i} \X Columns
    BY DEF Cells
  <2>2. abandoned \ abandoned' \subseteq Cells(i, {m})
    BY DEF Write
  <2> QED BY <2>1, <2>2
<1>5. UNCHANGED truth
  BY DEF Write
<1>6. Counters!Refresh(i)
  BY <1>2, <1>3, <1>4, <1>5 DEF Counters!Refresh
<1> QED BY <1>1, <1>6

(***************************************************************************)
(* The pipeline implements CounterSync: a commit maps to Commit, the write *)
(* of a flush to Refresh, and every other step, failures included, to      *)
(* GiveUp or to a stutter.                                                 *)
(***************************************************************************)
THEOREM Implements == Spec => ImplementsCounterSync
<1>1. Init => Counters!Init
  BY DEF Init, Counters!Init
<1>2. IInv /\ [Next]_vars => [Counters!Next]_(Counters!vars)
  <2> SUFFICES ASSUME IInv, [Next]_vars PROVE Counters!Next
    OBVIOUS
  <2>1. CASE QuietStep
    BY <2>1, QuietImplements DEF Counters!Next
  <2>2. ASSUME NEW f \in Flushes, NEW m \in Metrics, Write(f, m) PROVE Counters!Next
    BY <2>2, WriteImplements DEF Counters!Next
  <2>3. CASE RedisRestart \/ Crash
    <3>1. abandoned \subseteq abandoned' /\ UNCHANGED <<truth, stored>>
      BY <2>3 DEF RedisRestart, Crash
    <3> QED BY <3>1 DEF Counters!Next, Counters!GiveUp
  <2> QED BY <2>1, <2>2, <2>3, NextSplit
<1> QED BY <1>1, <1>2, Inductive, PTL DEF Spec, ImplementsCounterSync, Counters!Spec

=============================================================================
