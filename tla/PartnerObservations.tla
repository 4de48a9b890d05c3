-------------------------- MODULE PartnerObservations -------------------------
(***************************************************************************)
(* The latest observation of a station, for partners.  The repository      *)
(* answers only with one of the last five minutes, but CacheInterceptor    *)
(* keeps an answer for a minute, and requests that find no entry query at  *)
(* once and store their answers in the order they happen to finish.        *)
(***************************************************************************)
EXTENDS Integers

CONSTANTS
    Requests,
    Window,     \* 5 minutes
    CacheTtl,   \* 60000 ms
    Latency,    \* bound assumed of the time from a query to the end of its request
    Horizon     \* bound of the clock

ASSUME TimesAssumption ==
    Window \in Nat /\ CacheTtl \in Nat /\ Latency \in Nat /\ Horizon \in Nat

VARIABLES
    minute,
    lastRecordAt,   \* of the station's newest document
    cached,         \* the answer that is stored, and until when
    request,        \* per request: step, time and answer of its query
    served          \* the answer sent last, and when

observationVars == <<minute, lastRecordAt, cached, request, served>>

Never == -1     \* no document, no answer

\* Mutant of Recent: the last observation whenever it was made.
RecentEver(t) == t # Never

\* lastRecordAt: { $gte: fiveMinutesAgo }
Recent(t) == t # Never /\ t >= minute - Window

CacheHit == cached.answer # Never /\ minute < cached.until

Serve(answer) == served' = [answer |-> answer, at |-> minute]

\* The interceptor finds the URL's entry.
ServeCached ==
    /\ CacheHit
    /\ Serve(cached.answer)
    /\ UNCHANGED <<minute, lastRecordAt, cached, request>>

\* findMetricsByStations: no metrics is NotFoundException, which is not stored.
QueryObservation(r) ==
    /\ request[r].step = "none" /\ ~CacheHit
    /\ request' = [request EXCEPT ![r] =
          [step |-> IF Recent(lastRecordAt) THEN "found" ELSE "done", at |-> minute,
           answer |-> IF Recent(lastRecordAt) THEN lastRecordAt ELSE Never]]
    /\ UNCHANGED <<minute, lastRecordAt, cached, served>>

StoreObservation(r) ==
    /\ request[r].step = "found"
    /\ cached' = [answer |-> request[r].answer, until |-> minute + CacheTtl]
    /\ Serve(request[r].answer)
    /\ request' = [request EXCEPT ![r].step = "done"]
    /\ UNCHANGED <<minute, lastRecordAt>>

\* The other program writes the station's document.
Observe ==
    /\ lastRecordAt # minute
    /\ lastRecordAt' = minute
    /\ UNCHANGED <<minute, cached, request, served>>

ObservationsTick ==
    /\ minute < Horizon
    /\ \A r \in Requests : request[r].step = "found" => minute < request[r].at + Latency
    /\ minute' = minute + 1
    /\ UNCHANGED <<lastRecordAt, cached, request, served>>

ObservationsInit ==
    /\ minute = 0 /\ lastRecordAt = Never
    /\ cached = [answer |-> Never, until |-> 0]
    /\ request = [r \in Requests |-> [step |-> "none", at |-> 0, answer |-> Never]]
    /\ served = [answer |-> Never, at |-> 0]

ObservationsNext ==
    \/ \E r \in Requests : QueryObservation(r) \/ StoreObservation(r)
    \/ ServeCached \/ Observe \/ ObservationsTick

ObservationsSpec == ObservationsInit /\ [][ObservationsNext]_observationVars

ObservationsTypeOK ==
    /\ minute \in 0 .. Horizon /\ lastRecordAt \in Never .. Horizon
    /\ cached \in [answer : Never .. Horizon, until : 0 .. Horizon + CacheTtl]
    /\ request \in [Requests -> [step : {"none", "found", "done"}, at : 0 .. Horizon,
                                 answer : Never .. Horizon]]
    /\ served \in [answer : Never .. Horizon, at : 0 .. Horizon]

(***************************************************************************)
(* A partner is never given an observation older than the five minutes of  *)
(* the query, the time a query may take and the minute of the cache        *)
(* together, even when a slow request stores its answer over a newer one.  *)
(***************************************************************************)
ObservationIsRecent ==
    served.answer # Never => served.at - served.answer <= Window + Latency + CacheTtl
=============================================================================
