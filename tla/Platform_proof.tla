----------------------------- MODULE Platform_proof -----------------------------
(***************************************************************************)
(* Proofs about the alerts, the observations of partners, the agreements   *)
(* to policies, avatars, the types of incidents and gamification, each for *)
(* every choice of its constants, and about all the parts together.        *)
(***************************************************************************)
EXTENDS MCPlatform, Reading_proof

-----------------------------------------------------------------------------
Statuses == {"none", "ACTIVE", "INACTIVE"}
Calls == [step : {"none", "fetched", "tx", "done"}, list : SUBSET Alerts,
          at : 0 .. MaxTime, left : SUBSET Alerts, rows : [Alerts -> Statuses]]

(***************************************************************************)
(* The inductive invariant: the active rows of the table are the alerts of *)
(* the webhook that committed last, and those of an open transaction are   *)
(* the alerts that it has upserted.                                        *)
(***************************************************************************)
ActiveRows(table, list, at) ==
    \A a \in Alerts : table[a] = "ACTIVE" <=> a \in list /\ Open(a, at)

CallInv(w) ==
    webhook[w].step = "tx" =>
        /\ webhook[w].left \subseteq webhook[w].list
        /\ ActiveRows(webhook[w].rows, webhook[w].list \ webhook[w].left, webhook[w].at)

AlertsInv ==
    /\ AlertsTypeOK
    /\ ActiveRows(alert, latest.list, latest.at)
    /\ \A w \in Webhooks : CallInv(w)

LEMMA AlertsInitInv == AlertsInit => AlertsInv
BY AlertsAssumption
DEF AlertsInit, AlertsInv, AlertsTypeOK, NoWebhook, ActiveRows, CallInv

(***************************************************************************)
(* A step of one webhook that commits nothing.                             *)
(***************************************************************************)
LEMMA StepOfWebhook ==
    ASSUME AlertsInv, NEW w \in Webhooks, NEW c \in Calls,
           webhook' = [webhook EXCEPT ![w] = c],
           UNCHANGED <<clock, upstream, alert, latest>>,
           c.step = "tx" => /\ c.left \subseteq c.list
                            /\ ActiveRows(c.rows, c.list \ c.left, c.at)
    PROVE  AlertsInv'
<1>1. webhook'[w] = c /\ \A v \in Webhooks \ {w} : webhook'[v] = webhook[v]
  BY DEF AlertsInv, AlertsTypeOK
<1>2. AlertsTypeOK'
  BY DEF AlertsInv, AlertsTypeOK, Calls, Statuses
<1>3. ActiveRows(alert', latest'.list, latest'.at)
  BY DEF AlertsInv
<1>4. \A v \in Webhooks : CallInv(v)'
  BY <1>1 DEF AlertsInv, CallInv
<1> QED BY <1>2, <1>3, <1>4 DEF AlertsInv, ActiveRows

LEMMA StepFetch ==
    ASSUME AlertsInv, NEW w \in Webhooks, FetchAlerts(w) PROVE AlertsInv'
<1>1. PICK list \in Fetched :
        webhook' = [webhook EXCEPT ![w].step = "fetched", ![w].list = list, ![w].at = clock]
  BY DEF FetchAlerts
<1> DEFINE c == [step |-> "fetched", list |-> list, at |-> clock, left |-> webhook[w].left,
                 rows |-> webhook[w].rows]
<1>2. webhook[w] \in Calls /\ list \in SUBSET Alerts /\ clock \in 0 .. MaxTime
  BY DEF AlertsInv, AlertsTypeOK, Calls, Statuses, Fetched
<1>3. c \in Calls
  BY <1>2 DEF Calls
<1>4. webhook'[w] = c
  BY <1>1, <1>2 DEF AlertsInv, AlertsTypeOK, Calls
<1>5. webhook' = [webhook EXCEPT ![w] = c]
  BY <1>1, <1>4 DEF AlertsInv, AlertsTypeOK
<1>6. UNCHANGED <<clock, upstream, alert, latest>>
  BY DEF FetchAlerts
<1> QED BY <1>3, <1>5, <1>6, StepOfWebhook

LEMMA StepInactive ==
    ASSUME AlertsInv, NEW w \in Webhooks, InactiveAll(w) PROVE AlertsInv'
<1> DEFINE c == [step |-> "tx", list |-> webhook[w].list, at |-> webhook[w].at,
                 left |-> webhook[w].list, rows |-> Inactive(alert)]
<1>1. webhook[w] \in Calls /\ alert \in [Alerts -> Statuses]
  BY DEF AlertsInv, AlertsTypeOK, Calls, Statuses
<1>2. Inactive(alert) \in [Alerts -> Statuses]
      /\ \A a \in Alerts : Inactive(alert)[a] # "ACTIVE"
  BY DEF Inactive, Statuses
<1>3. c \in Calls
  BY <1>1, <1>2 DEF Calls
<1>4. webhook'[w] = c
  BY <1>1 DEF InactiveAll, AlertsInv, AlertsTypeOK, Calls
<1>5. webhook' = [webhook EXCEPT ![w] = c]
  BY <1>4 DEF InactiveAll, AlertsInv, AlertsTypeOK
<1>6. UNCHANGED <<clock, upstream, alert, latest>>
  BY DEF InactiveAll
<1>7. ActiveRows(c.rows, c.list \ c.left, c.at)
  BY <1>2 DEF ActiveRows
<1> QED BY <1>3, <1>5, <1>6, <1>7, StepOfWebhook

LEMMA StepUpsert ==
    ASSUME AlertsInv, NEW w \in Webhooks, NEW a \in Alerts, Upsert(w, a) PROVE AlertsInv'
<1> DEFINE c == [step |-> "tx", list |-> webhook[w].list, at |-> webhook[w].at,
                 left |-> webhook[w].left \ {a},
                 rows |-> [webhook[w].rows EXCEPT ![a] = StatusAt(a, webhook[w].at)]]
<1>1. webhook[w] \in Calls /\ CallInv(w) /\ webhook[w].step = "tx" /\ a \in webhook[w].left
  BY DEF AlertsInv, AlertsTypeOK, Calls, Statuses, Upsert
<1>2. StatusAt(a, webhook[w].at) \in Statuses
  BY DEF StatusAt, Statuses
<1>3. c \in Calls
  BY <1>1, <1>2 DEF Calls
<1>4. webhook'[w] = c
  BY <1>1 DEF Upsert, AlertsInv, AlertsTypeOK, Calls
<1>5. webhook' = [webhook EXCEPT ![w] = c]
  BY <1>4 DEF Upsert, AlertsInv, AlertsTypeOK
<1>6. UNCHANGED <<clock, upstream, alert, latest>>
  BY DEF Upsert
<1>7. c.left \subseteq c.list
  BY <1>1 DEF CallInv
<1>8. ActiveRows(c.rows, c.list \ c.left, c.at)
  <2>1. ASSUME NEW b \in Alerts
        PROVE  c.rows[b] = IF b = a THEN StatusAt(a, webhook[w].at) ELSE webhook[w].rows[b]
    BY <1>1 DEF Calls
  <2> QED BY <1>1, <2>1 DEF CallInv, ActiveRows, StatusAt
<1> QED BY <1>3, <1>5, <1>6, <1>7, <1>8, StepOfWebhook

LEMMA StepFails ==
    ASSUME AlertsInv, NEW w \in Webhooks, WebhookFails(w) PROVE AlertsInv'
<1> DEFINE c == [NoWebhook EXCEPT !.step = "done"]
<1>1. c = [step |-> "done", list |-> {}, at |-> 0, rows |-> [a \in Alerts |-> "none"], left |-> {}]
  BY DEF NoWebhook
<1>2. c \in Calls /\ c.step = "done"
  BY <1>1, AlertsAssumption DEF Calls, Statuses
<1>3. webhook' = [webhook EXCEPT ![w] = c] /\ UNCHANGED <<clock, upstream, alert, latest>>
  BY DEF WebhookFails
<1> QED BY <1>2, <1>3, StepOfWebhook

LEMMA StepCommit ==
    ASSUME AlertsInv, NEW w \in Webhooks, CommitAlerts(w) PROVE AlertsInv'
<1> DEFINE c == [NoWebhook EXCEPT !.step = "done"]
<1>1. c = [step |-> "done", list |-> {}, at |-> 0, rows |-> [a \in Alerts |-> "none"], left |-> {}]
  BY DEF NoWebhook
<1>2. c \in Calls /\ c.step = "done"
  BY <1>1, AlertsAssumption DEF Calls, Statuses
<1>3. /\ webhook[w].step = "tx" /\ webhook[w].left = {} /\ alert' = webhook[w].rows
      /\ latest' = [list |-> webhook[w].list, at |-> webhook[w].at]
      /\ webhook' = [webhook EXCEPT ![w] = c] /\ clock' = clock /\ upstream' = upstream
  BY DEF CommitAlerts
<1>4. webhook[w] \in Calls /\ CallInv(w)
  BY DEF AlertsInv, AlertsTypeOK, Calls, Statuses
<1> HIDE DEF c
<1>5. webhook'[w] = c /\ \A v \in Webhooks \ {w} : webhook'[v] = webhook[v]
  BY <1>3 DEF AlertsInv, AlertsTypeOK
<1>6. AlertsTypeOK'
  BY <1>2, <1>3, <1>4 DEF AlertsInv, AlertsTypeOK, Calls, Statuses
<1>7. ActiveRows(webhook[w].rows, webhook[w].list, webhook[w].at)
  BY <1>3, <1>4 DEF CallInv, ActiveRows
<1>8. \A v \in Webhooks : CallInv(v)'
  BY <1>2, <1>5 DEF AlertsInv, CallInv
<1>9. ActiveRows(alert, latest.list, latest.at)'
  BY <1>3, <1>7 DEF ActiveRows
<1> QED BY <1>6, <1>8, <1>9 DEF AlertsInv

(***************************************************************************)
(* The inductive invariant holds in every reachable state.                 *)
(***************************************************************************)
THEOREM AlertsInductive == AlertsSpec => []AlertsInv
<1>1. ASSUME AlertsInv, [AlertsNext]_alertVars PROVE AlertsInv'
  <2>1. CASE UNCHANGED <<alert, webhook, latest>> /\ clock' \in 0 .. MaxTime
             /\ upstream' \in SUBSET Alerts
    BY <1>1, <2>1 DEF AlertsInv, AlertsTypeOK, ActiveRows, CallInv
  <2>2. CASE \E w \in Webhooks :
               \/ FetchAlerts(w) \/ InactiveAll(w) \/ CommitAlerts(w) \/ WebhookFails(w)
               \/ \E a \in Alerts : Upsert(w, a)
    BY <1>1, <2>2, StepFetch, StepInactive, StepCommit, StepFails, StepUpsert
  <2>3. CASE ChangeUpstream \/ AlertsTick \/ UNCHANGED alertVars
    BY <1>1, <2>1, <2>3, AlertsAssumption
    DEF ChangeUpstream, AlertsTick, alertVars, AlertsInv, AlertsTypeOK
  <2> QED BY <1>1, <2>2, <2>3 DEF AlertsNext
<1> QED BY <1>1, AlertsInitInv, PTL DEF AlertsSpec

(***************************************************************************)
(* However webhooks overlap or fail, readers see the open alerts of one    *)
(* webhook's list.                                                         *)
(***************************************************************************)
THEOREM NeverAMixture == AlertsSpec => []AlertsOfOneWebhook
<1>1. AlertsInv => AlertsOfOneWebhook
  BY DEF AlertsInv, AlertsTypeOK, ActiveRows, AlertsOfOneWebhook, ListAlerts
<1> QED BY <1>1, AlertsInductive, PTL
-----------------------------------------------------------------------------
(***************************************************************************)
(* Observations.  The inductive invariant: what a request has found was    *)
(* recent when it asked, and it has not waited longer than Latency; what   *)
(* is cached expires before it can be too old.                             *)
(***************************************************************************)
Queries == [step : {"none", "found", "done"}, at : 0 .. Horizon, answer : Never .. Horizon]

FoundInv(r) ==
    request[r].step = "found" =>
        /\ request[r].answer # Never
        /\ request[r].at - request[r].answer <= Window
        /\ minute <= request[r].at + Latency

CachedInv == cached.answer # Never => cached.until - cached.answer <= Window + Latency + CacheTtl

ObservationsInv ==
    /\ ObservationsTypeOK /\ CachedInv /\ ObservationIsRecent
    /\ \A r \in Requests : FoundInv(r)

LEMMA ObservationsInitInv == ObservationsInit => ObservationsInv
BY TimesAssumption
DEF ObservationsInit, ObservationsInv, ObservationsTypeOK, CachedInv, FoundInv,
    ObservationIsRecent, Never

LEMMA ObservationsStep ==
    ASSUME ObservationsInv, [ObservationsNext]_observationVars PROVE ObservationsInv'
<1> USE TimesAssumption DEF ObservationsInv, ObservationsTypeOK, CachedInv, ObservationIsRecent, Never
<1>1. ASSUME NEW r \in Requests, QueryObservation(r) PROVE ObservationsInv'
  <2> DEFINE q == [step |-> IF Recent(lastRecordAt) THEN "found" ELSE "done", at |-> minute,
                   answer |-> IF Recent(lastRecordAt) THEN lastRecordAt ELSE Never]
  <2>1. q \in Queries
    BY DEF Queries
  <2>2. /\ request' = [request EXCEPT ![r] = q]
        /\ UNCHANGED <<minute, lastRecordAt, cached, served>>
    BY <1>1 DEF QueryObservation
  <2>3. q.step = "found" => q.answer # Never /\ q.at - q.answer <= Window /\ minute <= q.at + Latency
    BY DEF Recent
  <2> HIDE DEF q
  <2>4. request'[r] = q /\ \A s \in Requests \ {r} : request'[s] = request[s]
    BY <2>2
  <2>5. \A s \in Requests : FoundInv(s)'
    BY <2>2, <2>3, <2>4 DEF FoundInv
  <2> QED BY <2>1, <2>2, <2>5 DEF Queries
<1>2. ASSUME NEW r \in Requests, StoreObservation(r) PROVE ObservationsInv'
  <2>1. /\ cached' = [answer |-> request[r].answer, until |-> minute + CacheTtl]
        /\ served' = [answer |-> request[r].answer, at |-> minute]
        /\ UNCHANGED <<minute, lastRecordAt>>
    BY <1>2 DEF StoreObservation, Serve
  <2>2. request[r] \in Queries /\ FoundInv(r) /\ request[r].step = "found"
    BY <1>2 DEF Queries, StoreObservation
  <2>3. minute - request[r].answer <= Window + Latency
    BY <2>2 DEF FoundInv, Queries
  <2>4. request' \in [Requests -> Queries] /\ \A s \in Requests : FoundInv(s)'
    BY <1>2, <2>1 DEF StoreObservation, FoundInv, Queries
  <2>5. CachedInv' /\ ObservationIsRecent'
    BY <2>1, <2>2, <2>3 DEF Queries
  <2>6. /\ cached' \in [answer : Never .. Horizon, until : 0 .. Horizon + CacheTtl]
        /\ served' \in [answer : Never .. Horizon, at : 0 .. Horizon]
    BY <2>1, <2>2 DEF Queries
  <2> QED BY <2>1, <2>4, <2>5, <2>6 DEF Queries
<1>3. CASE ServeCached
  BY <1>3 DEF ServeCached, CacheHit, Serve, FoundInv
<1>4. CASE Observe
  BY <1>4 DEF Observe, FoundInv
<1>5. CASE ObservationsTick
  BY <1>5 DEF ObservationsTick, FoundInv
<1>6. CASE UNCHANGED observationVars
  BY <1>6 DEF observationVars, FoundInv
<1> QED BY <1>1, <1>2, <1>3, <1>4, <1>5, <1>6 DEF ObservationsNext

(***************************************************************************)
(* A partner is never given an observation older than the window, a query  *)
(* and the cache together, however slow requests overtake each other.      *)
(***************************************************************************)
THEOREM NeverTooOld == ObservationsSpec => []ObservationIsRecent
<1>1. ObservationsInv => ObservationIsRecent
  BY DEF ObservationsInv
<1> QED BY <1>1, ObservationsInitInv, ObservationsStep, PTL DEF ObservationsSpec

-----------------------------------------------------------------------------
(***************************************************************************)
(* Agreements.  The inductive invariant: two requests under way about one  *)
(* policy have met; one that met no other and has read the agreement read  *)
(* the one on record; who was answered last is done with its policy.       *)
(***************************************************************************)
Acceptances == [step : {"none", "policy", "agreement", "done"}, policy : Policies \union {"none"},
                read : 0 .. MaxContent, found : 0 .. MaxContent, met : BOOLEAN]

OnItsWay(r) == accept[r].step \in {"policy", "agreement"}

AboutPolicies == \A r \in Accepts : OnItsWay(r) => accept[r].policy \in Policies

OverlapsAreMet ==
    \A r, q \in Accepts :
        OnItsWay(r) /\ OnItsWay(q) /\ accept[r].policy = accept[q].policy /\ r # q => accept[r].met

FoundOnRecord ==
    \A r \in Accepts :
        accept[r].step = "agreement" /\ ~accept[r].met => accept[r].found = agreement[accept[r].policy]

AnsweredIsDone ==
    \A p \in Policies : \A r \in lastAccept[p] : accept[r].step = "done" /\ accept[r].policy = p

PolicyRowsOK ==
    /\ content \in [Policies -> 0 .. MaxContent] /\ agreement \in [Policies -> 0 .. MaxContent]
    /\ accept \in [Accepts -> Acceptances]
    /\ lastAccept \in [Policies -> SUBSET Accepts]

PoliciesInv ==
    /\ PolicyRowsOK /\ AboutPolicies /\ OverlapsAreMet /\ FoundOnRecord /\ AnsweredIsDone
    /\ AnsweredConsentStands

LEMMA PoliciesInitInv == PoliciesInit => PoliciesInv
BY PoliciesAssumption
DEF PoliciesInit, PoliciesInv, PolicyRowsOK, Acceptances, AboutPolicies, OnItsWay, OverlapsAreMet,
    FoundOnRecord, AnsweredIsDone, AnsweredConsentStands

LEMMA ReadPolicyKeeps ==
    ASSUME PoliciesInv, NEW r \in Accepts, NEW p \in Policies, ReadPolicy(r, p) PROVE PoliciesInv'
<1> DEFINE others == {q \in Accepts : OnItsWay(q) /\ accept[q].policy = p}
           start == [step |-> "policy", policy |-> p, read |-> content[p], found |-> 0,
                     met |-> others # {}]
<1>1. /\ accept[r].step = "none"
      /\ accept' = [q \in Accepts |->
            IF q = r THEN start ELSE IF q \in others THEN [accept[q] EXCEPT !.met = TRUE] ELSE accept[q]]
      /\ UNCHANGED <<shown, content, agreement, lastAccept, check>>
  BY DEF ReadPolicy, OnItsWay
<1>2. start \in Acceptances /\ start.step = "policy" /\ start.policy = p /\ start.met = (others # {})
  BY PoliciesAssumption DEF PoliciesInv, PolicyRowsOK, Acceptances
<1>3. \A q \in Accepts \ {r} :
        /\ accept'[q] \in Acceptances
        /\ accept'[q].step = accept[q].step /\ accept'[q].policy = accept[q].policy
        /\ accept'[q].read = accept[q].read /\ accept'[q].found = accept[q].found
        /\ accept'[q].met = (accept[q].met \/ q \in others)
  BY <1>1 DEF PoliciesInv, PolicyRowsOK, Acceptances
<1>4. accept'[r] = start
  BY <1>1
<1>5. \A q \in Accepts : q \in others <=> OnItsWay(q) /\ accept[q].policy = p
  OBVIOUS
<1> HIDE DEF others, start
<1>6. PolicyRowsOK' /\ AboutPolicies'
  BY <1>1, <1>2, <1>3, <1>4 DEF PoliciesInv, PolicyRowsOK, AboutPolicies, OnItsWay
<1>7. OverlapsAreMet'
  <2>1. SUFFICES ASSUME NEW a \in Accepts, NEW b \in Accepts, a # b, OnItsWay(a)', OnItsWay(b)',
                        accept'[a].policy = accept'[b].policy
                 PROVE  accept'[a].met
    BY DEF OverlapsAreMet
  <2>2. CASE a = r
    <3>1. b \in others
      BY <1>2, <1>3, <1>4, <1>5, <2>1, <2>2 DEF OnItsWay
    <3> QED BY <1>2, <1>4, <2>2, <3>1
  <2>3. CASE b = r
    <3>1. a \in others
      BY <1>2, <1>3, <1>4, <1>5, <2>1, <2>3 DEF OnItsWay
    <3> QED BY <1>3, <2>1, <2>3, <3>1
  <2>4. CASE a # r /\ b # r
    <3>1. accept[a].met
      BY <1>3, <2>1, <2>4 DEF PoliciesInv, OverlapsAreMet, OnItsWay
    <3> QED BY <1>3, <2>4, <3>1
  <2> QED BY <2>2, <2>3, <2>4
<1>8. FoundOnRecord'
  BY <1>1, <1>2, <1>3, <1>4 DEF PoliciesInv, FoundOnRecord
<1>9. AnsweredIsDone' /\ AnsweredConsentStands'
  <2>1. ASSUME NEW s \in Policies, NEW q \in lastAccept[s]
        PROVE  q \in Accepts \ {r} /\ accept[q].step = "done"
    BY <1>1, <2>1 DEF PoliciesInv, PolicyRowsOK, AnsweredIsDone
  <2>2. ASSUME NEW s \in Policies, NEW q \in lastAccept[s] PROVE q \notin others
    BY <2>1, <1>5 DEF OnItsWay
  <2> QED BY <1>1, <1>3, <2>1, <2>2 DEF PoliciesInv, AnsweredIsDone, AnsweredConsentStands
<1> QED BY <1>6, <1>7, <1>8, <1>9 DEF PoliciesInv

LEMMA ReadAgreementKeeps ==
    ASSUME PoliciesInv, NEW r \in Accepts, ReadAgreement(r) PROVE PoliciesInv'
<1>1. /\ accept[r].step = "policy" /\ accept[r] \in Acceptances /\ accept[r].policy \in Policies
      /\ UNCHANGED <<shown, content, agreement, lastAccept, check>>
  BY DEF ReadAgreement, PoliciesInv, PolicyRowsOK, AboutPolicies, OnItsWay
<1>2. agreement[accept[r].policy] \in 0 .. MaxContent
  BY <1>1 DEF PoliciesInv, PolicyRowsOK
<1>3. /\ \A q \in Accepts \ {r} : accept'[q] = accept[q]
      /\ accept'[r] = [accept[r] EXCEPT !.step = "agreement", !.found = agreement[accept[r].policy]]
      /\ accept' \in [Accepts -> Acceptances]
  BY <1>1, <1>2 DEF ReadAgreement, PoliciesInv, PolicyRowsOK, Acceptances
<1>4. /\ accept'[r].step = "agreement" /\ accept'[r].found = agreement[accept[r].policy]
      /\ accept'[r].policy = accept[r].policy /\ accept'[r].met = accept[r].met
  BY <1>1, <1>3 DEF Acceptances
<1>5. PolicyRowsOK' /\ AboutPolicies' /\ OverlapsAreMet'
  <2>1. PolicyRowsOK'
    BY <1>1, <1>3 DEF PoliciesInv, PolicyRowsOK
  <2>2. \A q \in Accepts : /\ accept'[q].policy = accept[q].policy /\ accept'[q].met = accept[q].met
                           /\ OnItsWay(q)' <=> OnItsWay(q)
    BY <1>1, <1>3, <1>4 DEF OnItsWay
  <2>3. AboutPolicies' /\ OverlapsAreMet'
    BY <2>2 DEF PoliciesInv, AboutPolicies, OverlapsAreMet
  <2> QED BY <2>1, <2>3
<1>6. FoundOnRecord'
  BY <1>1, <1>3, <1>4, ZenonT(60) DEF PoliciesInv, FoundOnRecord
<1>7. \A p \in Policies : r \notin lastAccept[p]
  BY <1>1 DEF PoliciesInv, AnsweredIsDone
<1>8. AnsweredIsDone' /\ AnsweredConsentStands'
  BY <1>1, <1>3, <1>7 DEF PoliciesInv, PolicyRowsOK, AnsweredIsDone, AnsweredConsentStands
<1> QED BY <1>5, <1>6, <1>8 DEF PoliciesInv

(***************************************************************************)
(* The two answers.  Either leaves on record what the request was shown,   *)
(* unless it met another.                                                  *)
(***************************************************************************)
LEMMA AnswerKeeps ==
    ASSUME PoliciesInv, NEW r \in Accepts, NothingToAccept(r) \/ UpsertAgreement(r)
    PROVE  PoliciesInv'
<1> DEFINE p == accept[r].policy
<1>1. /\ accept[r].step = "agreement" /\ accept[r] \in Acceptances /\ p \in Policies
      /\ UNCHANGED <<shown, content, check>>
      /\ accept' = [accept EXCEPT ![r].step = "done"]
      /\ lastAccept' = [lastAccept EXCEPT ![p] = {r}]
  BY DEF NothingToAccept, UpsertAgreement, AnswerAccept, PoliciesInv, PolicyRowsOK, AboutPolicies,
         OnItsWay
<1>2. /\ \A q \in Accepts \ {r} : accept'[q] = accept[q]
      /\ accept'[r] = [accept[r] EXCEPT !.step = "done"]
      /\ accept' \in [Accepts -> Acceptances]
  BY <1>1 DEF PoliciesInv, PolicyRowsOK, Acceptances
<1>3. /\ accept'[r].step = "done" /\ accept'[r].policy = p
      /\ accept'[r].met = accept[r].met /\ accept'[r].read = accept[r].read
  BY <1>1, <1>2 DEF Acceptances
<1>4. \/ agreement' = agreement /\ accept[r].found = accept[r].read
      \/ agreement' = [agreement EXCEPT ![p] = accept[r].read]
  BY DEF NothingToAccept, UpsertAgreement, UpToDate
<1>5. /\ agreement' \in [Policies -> 0 .. MaxContent]
      /\ \A s \in Policies \ {p} : agreement'[s] = agreement[s]
      /\ accept[r].met \/ agreement'[p] = accept[r].read
  BY <1>1, <1>4 DEF PoliciesInv, PolicyRowsOK, FoundOnRecord, Acceptances
<1>6. \A s \in Policies : lastAccept'[s] = IF s = p THEN {r} ELSE lastAccept[s]
  BY <1>1 DEF PoliciesInv, PolicyRowsOK
<1>7. PolicyRowsOK'
  BY <1>1, <1>2, <1>5 DEF PoliciesInv, PolicyRowsOK
<1>8. AboutPolicies' /\ OverlapsAreMet'
  BY <1>2, <1>3 DEF PoliciesInv, AboutPolicies, OverlapsAreMet, OnItsWay
<1>9. FoundOnRecord'
  <2>1. SUFFICES ASSUME NEW q \in Accepts, accept'[q].step = "agreement", ~accept'[q].met
                 PROVE  accept'[q].found = agreement'[accept'[q].policy]
    BY DEF FoundOnRecord
  <2>2. q # r /\ accept'[q] = accept[q] /\ accept[q].policy \in Policies
    BY <1>2, <1>3, <2>1 DEF PoliciesInv, AboutPolicies, OnItsWay
  <2>3. accept[q].policy # p
    BY <1>1, <2>1, <2>2 DEF PoliciesInv, OverlapsAreMet, OnItsWay
  <2> QED BY <1>5, <2>1, <2>2, <2>3 DEF PoliciesInv, FoundOnRecord
<1>10. AnsweredIsDone' /\ AnsweredConsentStands'
  <2>1. SUFFICES ASSUME NEW s \in Policies, NEW q \in lastAccept'[s]
                 PROVE  /\ accept'[q].step = "done" /\ accept'[q].policy = s
                        /\ accept'[q].met \/ agreement'[s] = accept'[q].read
    BY DEF AnsweredIsDone, AnsweredConsentStands
  <2>2. CASE s = p
    BY <1>3, <1>5, <1>6, <2>1, <2>2
  <2>3. CASE s # p
    <3>1. q \in lastAccept[s]
      BY <1>6, <2>1, <2>3
    <3>2. /\ q \in Accepts /\ accept[q].step = "done" /\ accept[q].policy = s
          /\ accept[q].met \/ agreement[s] = accept[q].read
      BY <3>1 DEF PoliciesInv, PolicyRowsOK, AnsweredIsDone, AnsweredConsentStands
    <3>3. accept'[q] = accept[q]
      BY <1>1, <1>2, <3>2
    <3> QED BY <1>5, <2>3, <3>2, <3>3
  <2> QED BY <2>2, <2>3
<1> QED BY <1>7, <1>8, <1>9, <1>10 DEF PoliciesInv

(***************************************************************************)
(* The inductive invariant holds in every reachable state: the writer of   *)
(* policies and the checks touch neither agreements nor acceptances.       *)
(***************************************************************************)
THEOREM PoliciesInductive == PoliciesSpec => []PoliciesInv
<1>1. ASSUME PoliciesInv, [PoliciesNext]_policyVars PROVE PoliciesInv'
  <2>1. CASE UNCHANGED <<agreement, accept, lastAccept>> /\ content' \in [Policies -> 0 .. MaxContent]
    BY <1>1, <2>1
    DEF PoliciesInv, PolicyRowsOK, AboutPolicies, OnItsWay, OverlapsAreMet, FoundOnRecord,
        AnsweredIsDone, AnsweredConsentStands
  <2>2. CASE \E r \in Accepts :
               \/ \E p \in Policies : ReadPolicy(r, p)
               \/ ReadAgreement(r) \/ NothingToAccept(r) \/ UpsertAgreement(r)
    BY <1>1, <2>2, ReadPolicyKeeps, ReadAgreementKeeps, AnswerKeeps
  <2>3. CASE \E p \in Policies : Publish(p) \/ EditContent(p) \/ Withdraw(p)
    <3>1. PICK p \in Policies : Publish(p) \/ EditContent(p) \/ Withdraw(p)
      BY <2>3
    <3>2. content' \in [Policies -> 0 .. MaxContent]
      BY <1>1, <3>1, PoliciesAssumption
      DEF Publish, EditContent, Withdraw, PoliciesInv, PolicyRowsOK
    <3> QED BY <2>1, <3>1, <3>2 DEF Publish, EditContent, Withdraw
  <2>4. CASE (\E c \in Checks : CheckLatest(c) \/ CheckAgreements(c)) \/ UNCHANGED policyVars
    BY <1>1, <2>1, <2>4
    DEF CheckLatest, CheckAgreements, policyVars, PoliciesInv, PolicyRowsOK
  <2>5. PoliciesNext \/ UNCHANGED policyVars
    BY <1>1
  <2> QED BY <2>2, <2>3, <2>4, <2>5 DEF PoliciesNext
<1> QED BY <1>1, PoliciesInitInv, PTL DEF PoliciesSpec

(***************************************************************************)
(* The agreement on record is to the content that was shown by the request *)
(* answered last, whatever is edited in between, unless requests overlap.  *)
(***************************************************************************)
THEOREM ConsentStands == PoliciesSpec => []AnsweredConsentStands
<1>1. PoliciesInv => AnsweredConsentStands
  BY DEF PoliciesInv
<1> QED BY <1>1, PoliciesInductive, PTL

(***************************************************************************)
(* The check.  What is padded is compared as strings; between versions of  *)
(* the same number of parts that is the order of their numbers.  (A short  *)
(* version repeats its last part: 2 counts as 2.2.2, newer than 2.1.0.)    *)
(***************************************************************************)
VersionsAlike ==
    \A p, q \in Policies :
        PolicyType[p] = PolicyType[q] => Len(Version[p]) = Len(Version[q])

Third(p, i) == Part(Version[p], i)

FirstPartLess(p, q) == Third(p, 1) < Third(q, 1)
SecondPartLess(p, q) == Third(p, 1) = Third(q, 1) /\ Third(p, 2) < Third(q, 2)
ThirdPartLess(p, q) ==
    Third(p, 1) = Third(q, 1) /\ Third(p, 2) = Third(q, 2) /\ Third(p, 3) < Third(q, 3)

PartsLess(p, q) == FirstPartLess(p, q) \/ SecondPartLess(p, q) \/ ThirdPartLess(p, q)

LEMMA PartsAreNumbers ==
  ASSUME NEW p \in Policies
  PROVE  /\ Len(Version[p]) \in 1 .. 3
         /\ DOMAIN Version[p] = 1 .. Len(Version[p])
         /\ \A i \in 1 .. 3 : Third(p, i) \in 0 .. 99
         /\ \A i \in 1 .. Len(Version[p]) : Third(p, i) = Version[p][i]
         /\ \A i \in 1 .. 3 : i >= Len(Version[p]) => Third(p, i) = Version[p][Len(Version[p])]
<1>1. Version[p] \in Seq(0 .. 99) /\ Len(Version[p]) \in 1 .. 3
  BY PoliciesAssumption
<1>2. DOMAIN Version[p] = 1 .. Len(Version[p])
  BY <1>1, LenProperties
<1>3. \A i \in 1 .. Len(Version[p]) : Version[p][i] \in 0 .. 99
  BY <1>1, ElementOfSeq
<1>4. \A i \in 1 .. 3 : Third(p, i) = Version[p][IF i <= Len(Version[p]) THEN i ELSE Len(Version[p])]
  BY DEF Third, Part
<1>5. \A i \in 1 .. Len(Version[p]) : Third(p, i) = Version[p][i]
  BY <1>1, <1>4
<1>6. \A i \in 1 .. 3 : i >= Len(Version[p]) => Third(p, i) = Version[p][Len(Version[p])]
  BY <1>1, <1>4
<1>7. \A i \in 1 .. 3 : (IF i <= Len(Version[p]) THEN i ELSE Len(Version[p])) \in 1 .. Len(Version[p])
  <2>1. ASSUME NEW i \in 1 .. 3, NEW n \in 1 .. 3
        PROVE  (IF i <= n THEN i ELSE n) \in 1 .. n
    OBVIOUS
  <2> QED BY <1>1, <2>1
<1>8. \A i \in 1 .. 3 : Third(p, i) \in 0 .. 99
  BY <1>3, <1>4, <1>7
<1> QED BY <1>1, <1>2, <1>5, <1>6, <1>8

LEMMA KeyDigits ==
  ASSUME NEW p \in Policies
  PROVE  /\ Len(Key(p)) = 6 /\ DOMAIN Key(p) = 1 .. 6
         /\ Key(p)[1] = Third(p, 1) \div 10 /\ Key(p)[2] = Third(p, 1) % 10
         /\ Key(p)[3] = Third(p, 2) \div 10 /\ Key(p)[4] = Third(p, 2) % 10
         /\ Key(p)[5] = Third(p, 3) \div 10 /\ Key(p)[6] = Third(p, 3) % 10
<1> DEFINE a == Padded(Third(p, 1))
           b == Padded(Third(p, 2))
           c == Padded(Third(p, 3))
<1>1. ASSUME NEW n \in 0 .. 99
      PROVE  /\ Padded(n) \in Seq(Int) /\ Len(Padded(n)) = 2
             /\ Padded(n)[1] = n \div 10 /\ Padded(n)[2] = n % 10
  <2>1. n \div 10 \in Int /\ n % 10 \in Int
    OBVIOUS
  <2> QED BY <2>1 DEF Padded
<1>2. /\ a \in Seq(Int) /\ Len(a) = 2 /\ a[1] = Third(p, 1) \div 10 /\ a[2] = Third(p, 1) % 10
      /\ b \in Seq(Int) /\ Len(b) = 2 /\ b[1] = Third(p, 2) \div 10 /\ b[2] = Third(p, 2) % 10
      /\ c \in Seq(Int) /\ Len(c) = 2 /\ c[1] = Third(p, 3) \div 10 /\ c[2] = Third(p, 3) % 10
  <2>1. Third(p, 1) \in 0 .. 99 /\ Third(p, 2) \in 0 .. 99 /\ Third(p, 3) \in 0 .. 99
    <3>1. \A i \in 1 .. 3 : Third(p, i) \in 0 .. 99
      BY PartsAreNumbers
    <3> QED BY <3>1
  <2> QED BY <1>1, <2>1
<1>3. Key(p) = (a \o b) \o c
  BY DEF Key, Third
<1> HIDE DEF a, b, c
<1>4. /\ a \o b \in Seq(Int) /\ Len(a \o b) = 4
      /\ (a \o b)[1] = a[1] /\ (a \o b)[2] = a[2] /\ (a \o b)[3] = b[1] /\ (a \o b)[4] = b[2]
  <2>1. /\ a \o b \in Seq(Int) /\ Len(a \o b) = Len(a) + Len(b)
        /\ \A i \in 1 .. Len(a) + Len(b) : (a \o b)[i] = IF i <= Len(a) THEN a[i] ELSE b[i - Len(a)]
    BY <1>2, ConcatProperties
  <2> QED BY <1>2, <2>1
<1> DEFINE ab == a \o b
<1>5. /\ ab \in Seq(Int) /\ Len(ab) = 4 /\ ab[1] = a[1] /\ ab[2] = a[2] /\ ab[3] = b[1]
      /\ ab[4] = b[2] /\ Key(p) = ab \o c
  BY <1>3, <1>4
<1> HIDE DEF ab
<1>6. /\ Key(p) \in Seq(Int) /\ Len(Key(p)) = 6
      /\ Key(p)[1] = ab[1] /\ Key(p)[2] = ab[2] /\ Key(p)[3] = ab[3] /\ Key(p)[4] = ab[4]
      /\ Key(p)[5] = c[1] /\ Key(p)[6] = c[2]
  <2>1. /\ ab \o c \in Seq(Int) /\ Len(ab \o c) = Len(ab) + Len(c)
        /\ \A i \in 1 .. Len(ab) + Len(c) : (ab \o c)[i] = IF i <= Len(ab) THEN ab[i] ELSE c[i - Len(ab)]
    BY <1>2, <1>5, ConcatProperties
  <2> DEFINE k == ab \o c
  <2>2. Len(ab) = 4 /\ Len(c) = 2 /\ Key(p) = k
    BY <1>2, <1>5
  <2>3. /\ k \in Seq(Int) /\ Len(k) = Len(ab) + Len(c)
        /\ \A i \in 1 .. Len(ab) + Len(c) : k[i] = IF i <= Len(ab) THEN ab[i] ELSE c[i - Len(ab)]
    BY <2>1
  <2> HIDE DEF k
  <2>4. Len(k) = 6 /\ \A i \in 1 .. 6 : k[i] = IF i <= 4 THEN ab[i] ELSE c[i - 4]
    BY <2>2, <2>3
  <2> QED BY <2>2, <2>3, <2>4
<1>7. DOMAIN Key(p) = 1 .. 6
  BY <1>6, LenProperties
<1> QED BY <1>2, <1>5, <1>6, <1>7

LEMMA KeysCompareParts ==
  ASSUME NEW p \in Policies, NEW q \in Policies
  PROVE  Precedes(Key(p), Key(q)) <=> PartsLess(p, q)
<1> DEFINE s == Key(p)
           t == Key(q)
           First(i) == s[i] < t[i] /\ \A j \in 1 .. i - 1 : s[j] = t[j]
<1>1. /\ Len(s) = 6 /\ DOMAIN s = 1 .. 6 /\ Len(t) = 6 /\ DOMAIN t = 1 .. 6
      /\ \A i \in 1 .. 3 : /\ Third(p, i) \in 0 .. 99 /\ Third(q, i) \in 0 .. 99
  BY KeyDigits, PartsAreNumbers
<1>2. Precedes(s, t) <=> \E i \in 1 .. 6 : First(i)
  BY <1>1 DEF Precedes
<1>3. ASSUME NEW m \in 0 .. 99, NEW n \in 0 .. 99
      PROVE  /\ (m < n <=> m \div 10 < n \div 10 \/ (m \div 10 = n \div 10 /\ m % 10 < n % 10))
             /\ (m = n <=> m \div 10 = n \div 10 /\ m % 10 = n % 10)
  OBVIOUS
<1>4. /\ (First(1) \/ First(2)) <=> FirstPartLess(p, q)
      /\ (First(3) \/ First(4)) <=> SecondPartLess(p, q)
      /\ (First(5) \/ First(6)) <=> ThirdPartLess(p, q)
  <2>1. /\ First(1) <=> s[1] < t[1]
        /\ First(2) <=> s[2] < t[2] /\ s[1] = t[1]
        /\ First(3) <=> s[3] < t[3] /\ s[1] = t[1] /\ s[2] = t[2]
        /\ First(4) <=> s[4] < t[4] /\ s[1] = t[1] /\ s[2] = t[2] /\ s[3] = t[3]
        /\ First(5) <=> s[5] < t[5] /\ s[1] = t[1] /\ s[2] = t[2] /\ s[3] = t[3] /\ s[4] = t[4]
        /\ First(6) <=> s[6] < t[6] /\ s[1] = t[1] /\ s[2] = t[2] /\ s[3] = t[3] /\ s[4] = t[4]
                        /\ s[5] = t[5]
    <3> HIDE DEF s, t
    <3>1. /\ 1 .. 1 - 1 = {} /\ 1 .. 2 - 1 = {1} /\ 1 .. 3 - 1 = {1, 2} /\ 1 .. 4 - 1 = {1, 2, 3}
          /\ 1 .. 5 - 1 = {1, 2, 3, 4} /\ 1 .. 6 - 1 = {1, 2, 3, 4, 5}
      OBVIOUS
    <3> QED BY <3>1
  <2>2. \A i \in 1 .. 3 :
           /\ (Third(p, i) < Third(q, i) <=>
                  \/ Third(p, i) \div 10 < Third(q, i) \div 10
                  \/ Third(p, i) \div 10 = Third(q, i) \div 10 /\ Third(p, i) % 10 < Third(q, i) % 10)
           /\ (Third(p, i) = Third(q, i) <=>
                  Third(p, i) \div 10 = Third(q, i) \div 10 /\ Third(p, i) % 10 = Third(q, i) % 10)
    BY <1>1, <1>3
  <2>3. /\ s[1] = Third(p, 1) \div 10 /\ s[2] = Third(p, 1) % 10
        /\ s[3] = Third(p, 2) \div 10 /\ s[4] = Third(p, 2) % 10
        /\ s[5] = Third(p, 3) \div 10 /\ s[6] = Third(p, 3) % 10
        /\ t[1] = Third(q, 1) \div 10 /\ t[2] = Third(q, 1) % 10
        /\ t[3] = Third(q, 2) \div 10 /\ t[4] = Third(q, 2) % 10
        /\ t[5] = Third(q, 3) \div 10 /\ t[6] = Third(q, 3) % 10
    BY KeyDigits
  <2> HIDE DEF First, s, t
  <2>4. /\ (Third(p, 1) < Third(q, 1) <=> s[1] < t[1] \/ (s[1] = t[1] /\ s[2] < t[2]))
        /\ (Third(p, 1) = Third(q, 1) <=> s[1] = t[1] /\ s[2] = t[2])
        /\ (Third(p, 2) < Third(q, 2) <=> s[3] < t[3] \/ (s[3] = t[3] /\ s[4] < t[4]))
        /\ (Third(p, 2) = Third(q, 2) <=> s[3] = t[3] /\ s[4] = t[4])
        /\ (Third(p, 3) < Third(q, 3) <=> s[5] < t[5] \/ (s[5] = t[5] /\ s[6] < t[6]))
    BY <2>2, <2>3
  <2>5. (First(1) \/ First(2)) <=> FirstPartLess(p, q)
    BY <2>1, <2>4, Zenon DEF FirstPartLess
  <2>6. (First(3) \/ First(4)) <=> SecondPartLess(p, q)
    BY <2>1, <2>4, Zenon DEF SecondPartLess
  <2>7. (First(5) \/ First(6)) <=> ThirdPartLess(p, q)
    BY <2>1, <2>4, Zenon DEF ThirdPartLess
  <2> QED BY <2>5, <2>6, <2>7
<1>5. (\E i \in 1 .. 6 : First(i)) <=>
         First(1) \/ First(2) \/ First(3) \/ First(4) \/ First(5) \/ First(6)
  <2> HIDE DEF First
  <2>1. 1 .. 6 = {1, 2, 3, 4, 5, 6}
    OBVIOUS
  <2> QED BY <2>1, Zenon
<1> HIDE DEF First, s, t
<1>6. Precedes(s, t) <=> PartsLess(p, q)
  BY <1>2, <1>4, <1>5 DEF PartsLess
<1> QED BY <1>6 DEF s, t

LEMMA VersionsCompareParts ==
  ASSUME NEW p \in Policies, NEW q \in Policies, Len(Version[p]) = Len(Version[q])
  PROVE  Precedes(Version[p], Version[q]) <=> PartsLess(p, q)
<1> DEFINE n == Len(Version[p])
           First(i) == Third(p, i) < Third(q, i) /\ \A j \in 1 .. i - 1 : Third(p, j) = Third(q, j)
<1>1. /\ n \in 1 .. 3 /\ DOMAIN Version[p] = 1 .. n /\ DOMAIN Version[q] = 1 .. n
      /\ \A i \in 1 .. n : Third(p, i) = Version[p][i] /\ Third(q, i) = Version[q][i]
  BY PartsAreNumbers
<1>2. \A i \in 1 .. 3 : Third(p, i) \in Int /\ Third(q, i) \in Int
  <2>1. \A i \in 1 .. 3 : Third(p, i) \in 0 .. 99
    BY PartsAreNumbers
  <2>2. \A i \in 1 .. 3 : Third(q, i) \in 0 .. 99
    BY PartsAreNumbers
  <2>3. 0 .. 99 \subseteq Int
    OBVIOUS
  <2> QED BY <2>1, <2>2, <2>3, Zenon
<1>3. \A i \in 1 .. 3 : i >= n => Third(p, i) = Third(p, n) /\ Third(q, i) = Third(q, n)
  <2>1. \A i \in 1 .. 3 : i >= Len(Version[p]) => Third(p, i) = Version[p][Len(Version[p])]
    BY PartsAreNumbers
  <2>2. \A i \in 1 .. 3 : i >= Len(Version[q]) => Third(q, i) = Version[q][Len(Version[q])]
    BY PartsAreNumbers
  <2>3. Third(p, n) = Version[p][n] /\ Third(q, n) = Version[q][n]
    <3>1. n \in 1 .. 3
      BY <1>1
    <3> HIDE DEF n
    <3>2. n \in 1 .. n
      BY ONLY <3>1
    <3> QED BY ONLY <1>1, <3>2, Zenon
  <2>4. Len(Version[p]) = n /\ Len(Version[q]) = n
    OBVIOUS
  <2> HIDE DEF n
  <2> QED BY <2>1, <2>2, <2>3, <2>4, Zenon
<1>4. Precedes(Version[p], Version[q]) <=> \E i \in 1 .. n : First(i)
  <2>1. ~(Len(Version[p]) < Len(Version[q]))
    BY <1>1
  <2>2. \A i \in 1 .. n : First(i) <=> Version[p][i] < Version[q][i]
                                       /\ \A j \in 1 .. i - 1 : Version[p][j] = Version[q][j]
    BY <1>1
  <2> QED BY <1>1, <2>1, <2>2 DEF Precedes
<1>5. /\ First(1) <=> FirstPartLess(p, q)
      /\ First(2) <=> SecondPartLess(p, q)
      /\ First(3) <=> ThirdPartLess(p, q)
  <2>1. 1 .. 1 - 1 = {} /\ 1 .. 2 - 1 = {1} /\ 1 .. 3 - 1 = {1, 2}
    OBVIOUS
  <2> QED BY <2>1 DEF FirstPartLess, SecondPartLess, ThirdPartLess
<1> HIDE DEF n, First
<1>6. CASE n = 1
  <2>1. Third(p, 2) = Third(p, 1) /\ Third(q, 2) = Third(q, 1)
        /\ Third(p, 3) = Third(p, 1) /\ Third(q, 3) = Third(q, 1)
    BY <1>3, <1>6
  <2>2. PartsLess(p, q) <=> First(1)
    BY <1>2, <1>5, <2>1 DEF PartsLess, FirstPartLess, SecondPartLess, ThirdPartLess
  <2> QED BY <1>4, <1>6, <2>2
<1>7. CASE n = 2
  <2>1. Third(p, 3) = Third(p, 2) /\ Third(q, 3) = Third(q, 2)
    BY <1>3, <1>7
  <2>2. PartsLess(p, q) <=> First(1) \/ First(2)
    BY <1>2, <1>5, <2>1 DEF PartsLess, FirstPartLess, SecondPartLess, ThirdPartLess
  <2>3. 1 .. 2 = {1, 2}
    OBVIOUS
  <2> QED BY <1>4, <1>7, <2>2, <2>3
<1>8. CASE n = 3
  <2>1. 1 .. 3 = {1, 2, 3}
    OBVIOUS
  <2> QED BY <1>4, <1>5, <1>8, <2>1 DEF PartsLess
<1> QED BY <1>1, <1>6, <1>7, <1>8

(***************************************************************************)
(* The query finds the newest of each type.                                *)
(***************************************************************************)
LEMMA LatestAreNewest ==
  ASSUME VersionsAlike, shown \subseteq Policies
  PROVE  FindLatestPolicies = Newest
<1>1. \A p, q \in shown : PolicyType[q] = PolicyType[p] =>
         (Precedes(Key(p), Key(q)) <=> Precedes(Version[p], Version[q]))
  BY KeysCompareParts, VersionsCompareParts DEF VersionsAlike
<1> QED BY <1>1 DEF FindLatestPolicies, Newest

(***************************************************************************)
(* The inductive invariant of the checks: what is agreed to is never taken *)
(* back, since only contents that were read from a row are agreed to; so   *)
(* what was agreed to when a check began still is, and what it found was   *)
(* the newest then.                                                        *)
(***************************************************************************)
PolicyChecks ==
    [step : {"none", "latest", "done"}, latest : SUBSET Policies, missing : SUBSET Policies,
     newest : SUBSET Policies, agreed : SUBSET Policies]

ReadsContent == \A r \in Accepts : OnItsWay(r) => accept[r].read > 0

Begun(c) ==
    check[c].step = "latest" =>
        /\ check[c].latest = check[c].newest
        /\ \A p \in check[c].agreed : agreement[p] > 0

Answered(c) ==
    check[c].step = "done" =>
        /\ check[c].missing = {} => \A p \in check[c].newest : agreement[p] > 0
        /\ check[c].missing \subseteq check[c].newest \ check[c].agreed

ChecksInv ==
    /\ PoliciesInv
    /\ shown \subseteq Policies /\ check \in [Checks -> PolicyChecks]
    /\ ReadsContent
    /\ \A c \in Checks : Begun(c) /\ Answered(c)

\* Agreements that only grow keep what the checks know.
LEMMA AgreementsGrow ==
  ASSUME ChecksInv, check' = check, \A p \in Policies : agreement[p] > 0 => agreement'[p] > 0
  PROVE  \A c \in Checks : Begun(c)' /\ Answered(c)'
<1>1. SUFFICES ASSUME NEW c \in Checks PROVE Begun(c)' /\ Answered(c)'
  OBVIOUS
<1>2. Begun(c) /\ Answered(c) /\ check[c] \in PolicyChecks
  BY DEF ChecksInv
<1>3. check[c].agreed \subseteq Policies /\ check[c].newest \subseteq Policies
  BY <1>2 DEF PolicyChecks
<1> QED BY <1>2, <1>3 DEF Begun, Answered

LEMMA CheckBegins ==
  ASSUME ChecksInv, VersionsAlike, NEW c \in Checks, CheckLatest(c), PoliciesInv'
  PROVE  ChecksInv'
<1> DEFINE new == [step |-> "latest", latest |-> FindLatestPolicies, missing |-> {},
                   newest |-> Newest, agreed |-> {p \in Policies : agreement[p] > 0}]
<1>1. /\ check' = [check EXCEPT ![c] = new]
      /\ shown' = shown /\ agreement' = agreement /\ accept' = accept
  BY DEF CheckLatest
<1>2. FindLatestPolicies = Newest /\ Newest \subseteq Policies
  BY LatestAreNewest DEF ChecksInv, Newest
<1>3. new \in PolicyChecks
  BY <1>2 DEF PolicyChecks
<1>4. check' \in [Checks -> PolicyChecks] /\ check'[c] = new
      /\ \A d \in Checks \ {c} : check'[d] = check[d]
  BY <1>1, <1>3 DEF ChecksInv
<1>5. Begun(c)' /\ Answered(c)'
  BY <1>1, <1>2, <1>4 DEF Begun, Answered
<1>6. \A d \in Checks \ {c} : Begun(d)' /\ Answered(d)'
  BY <1>1, <1>4 DEF ChecksInv, Begun, Answered
<1>7. shown' \subseteq Policies /\ ReadsContent'
  BY <1>1 DEF ChecksInv, ReadsContent, OnItsWay
<1> QED BY <1>4, <1>5, <1>6, <1>7 DEF ChecksInv

LEMMA CheckEnds ==
  ASSUME ChecksInv, NEW c \in Checks, CheckAgreements(c), PoliciesInv'
  PROVE  ChecksInv'
<1> DEFINE missing == {p \in check[c].latest : agreement[p] = 0}
<1>1. /\ check' = [check EXCEPT ![c].step = "done", ![c].missing = missing]
      /\ check[c].step = "latest"
      /\ shown' = shown /\ agreement' = agreement /\ accept' = accept
  BY DEF CheckAgreements
<1>2. /\ check[c] \in PolicyChecks /\ check[c].latest = check[c].newest
      /\ \A p \in check[c].agreed : agreement[p] > 0
  BY <1>1 DEF ChecksInv, Begun
<1>3. check[c].latest \subseteq Policies /\ missing \subseteq Policies
  BY <1>2 DEF PolicyChecks
<1>4. /\ check' \in [Checks -> PolicyChecks]
      /\ check'[c].step = "done" /\ check'[c].missing = missing
      /\ check'[c].newest = check[c].newest /\ check'[c].agreed = check[c].agreed
      /\ \A d \in Checks \ {c} : check'[d] = check[d]
  <2> HIDE DEF missing
  <2> QED BY <1>1, <1>3 DEF ChecksInv, PolicyChecks
<1>5. \A p \in Policies : agreement[p] \in Nat
  BY DEF ChecksInv, PoliciesInv, PolicyRowsOK
<1>6. Begun(c)' /\ Answered(c)'
  <2>1. \A p \in check[c].newest : p \notin missing => agreement[p] > 0
    BY <1>2, <1>3, <1>5
  <2>2. missing \subseteq check[c].newest \ check[c].agreed
    BY <1>2, <1>5
  <2> HIDE DEF missing
  <2> QED BY <1>1, <1>4, <2>1, <2>2 DEF Begun, Answered
<1>7. \A d \in Checks \ {c} : Begun(d)' /\ Answered(d)'
  BY <1>1, <1>4 DEF ChecksInv, Begun, Answered
<1>8. shown' \subseteq Policies /\ ReadsContent'
  BY <1>1 DEF ChecksInv, ReadsContent, OnItsWay
<1> QED BY <1>4, <1>6, <1>7, <1>8 DEF ChecksInv

LEMMA AcceptKeepsChecks ==
  ASSUME ChecksInv, PoliciesInv', NEW r \in Accepts,
         \/ \E p \in Policies : ReadPolicy(r, p)
         \/ ReadAgreement(r) \/ NothingToAccept(r) \/ UpsertAgreement(r)
  PROVE  ChecksInv'
<1>1. shown' = shown /\ check' = check
  BY DEF ReadPolicy, ReadAgreement, NothingToAccept, UpsertAgreement, AnswerAccept
<1>2. /\ accept \in [Accepts -> Acceptances] /\ agreement \in [Policies -> 0 .. MaxContent]
      /\ \A q \in Accepts : OnItsWay(q) => accept[q].read > 0 /\ accept[q].policy \in Policies
  BY DEF ChecksInv, PoliciesInv, PolicyRowsOK, ReadsContent, AboutPolicies
<1>3. ReadsContent'
  <2>1. SUFFICES ASSUME NEW q \in Accepts, OnItsWay(q)' PROVE accept'[q].read > 0
    BY DEF ReadsContent
  <2>2. CASE \E p \in Policies : ReadPolicy(r, p)
    <3>1. PICK p \in Policies : ReadPolicy(r, p)
      BY <2>2
    <3> QED BY <1>2, <2>1, <3>1 DEF ReadPolicy, OnItsWay, Acceptances
  <2>3. CASE ReadAgreement(r)
    BY <1>2, <2>1, <2>3 DEF ReadAgreement, OnItsWay, Acceptances
  <2>4. CASE NothingToAccept(r) \/ UpsertAgreement(r)
    BY <1>2, <2>1, <2>4 DEF NothingToAccept, UpsertAgreement, AnswerAccept, OnItsWay, Acceptances
  <2> QED BY <2>2, <2>3, <2>4
<1>4. \A p \in Policies : agreement[p] > 0 => agreement'[p] > 0
  BY <1>2 DEF ReadPolicy, ReadAgreement, NothingToAccept, UpsertAgreement, OnItsWay
<1>5. \A c \in Checks : Begun(c)' /\ Answered(c)'
  BY <1>1, <1>4, AgreementsGrow
<1> QED BY <1>1, <1>3, <1>5 DEF ChecksInv

(***************************************************************************)
(* The inductive invariant of the checks, between versions that have the   *)
(* same number of parts.                                                   *)
(***************************************************************************)
THEOREM ChecksInductive == ASSUME VersionsAlike PROVE PoliciesSpec => []ChecksInv
<1>1. PoliciesInit => ChecksInv
  <2> SUFFICES ASSUME PoliciesInit PROVE ChecksInv
    OBVIOUS
  <2>1. PoliciesInv
    BY PoliciesInitInv
  <2>2. check \in [Checks -> PolicyChecks] /\ shown \subseteq Policies
        /\ \A c \in Checks : check[c].step = "none"
    BY DEF PoliciesInit, PolicyChecks
  <2>3. ReadsContent
    BY DEF PoliciesInit, ReadsContent, OnItsWay
  <2> QED BY <2>1, <2>2, <2>3 DEF ChecksInv, Begun, Answered
<1>2. ASSUME ChecksInv, PoliciesInv', [PoliciesNext]_policyVars PROVE ChecksInv'
  <2>1. CASE \E p \in Policies : Publish(p) \/ EditContent(p) \/ Withdraw(p)
    <3>1. /\ shown' \subseteq Policies
          /\ check' = check /\ agreement' = agreement /\ accept' = accept
      BY <1>2, <2>1 DEF ChecksInv, Publish, EditContent, Withdraw
    <3>2. \A c \in Checks : Begun(c)' /\ Answered(c)'
      BY <1>2, <3>1, AgreementsGrow
    <3> QED BY <1>2, <3>1, <3>2 DEF ChecksInv, ReadsContent, OnItsWay
  <2>2. CASE \E r \in Accepts :
               \/ \E p \in Policies : ReadPolicy(r, p)
               \/ ReadAgreement(r) \/ NothingToAccept(r) \/ UpsertAgreement(r)
    BY <1>2, <2>2, AcceptKeepsChecks
  <2>3. CASE \E c \in Checks : CheckLatest(c) \/ CheckAgreements(c)
    BY <1>2, <2>3, CheckBegins, CheckEnds
  <2>4. CASE UNCHANGED policyVars
    <3>1. shown' = shown /\ check' = check /\ agreement' = agreement /\ accept' = accept
      BY <2>4 DEF policyVars
    <3>2. \A c \in Checks : Begun(c)' /\ Answered(c)'
      BY <1>2, <3>1, AgreementsGrow
    <3> QED BY <1>2, <3>1, <3>2 DEF ChecksInv, ReadsContent, OnItsWay
  <2> QED BY <1>2, <2>1, <2>2, <2>3, <2>4 DEF PoliciesNext
<1> QED BY <1>1, <1>2, PoliciesInductive, PTL DEF PoliciesSpec

(***************************************************************************)
(* Who is told to be up to date has agreed to the newest of every type     *)
(* there was when the check began, and nobody is asked for anything else.  *)
(***************************************************************************)
THEOREM ChecksAreRight == ASSUME VersionsAlike PROVE PoliciesSpec => []CheckedAgainstNewest
<1>1. ChecksInv => CheckedAgainstNewest
  BY DEF ChecksInv, Answered, CheckedAgainstNewest
<1> QED BY <1>1, ChecksInductive, PTL

-----------------------------------------------------------------------------
(***************************************************************************)
(* Avatars.  What a change holds is what it has read, or the sources of    *)
(* the media it has found; and while it meets no other, what it has read   *)
(* is still in the table.                                                  *)
(***************************************************************************)
Pending(r) == change[r].step \in {"find", "write"}

HeldInv(r) ==
    /\ change[r].step = "find" => change[r].asked # NoAvatar /\ ~change[r].found
    /\ change[r].found => change[r].asked # NoAvatar /\ ready[change[r].asked] # NoAvatar
    /\ Pending(r) => change[r].held = IF change[r].asked = NoAvatar THEN NoAvatar
                                      ELSE IF change[r].found THEN ready[change[r].asked]
                                      ELSE change[r].read

AloneInv(r) ==
    Pending(r) /\ ~change[r].met =>
        /\ change[r].read = avatar.sources
        /\ \A q \in AvatarRequests \ {r} : ~Pending(q)

AvatarInv ==
    /\ AvatarTypeOK
    /\ \A r \in AvatarRequests : HeldInv(r) /\ AloneInv(r)
    /\ \A r \in lastChange : change[r].step = "done"
    /\ AvatarOfLastChange

LEMMA AvatarInitInv == AvatarInit => AvatarInv
BY DEF AvatarInit, AvatarInv, AvatarTypeOK, AvatarSources, HeldInv, AloneInv, Pending,
       AvatarOfLastChange

Changes == [step : {"none", "find", "write", "done", "failed"},
            asked : AvatarMedias \union {NoAvatar}, held : AvatarSources, read : AvatarSources,
            found : BOOLEAN, met : BOOLEAN]

LEMMA UploadCompletesKeeps ==
    ASSUME AvatarInv, NEW m \in AvatarMedias, UploadCompletes(m) PROVE AvatarInv'
<1> USE DEF AvatarInv
<1>1. /\ ready[m] = NoAvatar /\ UNCHANGED <<avatar, change, lastChange>>
      /\ ready' \in [AvatarMedias -> AvatarSources]
      /\ \A n \in AvatarMedias \ {m} : ready'[n] = ready[n]
  BY DEF UploadCompletes, AvatarTypeOK, AvatarSources
<1>2. AvatarTypeOK'
  BY <1>1 DEF AvatarTypeOK, AvatarSources
<1>3. \A r \in AvatarRequests :
         change[r].found => /\ change[r].asked \in AvatarMedias \ {m}
                            /\ ready'[change[r].asked] = ready[change[r].asked]
  BY <1>1 DEF HeldInv, AvatarTypeOK
<1>4. \A r \in AvatarRequests : HeldInv(r)'
  BY <1>1, <1>3 DEF HeldInv, Pending
<1>5. \A r \in AvatarRequests : AloneInv(r)'
  BY <1>1 DEF AloneInv, Pending
<1>6. lastChange \subseteq AvatarRequests
  BY DEF AvatarTypeOK
<1>7. AvatarOfLastChange'
  BY <1>1, <1>3, <1>6 DEF AvatarOfLastChange
<1> QED BY <1>1, <1>2, <1>4, <1>5, <1>7

LEMMA ReadProfileKeeps ==
    ASSUME AvatarInv, NEW r \in AvatarRequests, NEW asked \in AvatarMedias \union {NoAvatar},
           ReadProfile(r, asked)
    PROVE  AvatarInv'
<1> USE DEF AvatarInv
<1> DEFINE new == [step |-> IF asked = NoAvatar THEN "write" ELSE "find", asked |-> asked,
                   held |-> IF asked = NoAvatar THEN NoAvatar ELSE avatar.sources,
                   read |-> avatar.sources, found |-> FALSE,
                   met |-> {q \in AvatarRequests : Pending(q)} # {}]
<1>1. /\ change[r].step = "none" /\ UNCHANGED <<ready, avatar, lastChange>>
      /\ change' = [q \in AvatarRequests |->
            IF q = r THEN new
            ELSE IF Pending(q) THEN [change[q] EXCEPT !.met = TRUE] ELSE change[q]]
  BY DEF ReadProfile, Pending
<1>2. change \in [AvatarRequests -> Changes] /\ new \in Changes
  BY DEF AvatarTypeOK, AvatarSources, Changes
<1>3. change' \in [AvatarRequests -> Changes]
  BY <1>1, <1>2, ZenonT(60) DEF Changes
<1>4. \A q \in AvatarRequests \ {r} :
         /\ change'[q].step = change[q].step /\ change'[q].asked = change[q].asked
         /\ change'[q].held = change[q].held /\ change'[q].read = change[q].read
         /\ change'[q].found = change[q].found
         /\ change'[q].met = (change[q].met \/ Pending(q))
         /\ ~Pending(q) => change'[q] = change[q]
  BY <1>1, <1>2 DEF Changes
<1>5. change'[r] = new
  BY <1>1
<1>6. \A q \in AvatarRequests : HeldInv(q)'
  BY <1>1, <1>4, <1>5 DEF HeldInv, Pending
<1>7. \A q \in AvatarRequests : AloneInv(q)'
  <2>1. AloneInv(r)'
    <3>1. change'[r].met = ({q \in AvatarRequests : Pending(q)} # {})
      BY <1>5
    <3>2. change'[r].read = avatar.sources
      BY <1>5
    <3>3. \A q \in AvatarRequests \ {r} : Pending(q)' => Pending(q)
      BY <1>4 DEF Pending
    <3> QED BY <1>1, <3>1, <3>2, <3>3 DEF AloneInv
  <2>2. ASSUME NEW q \in AvatarRequests \ {r} PROVE AloneInv(q)'
    <3>1. Pending(q)' => change'[q].met
      BY <1>4 DEF Pending
    <3> QED BY <3>1 DEF AloneInv
  <2> QED BY <2>1, <2>2
<1>8. \A q \in lastChange : q # r /\ ~Pending(q) /\ change'[q] = change[q]
  BY <1>1, <1>4 DEF Pending, AvatarTypeOK
<1>9. AvatarOfLastChange' /\ \A q \in lastChange' : change'[q].step = "done"
  <2>1. /\ lastChange' = lastChange /\ avatar' = avatar /\ ready' = ready
        /\ \A q \in lastChange : change'[q] = change[q]
    BY <1>1, <1>8
  <2> QED BY <2>1 DEF AvatarOfLastChange
<1>10. AvatarTypeOK'
  BY <1>1, <1>3 DEF AvatarTypeOK, AvatarSources, Changes
<1> QED BY <1>6, <1>7, <1>9, <1>10

LEMMA FindMediaKeeps ==
    ASSUME AvatarInv, NEW r \in AvatarRequests, FindMedia(r) PROVE AvatarInv'
<1> USE DEF AvatarInv
<1>1. /\ change[r].step = "find" /\ UNCHANGED <<ready, avatar, lastChange>>
      /\ change[r] \in Changes /\ change[r].asked \in AvatarMedias
  BY DEF FindMedia, AvatarTypeOK, Changes, HeldInv
<1>2. /\ change' \in [AvatarRequests -> Changes]
      /\ \A q \in AvatarRequests \ {r} : change'[q] = change[q]
      /\ change'[r] = [change[r] EXCEPT !.step = "write", !.held = AvatarHeld(r),
                                        !.found = ready[change[r].asked] # NoAvatar]
  BY <1>1 DEF FindMedia, AvatarTypeOK, Changes, AvatarHeld
<1>3. HeldInv(r)' /\ AloneInv(r)'
  <2>1. /\ change'[r].asked = change[r].asked /\ change'[r].read = change[r].read
        /\ change'[r].met = change[r].met /\ change'[r].step = "write"
        /\ change'[r].held = AvatarHeld(r)
        /\ change'[r].found = (ready[change[r].asked] # NoAvatar)
    BY <1>1, <1>2 DEF Changes
  <2>2. change[r].held = change[r].read /\ change[r].asked # NoAvatar
    BY <1>1 DEF HeldInv, Pending
  <2>3. HeldInv(r)'
    BY <1>1, <2>1, <2>2 DEF HeldInv, AvatarHeld
  <2>4. AloneInv(r)'
    BY <1>1, <1>2, <2>1 DEF AloneInv, Pending
  <2> QED BY <2>3, <2>4
<1>4. \A q \in AvatarRequests \ {r} : HeldInv(q)' /\ AloneInv(q)'
  BY <1>1, <1>2 DEF HeldInv, AloneInv, Pending, Changes
<1>5. r \notin lastChange /\ lastChange \subseteq AvatarRequests
  BY <1>1 DEF AvatarTypeOK
<1>6. AvatarOfLastChange' /\ \A q \in lastChange' : change'[q].step = "done"
  BY <1>1, <1>2, <1>5 DEF AvatarOfLastChange
<1>7. AvatarTypeOK'
  BY <1>1, <1>2 DEF AvatarTypeOK, AvatarSources, Changes
<1> QED BY <1>3, <1>4, <1>6, <1>7

LEMMA WriteAvatarKeeps ==
    ASSUME AvatarInv, NEW r \in AvatarRequests, WriteAvatar(r) PROVE AvatarInv'
<1> USE DEF AvatarInv
<1>1. /\ change[r].step = "write" /\ change[r] \in Changes /\ ready' = ready
      /\ lastChange' = {r} /\ avatar' = AvatarColumns(change[r].held)
      /\ \A q \in AvatarRequests \ {r} : change'[q] = change[q]
      /\ change'[r] = [change[r] EXCEPT !.step = "done"]
      /\ change' \in [AvatarRequests -> Changes]
  BY DEF WriteAvatar, AvatarTypeOK, Changes
<1>2. \A q \in AvatarRequests : HeldInv(q)'
  BY <1>1 DEF HeldInv, Pending, Changes
<1>3. \A q \in AvatarRequests : AloneInv(q)'
  <2>1. \A q \in AvatarRequests \ {r} : Pending(q) => change[q].met
    BY <1>1 DEF AloneInv, Pending
  <2> QED BY <1>1, <2>1 DEF AloneInv, Pending, Changes
<1>4. AvatarOfLastChange'
  BY <1>1 DEF AvatarOfLastChange, AvatarColumns, AvatarUrl, HeldInv, AloneInv, Pending, Changes
<1>5. avatar' \in [url : [media : AvatarMedias, key : {"sm", "base"}] \union {NoAvatar},
                   sources : AvatarSources]
  BY <1>1 DEF AvatarColumns, AvatarUrl, AvatarTypeOK, AvatarSources, Changes
<1>6. AvatarTypeOK'
  BY <1>1, <1>5 DEF AvatarTypeOK, AvatarSources, Changes
<1>7. \A q \in lastChange' : change'[q].step = "done"
  BY <1>1 DEF Changes
<1> QED BY <1>2, <1>3, <1>4, <1>6, <1>7

LEMMA ChangeFailsKeeps ==
    ASSUME AvatarInv, NEW r \in AvatarRequests, ChangeFails(r) PROVE AvatarInv'
<1> USE DEF AvatarInv
<1>1. /\ Pending(r) /\ change[r] \in Changes /\ UNCHANGED <<ready, avatar, lastChange>>
      /\ \A q \in AvatarRequests \ {r} : change'[q] = change[q]
      /\ change'[r] = [change[r] EXCEPT !.step = "failed"]
      /\ change' \in [AvatarRequests -> Changes]
  BY DEF ChangeFails, AvatarTypeOK, Changes, Pending
<1>2. \A q \in AvatarRequests : HeldInv(q)' /\ AloneInv(q)'
  BY <1>1 DEF HeldInv, AloneInv, Pending, Changes
<1>3. r \notin lastChange /\ lastChange \subseteq AvatarRequests
  BY <1>1 DEF AvatarTypeOK, Pending
<1>4. AvatarOfLastChange' /\ \A q \in lastChange' : change'[q].step = "done"
  BY <1>1, <1>3 DEF AvatarOfLastChange
<1>5. AvatarTypeOK'
  BY <1>1 DEF AvatarTypeOK, AvatarSources, Changes
<1> QED BY <1>2, <1>4, <1>5

(***************************************************************************)
(* The inductive invariant of avatars holds in every reachable state.      *)
(***************************************************************************)
THEOREM AvatarInductive == AvatarSpec => []AvatarInv
<1>1. ASSUME AvatarInv, [AvatarNext]_avatarVars PROVE AvatarInv'
  <2>1. CASE UNCHANGED avatarVars
    BY <1>1, <2>1
    DEF avatarVars, AvatarInv, AvatarTypeOK, AvatarSources, HeldInv, AloneInv, Pending,
        AvatarOfLastChange
  <2>2. CASE AvatarNext
    BY <1>1, <2>2, UploadCompletesKeeps, ReadProfileKeeps, FindMediaKeeps, WriteAvatarKeeps,
       ChangeFailsKeeps DEF AvatarNext
  <2> QED BY <1>1, <2>1, <2>2
<1> QED BY <1>1, AvatarInitInv, PTL DEF AvatarSpec

(***************************************************************************)
(* Posts show the avatar of the profile or none, however changes overlap:  *)
(* every write that sets the URL sets the sources with it.                 *)
(***************************************************************************)
LEMMA PostsFollow == AvatarSpec => []PostsShowNoOtherAvatar
<1>1. AvatarInit => PostsShowNoOtherAvatar
  BY DEF AvatarInit, PostsShowNoOtherAvatar
<1>2. ASSUME PostsShowNoOtherAvatar, [AvatarNext]_avatarVars PROVE PostsShowNoOtherAvatar'
  <2>1. ASSUME NEW r \in AvatarRequests, WriteAvatar(r) PROVE PostsShowNoOtherAvatar'
    BY <2>1 DEF WriteAvatar, AvatarColumns, AvatarUrl, PostsShowNoOtherAvatar
  <2>2. CASE UNCHANGED avatar
    BY <1>2, <2>2 DEF PostsShowNoOtherAvatar, AvatarUrl
  <2> QED BY <1>2, <2>1, <2>2
        DEF AvatarNext, avatarVars, UploadCompletes, ReadProfile, FindMedia, ChangeFails
<1> QED BY <1>1, <1>2, PTL DEF AvatarSpec

(***************************************************************************)
(* Profile and posts show one avatar, that of the change answered last     *)
(* when it met no other, for any number of requests and medias.            *)
(***************************************************************************)
THEOREM OneAvatarIsShown == AvatarSpec => []ShownAvatars
<1>1. AvatarInv => AvatarOfLastChange
  BY DEF AvatarInv
<1>2. AvatarOfLastChange /\ PostsShowNoOtherAvatar => ShownAvatars
  BY DEF ShownAvatars
<1> QED BY <1>1, <1>2, AvatarInductive, PostsFollow, PTL

-----------------------------------------------------------------------------
(***************************************************************************)
(* Types of incidents.  The entity an edit holds is the one built from the *)
(* row it has read; edits on record as the last are written.               *)
(***************************************************************************)
WrittenSlug(r) == edit[r].step = "write" => edit[r].held = Edited(FromRow(edit[r].read), edit[r].body)

IncidentTypesInv ==
    /\ IncidentTypesTypeOK
    /\ IncidentsHaveTypes
    /\ SlugsFollowNames
    /\ \A r \in TypeEdits : WrittenSlug(r)
    /\ \A t \in TypeIds : \A r \in lastEdit[t] : edit[r].step = "done"

LEMMA IncidentTypesInitInv == IncidentTypesInit => IncidentTypesInv
BY DEF IncidentTypesInit, IncidentTypesInv, IncidentTypesTypeOK, IncidentsHaveTypes,
       SlugsFollowNames, WrittenSlug, TypeExists

LEMMA RowsAreBuilt ==
    ASSUME NEW name \in TypeNames
    PROVE  Entity(name) \in Rows /\ Entity(name).slug = SlugOf[name] /\ Entity(name).name = name
BY DEF Entity, Rows

LEMMA EditedIsRow ==
    ASSUME NEW row \in Rows, NEW body \in Bodies
    PROVE  /\ Edited(FromRow(row), body) \in Rows
           /\ Edited(FromRow(row), body).slug = SlugOf[row.name]
           /\ body = Keep => Edited(FromRow(row), body).name = row.name
BY DEF Edited, FromRow, Entity, Rows, Bodies

LEMMA CreateTypeKeeps ==
    ASSUME IncidentTypesInv, NEW t \in TypeIds, NEW name \in TypeNames, CreateType(t, name)
    PROVE  IncidentTypesInv'
<1> USE DEF IncidentTypesInv
<1>1. /\ typeRow[t].state = "unused" /\ UNCHANGED <<edit, lastEdit, incident>>
      /\ typeRow'[t] = [state |-> "stored", row |-> Entity(name)]
      /\ \A u \in TypeIds \ {t} : typeRow'[u] = typeRow[u]
  BY DEF CreateType, IncidentTypesTypeOK
<1>2. IncidentTypesTypeOK'
  BY <1>1, RowsAreBuilt DEF CreateType, IncidentTypesTypeOK
<1>3. IncidentsHaveTypes'
  BY <1>1 DEF IncidentsHaveTypes, TypeExists, IncidentTypesTypeOK
<1>4. SlugsFollowNames'
  BY <1>1, RowsAreBuilt DEF SlugsFollowNames, TypeExists
<1> QED BY <1>1, <1>2, <1>3, <1>4 DEF WrittenSlug

LEMMA ReadTypeKeeps ==
    ASSUME IncidentTypesInv, NEW r \in TypeEdits, NEW t \in TypeIds, NEW body \in Bodies,
           ReadType(r, t, body)
    PROVE  IncidentTypesInv'
<1> USE DEF IncidentTypesInv
<1> DEFINE new == [step |-> "write", type |-> t, body |-> body, read |-> typeRow[t].row,
                   held |-> Edited(FromRow(typeRow[t].row), body)]
<1>1. /\ edit[r].step = "none" /\ TypeExists(t) /\ UNCHANGED <<typeRow, lastEdit, incident>>
      /\ edit' = [edit EXCEPT ![r] = new]
      /\ edit'[r] = new
      /\ \A q \in TypeEdits \ {r} : edit'[q] = edit[q]
  BY DEF ReadType, IncidentTypesTypeOK
<1>2. typeRow[t].row \in Rows
  BY <1>1 DEF IncidentTypesTypeOK, TypeExists
<1>3. Edited(FromRow(typeRow[t].row), body) \in Rows
  BY <1>2, EditedIsRow
<1>4. IncidentTypesTypeOK'
  BY <1>1, <1>2, <1>3 DEF IncidentTypesTypeOK
<1>5. \A u \in TypeIds : \A q \in lastEdit[u] : q \in TypeEdits \ {r}
  BY <1>1 DEF IncidentTypesTypeOK
<1>6. SlugsFollowNames'
  BY <1>1, <1>5 DEF SlugsFollowNames, TypeExists
<1>7. \A q \in TypeEdits : WrittenSlug(q)'
  BY <1>1 DEF WrittenSlug
<1> QED BY <1>1, <1>4, <1>5, <1>6, <1>7 DEF IncidentsHaveTypes, TypeExists

LEMMA WriteTypeKeeps ==
    ASSUME IncidentTypesInv, NEW r \in TypeEdits, WriteType(r) PROVE IncidentTypesInv'
<1> USE DEF IncidentTypesInv
<1> DEFINE t == edit[r].type
<1>1. /\ edit[r].step = "write" /\ t \in TypeIds /\ edit[r].held \in Rows
      /\ edit[r].read \in Rows /\ edit[r].body \in Bodies
      /\ TypeExists(t) /\ UNCHANGED incident
  BY DEF WriteType, IncidentTypesTypeOK
<1>2. /\ typeRow'[t] = [typeRow[t] EXCEPT !.row = edit[r].held]
      /\ \A u \in TypeIds \ {t} : typeRow'[u] = typeRow[u]
      /\ \A u \in TypeIds : TypeExists(u)' <=> TypeExists(u)
      /\ typeRow'[t].row = edit[r].held
  BY <1>1 DEF WriteType, IncidentTypesTypeOK, TypeExists
<1>3. /\ edit'[r] = [edit[r] EXCEPT !.step = "done"]
      /\ edit'[r].read = edit[r].read /\ edit'[r].body = edit[r].body /\ edit'[r].step = "done"
      /\ \A q \in TypeEdits \ {r} : edit'[q] = edit[q]
      /\ lastEdit'[t] = {r} /\ \A u \in TypeIds \ {t} : lastEdit'[u] = lastEdit[u]
  BY <1>1 DEF WriteType, IncidentTypesTypeOK
<1>4. IncidentTypesTypeOK'
  BY <1>1 DEF WriteType, IncidentTypesTypeOK, TypeExists
<1>5. IncidentsHaveTypes'
  BY <1>1, <1>2 DEF IncidentsHaveTypes, IncidentTypesTypeOK
<1>6. \A u \in TypeIds : \A q \in lastEdit[u] : q \in TypeEdits \ {r}
  BY <1>1 DEF IncidentTypesTypeOK
<1>7. SlugsFollowNames'
  <2>1. edit[r].held = Edited(FromRow(edit[r].read), edit[r].body)
    BY <1>1 DEF WrittenSlug
  <2>2. /\ edit[r].held.slug = SlugOf[edit[r].read.name]
        /\ edit[r].body = Keep => edit[r].held.name = edit[r].read.name
    BY <1>1, <2>1, EditedIsRow
  <2>3. ASSUME NEW u \in TypeIds \ {t}, TypeExists(u)
        PROVE  \/ typeRow'[u].row.slug = SlugOf[typeRow'[u].row.name]
               \/ \E q \in lastEdit'[u] :
                     edit'[q].body # Keep /\ typeRow'[u].row.slug = SlugOf[edit'[q].read.name]
    BY <1>2, <1>3, <1>6, <2>3 DEF SlugsFollowNames
  <2>4. \/ typeRow'[t].row.slug = SlugOf[typeRow'[t].row.name]
        \/ \E q \in lastEdit'[t] :
              edit'[q].body # Keep /\ typeRow'[t].row.slug = SlugOf[edit'[q].read.name]
    <3>1. CASE edit[r].body = Keep
      BY <1>2, <2>2, <3>1
    <3>2. CASE edit[r].body # Keep
      <4>1. r \in lastEdit'[t] /\ edit'[r].body # Keep
        BY <1>3, <3>2
      <4>2. typeRow'[t].row.slug = SlugOf[edit'[r].read.name]
        BY <1>2, <1>3, <2>2
      <4> QED BY <4>1, <4>2
    <3> QED BY <3>1, <3>2
  <2> HIDE DEF t
  <2>5. \A u \in TypeIds : TypeExists(u)' => TypeExists(u)
    BY <1>2
  <2> QED BY <2>3, <2>4, <2>5 DEF SlugsFollowNames
<1>8. \A q \in TypeEdits : WrittenSlug(q)'
  BY <1>3 DEF WrittenSlug
<1>9. \A u \in TypeIds : \A q \in lastEdit'[u] : edit'[q].step = "done"
  BY <1>3, <1>6, ZenonT(60)
<1> QED BY <1>4, <1>5, <1>7, <1>8, <1>9

LEMMA EditFailsKeeps ==
    ASSUME IncidentTypesInv, NEW r \in TypeEdits, EditFails(r) PROVE IncidentTypesInv'
<1> USE DEF IncidentTypesInv
<1>1. /\ edit[r].step = "write" /\ UNCHANGED <<typeRow, lastEdit, incident>>
      /\ edit'[r].step = "failed" /\ \A q \in TypeEdits \ {r} : edit'[q] = edit[q]
  BY DEF EditFails, IncidentTypesTypeOK
<1>2. IncidentTypesTypeOK'
  BY DEF EditFails, IncidentTypesTypeOK
<1>3. \A u \in TypeIds : \A q \in lastEdit[u] : q \in TypeEdits \ {r}
  BY <1>1 DEF IncidentTypesTypeOK
<1>4. SlugsFollowNames'
  BY <1>1, <1>3 DEF SlugsFollowNames, TypeExists
<1> QED BY <1>1, <1>2, <1>3, <1>4 DEF WrittenSlug, IncidentsHaveTypes, TypeExists

LEMMA DeleteTypeKeeps ==
    ASSUME IncidentTypesInv, NEW t \in TypeIds, DeleteType(t) PROVE IncidentTypesInv'
<1> USE DEF IncidentTypesInv
<1>1. /\ TypeExists(t) /\ ~Named(t) /\ UNCHANGED <<edit, lastEdit, incident>>
      /\ typeRow'[t].state = "deleted" /\ \A u \in TypeIds \ {t} : typeRow'[u] = typeRow[u]
  BY DEF DeleteType, IncidentTypesTypeOK
<1>2. IncidentTypesTypeOK'
  BY <1>1 DEF DeleteType, IncidentTypesTypeOK, TypeExists
<1>3. IncidentsHaveTypes'
  BY <1>1 DEF IncidentsHaveTypes, TypeExists, Named, IncidentTypesTypeOK
<1>4. SlugsFollowNames'
  BY <1>1 DEF SlugsFollowNames, TypeExists
<1> QED BY <1>1, <1>2, <1>3, <1>4 DEF WrittenSlug

LEMMA IncidentKeeps ==
    ASSUME IncidentTypesInv, NEW i \in Reports,
           AddIncident(i) \/ \E t \in TypeIds : FindIncidentType(i, t)
    PROVE  IncidentTypesInv'
<1> USE DEF IncidentTypesInv
<1>1. IncidentTypesTypeOK' /\ IncidentsHaveTypes'
  BY DEF AddIncident, FindIncidentType, IncidentTypesTypeOK, IncidentsHaveTypes, TypeExists
<1>2. SlugsFollowNames'
  BY DEF AddIncident, FindIncidentType, SlugsFollowNames, TypeExists
<1>3. /\ \A r \in TypeEdits : WrittenSlug(r)'
      /\ \A t \in TypeIds : \A r \in lastEdit'[t] : edit'[r].step = "done"
  BY DEF AddIncident, FindIncidentType, WrittenSlug
<1> QED BY <1>1, <1>2, <1>3

(***************************************************************************)
(* The inductive invariant of the types of incidents.                      *)
(***************************************************************************)
THEOREM IncidentTypesInductive == IncidentTypesSpec => []IncidentTypesInv
<1>1. ASSUME IncidentTypesInv, [IncidentTypesNext]_incidentTypeVars PROVE IncidentTypesInv'
  <2>1. CASE UNCHANGED incidentTypeVars
    BY <1>1, <2>1
    DEF incidentTypeVars, IncidentTypesInv, IncidentTypesTypeOK, IncidentsHaveTypes,
        SlugsFollowNames, WrittenSlug, TypeExists
  <2>2. CASE IncidentTypesNext
    BY <1>1, <2>2, CreateTypeKeeps, ReadTypeKeeps, WriteTypeKeeps, EditFailsKeeps,
       DeleteTypeKeeps, IncidentKeeps DEF IncidentTypesNext
  <2> QED BY <1>1, <2>1, <2>2
<1> QED BY <1>1, IncidentTypesInitInv, PTL DEF IncidentTypesSpec

(***************************************************************************)
(* Every incident has its type, whatever is deleted while it is filed.     *)
(***************************************************************************)
THEOREM TypesStay == IncidentTypesSpec => []IncidentsHaveTypes
<1>1. IncidentTypesInv => IncidentsHaveTypes
  BY DEF IncidentTypesInv
<1> QED BY <1>1, IncidentTypesInductive, PTL

(***************************************************************************)
(* A slug is never more than one rename behind the name of its type.       *)
(***************************************************************************)
THEOREM SlugsAreClose == IncidentTypesSpec => []SlugsFollowNames
<1>1. IncidentTypesInv => SlugsFollowNames
  BY DEF IncidentTypesInv
<1> QED BY <1>1, IncidentTypesInductive, PTL

-----------------------------------------------------------------------------
(***************************************************************************)
(* The inductive invariant.  Rows are read back whole and never change, so *)
(* the achievements a run has listed are still what it goes by; what a run *)
(* has found eligible was earned when it looked; and what it has listed    *)
(* and not inserted is still to do or was inserted by another run.         *)
(***************************************************************************)
Attributes == Required \union {"metadata", "version"}
Jsons == [criterion : [type : Types, operator : Operators, value : Int], keys : SUBSET Attributes]
Tables == [Achievements -> SUBSET Jsons]
Steps == {"none", "skipped", "list", "read", "check", "insert", "finished", "failed"}
States == [step : Steps, seen : Tables, counts : [Types -> 0 .. MaxCount],
           left : SUBSET Achievements, at : SUBSET Achievements]

TypeInv ==
    /\ criteria \in Tables
    /\ counter \in [Types -> 0 .. MaxCount]
    /\ unlocked \in [Achievements -> 0 .. 1]
    /\ engine \in [Runs -> States]
    /\ lease \in Runs \union {FreeLock}
    /\ earned \subseteq Achievements

ReadBack == \A a \in Achievements : \A j \in criteria[a] : ~Rejected(j)

DueIsEarned == Due(criteria, counter) \subseteq earned

\* What a run has listed is as it listed it.
ListedStays ==
    \A r \in Runs : engine[r].step \in {"read", "check", "insert", "finished"} =>
        \A a \in Achievements : engine[r].seen[a] # {} => criteria[a] = engine[r].seen[a]

ListedExists == \A r \in Runs : engine[r].step = "read" =>
                    \A a \in engine[r].left : Exists(a)

FoundIsEarned ==
    \A r \in Runs :
        /\ engine[r].step \in {"check", "insert"} => engine[r].left \subseteq earned
        /\ engine[r].step = "insert" => engine[r].at \subseteq earned

OneAtATime == \A r \in Runs : engine[r].step = "insert" =>
                  \E a \in Achievements : engine[r].at = {a}

\* a is unlocked, or r still has it to do.
Outstanding(r, a) ==
    \/ unlocked[a] > 0
    \/ a \in engine[r].left
    \/ engine[r].step = "insert" /\ a \in engine[r].at

NothingLeftOut ==
    \A r \in Runs :
        /\ engine[r].step = "read" =>
              \A a \in Achievements : engine[r].seen[a] # {} => Outstanding(r, a)
        /\ engine[r].step \in {"check", "insert"} =>
              \A a \in Due(engine[r].seen, engine[r].counts) : Outstanding(r, a)

IInv ==
    /\ TypeInv /\ ReadBack /\ DueIsEarned /\ ListedStays /\ ListedExists /\ FoundIsEarned
    /\ OneAtATime /\ NothingLeftOut /\ UnlockedWasEarned /\ FinishedRunUnlocksAll

-----------------------------------------------------------------------------
(***************************************************************************)
(* What CreateAchievement stores can be read back.                         *)
(***************************************************************************)
LEMMA StoredIsRead ==
    ASSUME NEW c PROVE ~Rejected(ToJSON(c)) /\ ToJSON(c).criterion = c
BY DEF Rejected, ToJSON, Required

(***************************************************************************)
(* Criteria that are read back whole hold exactly when the ones sent do.   *)
(***************************************************************************)
LEMMA EligibleIsDue ==
    ASSUME TypeInv, ReadBack, NEW counts, NEW a \in Achievements, Exists(a)
    PROVE  Eligible(Parsed(a), counts) <=> a \in Due(criteria, counts)
<1>1. Parsed(a) = {j.criterion : j \in criteria[a]}
  BY DEF Parsed, ReadBack
<1>2. Eligible(Parsed(a), counts) <=>
        \A j \in criteria[a] :
            Compare(counts[j.criterion.type], j.criterion.operator, j.criterion.value)
  BY <1>1 DEF Eligible
<1> QED BY <1>2 DEF Due, Exists

LEMMA InitInv == GamificationInit => IInv
<1> SUFFICES ASSUME GamificationInit PROVE IInv OBVIOUS
<1> USE OffersAssumption DEF GamificationInit
<1>1. /\ \A r \in Runs : engine[r].step = "none" /\ engine[r].left = {} /\ engine[r].at = {}
      /\ \A a \in Achievements : criteria[a] = {} /\ unlocked[a] = 0
  OBVIOUS
<1>2. TypeInv BY DEF TypeInv, Tables, States, Steps
<1>3. ReadBack /\ DueIsEarned /\ UnlockedWasEarned
  BY <1>1 DEF ReadBack, DueIsEarned, Due, UnlockedWasEarned
<1>4. ListedStays /\ ListedExists /\ FoundIsEarned /\ OneAtATime /\ NothingLeftOut
      /\ FinishedRunUnlocksAll
  BY <1>1 DEF ListedStays, ListedExists, FoundIsEarned, OneAtATime, NothingLeftOut,
              FinishedRunUnlocksAll
<1> QED BY <1>2, <1>3, <1>4 DEF IInv

-----------------------------------------------------------------------------
(***************************************************************************)
(* A new row is read back whole, and was there in no list of a run; the    *)
(* achievements it makes due are earned in the same step.                  *)
(***************************************************************************)
LEMMA StepCreate ==
    ASSUME IInv, NEW b \in Achievements, CreateAchievement(b) PROVE IInv'
<1> USE OffersAssumption DEF IInv
<1>1. PICK offer \in Offers :
          /\ criteria' = [criteria EXCEPT ![b] = {ToJSON(c) : c \in offer}]
          /\ earned' = earned \union Due(criteria', counter)
  BY DEF CreateAchievement
<1>2. /\ criteria[b] = {} /\ UNCHANGED <<counter, unlocked, engine, lease>>
  BY DEF CreateAchievement, Exists
<1>3. {ToJSON(c) : c \in offer} \in SUBSET Jsons
  <2>1. offer \subseteq [type : Types, operator : Operators, value : Int]
    OBVIOUS
  <2>2. \A c \in offer : ToJSON(c) \in Jsons
    BY <2>1 DEF Jsons, Attributes, ToJSON
  <2> QED BY <2>2
<1>4. /\ criteria' \in Tables /\ criteria'[b] = {ToJSON(c) : c \in offer}
      /\ \A a \in Achievements \ {b} : criteria'[a] = criteria[a]
  BY <1>1, <1>3 DEF TypeInv, Tables
<1>5. TypeInv' BY <1>1, <1>2, <1>4 DEF TypeInv, Due
<1>6. ReadBack'
  <2> SUFFICES ASSUME NEW a \in Achievements, NEW j \in criteria'[a] PROVE ~Rejected(j)
    BY DEF ReadBack, Rejected, Required
  <2>1. CASE a = b BY <2>1, <1>4, StoredIsRead
  <2>2. CASE a # b BY <2>2, <1>4 DEF ReadBack
  <2> QED BY <2>1, <2>2
<1>7. DueIsEarned' BY <1>1, <1>2 DEF DueIsEarned
<1>8. ListedStays' BY <1>2, <1>4 DEF ListedStays, TypeInv, States
<1>9. ListedExists' BY <1>2, <1>4 DEF ListedExists, Exists, TypeInv, States
<1>10. FoundIsEarned' /\ UnlockedWasEarned' BY <1>1, <1>2 DEF FoundIsEarned, UnlockedWasEarned
<1>11. OneAtATime' /\ NothingLeftOut' /\ FinishedRunUnlocksAll'
  BY <1>2 DEF OneAtATime, NothingLeftOut, Outstanding, FinishedRunUnlocksAll, Due
<1> QED BY <1>5, <1>6, <1>7, <1>8, <1>9, <1>10, <1>11

LEMMA StepCounter ==
    ASSUME IInv, NEW t \in Types, RefreshCounter(t) PROVE IInv'
<1> USE OffersAssumption DEF IInv
<1>1. PICK n \in 0 .. MaxCount : counter' = [counter EXCEPT ![t] = n]
  BY DEF RefreshCounter
<1>2. /\ earned' = earned \union Due(criteria, counter')
      /\ UNCHANGED <<criteria, unlocked, engine, lease>>
  BY DEF RefreshCounter
<1>3. TypeInv' BY <1>1, <1>2 DEF TypeInv, Due
<1>4. DueIsEarned' BY <1>2 DEF DueIsEarned
<1>5. ReadBack' /\ ListedStays' /\ ListedExists'
  BY <1>2 DEF ReadBack, Rejected, Required, ListedStays, ListedExists, Exists
<1>6. FoundIsEarned' /\ UnlockedWasEarned' BY <1>2 DEF FoundIsEarned, UnlockedWasEarned
<1>7. OneAtATime' /\ NothingLeftOut' /\ FinishedRunUnlocksAll'
  BY <1>2 DEF OneAtATime, NothingLeftOut, Outstanding, FinishedRunUnlocksAll, Due
<1> QED BY <1>3, <1>4, <1>5, <1>6, <1>7

-----------------------------------------------------------------------------
(***************************************************************************)
(* A step of the engine changes one run's state, perhaps the lock, and     *)
(* perhaps adds a row for what was earned.                                 *)
(***************************************************************************)
Others(r) ==
    /\ engine' \in [Runs -> States]
    /\ \A q \in Runs \ {r} : engine'[q] = engine[q]
    /\ lease' \in Runs \union {FreeLock}
    /\ unlocked' \in [Achievements -> 0 .. 1]
    /\ \A a \in Achievements : unlocked[a] > 0 => unlocked'[a] > 0
    /\ \A a \in Achievements : unlocked'[a] > 0 => a \in earned
    /\ criteria' = criteria /\ counter' = counter /\ earned' = earned

\* The invariant of one run.
RunInv(r) ==
    /\ engine[r].step \in {"read", "check", "insert", "finished"} =>
          \A a \in Achievements : engine[r].seen[a] # {} => criteria[a] = engine[r].seen[a]
    /\ engine[r].step = "read" => \A a \in engine[r].left : Exists(a)
    /\ engine[r].step \in {"check", "insert"} => engine[r].left \subseteq earned
    /\ engine[r].step = "insert" => engine[r].at \subseteq earned
    /\ engine[r].step = "insert" => \E a \in Achievements : engine[r].at = {a}
    /\ engine[r].step = "read" =>
          \A a \in Achievements : engine[r].seen[a] # {} => Outstanding(r, a)
    /\ engine[r].step \in {"check", "insert"} =>
          \A a \in Due(engine[r].seen, engine[r].counts) : Outstanding(r, a)
    /\ engine[r].step = "finished" =>
          \A a \in Due(engine[r].seen, engine[r].counts) : unlocked[a] > 0

LEMMA InvByRun ==
    IInv <=> /\ TypeInv /\ ReadBack /\ DueIsEarned /\ UnlockedWasEarned
             /\ \A r \in Runs : RunInv(r)
BY DEF IInv, RunInv, ListedStays, ListedExists, FoundIsEarned, OneAtATime, NothingLeftOut,
       FinishedRunUnlocksAll

LEMMA StepOfRun ==
    ASSUME IInv, NEW r \in Runs, Others(r), RunInv(r)' PROVE IInv'
<1>1. TypeInv' BY DEF IInv, TypeInv, Others
<1>2. ReadBack' /\ DueIsEarned' /\ UnlockedWasEarned'
  BY DEF IInv, ReadBack, Rejected, Required, DueIsEarned, Due, UnlockedWasEarned, Others,
         Compare, Operators
<1>3. ASSUME NEW q \in Runs \ {r} PROVE RunInv(q)'
  <2>1. RunInv(q) BY InvByRun
  <2>2. engine'[q] = engine[q] /\ criteria' = criteria /\ earned' = earned
    BY DEF Others
  <2>3. \A a \in Achievements : unlocked[a] > 0 => unlocked'[a] > 0
    BY DEF Others
  <2>4. Due(engine[q].seen, engine[q].counts) \subseteq Achievements
    BY DEF Due
  <2>5. \A a \in Achievements : Outstanding(q, a) => Outstanding(q, a)'
    BY <2>2, <2>3 DEF Outstanding
  <2> QED BY <2>1, <2>2, <2>3, <2>4, <2>5 DEF RunInv, Exists
<1>4. \A q \in Runs : RunInv(q)' BY <1>3
<1> QED BY <1>1, <1>2, <1>4 DEF IInv, RunInv, ListedStays, ListedExists, FoundIsEarned,
           OneAtATime, NothingLeftOut, FinishedRunUnlocksAll

LEMMA OneRunMoves ==
    ASSUME IInv, NEW r \in Runs, NEW s \in States, engine' = [engine EXCEPT ![r] = s],
           lease' \in Runs \union {FreeLock}, UNCHANGED <<criteria, counter, unlocked, earned>>
    PROVE  Others(r) /\ engine'[r] = s
BY DEF IInv, Others, TypeInv, UnlockedWasEarned

\* Getting the lock, missing it, and losing it to time change no list of a run.
LEMMA StepLock ==
    ASSUME IInv, NEW r \in Runs, AcquireLease(r) \/ SkipEvent(r) PROVE IInv'
<1> DEFINE s(step) == [step |-> step, seen |-> engine[r].seen, counts |-> engine[r].counts,
                       left |-> engine[r].left, at |-> engine[r].at]
<1>1. TypeInv /\ engine[r] \in States
  BY DEF IInv, TypeInv
<1>2. PICK step \in {"list", "skipped"} :
          /\ engine' = [engine EXCEPT ![r] = s(step)]
          /\ lease' \in Runs \union {FreeLock}
          /\ UNCHANGED <<criteria, counter, unlocked, earned>>
  BY <1>1 DEF AcquireLease, SkipEvent, TypeInv, States
<1>3. s(step) \in States
  BY <1>1 DEF States, Steps
<1>4. Others(r) /\ engine'[r] = s(step)
  BY <1>1, <1>2, <1>3, OneRunMoves
<1>5. RunInv(r)'
  BY <1>4 DEF RunInv
<1> QED BY <1>4, <1>5, StepOfRun

LEMMA StepExpire ==
    ASSUME IInv, LeaseExpires PROVE IInv'
BY DEF IInv, LeaseExpires, TypeInv, ReadBack, Rejected, DueIsEarned, ListedStays, ListedExists,
       Exists, FoundIsEarned, OneAtATime, NothingLeftOut, Outstanding, UnlockedWasEarned,
       FinishedRunUnlocksAll

LEMMA StepList ==
    ASSUME IInv, NEW r \in Runs, ListMissing(r) PROVE IInv'
<1> DEFINE missing == {a \in Achievements : Exists(a) /\ Readable(a) /\ unlocked[a] = 0}
           s == [step |-> "read", seen |-> criteria, counts |-> engine[r].counts,
                 left |-> missing, at |-> engine[r].at]
<1>1. TypeInv /\ engine[r] \in States
  BY DEF IInv, TypeInv
<1>2. missing \subseteq Achievements
  OBVIOUS
<1>3. \A a \in Achievements : criteria[a] # {} => a \in missing \/ unlocked[a] > 0
  <2>1. \A a \in Achievements : criteria[a] # {} => Exists(a) /\ Readable(a)
    BY DEF IInv, Exists, Readable, Parsed, ReadBack
  <2> QED BY <1>1, <2>1 DEF TypeInv
<1>4. \A a \in missing : Exists(a)
  OBVIOUS
<1>5. engine' = [engine EXCEPT ![r].step = "read", ![r].seen = criteria, ![r].left = missing]
  BY DEF ListMissing
<1> HIDE DEF missing
<1>6. engine'[r] = s /\ engine' = [engine EXCEPT ![r] = s]
  <2>1. engine'[r] = s
    BY <1>1, <1>5 DEF TypeInv, States
  <2>2. engine' = [engine EXCEPT ![r] = engine'[r]]
    BY <1>1, <1>5 DEF TypeInv
  <2> QED BY <2>1, <2>2
<1>7. s \in States
  BY <1>1, <1>2 DEF States, Steps, TypeInv
<1>8. Others(r) /\ engine'[r] = s /\ UNCHANGED unlocked
  BY <1>1, <1>6, <1>7, OneRunMoves DEF ListMissing, TypeInv
<1>9. RunInv(r)'
  BY <1>3, <1>4, <1>8 DEF RunInv, Others, Outstanding, Exists
<1> QED BY <1>8, <1>9, StepOfRun

(***************************************************************************)
(* Between the list and the filter the rows listed have not changed, so    *)
(* what the filter keeps is what is due of the list; and it is earned.     *)
(***************************************************************************)
LEMMA StepFilter ==
    ASSUME IInv, NEW r \in Runs, FilterEligible(r) PROVE IInv'
<1> DEFINE due == {a \in engine[r].left : Eligible(Parsed(a), counter)}
           s == [step |-> "check", seen |-> engine[r].seen, counts |-> counter,
                 left |-> due, at |-> engine[r].at]
<1>1. TypeInv /\ ReadBack /\ engine[r] \in States /\ engine[r].step = "read" /\ RunInv(r)
  BY InvByRun DEF IInv, TypeInv, FilterEligible
<1>2. due \subseteq Achievements
  BY <1>1 DEF States
<1>3. due \subseteq earned
  <2> SUFFICES ASSUME NEW a \in due PROVE a \in earned
    OBVIOUS
  <2>1. a \in Achievements /\ Exists(a)
    BY <1>1, <1>2 DEF RunInv
  <2>2. a \in Due(criteria, counter)
    BY <1>1, <2>1, EligibleIsDue
  <2> QED BY <2>2 DEF IInv, DueIsEarned
<1>4. \A a \in Due(engine[r].seen, counter) : a \in due \/ unlocked[a] > 0
  <2> SUFFICES ASSUME NEW a \in Due(engine[r].seen, counter), ~(unlocked[a] > 0)
               PROVE  a \in due
    OBVIOUS
  <2>1. a \in Achievements /\ engine[r].seen[a] # {}
    BY DEF Due
  <2>2. criteria[a] = engine[r].seen[a] /\ a \in engine[r].left
    BY <1>1, <2>1 DEF RunInv, Outstanding
  <2>3. a \in Due(criteria, counter) /\ Exists(a)
    BY <2>1, <2>2 DEF Due, Exists
  <2> QED BY <1>1, <2>1, <2>2, <2>3, EligibleIsDue
<1>5. engine' = [engine EXCEPT ![r].step = "check", ![r].counts = counter, ![r].left = due]
  BY <1>1 DEF FilterEligible, TypeInv, States
<1> HIDE DEF due
<1>6. engine'[r] = s /\ engine' = [engine EXCEPT ![r] = s]
  <2>1. engine'[r] = s
    BY <1>1, <1>5 DEF TypeInv, States
  <2>2. engine' = [engine EXCEPT ![r] = engine'[r]]
    BY <1>1, <1>5 DEF TypeInv
  <2> QED BY <2>1, <2>2
<1>7. s \in States
  BY <1>1, <1>2 DEF States, Steps, TypeInv
<1>8. Others(r) /\ engine'[r] = s /\ UNCHANGED unlocked
  BY <1>1, <1>6, <1>7, OneRunMoves DEF FilterEligible, TypeInv
<1>9. RunInv(r)'
  BY <1>1, <1>3, <1>4, <1>8 DEF RunInv, Others, Outstanding
<1> QED BY <1>8, <1>9, StepOfRun

LEMMA StepCheck ==
    ASSUME IInv, NEW r \in Runs, NEW a \in Achievements, CheckExists(r, a) PROVE IInv'
<1> DEFINE s == [step |-> IF unlocked[a] > 0 THEN "check" ELSE "insert",
                 seen |-> engine[r].seen, counts |-> engine[r].counts,
                 left |-> engine[r].left \ {a}, at |-> {a}]
<1>1. /\ TypeInv /\ engine[r] \in States /\ RunInv(r)
      /\ engine[r].step = "check" /\ a \in engine[r].left
  BY InvByRun DEF IInv, TypeInv, CheckExists
<1>2. engine'[r] = s /\ engine' = [engine EXCEPT ![r] = s]
  <2>1. engine'[r] = s
    BY <1>1 DEF CheckExists, TypeInv, States
  <2>2. engine' = [engine EXCEPT ![r] = engine'[r]]
    BY <1>1 DEF CheckExists, TypeInv
  <2> QED BY <2>1, <2>2
<1>3. s \in States
  BY <1>1 DEF States, Steps
<1>4. Others(r) /\ UNCHANGED unlocked
  BY <1>1, <1>2, <1>3, OneRunMoves DEF CheckExists, TypeInv
<1>5. RunInv(r)'
  BY <1>1, <1>2, <1>4 DEF RunInv, Others, Outstanding
<1> QED BY <1>4, <1>5, StepOfRun

(***************************************************************************)
(* The unique index lets one row in; the achievement was found eligible,   *)
(* so it was earned.                                                       *)
(***************************************************************************)
LEMMA StepInsert ==
    ASSUME IInv, NEW r \in Runs, InsertUnlocked(r) PROVE IInv'
<1> DEFINE s == [step |-> "check", seen |-> engine[r].seen, counts |-> engine[r].counts,
                 left |-> engine[r].left, at |-> {}]
<1>1. TypeInv /\ engine[r] \in States /\ RunInv(r) /\ engine[r].step = "insert"
  BY InvByRun DEF IInv, TypeInv, InsertUnlocked
<1>2. PICK a \in engine[r].at :
          /\ ~Refused(a)
          /\ unlocked' = [unlocked EXCEPT ![a] = @ + 1]
          /\ engine' = [engine EXCEPT ![r].step = "check", ![r].at = {}]
  BY DEF InsertUnlocked
<1>3. engine[r].at = {a} /\ a \in Achievements /\ a \in earned
  BY <1>1 DEF RunInv
<1>4. engine'[r] = s /\ s \in States
  BY <1>1, <1>2 DEF TypeInv, States, Steps
<1>5. unlocked[a] = 0 /\ unlocked' = [unlocked EXCEPT ![a] = 1]
  <2>1. unlocked[a] \in 0 .. 1
    BY <1>1, <1>3 DEF TypeInv
  <2>2. unlocked[a] = 0
    BY <1>2, <2>1 DEF Refused
  <2> QED BY <1>2, <2>2
<1>6. /\ engine' \in [Runs -> States]
      /\ \A q \in Runs \ {r} : engine'[q] = engine[q]
  BY <1>1, <1>2, <1>4 DEF TypeInv
<1>7. Others(r)
  BY <1>1, <1>3, <1>5, <1>6 DEF Others, InsertUnlocked, IInv, TypeInv, UnlockedWasEarned
<1>8. Due(engine[r].seen, engine[r].counts) \subseteq Achievements
  BY DEF Due
<1>9. RunInv(r)'
  BY <1>1, <1>3, <1>4, <1>5, <1>7, <1>8 DEF RunInv, Others, Outstanding, TypeInv
<1> QED BY <1>7, <1>9, StepOfRun

LEMMA StepEnd ==
    ASSUME IInv, NEW r \in Runs, FinishRun(r) \/ FailRun(r) PROVE IInv'
<1> DEFINE s(step) == [step |-> step, seen |-> engine[r].seen, counts |-> engine[r].counts,
                       left |-> {}, at |-> {}]
<1>1. TypeInv /\ engine[r] \in States /\ RunInv(r)
  BY InvByRun DEF IInv, TypeInv
<1>2. PICK step \in {"finished", "failed"} :
          /\ engine'[r] = s(step) /\ engine' = [engine EXCEPT ![r] = s(step)]
          /\ step = "finished" => engine[r].step = "check" /\ engine[r].left = {}
  <2>1. CASE FinishRun(r)
    <3>1. engine'[r] = s("finished") /\ engine[r].step = "check" /\ engine[r].left = {}
      BY <1>1, <2>1 DEF FinishRun, TypeInv, States
    <3>2. engine' = [engine EXCEPT ![r] = engine'[r]]
      BY <1>1, <2>1 DEF FinishRun, TypeInv
    <3> QED BY <3>1, <3>2
  <2>2. CASE FailRun(r)
    <3>1. engine'[r] = s("failed")
      BY <1>1, <2>2 DEF FailRun, TypeInv, States
    <3>2. engine' = [engine EXCEPT ![r] = engine'[r]]
      BY <1>1, <2>2 DEF FailRun, TypeInv
    <3> QED BY <3>1, <3>2
  <2> QED BY <2>1, <2>2
<1>3. /\ lease' \in Runs \union {FreeLock}
      /\ UNCHANGED <<criteria, counter, unlocked, earned>>
  BY <1>1 DEF FinishRun, FailRun, Release, TypeInv
<1>4. s(step) \in States
  BY <1>1 DEF States, Steps
<1>5. Others(r)
  BY <1>2, <1>3, <1>4, OneRunMoves
<1>6. RunInv(r)'
  BY <1>1, <1>2, <1>3 DEF RunInv, Outstanding
<1> QED BY <1>5, <1>6, StepOfRun

-----------------------------------------------------------------------------
(***************************************************************************)
(* The inductive invariant holds in every reachable state.                 *)
(***************************************************************************)
THEOREM GamificationInductive == GamificationSpec => []IInv
<1>1. ASSUME IInv, [GamificationNext]_gamificationVars PROVE IInv'
  <2>1. CASE UNCHANGED gamificationVars
    BY <1>1, <2>1 DEF gamificationVars, IInv, TypeInv, ReadBack, Rejected, DueIsEarned,
       ListedStays, ListedExists, Exists, FoundIsEarned, OneAtATime, NothingLeftOut, Outstanding,
       UnlockedWasEarned, FinishedRunUnlocksAll
  <2>2. CASE GamificationNext
    BY <1>1, <2>2, StepCreate, StepCounter, StepLock, StepExpire, StepList, StepFilter,
       StepCheck, StepInsert, StepEnd DEF GamificationNext
  <2> QED BY <1>1, <2>1, <2>2
<1> QED BY <1>1, InitInv, PTL DEF GamificationSpec

(***************************************************************************)
(* The variables of gamification have their types.                         *)
(***************************************************************************)
THEOREM GamificationTypes == GamificationSpec => []GamificationTypeOK
<1>1. IInv => GamificationTypeOK
  BY DEF IInv, TypeInv, GamificationTypeOK, Tables, States, Steps
<1> QED BY <1>1, GamificationInductive, PTL

(***************************************************************************)
(* However leases expire and runs overlap, an achievement is unlocked at   *)
(* most once.                                                              *)
(***************************************************************************)
THEOREM NeverTwice == GamificationSpec => []UnlockedOnce
<1>1. IInv => UnlockedOnce BY DEF IInv, TypeInv, UnlockedOnce
<1> QED BY <1>1, GamificationInductive, PTL

(***************************************************************************)
(* What is unlocked was earned, whatever the counters do between the       *)
(* engine's reads and its inserts.                                         *)
(***************************************************************************)
THEOREM AlwaysEarned == GamificationSpec => []UnlockedWasEarned
<1>1. IInv => UnlockedWasEarned BY DEF IInv
<1> QED BY <1>1, GamificationInductive, PTL

(***************************************************************************)
(* A run that finishes leaves out nothing that it listed and that the      *)
(* counters it read meet.                                                  *)
(***************************************************************************)
THEOREM FinishedIsComplete == GamificationSpec => []FinishedRunUnlocksAll
<1>1. IInv => FinishedRunUnlocksAll BY DEF IInv
<1> QED BY <1>1, GamificationInductive, PTL

(***************************************************************************)
(* The types of the policies' part.                                        *)
(***************************************************************************)
THEOREM PoliciesTypes == PoliciesSpec => []PoliciesTypeOK
<1> DEFINE Inv == PoliciesInv /\ shown \subseteq Policies /\ check \in [Checks -> PolicyChecks]
<1>1. PoliciesInit => Inv
  BY PoliciesInitInv DEF PoliciesInit, PolicyChecks
<1>2. ASSUME Inv, PoliciesInv', [PoliciesNext]_policyVars PROVE Inv'
  <2>1. CASE \E p \in Policies : Publish(p) \/ EditContent(p) \/ Withdraw(p)
    BY <1>2, <2>1 DEF Publish, EditContent, Withdraw
  <2>2. CASE \E r \in Accepts :
               \/ \E p \in Policies : ReadPolicy(r, p)
               \/ ReadAgreement(r) \/ NothingToAccept(r) \/ UpsertAgreement(r)
    BY <1>2, <2>2 DEF ReadPolicy, ReadAgreement, NothingToAccept, UpsertAgreement, AnswerAccept
  <2>3. ASSUME NEW c \in Checks, CheckLatest(c) PROVE Inv'
    <3> DEFINE begun == [step |-> "latest", latest |-> FindLatestPolicies, missing |-> {},
                         newest |-> Newest, agreed |-> {p \in Policies : agreement[p] > 0}]
    <3>1. check' = [check EXCEPT ![c] = begun] /\ shown' = shown
      BY <2>3 DEF CheckLatest
    <3>2. begun \in PolicyChecks
      BY <1>2 DEF PolicyChecks, FindLatestPolicies, Newest
    <3> HIDE DEF begun
    <3> QED BY <1>2, <3>1, <3>2
  <2>4. ASSUME NEW c \in Checks, CheckAgreements(c) PROVE Inv'
    <3> DEFINE missing == {p \in check[c].latest : agreement[p] = 0}
    <3>1. check' = [check EXCEPT ![c].step = "done", ![c].missing = missing] /\ shown' = shown
      BY <2>4 DEF CheckAgreements
    <3>2. check[c] \in PolicyChecks /\ missing \subseteq Policies
      BY <1>2 DEF PolicyChecks
    <3> HIDE DEF missing
    <3> QED BY <1>2, <3>1, <3>2 DEF PolicyChecks
  <2>5. CASE UNCHANGED policyVars
    BY <1>2, <2>5 DEF policyVars
  <2> QED BY <1>2, <2>1, <2>2, <2>3, <2>4, <2>5 DEF PoliciesNext
<1>3. Inv => PoliciesTypeOK
  BY DEF PoliciesInv, PolicyRowsOK, Acceptances, PolicyChecks, PoliciesTypeOK
<1> QED BY <1>1, <1>2, <1>3, PoliciesInductive, PTL DEF PoliciesSpec

-----------------------------------------------------------------------------
(***************************************************************************)
(* The parts together.  None of them shares state with another: a step of  *)
(* one leaves the others as they are, so that each, alone, does what its   *)
(* own specification says.                                                 *)
(***************************************************************************)
THEOREM EachPartRunsAsAlone ==
    Spec => /\ ReportsSpec /\ ObservationsSpec /\ AlertsSpec /\ GamificationSpec
            /\ PoliciesSpec /\ ViewsSpec /\ ListingSpec /\ AvatarSpec /\ IncidentTypesSpec
<1>1. Init => /\ ReportsInit /\ ObservationsInit /\ AlertsInit /\ GamificationInit
              /\ PoliciesInit /\ ViewsInit /\ ListingInit /\ AvatarInit /\ IncidentTypesInit
  BY DEF Init
<1>2. [Next]_vars => /\ [ReportsNext]_report /\ [ObservationsNext]_observationVars
                     /\ [AlertsNext]_alertVars
                     /\ [GamificationNext]_gamificationVars /\ [PoliciesNext]_policyVars
                     /\ [ViewsNext]_viewVars /\ [ListingNext]_listingVars
                     /\ [AvatarNext]_avatarVars /\ [IncidentTypesNext]_incidentTypeVars
  BY DEF Next, vars
<1> QED BY <1>1, <1>2, PTL
    DEF Spec, ReportsSpec, ObservationsSpec, AlertsSpec, GamificationSpec, PoliciesSpec, ViewsSpec,
        ListingSpec, AvatarSpec, IncidentTypesSpec

(***************************************************************************)
(* The types of all the parts, with the two promises that the keys of the  *)
(* tables make: no achievement is unlocked twice, and no incident is of a  *)
(* type that has gone.                                                     *)
(***************************************************************************)
THEOREM PlatformTypes == Spec => []TypeOK
<1>1. AlertsInv => AlertsTypeOK
  BY DEF AlertsInv
<1>2. ObservationsInv => ObservationsTypeOK
  BY DEF ObservationsInv
<1>3. AvatarInv => AvatarTypeOK
  BY DEF AvatarInv
<1>4. IncidentTypesInv => IncidentTypesTypeOK /\ IncidentsHaveTypes
  BY DEF IncidentTypesInv
<1>5. ObservationsSpec => []ObservationsInv
  BY ObservationsInitInv, ObservationsStep, PTL DEF ObservationsSpec
<1> QED BY <1>1, <1>2, <1>3, <1>4, <1>5, AlertsInductive, AvatarInductive, IncidentTypesInductive,
        GamificationTypes, NeverTwice, PoliciesTypes, ViewsTypesHold, ListingTypes,
        EachPartRunsAsAlone, PTL DEF TypeOK

\* The invariants of the run, all of them.
PlatformSafe ==
    /\ TypeOK
    /\ RainWindowsNest /\ RainIsExact /\ SeriesAddUp /\ PointsAreBounded
    /\ ObservationIsRecent /\ AlertsOfOneWebhook
    /\ UnlockedWasEarned /\ FinishedRunUnlocksAll
    /\ CheckedAgainstNewest /\ AnsweredConsentStands
    /\ CooldownHolds /\ NoPostIsMissed /\ NoPostTwice
    /\ ShownAvatars /\ SlugsFollowNames

(***************************************************************************)
(* Every promise of every part, in the one specification that runs them    *)
(* side by side: no part's step takes anything from what another promises. *)
(***************************************************************************)
THEOREM PlatformIsSafe == ASSUME VersionsAlike PROVE Spec => []PlatformSafe
<1>1. /\ ReportsSpec => [](RainWindowsNest /\ RainIsExact /\ SeriesAddUp /\ PointsAreBounded)
      /\ ObservationsSpec => []ObservationIsRecent
      /\ AlertsSpec => []AlertsOfOneWebhook
      /\ GamificationSpec => [](UnlockedWasEarned /\ FinishedRunUnlocksAll)
      /\ PoliciesSpec => [](CheckedAgainstNewest /\ AnsweredConsentStands)
  BY RainNests, RainExactly, WindowsAddUp, PointsStayBounded, NeverTooOld,
     NeverAMixture, AlwaysEarned, FinishedIsComplete, ChecksAreRight, ConsentStands, PTL
<1>2. /\ ViewsSpec => []CooldownHolds
      /\ ListingSpec => [](NoPostIsMissed /\ NoPostTwice)
      /\ AvatarSpec => []ShownAvatars
      /\ IncidentTypesSpec => []SlugsFollowNames
  BY ViewsAreApart, NoPostIsMissedHolds, NoPostTwiceHolds, OneAvatarIsShown, SlugsAreClose, PTL
<1> QED BY <1>1, <1>2, PlatformTypes, EachPartRunsAsAlone, PTL DEF PlatformSafe
=============================================================================
