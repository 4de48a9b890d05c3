-------------------------- MODULE CivilDefenseAlerts --------------------------
(***************************************************************************)
(* Alerts of the civil defense.  A partner calls the webhook; its handler  *)
(* fetches the list of alerts of another service and, in one transaction,  *)
(* makes every alert inactive and adds or updates those of the list.       *)
(* Readers ask for the active alerts of the moment.  Webhooks overlap.     *)
(***************************************************************************)
EXTENDS Integers, FiniteSets

CONSTANTS
    Alerts,         \* external references
    StartAt, ValidAt,   \* an alert's start_at and valid_at
    Webhooks,       \* calls of the webhook
    MaxTime         \* bound of the clock

ASSUME AlertsAssumption ==
    /\ StartAt \in [Alerts -> Int] /\ ValidAt \in [Alerts -> Int] /\ MaxTime \in Nat

VARIABLES
    clock,
    upstream,   \* the list of the other service
    alert,      \* [Alerts -> status of the row, or "none"]
    webhook,    \* per call: step, list fetched, rows as the transaction has them, upserts left
    latest      \* the webhook that committed last: its list and when it was fetched

alertVars == <<clock, upstream, alert, webhook, latest>>

Open(a, t) == StartAt[a] <= t /\ t <= ValidAt[a]

\* The status is computed when the list is fetched.
StatusAt(a, t) == IF Open(a, t) THEN "ACTIVE" ELSE "INACTIVE"

NoWebhook == [step |-> "none", list |-> {}, at |-> 0, rows |-> [a \in Alerts |-> "none"], left |-> {}]

\* TelemetriaGpicmAlertsRepository.listAll: a list that breaks the contract is
\* taken for an empty one; an answer that is not 200, or none, is an error.
Fetched == {upstream, {}}

FetchAlerts(w) ==
    /\ webhook[w].step = "none"
    /\ \E list \in Fetched :
          webhook' = [webhook EXCEPT ![w].step = "fetched", ![w].list = list, ![w].at = clock]
    /\ UNCHANGED <<clock, upstream, alert, latest>>

\* The update of all rows locks them until the transaction ends.
Locked == \E w \in Webhooks : webhook[w].step = "tx"

Inactive(rows) == [a \in Alerts |-> IF rows[a] = "none" THEN "none" ELSE "INACTIVE"]

\* Mutant of InactiveAll: without the transaction's client.
InactiveAllAtOnce(w) ==
    /\ webhook[w].step = "fetched" /\ ~Locked
    /\ alert' = Inactive(alert)
    /\ webhook' = [webhook EXCEPT ![w].step = "tx", ![w].rows = Inactive(alert),
                                  ![w].left = webhook[w].list]
    /\ UNCHANGED <<clock, upstream, latest>>

\* civilDefenseAlertsRepository.inactiveAll({ txContext })
InactiveAll(w) ==
    /\ webhook[w].step = "fetched" /\ ~Locked
    /\ webhook' = [webhook EXCEPT ![w].step = "tx", ![w].rows = Inactive(alert),
                                  ![w].left = webhook[w].list]
    /\ UNCHANGED <<clock, upstream, alert, latest>>

\* The upserts of Promise.all, in any order.
Upsert(w, a) ==
    /\ webhook[w].step = "tx" /\ a \in webhook[w].left
    /\ webhook' = [webhook EXCEPT ![w].rows[a] = StatusAt(a, webhook[w].at), ![w].left = @ \ {a}]
    /\ UNCHANGED <<clock, upstream, alert, latest>>

CommitAlerts(w) ==
    /\ webhook[w].step = "tx" /\ webhook[w].left = {}
    /\ alert' = webhook[w].rows
    /\ latest' = [list |-> webhook[w].list, at |-> webhook[w].at]
    /\ webhook' = [webhook EXCEPT ![w] = [NoWebhook EXCEPT !.step = "done"]]
    /\ UNCHANGED <<clock, upstream>>

\* The fetch fails, a query fails, the transaction runs out of time, or the
\* process dies: nothing of the transaction stays.
WebhookFails(w) ==
    /\ webhook[w].step \in {"none", "fetched", "tx"}
    /\ webhook' = [webhook EXCEPT ![w] = [NoWebhook EXCEPT !.step = "done"]]
    /\ UNCHANGED <<clock, upstream, alert, latest>>

\* GET /alerts
ListAlerts == {a \in Alerts : alert[a] = "ACTIVE" /\ Open(a, clock)}

\* The other service changes its list; time passes.
ChangeUpstream ==
    /\ \E list \in SUBSET Alerts \ {upstream} : upstream' = list
    /\ UNCHANGED <<clock, alert, webhook, latest>>

AlertsTick ==
    /\ clock < MaxTime
    /\ clock' = clock + 1
    /\ UNCHANGED <<upstream, alert, webhook, latest>>

AlertsInit ==
    /\ clock = 0
    /\ upstream = {}
    /\ alert = [a \in Alerts |-> "none"]
    /\ webhook = [w \in Webhooks |-> NoWebhook]
    /\ latest = [list |-> {}, at |-> 0]

AlertsNext ==
    \/ \E w \in Webhooks :
          \/ FetchAlerts(w) \/ InactiveAll(w) \/ CommitAlerts(w) \/ WebhookFails(w)
          \/ \E a \in Alerts : Upsert(w, a)
    \/ ChangeUpstream \/ AlertsTick

AlertsSpec == AlertsInit /\ [][AlertsNext]_alertVars

AlertsTypeOK ==
    /\ clock \in 0 .. MaxTime /\ upstream \subseteq Alerts
    /\ alert \in [Alerts -> {"none", "ACTIVE", "INACTIVE"}]
    /\ webhook \in [Webhooks -> [step : {"none", "fetched", "tx", "done"}, list : SUBSET Alerts,
                                 at : 0 .. MaxTime, left : SUBSET Alerts,
                                 rows : [Alerts -> {"none", "ACTIVE", "INACTIVE"}]]]
    /\ latest \in [list : SUBSET Alerts, at : 0 .. MaxTime]

(***************************************************************************)
(* What readers see is never a mixture of two webhooks, nor of half a one: *)
(* it is what the list of the webhook that committed last held open when   *)
(* it was fetched and is still open.  (An alert fetched before it starts   *)
(* is therefore not seen until another webhook comes; and of webhooks that *)
(* overlap the last to commit wins, not the last to fetch.)                *)
(***************************************************************************)
AlertsOfOneWebhook ==
    ListAlerts = {a \in latest.list : Open(a, latest.at) /\ Open(a, clock)}
=============================================================================
