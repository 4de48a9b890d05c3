------------------------------ MODULE ViewCooldown ------------------------------
(***************************************************************************)
(* Counting the views of a post.  Whoever reads a post publishes           *)
(* post.viewed; the handler counts it with RateLimitService.runIfAllowed:  *)
(* is there a recent action under the key of user and post?  if not, count *)
(* and then register the action.  Between the three calls other handlers   *)
(* of the same user run: one event reaches every process that subscribes.  *)
(* The module is about one post and one user.                              *)
(***************************************************************************)
EXTENDS Integers

CONSTANTS
    Handlers,       \* runs of handlePostView
    Cooldown,       \* viewsCoolDownMs, in ticks
    TicksPerSecond, \* Redis keeps keys for whole seconds
    LastTick        \* bound of the clock

ASSUME CooldownAssumption ==
    Cooldown \in Nat /\ TicksPerSecond \in Nat \ {0} /\ LastTick \in Nat

VARIABLES
    tick,
    action,     \* the key: when it was set, and when Redis drops it; NoAction without one
    views,      \* the column
    handler     \* per run: step, when it counted, whether another was under way

viewVars == <<tick, action, views, handler>>

NoAction == [at |-> -1, until |-> 0]
Underway(h) == handler[h].step \in {"allowed", "counted"}

\* Mutant of Seconds: rounded down.
SecondsDown(ticks) == ticks \div TicksPerSecond

\* Mutant of Seconds: milliseconds taken for seconds.
SecondsUndivided(ticks) == ticks

\* Math.ceil(ttlMs / 1000)
Seconds(ticks) == (ticks + TicksPerSecond - 1) \div TicksPerSecond

\* isRateLimited
IsRateLimited == action # NoAction /\ tick < action.until /\ tick - action.at < Cooldown

\* Others of the user's runs are under way when one begins.
Meet(h) ==
    [g \in Handlers |->
        IF g = h THEN [step |-> "allowed", at |-> -1, met |-> \E k \in Handlers : Underway(k)]
        ELSE IF Underway(g) THEN [handler[g] EXCEPT !.met = TRUE] ELSE handler[g]]

AllowView(h) ==
    /\ handler[h].step = "none" /\ ~IsRateLimited
    /\ handler' = Meet(h)
    /\ UNCHANGED <<tick, action, views>>

RefuseView(h) ==
    /\ handler[h].step = "none" /\ IsRateLimited
    /\ handler' = [handler EXCEPT ![h].step = "refused"]
    /\ UNCHANGED <<tick, action, views>>

\* postRepository.incrementViews
IncrementViews(h) ==
    /\ handler[h].step = "allowed"
    /\ views' = views + 1
    /\ handler' = [handler EXCEPT ![h].step = "counted", ![h].at = tick]
    /\ UNCHANGED <<tick, action>>

RegisterAction(h) ==
    /\ handler[h].step = "counted"
    /\ action' = [at |-> tick, until |-> tick + Seconds(Cooldown) * TicksPerSecond]
    /\ handler' = [handler EXCEPT ![h].step = "done"]
    /\ UNCHANGED <<tick, views>>

\* The process dies, or Redis or the database fails: the next view counts again.
LoseView(h) ==
    /\ Underway(h)
    /\ handler' = [handler EXCEPT ![h].step = "lost"]
    /\ UNCHANGED <<tick, action, views>>

ViewsTick ==
    /\ tick < LastTick
    /\ tick' = tick + 1
    /\ UNCHANGED <<action, views, handler>>

ViewsInit ==
    /\ tick = 0 /\ action = NoAction /\ views = 0
    /\ handler = [h \in Handlers |-> [step |-> "none", at |-> -1, met |-> FALSE]]

ViewsNext ==
    \/ \E h \in Handlers :
          \/ AllowView(h) \/ RefuseView(h) \/ IncrementViews(h) \/ RegisterAction(h) \/ LoseView(h)
    \/ ViewsTick

ViewsSpec == ViewsInit /\ [][ViewsNext]_viewVars

ViewsTypeOK ==
    /\ tick \in 0 .. LastTick /\ views \in Nat
    /\ action \in [at : -1 .. LastTick, until : 0 .. LastTick + Cooldown + TicksPerSecond]
    /\ handler \in [Handlers -> [step : {"none", "allowed", "refused", "counted", "done", "lost"},
                                 at : -1 .. LastTick, met : BOOLEAN]]

(***************************************************************************)
(* A view is counted after another of the same user only when the cooldown *)
(* has passed, unless the runs that counted them overlapped: then the      *)
(* second asked before the first had registered.  A run that is lost       *)
(* between its count and the registration protects nothing.                *)
(***************************************************************************)
CooldownHolds ==
    \A h, g \in Handlers :
        /\ handler[h].step = "done" /\ ~handler[h].met
        /\ handler[g].step \in {"counted", "done"} /\ handler[h].at < handler[g].at
        => handler[g].at - handler[h].at >= Cooldown
=============================================================================
