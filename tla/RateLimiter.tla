----------------------------- MODULE RateLimiter -----------------------------
(***************************************************************************)
(* The rate limiter, soroban/src/rate_limiter.rs: how much and how often a *)
(* user may transfer per day, week and month, by limits that move with the *)
(* user's risk, tenure and place on the whitelist, and by global limits.   *)
(*                                                                         *)
(* A call is one action.  A window is a counter and the time it started:   *)
(* it starts again with the first use after it is over, each of the three  *)
(* by itself.  A refused use still writes: it starts the user's cooldown,  *)
(* counts a breach and starts elapsed windows again.                       *)
(*                                                                         *)
(* Left out: events, error codes, timestamps nobody reads.                 *)
(***************************************************************************)
EXTENDS Integers, Sequences, FiniteSets, Functions, FiniteSetsExt, SequencesExt

CONSTANTS
    User,
    Length,             \* DAY_SECS, WEEK_SECS, MONTH_SECS: shrunk, in their order
    DefaultLimits, DefaultGlobal, DefaultCooldown,
    LimitChoices, GlobalChoices, CooldownChoices,   \* bound: what the administrator sets
    RiskChoices, AnomalyChoices, ReductionChoices,  \* bound: in basis points
    Tenure,             \* GRADUATED_TENURE_SECS
    MaxHistory,         \* MAX_USAGE_HISTORY
    Amounts,            \* bound: amounts of transfers
    MaxUses,            \* bound: transfers allowed, all users
    MaxChanges,         \* bound: calls of the administrator
    MaxBreaches, MaxTrips, MaxNow

Bps == 10000
Window == {"daily", "weekly", "monthly"}
GlobalWindow == {"daily", "weekly"}

VARIABLES
    now,
    default_limits, global_limits, cooldown_duration, emergency_mode,
    anomaly_score, tripped, trip_count,
    user_limits,        \* custom limits, or NoLimits
    whitelisted, risk, usage, global_usage, history,
    spent,              \* history: every transfer that was allowed
    limiter_changes     \* bound: calls of the administrator so far

limiterVars == <<default_limits, global_limits, cooldown_duration, emergency_mode,
                 anomaly_score, tripped, trip_count, user_limits, whitelisted, risk,
                 usage, global_usage, history, spent, limiter_changes>>
adminVars == <<default_limits, global_limits, cooldown_duration, emergency_mode,
               anomaly_score, tripped, trip_count, user_limits, whitelisted>>
vars == <<now, limiterVars>>

NoLimits == [value |-> <<>>, count |-> <<>>]
NoUsage == [cooldown_until |-> 0, windows |-> <<>>]
EmptyWindow == [value |-> 0, count |-> 0, start |-> now]

\* The limits an administrator may set, and what the constants are.
Limits == [value : [Window -> Int], count : [Window -> Int]]
LimiterConstants ==
    /\ IsFiniteSet(User)
    /\ Length \in [Window -> Nat \ {0}]
    /\ {DefaultLimits} \cup LimitChoices \subseteq Limits
    /\ {DefaultGlobal} \cup GlobalChoices \subseteq [GlobalWindow -> Int]
    /\ \A w \in Window : DefaultLimits.value[w] > 0
    /\ {DefaultCooldown} \cup CooldownChoices \subseteq Nat
    /\ RiskChoices \subseteq Nat /\ AnomalyChoices \subseteq Nat
    /\ ReductionChoices \subseteq Nat /\ Amounts \subseteq Nat
    /\ Tenure \in Nat \ {0} /\ MaxHistory \in Nat \ {0}
    /\ MaxNow \in Nat /\ MaxTrips \in Nat /\ MaxBreaches \in Nat

\* What the limiter assumes of a user it has no usage of.
FreshUsage ==
    [windows |-> [w \in Window |-> EmptyWindow], cooldown_until |-> 0,
     lifetime_value |-> 0, lifetime_count |-> 0, first_activity |-> now]

UsageOf(u) == IF usage[u] = NoUsage THEN FreshUsage ELSE usage[u]

Init ==
    /\ now = 0
    /\ default_limits = DefaultLimits
    /\ global_limits = DefaultGlobal
    /\ cooldown_duration = DefaultCooldown
    /\ emergency_mode = FALSE
    /\ anomaly_score = 0 /\ tripped = FALSE /\ trip_count = 0
    /\ user_limits = [u \in User |-> NoLimits]
    /\ whitelisted = {}
    /\ risk = [u \in User |-> [breach_count |-> 0, factor |-> Bps]]
    /\ usage = [u \in User |-> NoUsage]
    /\ global_usage = [w \in GlobalWindow |-> [value |-> 0, count |-> 0, start |-> 0]]
    /\ history = [u \in User |-> <<>>]
    /\ spent = <<>>
    /\ limiter_changes = 0
-----------------------------------------------------------------------------
\* calculate_adjustment_factor: from 120 % at a low risk to 50 % at a high one.
AdjustmentFactor(score) ==
    CASE score <= 2000 -> 12000
      [] score >= 7000 -> 5000
      [] OTHER -> 12000 - ((score - 2000) * 7000) \div 5000

\* 5 % for each interval of tenure, at most 50 %.
TenureBonus(u) ==
    IF usage[u] = NoUsage \/ now - usage[u].first_activity < Tenure THEN 0
    ELSE Min({((now - usage[u].first_activity) \div Tenure) * 500, 5000})

AtLeastOne(v) == Max({v, 1})

\* compute_effective_limits.
EffectiveLimits(u) ==
    LET base == IF user_limits[u] = NoLimits THEN default_limits ELSE user_limits[u]
        times == IF u \in whitelisted THEN 2 ELSE 1
        risked(v) == (v * times * risk[u].factor) \div Bps
    IN  [value |-> [w \in Window |->
                       AtLeastOne((risked(base.value[w]) * (Bps + TenureBonus(u))) \div Bps)],
         count |-> [w \in Window |-> base.count[w] * times]]

\* Mutant: the start moves with every use.
Decayed_Sliding(window, w) ==
    IF now >= window.start + Length[w] THEN EmptyWindow ELSE [window EXCEPT !.start = now]

\* decayed_usage: a window that is over starts again now.
Decayed(window, w) == IF now >= window.start + Length[w] THEN EmptyWindow ELSE window

Used(window, amount) == [window EXCEPT !.value = @ + amount, !.count = @ + 1]

WithinLimits(windows, limits, amount) ==
    \A w \in Window : /\ windows[w].value + amount <= limits.value[w]
                      /\ windows[w].count + 1 <= limits.count[w]

WithinGlobal(windows, amount) ==
    \A w \in GlobalWindow : windows[w].value + amount <= global_limits[w]

\* Mutant: the oldest day goes one day late.
Recorded_Late(rows, amount) ==
    LET day == (now \div Length["daily"]) * Length["daily"]
        kept == IF Len(rows) > MaxHistory THEN Tail(rows) ELSE rows
    IN  IF rows # <<>> /\ Last(rows).day = day
        THEN [rows EXCEPT ![Len(rows)] =
                 [day |-> day, value |-> @.value + amount, count |-> @.count + 1]]
        ELSE Append(kept, [day |-> day, value |-> amount, count |-> 1])

\* record_history: one row for each day with a use, the oldest dropped at the limit.
Recorded(rows, amount) ==
    LET day == (now \div Length["daily"]) * Length["daily"]
        kept == IF Len(rows) >= MaxHistory THEN Tail(rows) ELSE rows
    IN  IF rows # <<>> /\ Last(rows).day = day
        THEN [rows EXCEPT ![Len(rows)] =
                 [day |-> day, value |-> @.value + amount, count |-> @.count + 1]]
        ELSE Append(kept, [day |-> day, value |-> amount, count |-> 1])

\* handle_breach.
Breach(u, decayed) ==
    /\ risk[u].breach_count < MaxBreaches
    /\ usage' = [usage EXCEPT ![u] = [decayed EXCEPT
                    !.cooldown_until = now + cooldown_duration]]
    /\ risk' = [risk EXCEPT ![u].breach_count = @ + 1]
    /\ UNCHANGED <<global_usage, history, spent>>

Record(u, decayed, globally, amount) ==
    /\ Len(spent) < MaxUses
    /\ usage' = [usage EXCEPT ![u] = [decayed EXCEPT
                    !.windows = [w \in Window |-> Used(decayed.windows[w], amount)],
                    !.lifetime_value = @ + amount, !.lifetime_count = @ + 1]]
    /\ global_usage' = [w \in GlobalWindow |-> Used(globally[w], amount)]
    /\ history' = [history EXCEPT ![u] = Recorded(@, amount)]
    /\ spent' = Append(spent, [user |-> u, at |-> now, amount |-> amount,
                               limits |-> EffectiveLimits(u).value])
    /\ UNCHANGED risk

\* A use beyond a global limit is refused without a trace.
ConsumeLimit(u, amount) ==
    LET decayed == [UsageOf(u) EXCEPT !.windows =
                       [w \in Window |-> Decayed(UsageOf(u).windows[w], w)]]
        globally == [w \in GlobalWindow |-> Decayed(global_usage[w], w)]
    IN  /\ ~emergency_mode /\ ~tripped
        /\ amount > 0
        /\ UsageOf(u).cooldown_until <= now
        /\ IF WithinLimits(decayed.windows, EffectiveLimits(u), amount)
           THEN WithinGlobal(globally, amount) /\ Record(u, decayed, globally, amount)
           ELSE Breach(u, decayed)
        /\ UNCHANGED <<now, adminVars, limiter_changes>>
-----------------------------------------------------------------------------
Positive(limits) == \A w \in DOMAIN limits.value : limits.value[w] > 0
Ordered(limits) ==
    limits.value["daily"] <= limits.value["weekly"]
    /\ limits.value["weekly"] <= limits.value["monthly"]

\* The administrator's calls.
SetLimits ==
    /\ \/ /\ \E u \in User, limits \in LimitChoices :
                Positive(limits) /\ Ordered(limits)
                /\ user_limits' = [user_limits EXCEPT ![u] = limits]
          /\ UNCHANGED <<default_limits, global_limits>>
       \/ /\ \E limits \in LimitChoices : Positive(limits) /\ default_limits' = limits
          /\ UNCHANGED <<user_limits, global_limits>>
       \/ /\ \E limits \in GlobalChoices :
                (\A w \in GlobalWindow : limits[w] > 0) /\ global_limits' = limits
          /\ UNCHANGED <<user_limits, default_limits>>
    /\ UNCHANGED <<now, cooldown_duration, emergency_mode, anomaly_score, tripped,
                   trip_count, whitelisted, risk, usage, global_usage, history, spent>>

EmergencyReduceLimits(reduction_bps) ==
    /\ reduction_bps \in 1 .. Bps
    /\ default_limits' = [default_limits EXCEPT !.value = [w \in Window |->
          AtLeastOne((@[w] * (Bps - reduction_bps)) \div Bps)]]
    /\ UNCHANGED <<now, global_limits, cooldown_duration, emergency_mode, anomaly_score,
                   tripped, trip_count, user_limits, whitelisted, risk, usage,
                   global_usage, history, spent>>

SetWhitelist(u, listed) ==
    /\ whitelisted' = IF listed THEN whitelisted \cup {u} ELSE whitelisted \ {u}
    /\ UNCHANGED <<now, default_limits, global_limits, cooldown_duration, emergency_mode,
                   anomaly_score, tripped, trip_count, user_limits, risk, usage,
                   global_usage, history, spent>>

UpdateRiskScore(u, score) ==
    /\ score <= Bps
    /\ risk' = [risk EXCEPT ![u].factor = AdjustmentFactor(score)]
    /\ UNCHANGED <<now, adminVars, usage, global_usage, history, spent>>

UpdateAnomalyScore(score) ==
    /\ score <= Bps
    /\ anomaly_score' = score
    /\ IF score >= 8000
       THEN trip_count < MaxTrips /\ tripped' = TRUE /\ trip_count' = trip_count + 1
       ELSE UNCHANGED <<tripped, trip_count>>
    /\ UNCHANGED <<now, default_limits, global_limits, cooldown_duration, emergency_mode,
                   user_limits, whitelisted, risk, usage, global_usage, history, spent>>

ResetCircuitBreaker ==
    /\ tripped' = FALSE /\ anomaly_score' = 0
    /\ UNCHANGED <<now, default_limits, global_limits, cooldown_duration, emergency_mode,
                   trip_count, user_limits, whitelisted, risk, usage, global_usage,
                   history, spent>>

SetMode ==
    /\ \/ emergency_mode' \in BOOLEAN /\ UNCHANGED cooldown_duration
       \/ cooldown_duration' \in CooldownChoices /\ UNCHANGED emergency_mode
    /\ UNCHANGED <<now, default_limits, global_limits, anomaly_score, tripped, trip_count,
                   user_limits, whitelisted, risk, usage, global_usage, history, spent>>

\* A user without usage gets one, and with it a first activity.
ClearCooldown(u) ==
    /\ usage' = [usage EXCEPT ![u] = [UsageOf(u) EXCEPT !.cooldown_until = 0]]
    /\ UNCHANGED <<now, adminVars, risk, global_usage, history, spent>>

Tick ==
    /\ now < MaxNow
    /\ now' = now + 1
    /\ UNCHANGED limiterVars

Administer ==
    /\ limiter_changes < MaxChanges
    /\ limiter_changes' = limiter_changes + 1
    /\ \/ \E u \in User :
             \/ \E listed \in BOOLEAN : SetWhitelist(u, listed)
             \/ \E score \in RiskChoices : UpdateRiskScore(u, score)
             \/ ClearCooldown(u)
       \/ SetLimits
       \/ \E bps \in ReductionChoices : EmergencyReduceLimits(bps)
       \/ \E score \in AnomalyChoices : UpdateAnomalyScore(score)
       \/ ResetCircuitBreaker
       \/ SetMode

Next ==
    \/ \E u \in User, amount \in Amounts : ConsumeLimit(u, amount)
    \/ Administer
    \/ Tick

Spec == Init /\ [][Next]_vars
-----------------------------------------------------------------------------
\* What u was allowed from the time from on, up to the time to.
UsesIn(u, from, to) == {k \in DOMAIN spent : spent[k].user = u /\ spent[k].at \in from .. to}
SpentIn(u, from, to) ==
    SumFunctionOnSet([k \in DOMAIN spent |-> spent[k].amount], UsesIn(u, from, to))

\* Each variable holds values of its type.
TypeOK ==
    /\ now \in 0 .. MaxNow
    /\ whitelisted \subseteq User
    /\ \A u \in User : usage[u] # NoUsage => usage[u].first_activity \in 0 .. now
    /\ \A u \in User : Len(history[u]) <= MaxHistory
    /\ Positive(default_limits)
    /\ trip_count \in 0 .. MaxTrips

\* A window holds what its user spent since it started, whatever started again in
\* between, the lifetime all of it, the global windows the use of everybody, and the
\* rows kept of the history the use of their days.
WindowsTrue ==
    /\ \A u \in User : usage[u] # NoUsage =>
          /\ \A w \in Window :
                usage[u].windows[w].value = SpentIn(u, usage[u].windows[w].start, now)
          /\ usage[u].lifetime_value = SpentIn(u, 0, now)
          /\ \A k \in DOMAIN history[u] : history[u][k].value =
                SpentIn(u, history[u][k].day, history[u][k].day + Length["daily"] - 1)
    /\ \A w \in GlobalWindow : global_usage[w].value =
          SumFunctionOnSet([u \in User |-> SpentIn(u, global_usage[w].start, now)], User)

\* The windows do not roll: in a span as long as a window a user can spend a limit
\* twice, but never more than twice the highest that was in force at a use in it,
\* however cooldowns are cleared, limits changed and windows started again.
AtMostTwice ==
    \A u \in User, w \in Window, from \in 0 .. now :
        LET to == from + Length[w] - 1
            uses == UsesIn(u, from, to)
        IN  uses # {} =>
              SpentIn(u, from, to) <= 2 * Max({spent[k].limits[w] : k \in uses})
=============================================================================
