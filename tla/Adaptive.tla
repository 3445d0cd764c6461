------------------------------ MODULE Adaptive ------------------------------
(***************************************************************************)
(* The adaptive controller (ops/adaptive.rs): every window it reads the    *)
(* counters the proxy keeps, recommends changes of tunable knobs, decides  *)
(* what applying each would do and records both in two bounded histories.  *)
(* Confidences and knob values are integers in thousandths, so that the    *)
(* sample rate 0.25 is 250 and a rounding to a whole number is a rounding  *)
(* to a multiple of Whole.                                                 *)
(***************************************************************************)
EXTENDS Integers, Sequences, FiniteSets

CONSTANTS
    PoolSizes,      \* values of capacity.max_backends
    Waiters,        \* values of qos.max_route_waiters
    MinConfidences, \* values of adaptive_min_confidence, in thousandths
    MaxChanges,     \* values of adaptive_max_change_percent
    Capacity,       \* entries of each history
    MaxTicks        \* bound: ticks

VARIABLES
    config,           \* the adaptive section and the values it would tune
    signals,          \* which pressures the collected counters show
    recommendations,  \* the history of recommendations, oldest first
    outcomes,         \* the history of outcomes, oldest first
    pending,          \* what the tick under way has still to record
    ticks             \* ticks so far

vars == <<config, signals, recommendations, outcomes, pending, ticks>>

Whole == 1000
Least(a, b) == IF a <= b THEN a ELSE b
Most(a, b) == IF a >= b THEN a ELSE b
Ceil(x) == ((x + Whole - 1) \div Whole) * Whole
FloorOf(x) == (x \div Whole) * Whole

Knobs == {"pool_size", "backpressure_thresholds", "mirror_sampling", "timeout"}

(* AdaptiveConfig::validate and the validators it calls; the allowlist has *)
(* no duplicates, so it is a set.                                          *)
ValidConfig(c) ==
    /\ c.min_confidence \in 0..Whole
    /\ c.max_change \in 1..100
    /\ c.mode = "apply" => c.apply_enabled /\ c.allowlist # {}

(* AdaptiveTuningSnapshot::from_config. *)
current_value(knob, c) ==
    CASE knob = "pool_size" -> c.pool_size * Whole
      [] knob = "backpressure_thresholds" -> c.route_waiters * Whole
      [] knob = "mirror_sampling" -> 250
      [] knob = "timeout" -> c.timeout * Whole

Init ==
    /\ config \in {c \in [mode : {"recommend", "apply"}, apply_enabled : BOOLEAN,
                          allowlist : SUBSET Knobs, min_confidence : MinConfidences,
                          max_change : MaxChanges, pool_size : PoolSizes,
                          route_waiters : Waiters, timeout : {1000}] : ValidConfig(c)}
    /\ signals = [pool |-> FALSE, overload |-> FALSE, mirror |-> FALSE]
    /\ recommendations = << >>
    /\ outcomes = << >>
    /\ pending = << >>
    /\ ticks = 0

(* The counters the collector adds up change: checkout waiters come and    *)
(* go, while overload events and mirror drops only accumulate.             *)
collect(s) ==
    /\ s # signals
    /\ signals.overload => s.overload
    /\ signals.mirror => s.mirror
    /\ signals' = s
    /\ UNCHANGED <<config, recommendations, outcomes, pending, ticks>>

-----------------------------------------------------------------------------
recommendation_confidence(m) == Most(Least(m + 50, 990), m)

build_recommendation(knob) ==
    [knob |-> knob, confidence |-> recommendation_confidence(config.min_confidence),
     bound |-> config.max_change]

(* recommend: each pressure at its threshold gives one recommendation. *)
recommend ==
    (IF signals.pool THEN <<build_recommendation("pool_size")>> ELSE << >>)
        \o (IF signals.overload THEN <<build_recommendation("backpressure_thresholds")>> ELSE << >>)
        \o (IF signals.mirror /\ current_value("mirror_sampling", config) > 0
            THEN <<build_recommendation("mirror_sampling")>> ELSE << >>)

(* AdaptiveConfig::evaluate, then AdaptiveApplyConfig::evaluate. *)
evaluate(r) ==
    IF r.confidence < config.min_confidence THEN "rejected"
    ELSE IF config.mode # "apply" THEN "recommended"
    ELSE IF ~config.apply_enabled THEN "skipped"
    ELSE IF r.knob \notin config.allowlist THEN "rejected"
    ELSE IF r.bound > config.max_change THEN "rejected"
    ELSE "applied"

(* adjusted_value: the pool grows, the other knobs shrink, in whole units. *)
adjusted_value(before, knob, percent) ==
    CASE knob = "pool_size" ->
             Most(Ceil((before * (100 + percent)) \div 100), before + Whole)
      [] knob \in {"backpressure_thresholds", "timeout"} ->
             Most(FloorOf((before * (100 - percent)) \div 100), Whole)
      [] knob = "mirror_sampling" ->
             FloorOf((before * (100 - percent)) \div 100)

apply(r) ==
    LET outcome == evaluate(r)
        before == current_value(r.knob, config)
    IN [knob |-> r.knob, outcome |-> outcome,
        before |-> IF outcome = "applied" THEN before ELSE 0,
        after |-> IF outcome = "applied" THEN adjusted_value(before, r.knob, r.bound) ELSE 0,
        disabled_by_reload |-> /\ outcome \in {"recommended", "skipped"}
                               /\ config.mode # "apply" \/ ~config.apply_enabled]

(* The rings of the snapshot store: the oldest entry makes room.           *)
Recorded(ring, new) ==
    IF Len(ring) = Capacity THEN Append(Tail(ring), new) ELSE Append(ring, new)

(* The outcomes are one behind while a recommendation is being applied.    *)
Applying == pending # << >> /\ pending[1].recorded

(* tick: the signals become recommendations ...                            *)
tick ==
    /\ pending = << >> /\ ticks < MaxTicks
    /\ ticks' = ticks + 1
    /\ pending' = [i \in DOMAIN recommend |-> [r |-> recommend[i], recorded |-> FALSE]]
    /\ UNCHANGED <<config, signals, recommendations, outcomes>>

(* ... each of which is recorded, under the store's lock ...               *)
record_recommendation ==
    /\ pending # << >> /\ ~Applying
    /\ recommendations' = Recorded(recommendations, pending[1].r)
    /\ pending' = [pending EXCEPT ![1].recorded = TRUE]
    /\ UNCHANGED <<config, signals, outcomes, ticks>>

(* ... and then the outcome of applying it, under the lock again.  (The    *)
(* controller's own history gets the same entries in the same order;       *)
(* only the tests read it.)                                                *)
record_outcome ==
    /\ Applying
    /\ outcomes' = Recorded(outcomes, apply(pending[1].r))
    /\ pending' = Tail(pending)
    /\ UNCHANGED <<config, signals, recommendations, ticks>>

Next ==
    \/ tick \/ record_recommendation \/ record_outcome
    \/ \E s \in [pool : BOOLEAN, overload : BOOLEAN, mirror : BOOLEAN] : collect(s)

Spec == Init /\ [][Next]_vars

-----------------------------------------------------------------------------
(* SHOW ADAPTIVE pairs the n-th newest recommendation with the n-th newest *)
(* outcome.                                                                *)
Newest(ring, n) == ring[Len(ring) + 1 - n]
Paired(lag) ==
    \A n \in 1..Len(outcomes) :
        n + lag <= Len(recommendations) =>
            Newest(outcomes, n).knob = Newest(recommendations, n + lag).knob

(* The two rings stay within their capacity and tell one story: the n-th   *)
(* newest outcome is about the n-th newest recommendation, not counting    *)
(* the one that is being applied, also once old entries have been dropped. *)
HistoriesAligned ==
    /\ Len(recommendations) <= Capacity /\ Len(outcomes) <= Len(recommendations)
    /\ Paired(IF Applying THEN 1 ELSE 0)

(* A row of SHOW ADAPTIVE pairs a recommendation with its own outcome,     *)
(* whenever the two rings are read.                                        *)
RowsPaired == Paired(0)

(* An applied outcome is one the operator asked for: apply mode and a knob *)
(* on the allowlist.                                                       *)
AppliedOnlyIfAllowed ==
    \A i \in DOMAIN outcomes :
        outcomes[i].outcome = "applied" =>
            /\ config.mode = "apply" /\ config.apply_enabled
            /\ outcomes[i].knob \in config.allowlist

(* "Bounds simulated change size": an applied change moves the knob by at  *)
(* most adaptive_max_change_percent of its value.                          *)
ChangeWithinBound ==
    \A i \in DOMAIN outcomes :
        LET o == outcomes[i]
            distance == IF o.after >= o.before THEN o.after - o.before ELSE o.before - o.after
        IN o.outcome = "applied" => distance * 100 <= o.before * config.max_change
=============================================================================
