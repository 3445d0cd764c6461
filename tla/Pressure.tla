------------------------------ MODULE Pressure ------------------------------
(***************************************************************************)
(* The pressure controller (net/pressure.rs): every window it reads the    *)
(* kernel's pressure figures and moves the limit on requests in flight of  *)
(* every route gate between a floor and the configured limit.  A reading   *)
(* is "calm", "cpu" or "mem" (a figure at or above its threshold), or      *)
(* "none" where the figures cannot be read.                                *)
(***************************************************************************)
EXTENDS Integers, TLAPS

CONSTANTS
    Configured,  \* qos.max_route_in_flight
    Floor,       \* pressure.min_in_flight_floor
    Enabled      \* pressure.enabled

ASSUME ConfiguredAssumption == Configured \in Nat
ASSUME FloorAssumption == Floor \in Nat
ASSUME EnabledAssumption == Enabled \in BOOLEAN

VARIABLES
    limit,    \* the shared route_in_flight_limit
    reading,  \* the pressure of the machine
    cached,   \* whether the buffer pool has buffers cached
    shown     \* the pressure snapshot of SHOW PRESSURE

vars == <<limit, reading, cached, shown>>

Larger(a, b) == IF a >= b THEN a ELSE b
Smaller(a, b) == IF a <= b THEN a ELSE b

Readings == {"calm", "cpu", "mem", "none"}
High == {"cpu", "mem"}

configured_limit == Larger(Configured, 1)
floor == Smaller(Larger(Floor, 1), configured_limit)

Decision(action, l, pressured) == [action |-> action, limit |-> l, pressured |-> pressured]

(* What a decision leaves in PressureSnapshot. *)
Snapshot(decision) == [limit |-> decision.limit, pressured |-> decision.pressured]

(* A reading above a threshold takes a quarter away, at least one. *)
Reduced(current) ==
    LET less == current - Larger(current \div 4, 1)
        next == Larger(less, floor)
    IN Decision(IF next < current THEN "reduce" ELSE "hold", next, TRUE)

RestoredByTenths(current) ==
    Decision("restore", Smaller(current + (current \div 10), configured_limit), FALSE)

(* A calm reading gives a tenth of the configured limit back, at least one. *)
Restored(current) ==
    Decision("restore", Smaller(current + Larger(configured_limit \div 10, 1), configured_limit),
             FALSE)

PressureStepCpuOnly(current_limit, pressure) ==
    LET current == Smaller(Larger(current_limit, 1), configured_limit) IN
    IF Enabled /\ pressure = "cpu" THEN Reduced(current)
    ELSE IF current < configured_limit THEN Restored(current)
    ELSE Decision("hold", configured_limit, FALSE)

(* pressure_step. *)
pressure_step(current_limit, pressure) ==
    LET current == Smaller(Larger(current_limit, 1), configured_limit) IN
    IF ~Enabled
    THEN Decision(IF current < configured_limit THEN "restore" ELSE "hold",
                  configured_limit, FALSE)
    ELSE IF pressure \in High THEN Reduced(current)
    ELSE IF current < configured_limit THEN Restored(current)
    ELSE Decision("hold", configured_limit, FALSE)

Init ==
    /\ limit = configured_limit
    /\ reading \in Readings
    /\ cached \in BOOLEAN
    /\ shown = Snapshot(Decision("hold", configured_limit, FALSE))

(* The machine's pressure changes. *)
Load(p) ==
    /\ p # reading
    /\ reading' = p
    /\ UNCHANGED <<limit, cached, shown>>

(* Sessions return buffers to the pool. *)
Recycle ==
    /\ ~cached
    /\ cached' = TRUE
    /\ UNCHANGED <<limit, reading, shown>>

(* tick: the limit is stored, memory pressure that reduces it also trims   *)
(* the cached buffers, and a snapshot is published.                        *)
tick ==
    LET decision == pressure_step(limit, reading) IN
    /\ limit' = decision.limit
    /\ cached' = IF decision.action = "reduce" /\ reading = "mem" THEN FALSE ELSE cached
    /\ shown' = Snapshot(decision)
    /\ UNCHANGED reading

Next == tick \/ Recycle \/ \E p \in Readings : Load(p)

(* run loops for ever. *)
Spec == Init /\ [][Next]_vars /\ WF_vars(tick)

-----------------------------------------------------------------------------
(* The shapes of the limit and of the published snapshot. *)
TypeOK ==
    /\ limit \in Nat
    /\ reading \in Readings
    /\ cached \in BOOLEAN
    /\ shown \in [limit : Nat, pressured : BOOLEAN]

(* Whatever the pressure does, the limit stays between the floor and the   *)
(* configured limit: never zero, which would stop every route, and never   *)
(* more than the gates were built with.                                    *)
LimitWithinBounds == floor <= limit /\ limit <= configured_limit

(* The limit moves down only under pressure and up only without it, and    *)
(* when it moves SHOW PRESSURE says which, with the limit now in force.    *)
MovesWithPressure ==
    [][ /\ limit' < limit => reading \in High /\ shown' = [limit |-> limit', pressured |-> TRUE]
        /\ limit' > limit =>
              reading \notin High /\ shown' = [limit |-> limit', pressured |-> FALSE] ]_vars

(* When the pressure is over for good, the configured limit comes back,    *)
(* whatever its size: the step is never rounded down to nothing.           *)
CalmRestores == <>[](reading \notin High) => <>[](limit = configured_limit)

(* Lasting pressure takes the limit all the way to the floor.              *)
PressureReachesFloor == (Enabled /\ <>[](reading \in High)) => <>[](limit = floor)

-----------------------------------------------------------------------------
(* The bounds of the limit and the direction of its moves are proved, for  *)
(* every configured limit and every floor, zero included.                  *)

(* The floor in force lies between one and the configured limit: `max(1)`  *)
(* and `min(configured_limit)` of pressure_step.                           *)
LEMMA FloorInRange ==
    floor \in Nat /\ configured_limit \in Nat /\ 1 <= floor /\ floor <= configured_limit
BY ConfiguredAssumption, FloorAssumption DEF floor, configured_limit, Larger, Smaller

(* The inductive invariant: a controller that is switched off never moved  *)
(* the limit, so restoring it at once is no jump.                          *)
Inv ==
    /\ limit \in floor..configured_limit
    /\ reading \in Readings
    /\ ~Enabled => limit = configured_limit

(* One call of pressure_step from such a state stays within the bounds,    *)
(* and moves down only for a high reading and up only for another.         *)
LEMMA StepInRange ==
    ASSUME Inv
    PROVE  /\ pressure_step(limit, reading).limit \in floor..configured_limit
           /\ ~Enabled => pressure_step(limit, reading).limit = configured_limit
           /\ pressure_step(limit, reading).limit < limit =>
                reading \in High /\ pressure_step(limit, reading).pressured = TRUE
           /\ pressure_step(limit, reading).limit > limit =>
                reading \notin High /\ pressure_step(limit, reading).pressured = FALSE
<1> DEFINE d == pressure_step(limit, reading)
<1>1. limit \in Nat /\ 1 <= limit /\ floor <= limit /\ limit <= configured_limit
  BY FloorInRange DEF Inv
<1>2. Smaller(Larger(limit, 1), configured_limit) = limit
  BY <1>1, FloorInRange DEF Smaller, Larger
<1>3. CASE ~Enabled
  <2>1. d.limit = configured_limit /\ limit = configured_limit
    BY <1>2, <1>3 DEF pressure_step, Decision, Inv
  <2> QED
    BY <2>1, FloorInRange
<1>4. CASE Enabled /\ reading \in High
  <2>1. d = Reduced(limit)
    BY <1>2, <1>4 DEF pressure_step
  <2>2. /\ limit \div 4 \in Nat /\ limit \div 4 <= limit
        /\ Reduced(limit).limit \in floor..limit
        /\ Reduced(limit).pressured = TRUE
    BY <1>1, FloorInRange DEF Reduced, Decision, Larger
  <2> QED
    BY <1>1, <1>4, <2>1, <2>2, FloorInRange
<1>5. CASE Enabled /\ reading \notin High /\ limit < configured_limit
  <2>1. d = Restored(limit)
    BY <1>2, <1>5 DEF pressure_step
  <2>2. /\ Restored(limit).limit \in limit..configured_limit
        /\ Restored(limit).pressured = FALSE
    BY <1>1, <1>5, FloorInRange DEF Restored, Decision, Larger, Smaller
  <2> QED
    BY <1>1, <1>5, <2>1, <2>2, FloorInRange
<1>6. CASE Enabled /\ reading \notin High /\ ~(limit < configured_limit)
  <2>1. d.limit = configured_limit /\ limit = configured_limit
    BY <1>1, <1>2, <1>6, FloorInRange DEF pressure_step, Decision
  <2> QED
    BY <1>6, <2>1, FloorInRange
<1> QED
  BY <1>3, <1>4, <1>5, <1>6

(* The limit starts at the configured one. *)
LEMMA InitInv == Init => Inv
BY FloorInRange DEF Init, Inv

(* Only a tick moves the limit. *)
LEMMA NextInv == Inv /\ [Next]_vars => Inv'
<1> SUFFICES ASSUME Inv, [Next]_vars PROVE Inv'
  OBVIOUS
<1> USE DEF Inv
<1>1. CASE tick
  BY <1>1, StepInRange DEF tick, floor, configured_limit
<1>2. CASE Recycle
  BY <1>2 DEF Recycle, floor, configured_limit
<1>3. ASSUME NEW p \in Readings, Load(p) PROVE Inv'
  BY <1>3 DEF Load, floor, configured_limit
<1>4. CASE UNCHANGED vars
  BY <1>4 DEF vars, floor, configured_limit
<1> QED
  BY <1>1, <1>2, <1>3, <1>4 DEF Next

(* Whatever the pressure does, and for every configured limit and floor,   *)
(* the limit the route gates compare against stays between the floor and   *)
(* the configured limit; in particular it is never zero.                   *)
THEOREM LimitBounded == Spec => [](LimitWithinBounds /\ limit >= 1)
<1>1. Inv => LimitWithinBounds /\ limit >= 1
  BY FloorInRange DEF Inv, LimitWithinBounds
<1> QED
  BY <1>1, InitInv, NextInv, PTL DEF Spec

(* The limit goes down only in a tick with a figure at its threshold, and  *)
(* up only in one without; the snapshot SHOW PRESSURE shows says so.       *)
THEOREM LimitMoves == Spec => MovesWithPressure
<1> DEFINE
      Moves ==
        /\ limit' < limit => reading \in High /\ shown' = [limit |-> limit', pressured |-> TRUE]
        /\ limit' > limit =>
              reading \notin High /\ shown' = [limit |-> limit', pressured |-> FALSE]
<1>1. Inv /\ [Next]_vars => [Moves]_vars
  <2> SUFFICES ASSUME Inv, Next PROVE Moves
    OBVIOUS
  <2>1. CASE tick
    <3>1. /\ limit' = pressure_step(limit, reading).limit
          /\ shown' = [limit |-> limit', pressured |-> pressure_step(limit, reading).pressured]
      BY <2>1 DEF tick, Snapshot
    <3> QED
      BY <3>1, StepInRange
  <2>2. CASE limit' = limit
    BY <2>2, FloorInRange DEF Inv
  <2> QED
    BY <2>1, <2>2 DEF Next, Recycle, Load
<1> QED
  BY <1>1, InitInv, NextInv, PTL DEF Spec, MovesWithPressure
=============================================================================
