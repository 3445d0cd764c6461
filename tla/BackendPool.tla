----------------------------- MODULE BackendPool -----------------------------
(***************************************************************************)
(* The backend pools of one proxy (pool.rs, resilience.rs): each pool has  *)
(* a store of idle backends, a slot counter, a circuit breaker and two     *)
(* admission gates; the pools share the slots of capacity.max_backends.    *)
(*                                                                         *)
(* A client runs checkout_with_mode, uses its lease and releases, fails or *)
(* drops it.  A sweeper evicts idle backends (reap_idle, and               *)
(* retire_idle_backends of a reload).  Each step is one access to shared   *)
(* state, a counter, the idle mutex, the semaphore or the breaker's mutex, *)
(* together with the notifications the code sends right after it.          *)
(***************************************************************************)
EXTENDS Integers, Sequences, FiniteSets, Functions

CONSTANTS
    Client, Pool, Backend,
    Replica,           \* the pools of replicas, chosen only while healthy
    Modes,             \* the checkout modes clients use
    MaxSize,           \* pool_lifecycle.max_size
    MinIdle,           \* pool_lifecycle.min_idle
    RouteMax,          \* qos.max_route_in_flight
    GlobalSlots,       \* capacity.max_backends
    GlobalNotify,      \* the pools share global_backend_available
    FailureThreshold,  \* resilience.breaker_failure_threshold
    Width,             \* the idle counter wraps at this value (usize)
    None, Sweeper,     \* nobody; the task that evicts
    MaxCheckouts, MaxSweeps, MaxFailures   \* bounds on what happens

ASSUME PoolSetsAssumption ==
    /\ IsFiniteSet(Client) /\ IsFiniteSet(Backend)
    /\ None \notin Client \cup Pool \cup Backend
ASSUME PoolSizesAssumption ==
    MaxSize \in Nat /\ MinIdle \in Nat /\ GlobalSlots \in Nat /\ FailureThreshold \in Nat

VARIABLES
    task,      \* each client's checkout and lease
    idle,      \* the idle backends of each pool, oldest first
    lock,      \* who holds the idle mutex of each pool
    active,    \* active_backends of each pool
    count,     \* idle_backends of each pool
    home,      \* the pool a connected backend is registered with
    started,   \* backends that completed PostgreSQL startup
    slots,     \* free permits of the global semaphore
    wake,      \* the Notify cells: available of each pool, and the global one
    breaker,   \* the circuit breaker of each pool
    health,    \* the health flag of each pool
    sweep,     \* what the sweeper is doing
    used,      \* checkouts, sweeps and failures so far
    lost       \* history: slots reserved by connects that were dropped

store == <<idle, lock, active, count>>
wires == <<home, started, slots>>
state == <<breaker, health>>
poolVars == <<task, store, wires, wake, state, sweep, used, lost>>

(***************************************************************************)
(* Where a client is.  route, gate: waiting for the route's and the pool's *)
(* admission gate.  prefer, open, more: about to reserve a slot, the three *)
(* places of checkout_with_mode that do.  slot: counted, about to take a   *)
(* global permit.  first, second, again, watch: about to try the idle      *)
(* queue.  park: about to await the notifications.  undo, uncount: about   *)
(* to leave active_backends, having got no permit or given it back.        *)
(***************************************************************************)
Outside == {"out", "ask"}
Taking == {"first", "second", "again", "watch"}
Reserving == {"prefer", "open", "more"}
Location == Outside \cup Taking \cup Reserving
              \cup {"route", "gate", "slot", "connect", "undo", "uncount", "peek", "park",
                    "wait", "leased", "return", "count", "discard", "leave"}

At(c, pc) == task[c].pc = pc
In(p) == {c \in Client : task[c].pool = p}
RouteInside(p) == {c \in In(p) : task[c].pc \notin Outside \cup {"route"}}
PoolInside(p) == {c \in In(p) : task[c].pc \notin Outside \cup {"route", "gate"}}

Task == [pc : Location, pool : Pool \cup {None}, mode : Modes \cup {None},
         site : Reserving \cup {None}, lease : Backend \cup {None}, needs : BOOLEAN]

NoTask == [pc |-> "out", pool |-> None, mode |-> None, site |-> None, lease |-> None,
           needs |-> FALSE]

NewBreaker == [state |-> "closed", failures |-> 0, cooled |-> FALSE, probe |-> FALSE,
               trials |-> 0]

PoolInit ==
    /\ task = [c \in Client |-> NoTask]
    /\ idle = [p \in Pool |-> <<>>]
    /\ lock = [p \in Pool |-> None]
    /\ active = [p \in Pool |-> 0]
    /\ count = [p \in Pool |-> 0]
    /\ home = [b \in Backend |-> None]
    /\ started = {}
    /\ slots = GlobalSlots
    /\ wake = [permit |-> {}, parked |-> [p \in Pool |-> <<>>],
               woken |-> [c \in Client |-> None], global |-> {}]
    /\ breaker = [p \in Pool |-> NewBreaker]
    /\ health = [p \in Pool |-> TRUE]
    /\ sweep = [pc |-> "rest", pool |-> None, kind |-> None, out |-> {}, len |-> 0]
    /\ used = [checkouts |-> 0, sweeps |-> 0, failures |-> 0]
    /\ lost = [p \in Pool |-> 0]

Goes(c, pc) == task' = [task EXCEPT ![c].pc = pc]
Ends(c) == task' = [task EXCEPT ![c] = NoTask]
Leases(c, b, needs) ==
    task' = [task EXCEPT ![c] = [NoTask EXCEPT !.pc = "leased", !.pool = task[c].pool,
                                               !.lease = b, !.needs = needs]]

(***************************************************************************)
(* tokio::sync::Notify.  notify_waiters reaches every Notified future that *)
(* exists, notify_one the oldest one parked or, if none is, the next to    *)
(* park.  A future dropped after notify_one chose it passes the wake on.   *)
(***************************************************************************)
AllWoken(w, p) ==
    [w EXCEPT !.parked[p] = <<>>,
              !.woken = [c \in Client |->
                  IF c \in In(p) /\ task[c].pc \in {"watch", "park", "wait"} /\ @[c] = None
                  THEN "all" ELSE @[c]]]

GlobalWoken(w) ==
    IF GlobalNotify THEN [w EXCEPT !.global = {c \in Client : At(c, "wait")}] ELSE w

OneWoken(w, p) ==
    IF w.parked[p] = <<>> THEN [w EXCEPT !.permit = @ \cup {p}]
    ELSE [w EXCEPT !.parked[p] = Tail(@), !.woken[Head(w.parked[p])] = "one"]

Unparked(w, p, c) ==
    [w EXCEPT !.parked[p] = SelectSeq(@, LAMBDA d : d # c),
              !.woken[c] = None, !.global = @ \ {c}]

Dropped(w, p, c) ==
    IF w.woken[c] = "one" THEN OneWoken(Unparked(w, p, c), p) ELSE Unparked(w, p, c)

(***************************************************************************)
(* The circuit breaker.  cooled: the cooldown since opened_at has passed.  *)
(* trials: history, the requests let through since the breaker opened.     *)
(***************************************************************************)

(* Mutant: reading the state forgets a probe that is under way. *)
ObserveForgets(b) ==
    IF b.state = "half_open" \/ (b.state = "open" /\ b.cooled)
    THEN [b EXCEPT !.state = "half_open", !.probe = FALSE] ELSE b

(* What state and allow_request do before they look. *)
Observe(b) ==
    IF b.state = "open" /\ b.cooled
    THEN [b EXCEPT !.state = "half_open", !.probe = FALSE] ELSE b

Allows(b) == b.state = "closed" \/ (b.state = "half_open" /\ ~b.probe)

Allowed(b) ==
    IF b.state = "half_open" THEN [b EXCEPT !.probe = TRUE, !.trials = @ + 1] ELSE b

RecordFailure(b) ==
    IF \/ b.state = "half_open"
       \/ b.state = "closed" /\ b.failures + 1 >= FailureThreshold
    THEN [state |-> "open", failures |-> FailureThreshold, cooled |-> FALSE,
          probe |-> FALSE, trials |-> 0]
    ELSE IF b.state = "closed" THEN [b EXCEPT !.failures = @ + 1, !.probe = FALSE]
    ELSE [b EXCEPT !.probe = FALSE]

(* is_healthy of a pool's reference. *)
Healthy(p) == health[p] \/ Observe(breaker[p]).state = "half_open"

(* The cooldown passes. *)
Cool(p) ==
    /\ breaker[p].state = "open" /\ ~breaker[p].cooled
    /\ breaker' = [breaker EXCEPT ![p].cooled = TRUE]
    /\ UNCHANGED <<task, store, wires, wake, health, sweep, used, lost>>

(***************************************************************************)
(* checkout_with_mode.                                                     *)
(***************************************************************************)

(* checkout_target: a replica's pool only while it is healthy; the health  *)
(* check is made by every selection, taken or not.  PreferConnect is asked *)
(* of the primary only, by session startup and by warm-up.                 *)
Select(c, p, m) ==
    /\ At(c, "out") /\ used.checkouts < MaxCheckouts
    /\ m = "prefer" => p \notin Replica
    /\ used' = [used EXCEPT !.checkouts = @ + 1]
    /\ breaker' = IF p \in Replica THEN [breaker EXCEPT ![p] = Observe(@)] ELSE breaker
    /\ task' = IF p \in Replica /\ ~Healthy(p) THEN task
               ELSE [task EXCEPT ![c] = [NoTask EXCEPT !.pc = "ask", !.pool = p, !.mode = m]]
    /\ UNCHANGED <<store, wires, wake, health, sweep, lost>>

(* allow_request. *)
Ask(c) ==
    LET p == task[c].pool
        b == Observe(breaker[p])
    IN
    /\ At(c, "ask")
    /\ \/ /\ Allows(b)
          /\ breaker' = [breaker EXCEPT ![p] = Allowed(b)]
          /\ Goes(c, "route")
       \/ /\ ~Allows(b)
          /\ breaker' = [breaker EXCEPT ![p] = b]
          /\ Ends(c)
    /\ UNCHANGED <<store, wires, wake, health, sweep, used, lost>>

(* The route's gate, then the pool's: see AdmissionGate. *)
RouteAdmits(c) ==
    /\ At(c, "route") /\ Cardinality(RouteInside(task[c].pool)) < RouteMax
    /\ Goes(c, "gate")
    /\ UNCHANGED <<store, wires, wake, state, sweep, used, lost>>

PoolAdmits(c) ==
    /\ At(c, "gate") /\ Cardinality(PoolInside(task[c].pool)) < MaxSize
    /\ Goes(c, IF task[c].mode = "prefer" THEN "prefer" ELSE "first")
    /\ UNCHANGED <<store, wires, wake, state, sweep, used, lost>>

(* A full queue, or a timeout at either gate; a checkout alone in its pool *)
(* is always let in.                                                       *)
GateRefuses(c) ==
    /\ At(c, "route") \/ At(c, "gate")
    /\ In(task[c].pool) # {c}
    /\ Ends(c)
    /\ UNCHANGED <<store, wires, wake, state, sweep, used, lost>>

(* Where a failed reservation leads. *)
Unreserved(site) == CASE site = "prefer" -> "first" [] site = "open" -> "again"
                      [] site = "more" -> "watch"

(* reserve_backend_slot: the compare-exchange loop on active_backends ...  *)
Reserve(c) ==
    LET p == task[c].pool
    IN
    /\ task[c].pc \in Reserving /\ active[p] < MaxSize
    /\ active' = [active EXCEPT ![p] = @ + 1]
    /\ task' = [task EXCEPT ![c].pc = "slot", ![c].site = task[c].pc]
    /\ UNCHANGED <<idle, lock, count, wires, wake, state, sweep, used, lost>>

PoolFull(c) ==
    /\ task[c].pc \in Reserving /\ active[task[c].pool] >= MaxSize
    /\ Goes(c, Unreserved(task[c].pc))
    /\ UNCHANGED <<store, wires, wake, state, sweep, used, lost>>

(* ... then a permit of the global semaphore ...                           *)
TakeSlot(c) ==
    /\ At(c, "slot") /\ slots > 0
    /\ slots' = slots - 1
    /\ Goes(c, "connect")
    /\ UNCHANGED <<store, home, started, wake, state, sweep, used, lost>>

(* ... or, when none is free, release_reserved_backend_slot. *)
NoSlot(c) ==
    /\ At(c, "slot") /\ slots = 0
    /\ Goes(c, "undo")
    /\ UNCHANGED <<store, wires, wake, state, sweep, used, lost>>

(* Where a client goes once uncounted: on from the reservation it did not  *)
(* get; from a failed connect out, or under PreferConnect to the idle      *)
(* queue; from a discard to the gates.                                     *)
Uncounted(c) ==
    CASE At(c, "undo") -> Unreserved(task[c].site)
      [] At(c, "uncount") /\ task[c].site = "prefer" -> "first"
      [] At(c, "uncount") /\ task[c].site = None -> "leave"
      [] OTHER -> "out"

(* release_reserved_backend_slot, after the permit: active_backends, then  *)
(* every waiter is woken.                                                  *)
Uncount(c) ==
    LET p == task[c].pool
        next == Uncounted(c)
    IN
    /\ At(c, "undo") \/ At(c, "uncount")
    /\ active' = [active EXCEPT ![p] = @ - 1]
    /\ wake' = GlobalWoken(AllWoken(wake, p))
    /\ IF next = "out" THEN Ends(c)
       ELSE task' = [task EXCEPT ![c].pc = next, ![c].site = None]
    /\ UNCHANGED <<idle, lock, count, wires, state, sweep, used, lost>>

(* connect_reserved_backend: register_backend and the lease, which asks    *)
(* for startup except when the wait loop connected.                        *)
Connected(c, b) ==
    /\ At(c, "connect") /\ home[b] = None
    /\ home' = [home EXCEPT ![b] = task[c].pool]
    /\ Leases(c, b, task[c].site # "more")
    /\ UNCHANGED <<store, started, slots, wake, state, sweep, used, lost>>

(* Mutant: a failed connect keeps its slot. *)
ConnectFailsCounted(c) ==
    /\ At(c, "connect")
    /\ slots' = slots + 1
    /\ Ends(c)
    /\ UNCHANGED <<store, home, started, wake, state, sweep, used, lost>>

(* A failed connect drops its permit first. *)
ConnectFails(c) ==
    /\ At(c, "connect")
    /\ slots' = slots + 1
    /\ Goes(c, "uncount")
    /\ UNCHANGED <<store, home, started, wake, state, sweep, used, lost>>

(* Mutant: the connect of the wait loop is outside the timeout. *)
ConnectDroppedBefore(c) ==
    /\ At(c, "connect") /\ task[c].site # "more"
    /\ slots' = slots + 1
    /\ lost' = [lost EXCEPT ![task[c].pool] = @ + 1]
    /\ Ends(c)
    /\ UNCHANGED <<store, home, started, wake, state, sweep, used>>

(* The timeout around the checkout drops the future while it connects: its *)
(* global permit goes back, its slot does not.                             *)
ConnectDropped(c) ==
    /\ At(c, "connect")
    /\ slots' = slots + 1
    /\ lost' = [lost EXCEPT ![task[c].pool] = @ + 1]
    /\ Ends(c)
    /\ UNCHANGED <<store, home, started, wake, state, sweep, used>>

(***************************************************************************)
(* The idle queue.                                                         *)
(***************************************************************************)

(* Where a client goes that found no idle backend: the first try looks at  *)
(* the counter next, ReuseOnly and PreferConnect reserve nothing more.     *)
Missed(c) ==
    LET allow == task[c].mode = "allow"
    IN  CASE At(c, "first") -> "peek"
          [] At(c, "second") -> IF allow THEN "open" ELSE "again"
          [] At(c, "again") -> IF allow THEN "more" ELSE "watch"
          [] At(c, "watch") -> "park"

(* try_lock. *)
TryLock(c) ==
    LET p == task[c].pool
    IN
    /\ task[c].pc \in Taking /\ lock[p] # c
    /\ \/ lock[p] = None /\ lock' = [lock EXCEPT ![p] = c] /\ task' = task
       \/ lock[p] # None /\ lock' = lock /\ Goes(c, Missed(c))
    /\ UNCHANGED <<idle, active, count, wires, wake, state, sweep, used, lost>>

(* Under the lock: pop_front and idle_backends.fetch_sub. *)
TakeIdle(c) ==
    LET p == task[c].pool
    IN
    /\ task[c].pc \in Taking /\ lock[p] = c
    /\ lock' = [lock EXCEPT ![p] = None]
    /\ \/ /\ idle[p] # <<>>
          /\ idle' = [idle EXCEPT ![p] = Tail(@)]
          /\ count' = [count EXCEPT ![p] = (@ - 1) % Width]
          /\ Leases(c, Head(idle[p]), FALSE)
          /\ wake' = [wake EXCEPT !.woken[c] = None]
       \/ /\ idle[p] = <<>>
          /\ Goes(c, Missed(c))
          /\ UNCHANGED <<idle, count, wake>>
    /\ UNCHANGED <<active, wires, state, sweep, used, lost>>

(* idle_count() > 0. *)
Peek(c) ==
    /\ At(c, "peek")
    /\ Goes(c, IF count[task[c].pool] > 0 THEN "second"
               ELSE IF task[c].mode = "allow" THEN "open" ELSE "again")
    /\ UNCHANGED <<store, wires, wake, state, sweep, used, lost>>

(* The await of checkout_idle_backend: a notification since the future was *)
(* made, or a stored one, completes it at once.  The future of the global  *)
(* cell is made only now.                                                  *)
Park(c) ==
    LET p == task[c].pool
    IN
    /\ At(c, "park")
    /\ IF wake.woken[c] = "all" THEN wake' = Unparked(wake, p, c) /\ Goes(c, "watch")
       ELSE IF p \in wake.permit
       THEN wake' = [wake EXCEPT !.permit = @ \ {p}] /\ Goes(c, "watch")
       ELSE wake' = [wake EXCEPT !.parked[p] = Append(@, c)] /\ Goes(c, "wait")
    /\ UNCHANGED <<store, wires, state, sweep, used, lost>>

(* Woken by the pool: try again.  Woken globally: back to reserving.       *)
Wake(c) ==
    LET p == task[c].pool
    IN
    /\ At(c, "wait")
    /\ \/ wake.woken[c] # None /\ wake' = Unparked(wake, p, c) /\ Goes(c, "watch")
       \/ c \in wake.global /\ wake' = Dropped(wake, p, c) /\ Goes(c, "again")
    /\ UNCHANGED <<store, wires, state, sweep, used, lost>>

(* The timeout around the checkout fires during the wait. *)
WaitTimeout(c) ==
    /\ At(c, "wait")
    /\ wake' = Dropped(wake, task[c].pool, c)
    /\ Ends(c)
    /\ UNCHANGED <<store, wires, state, sweep, used, lost>>

(***************************************************************************)
(* The lease.                                                              *)
(***************************************************************************)

(* bootstrap_backend, when the lease asks for it. *)
Bootstrap(c) ==
    /\ At(c, "leased") /\ task[c].needs /\ task[c].lease \notin started
    /\ started' = started \cup {task[c].lease}
    /\ UNCHANGED <<task, store, home, slots, wake, state, sweep, used, lost>>

(* release: mark_succeeded, then return_backend. *)
Release(c) ==
    LET p == task[c].pool
    IN
    /\ At(c, "leased")
    /\ task[c].needs => task[c].lease \in started
    /\ health' = [health EXCEPT ![p] = TRUE]
    /\ breaker' = [breaker EXCEPT ![p] = NewBreaker]
    /\ task' = [task EXCEPT ![c].pc = "return", ![c].needs = FALSE]
    /\ UNCHANGED <<store, wires, wake, sweep, used, lost>>

(* mark_failed, then discard. *)
Fail(c) ==
    LET p == task[c].pool
    IN
    /\ At(c, "leased") /\ used.failures < MaxFailures
    /\ used' = [used EXCEPT !.failures = @ + 1]
    /\ health' = [health EXCEPT ![p] = FALSE]
    /\ breaker' = [breaker EXCEPT ![p] = RecordFailure(@)]
    /\ task' = [task EXCEPT ![c].pc = "discard", ![c].needs = FALSE]
    /\ UNCHANGED <<store, wires, wake, sweep, lost>>

(* discard, or the drop of the lease, without a verdict. *)
Abandon(c) ==
    /\ At(c, "leased")
    /\ task' = [task EXCEPT ![c].pc = "discard", ![c].needs = FALSE]
    /\ UNCHANGED <<store, wires, wake, state, sweep, used, lost>>

ReturnLock(c) ==
    LET p == task[c].pool
    IN
    /\ At(c, "return") /\ lock[p] = None
    /\ lock' = [lock EXCEPT ![p] = c]
    /\ UNCHANGED <<task, idle, active, count, wires, wake, state, sweep, used, lost>>

(* push_back under the lock ... *)
Push(c) ==
    LET p == task[c].pool
    IN
    /\ At(c, "return") /\ lock[p] = c
    /\ idle' = [idle EXCEPT ![p] = Append(@, task[c].lease)]
    /\ lock' = [lock EXCEPT ![p] = None]
    /\ task' = [task EXCEPT ![c].pc = "count", ![c].lease = None]
    /\ UNCHANGED <<active, count, wires, wake, state, sweep, used, lost>>

(* ... and after it idle_backends.fetch_add and notify_one. *)
Count(c) ==
    LET p == task[c].pool
    IN
    /\ At(c, "count")
    /\ count' = [count EXCEPT ![p] = (@ + 1) % Width]
    /\ wake' = OneWoken(wake, p)
    /\ Goes(c, "leave")
    /\ UNCHANGED <<idle, lock, active, wires, state, sweep, used, lost>>

(* discard_backend: the permit and the registration, then Uncount. *)
Discard(c) ==
    /\ At(c, "discard")
    /\ home' = [home EXCEPT ![task[c].lease] = None]
    /\ started' = started \ {task[c].lease}
    /\ slots' = slots + 1
    /\ wake' = GlobalWoken(wake)
    /\ task' = [task EXCEPT ![c].pc = "uncount", ![c].lease = None]
    /\ UNCHANGED <<store, state, sweep, used, lost>>

(* take_permit: only now do the gates let another checkout in. *)
Leave(c) ==
    /\ At(c, "leave")
    /\ Ends(c)
    /\ UNCHANGED <<store, wires, wake, state, sweep, used, lost>>

(***************************************************************************)
(* The sweeper: reap_idle and retire_idle_backends.                        *)
(***************************************************************************)
SweepLock(p, kind) ==
    /\ sweep.pc = "rest" /\ used.sweeps < MaxSweeps /\ lock[p] = None
    /\ lock' = [lock EXCEPT ![p] = Sweeper]
    /\ sweep' = [sweep EXCEPT !.pc = "drain", !.pool = p, !.kind = kind]
    /\ used' = [used EXCEPT !.sweeps = @ + 1]
    /\ UNCHANGED <<task, idle, active, count, wires, wake, state, lost>>

(* How many of the first i are old. *)
OldUpTo(q, old, i) == Cardinality({j \in 1..i : q[j] \in old})

(* Mutant: the floor counts the backend being judged. *)
RetainedOneLess(q, old) ==
    {i \in 1..Len(q) : q[i] \in old => OldUpTo(q, old, i) > Len(q) - MinIdle + 1}

(* The pass over the idle queue, oldest first, and the positions that stay:*)
(* an expired backend goes while those kept and those still to come make   *)
(* up min_idle, so the first Len(q) - min_idle expired ones go.            *)
Retained(q, old) ==
    {i \in 1..Len(q) : q[i] \in old => OldUpTo(q, old, i) > Len(q) - MinIdle}

(* The positions of a set, in their order. *)
InOrder(at) ==
    {f \in [1..Cardinality(at) -> at] : \A i, j \in 1..Cardinality(at) : i < j => f[i] < f[j]}

(* Under the lock: old are the backends past idle_timeout or max_lifetime; *)
(* a reload retires every idle backend.                                    *)
Drain(old) ==
    LET p == sweep.pool
        at == IF sweep.kind = "reap" THEN Retained(idle[p], old) ELSE {}
    IN
    /\ sweep.pc = "drain"
    /\ \E f \in InOrder(at) :
         idle' = [idle EXCEPT ![p] = [i \in 1..Cardinality(at) |-> idle[p][f[i]]]]
    /\ lock' = [lock EXCEPT ![p] = None]
    /\ sweep' = [sweep EXCEPT !.pc = "evict",
                              !.out = Range(idle[p]) \ {idle[p][i] : i \in at}]
    /\ UNCHANGED <<task, active, count, wires, wake, state, used, lost>>

(* The registration and the permit of an evicted backend go, and the other *)
(* pools are told, ...                                                     *)
Evict(b) ==
    /\ sweep.pc = "evict" /\ b \in sweep.out
    /\ home' = [home EXCEPT ![b] = None]
    /\ started' = started \ {b}
    /\ slots' = slots + 1
    /\ wake' = GlobalWoken(wake)
    /\ sweep' = [sweep EXCEPT !.pc = "uncount", !.out = @ \ {b}]
    /\ UNCHANGED <<task, store, state, used, lost>>

(* ... before active_backends is lowered, which wakes nobody. *)
EvictUncount ==
    /\ sweep.pc = "uncount"
    /\ active' = [active EXCEPT ![sweep.pool] = @ - 1]
    /\ sweep' = [sweep EXCEPT !.pc = "evict"]
    /\ UNCHANGED <<task, idle, lock, count, wires, wake, state, used, lost>>

(* The length to store: read under the lock again, or zero. *)
SizeUp ==
    /\ sweep.pc = "evict" /\ sweep.out = {}
    /\ sweep.kind = "reap" => lock[sweep.pool] = None
    /\ sweep' = [sweep EXCEPT !.pc = "store",
                              !.len = IF sweep.kind = "reap" THEN Len(idle[sweep.pool])
                                      ELSE 0]
    /\ UNCHANGED <<task, store, wires, wake, state, used, lost>>

(* idle_backends.store, then notify_waiters. *)
Store ==
    /\ sweep.pc = "store"
    /\ count' = [count EXCEPT ![sweep.pool] = sweep.len]
    /\ wake' = AllWoken(wake, sweep.pool)
    /\ sweep' = [pc |-> "rest", pool |-> None, kind |-> None, out |-> {}, len |-> 0]
    /\ UNCHANGED <<task, idle, lock, active, wires, state, used, lost>>

(***************************************************************************)
(* The specification.                                                      *)
(***************************************************************************)
Timers(c) == GateRefuses(c) \/ ConnectDropped(c) \/ WaitTimeout(c)

Runs(c) ==
    \/ Ask(c) \/ RouteAdmits(c) \/ PoolAdmits(c)
    \/ Reserve(c) \/ PoolFull(c) \/ TakeSlot(c) \/ NoSlot(c) \/ Uncount(c)
    \/ TryLock(c) \/ TakeIdle(c) \/ Peek(c) \/ Park(c) \/ Wake(c)
    \/ ReturnLock(c) \/ Push(c) \/ Count(c) \/ Discard(c) \/ Leave(c)

Uses(c) == Bootstrap(c) \/ Release(c) \/ Fail(c) \/ Abandon(c)

Sweeps ==
    \/ \E old \in SUBSET Backend : Drain(old)
    \/ \E b \in Backend : Evict(b)
    \/ EvictUncount \/ SizeUp \/ Store

Done == UNCHANGED poolVars /\ used.checkouts = MaxCheckouts /\ \A c \in Client : At(c, "out")

PoolNext ==
    \/ \E c \in Client :
        \/ \E p \in Pool, m \in Modes : Select(c, p, m)
        \/ Timers(c) \/ Runs(c) \/ Uses(c)
        \/ ConnectFails(c) \/ \E b \in Backend : Connected(c, b)
    \/ \E p \in Pool : Cool(p) \/ \E kind \in {"reap", "retire"} : SweepLock(p, kind)
    \/ Sweeps
    \/ Done

PoolSpec == PoolInit /\ [][PoolNext]_poolVars

(* Tasks are scheduled.  A deadline once passed stays passed, and a future *)
(* looks at it whenever it pends: strong fairness.  A lease may be kept    *)
(* for ever, a gate may never have room, a connect may never be answered.  *)
PoolFairness ==
    /\ \A c \in Client : WF_poolVars(Runs(c)) /\ SF_poolVars(Timers(c))
    /\ WF_poolVars(Sweeps) /\ \A p \in Pool : WF_poolVars(Cool(p))

PoolFairSpec == PoolSpec /\ PoolFairness
-----------------------------------------------------------------------------
(* The idle count is an unsigned machine integer; breakers and health     *)
(* flags are those of resilience.rs.                                      *)
PoolTypeOK ==
    /\ task \in [Client -> Task]
    /\ \A p \in Pool : idle[p] \in Seq(Backend)
    /\ lock \in [Pool -> Client \cup {Sweeper, None}]
    /\ active \in [Pool -> Nat]
    /\ count \in [Pool -> 0..(Width - 1)]
    /\ home \in [Backend -> Pool \cup {None}]
    /\ started \subseteq Backend
    /\ slots \in Nat
    /\ health \in [Pool -> BOOLEAN]
    /\ \A p \in Pool :
        /\ breaker[p].state \in {"closed", "open", "half_open"}
        /\ breaker[p].failures \in 0..FailureThreshold
    /\ lost \in [Pool -> Nat]

Counted(p) == {c \in In(p) : task[c].pc \in {"slot", "connect", "undo", "uncount"}}
Homed(p) == {b \in Backend : home[b] = p}
Closing(p) == IF sweep.pc = "uncount" /\ sweep.pool = p THEN 1 ELSE 0

(* active_backends counts the connected backends of the pool, the connects *)
(* under way and those just given up, through failed reservations, failed  *)
(* connects, discards and evictions; only a connect dropped by the         *)
(* checkout timeout leaves its count behind.                               *)
SlotsAccounted ==
    \A p \in Pool : active[p] = Cardinality(Homed(p)) + Cardinality(Counted(p))
                                  + Closing(p) + lost[p]

(* Every permit of capacity.max_backends is free, with a connected backend *)
(* or with a connect under way: none is lost, in any pool.                 *)
PermitsAccounted ==
    slots + Cardinality({b \in Backend : home[b] # None})
          + Cardinality({c \in Client : At(c, "connect")}) = GlobalSlots

(* No pool opens more than max_size backends, and all of them together no  *)
(* more than capacity.max_backends, however checkouts, failures and        *)
(* evictions interleave.                                                   *)
WithinCaps ==
    /\ \A p \in Pool : active[p] <= MaxSize
    /\ Cardinality({b \in Backend : home[b] # None}) <= GlobalSlots

(* A connected backend is in one place: once in the idle queue of its own  *)
(* pool, or leased to one client of that pool, or in the sweeper's hands.  *)
OnePlace ==
    \A b \in Backend, p \in Pool :
        LET queued == Cardinality({i \in 1..Len(idle[p]) : idle[p][i] = b})
            leased == Cardinality({c \in In(p) : task[c].lease = b})
            swept == IF sweep.pool = p /\ b \in sweep.out THEN 1 ELSE 0
        IN  queued + leased + swept = IF home[b] = p THEN 1 ELSE 0

(* The books of the pools: counts, permits, caps and places.               *)
PoolBooks == SlotsAccounted /\ PermitsAccounted /\ WithinCaps /\ OnePlace

(* configuration.md: reaping never removes connections below min_idle. *)
FloorKept ==
    [][sweep.kind = "reap" /\ sweep.pc = "drain" /\ sweep'.pc = "evict"
         => LET p == sweep.pool
            IN  idle'[p] # idle[p] => Len(idle'[p]) >= MinIdle]_poolVars

(* After the breaker opens, one request at most is let through until it    *)
(* closes or opens again, whoever reads its state meanwhile.               *)
OneProbe == \A p \in Pool : breaker[p].trials <= 1

(* A checkout past the breaker gets a lease or an error, though a wake may *)
(* be missed and a connect may hang: the timeout covers every wait.        *)
PoolAnswers == \A c \in Client : At(c, "route") ~> At(c, "leased") \/ At(c, "out")

(* A lease of a connection that has not been through PostgreSQL startup    *)
(* asks for it: tests assert requires_startup of every lease that opened   *)
(* its connection.                                                         *)
FreshNeedsStartup ==
    \A c \in Client : At(c, "leased") /\ task[c].lease \notin started => task[c].needs

(* A probe in flight is some checkout's or some lease's, whose end closes   *)
(* or reopens the breaker: a test is called                                *)
(* failed_half_open_probe_reopens_and_fast_rejects.                        *)
ProbeUnderWay ==
    \A p \in Pool : breaker[p].state = "half_open" /\ breaker[p].probe => In(p) # {}
=============================================================================
