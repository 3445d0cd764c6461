-------------------------- MODULE BackpressureGate --------------------------
(***************************************************************************)
(* One BackpressureGate (traffic/backpressure.rs): a semaphore of Capacity *)
(* permits, an in_flight counter compared with a dynamic limit, and a      *)
(* waiters counter capped by max_waiters.  Every checkout is a task that   *)
(* runs checkout_until; each step below is one atomic access of that code. *)
(* The tokio semaphore is FIFO: a returned permit goes to the head of its  *)
(* queue before it becomes available to try_acquire.                       *)
(***************************************************************************)
EXTENDS Integers, Sequences, FiniteSets

CONSTANTS
    Task,            \* the concurrent checkouts of this gate
    MaxInFlight,     \* max_in_flight as configured
    MaxWaiters,      \* max_waiters
    Limits,          \* the values stored in dynamic_limit
    MaxRounds,       \* bound: checkouts started by one task
    MaxLimitChanges  \* bound: stores into dynamic_limit

ASSUME TaskAssumption == IsFiniteSet(Task)
ASSUME MaxInFlightAssumption == MaxInFlight \in Nat
ASSUME MaxWaitersAssumption == MaxWaiters \in Nat
ASSUME LimitsAssumption == Limits \subseteq Nat /\ Limits # {}
ASSUME RoundsAssumption == MaxRounds \in Nat /\ MaxLimitChanges \in Nat

VARIABLES
    pc,             \* where each task is inside checkout_until
    free,           \* permits the semaphore holds
    queue,          \* tasks queued in acquire_owned, oldest first
    in_flight,      \* the in_flight counter
    previous,       \* each task's result of in_flight.fetch_add
    waiters,        \* the waiters counter
    dynamic_limit,  \* the shared limit cell
    notified,       \* tasks whose Notified future has been completed
    due,            \* tasks whose deadline has passed
    rounds,         \* checkouts each task has started
    changes,        \* stores into dynamic_limit so far
    leaked,         \* history: waits dropped before their waiters.fetch_sub
    peak            \* history: the highest limit() since each task's fetch_add

counters == <<free, in_flight, previous, waiters>>
settings == <<dynamic_limit, changes>>
history == <<leaked, peak>>
vars == <<pc, queue, counters, settings, notified, due, rounds, history>>

(* BackpressureGate::new and limit: at least one, at most the capacity. *)
Capacity == IF MaxInFlight < 1 THEN 1 ELSE MaxInFlight
Clamp(l) == IF l < 1 THEN 1 ELSE IF l > Capacity THEN Capacity ELSE l
limit == Clamp(dynamic_limit)

(***************************************************************************)
(* pc values, with what the task holds there.                              *)
(***************************************************************************)
HoldsPermit == {"assigned", "acquired", "count", "decide", "uncount",
                "putback", "granted", "returning"}
Counted == {"decide", "uncount", "granted"}
CountedWaiting == {"acquire", "queued", "assigned", "acquired", "capwait",
                   "capleave", "undo"}
Locations == {"idle", "check", "try", "qadd", "capadd"}
                \cup HoldsPermit \cup CountedWaiting

(* The tasks that the locations f put in S. *)
At(f, S) == {t \in Task : f[t] \in S}

(* The tasks of a queue, that none of them is there twice, and the queue    *)
(* without its i-th.                                                        *)
Listed(q) == {q[i] : i \in 1..Len(q)}
Distinct(q) == \A i, j \in 1..Len(q) : q[i] = q[j] => i = j
Without(q, i) == [j \in 1..(Len(q) - 1) |-> IF j < i THEN q[j] ELSE q[j + 1]]

Init ==
    /\ pc = [t \in Task |-> "idle"]
    /\ free = Capacity
    /\ queue = <<>>
    /\ in_flight = 0
    /\ previous = [t \in Task |-> 0]
    /\ waiters = 0
    /\ dynamic_limit \in {Capacity} \cup {Clamp(l) : l \in Limits}
    /\ notified = {}
    /\ rounds = [t \in Task |-> 0]
    /\ changes = 0
    /\ leaked = 0
    /\ due = {}
    /\ peak = [t \in Task |-> 0]

-----------------------------------------------------------------------------
RaisePeak ==
    peak' = [t \in Task |-> IF pc[t] \in Counted /\ peak[t] < limit' THEN limit'
                                                                    ELSE peak[t]]

(* A task's step from one location to the next. *)
Goto(t, from, to) == pc[t] = from /\ pc' = [pc EXCEPT ![t] = to]

(* Mutant: the permit goes back to the semaphore past its queue. *)
ReturnPermitUnqueued(t, to) ==
    /\ free' = free + 1
    /\ pc' = [pc EXCEPT ![t] = to]
    /\ queue' = queue

(* drop(permit): the semaphore hands the permit to its oldest waiter. *)
ReturnPermit(t, to) ==
    \/ /\ queue = <<>>
       /\ free' = free + 1
       /\ pc' = [pc EXCEPT ![t] = to]
       /\ queue' = queue
    \/ /\ queue # <<>>
       /\ free' = free
       /\ pc' = [pc EXCEPT ![t] = to, ![Head(queue)] = "assigned"]
       /\ queue' = Tail(queue)

(* notify_waiters wakes every Notified future that exists. *)
NotifyWaiters == notified' = notified \cup At(pc, {"capwait"})

(* A caller starts checkout. *)
Checkout(t) ==
    /\ rounds[t] < MaxRounds
    /\ Goto(t, "idle", "check")
    /\ rounds' = [rounds EXCEPT ![t] = @ + 1]
    /\ due' = due \ {t}
    /\ UNCHANGED <<queue, counters, settings, notified, history>>

(* The head of the loop: at the limit, wait for a change; else try a permit. *)
CheckLimit(t) ==
    /\ Goto(t, "check", IF in_flight >= limit THEN "capadd" ELSE "try")
    /\ UNCHANGED <<queue, counters, settings, notified, due, rounds, history>>

TryAcquire(t) ==
    /\ Goto(t, "try", IF free > 0 THEN "count" ELSE "qadd")
    /\ free' = IF free > 0 THEN free - 1 ELSE free
    /\ UNCHANGED <<queue, in_flight, previous, waiters, settings, notified,
                   due, rounds, history>>

(* waiters.fetch_add, and the QueueFull test of its result: the semaphore   *)
(* wait (from "qadd") and wait_for_capacity_change (from "capadd") alike.   *)
JoinWaiters(t, from, to) ==
    /\ Goto(t, from, IF waiters >= MaxWaiters THEN "undo" ELSE to)
    /\ waiters' = waiters + 1
    /\ UNCHANGED <<free, queue, in_flight, previous, settings, notified, due,
                   rounds, history>>

QueueJoin(t) == JoinWaiters(t, "qadd", "acquire")
CapacityJoin(t) == JoinWaiters(t, "capadd", "capwait")

(* The first poll of acquire_owned takes a permit or queues. *)
Acquire(t) ==
    /\ Goto(t, "acquire", IF free > 0 THEN "acquired" ELSE "queued")
    /\ free' = IF free > 0 THEN free - 1 ELSE free
    /\ queue' = IF free > 0 THEN queue ELSE Append(queue, t)
    /\ UNCHANGED <<in_flight, previous, waiters, settings, notified, due,
                   rounds, history>>

(* The deadline passes in the semaphore's queue. *)
AcquireTimeout(t) ==
    /\ t \in due
    /\ Goto(t, "queued", "undo")
    /\ \E i \in 1..Len(queue) : queue[i] = t /\ queue' = Without(queue, i)
    /\ UNCHANGED <<counters, settings, notified, due, rounds, history>>

(* Holding a permit out of the wait: waiters.fetch_sub. *)
AcquireDone(t) ==
    /\ pc[t] \in {"assigned", "acquired"}
    /\ pc' = [pc EXCEPT ![t] = "count"]
    /\ waiters' = waiters - 1
    /\ UNCHANGED <<free, queue, in_flight, previous, settings, notified, due,
                   rounds, history>>

(* in_flight.fetch_add; its result is compared with limit() a step later. *)
Count(t) ==
    /\ Goto(t, "count", "decide")
    /\ in_flight' = in_flight + 1
    /\ previous' = [previous EXCEPT ![t] = in_flight]
    /\ peak' = [peak EXCEPT ![t] = limit]
    /\ UNCHANGED <<free, queue, waiters, settings, notified, due, rounds,
                   leaked>>

Grant(t) ==
    /\ Goto(t, "decide", "granted")
    /\ previous[t] < limit
    /\ previous' = [previous EXCEPT ![t] = 0]
    /\ UNCHANGED <<free, queue, in_flight, waiters, settings, notified, due,
                   rounds, history>>

(* Mutant: a refusal that forgets in_flight.fetch_sub. *)
RefuseStillCounted(t) ==
    /\ Goto(t, "decide", "putback")
    /\ previous[t] >= limit
    /\ previous' = [previous EXCEPT ![t] = 0]
    /\ UNCHANGED <<free, queue, in_flight, waiters, settings, notified, due,
                   rounds, history>>

Refuse(t) ==
    /\ Goto(t, "decide", "uncount")
    /\ previous[t] >= limit
    /\ previous' = [previous EXCEPT ![t] = 0]
    /\ UNCHANGED <<free, queue, in_flight, waiters, settings, notified, due,
                   rounds, history>>

(* The refused task takes its count back, without a notification ... *)
Uncount(t) ==
    /\ Goto(t, "uncount", "putback")
    /\ in_flight' = in_flight - 1
    /\ peak' = [peak EXCEPT ![t] = 0]
    /\ UNCHANGED <<free, queue, previous, waiters, settings, notified, due,
                   rounds, leaked>>

(* ... and drops its permit, then waits for a capacity change. *)
PutBack(t) ==
    /\ pc[t] = "putback"
    /\ ReturnPermit(t, "capadd")
    /\ UNCHANGED <<in_flight, previous, waiters, settings, notified, due,
                   rounds, history>>

(* Mutant: the poll deadline is not capped by the checkout's deadline. *)
CapacityWakeUncapped(t) ==
    /\ Goto(t, "capwait", "capleave")
    /\ notified' = notified \ {t}
    /\ UNCHANGED <<queue, counters, settings, due, rounds, history>>

(* wait_for_capacity_change returns Ok: notified, or the 50 ms poll elapsed. *)
CapacityWake(t) ==
    /\ Goto(t, "capwait", "capleave")
    /\ t \in notified \/ t \notin due
    /\ notified' = notified \ {t}
    /\ UNCHANGED <<queue, counters, settings, due, rounds, history>>

(* Its deadline passed; a completed notification is polled first. *)
CapacityTimeout(t) ==
    /\ t \in due /\ t \notin notified
    /\ Goto(t, "capwait", "undo")
    /\ UNCHANGED <<queue, counters, settings, notified, due, rounds, history>>

(* waiters.fetch_sub, then the loop again or the error to the caller. *)
LeaveWaiters(t) ==
    /\ pc[t] \in {"capleave", "undo"}
    /\ pc' = [pc EXCEPT ![t] = IF @ = "undo" THEN "idle" ELSE "check"]
    /\ waiters' = waiters - 1
    /\ UNCHANGED <<free, queue, in_flight, previous, settings, notified, due,
                   rounds, history>>

(* Mutant: drop gives the permit back itself, before the field does. *)
ReleaseTwice(t) ==
    /\ Goto(t, "granted", "returning")
    /\ in_flight' = in_flight - 1
    /\ free' = free + 1
    /\ NotifyWaiters
    /\ peak' = [peak EXCEPT ![t] = 0]
    /\ UNCHANGED <<queue, previous, waiters, settings, due, rounds, leaked>>

(* Drop for BackpressurePermit: count down and notify; the permit itself is *)
(* a field of the dropped value and goes back after drop returns.           *)
Release(t) ==
    /\ Goto(t, "granted", "returning")
    /\ in_flight' = in_flight - 1
    /\ NotifyWaiters
    /\ peak' = [peak EXCEPT ![t] = 0]
    /\ UNCHANGED <<free, queue, previous, waiters, settings, due, rounds, leaked>>

Returned(t) ==
    /\ pc[t] = "returning"
    /\ ReturnPermit(t, "idle")
    /\ UNCHANGED <<in_flight, previous, waiters, settings, notified, due,
                   rounds, history>>

(***************************************************************************)
(* The pool's checkout wraps the gate in its own timeout and drops the     *)
(* future when that fires first: at an await, nothing after it runs, so    *)
(* waiters.fetch_sub is skipped.  The semaphore's future does clean up     *)
(* after itself: it leaves the queue, or returns a permit already assigned.*)
(***************************************************************************)
DropWait(t) ==
    /\ \/ /\ pc[t] = "capwait"
          /\ pc' = [pc EXCEPT ![t] = "idle"]
          /\ UNCHANGED <<queue, free>>
       \/ /\ pc[t] = "queued"
          /\ pc' = [pc EXCEPT ![t] = "idle"]
          /\ \E i \in 1..Len(queue) : queue[i] = t /\ queue' = Without(queue, i)
          /\ free' = free
       \/ pc[t] = "assigned" /\ ReturnPermit(t, "idle")
    /\ leaked' = leaked + 1
    /\ notified' = notified \ {t}
    /\ UNCHANGED <<in_flight, previous, waiters, settings, due, rounds, peak>>

(* The deadline of a running checkout passes. *)
DeadlinePasses(t) ==
    /\ pc[t] \notin {"idle", "granted", "returning"}
    /\ t \notin due
    /\ due' = due \cup {t}
    /\ UNCHANGED <<pc, queue, counters, settings, notified, rounds, history>>

(* set_limit: a clamped store and a notification. *)
SetLimit(l) ==
    /\ changes < MaxLimitChanges
    /\ dynamic_limit' = Clamp(l)
    /\ NotifyWaiters
    /\ changes' = changes + 1
    /\ RaisePeak
    /\ UNCHANGED <<pc, queue, counters, due, rounds, leaked>>

(* PressureController::tick stores into the cell the gates share. *)
PressureStore(l) ==
    /\ changes < MaxLimitChanges
    /\ dynamic_limit' = l
    /\ changes' = changes + 1
    /\ RaisePeak
    /\ UNCHANGED <<pc, queue, counters, notified, due, rounds, leaked>>

TaskStep(t) ==
    \/ CheckLimit(t) \/ TryAcquire(t) \/ QueueJoin(t) \/ CapacityJoin(t)
    \/ Acquire(t) \/ AcquireTimeout(t) \/ AcquireDone(t)
    \/ Count(t) \/ Grant(t) \/ Refuse(t) \/ Uncount(t) \/ PutBack(t)
    \/ CapacityWake(t) \/ CapacityTimeout(t) \/ LeaveWaiters(t)
    \/ Returned(t)

Done == /\ \A t \in Task : pc[t] = "idle" /\ rounds[t] = MaxRounds
        /\ UNCHANGED vars

Next ==
    \/ \E t \in Task : \/ Checkout(t) \/ TaskStep(t) \/ Release(t)
                      \/ DropWait(t) \/ DeadlinePasses(t)
    \/ \E l \in Limits : SetLimit(l) \/ PressureStore(l)
    \/ Done

Spec == Init /\ [][Next]_vars

(* Tasks are scheduled and deadlines pass; a granted permit may be kept    *)
(* for ever.                                                               *)
Fairness == \A t \in Task : WF_vars(TaskStep(t)) /\ WF_vars(DeadlinePasses(t))
FairSpec == Spec /\ Fairness

-----------------------------------------------------------------------------
(* Counters are naturals, the queue holds tasks, the semaphore never has *)
(* more permits than it was made with.                                   *)
TypeOK ==
    /\ pc \in [Task -> Locations]
    /\ free \in 0..Capacity
    /\ queue \in Seq(Task)
    /\ in_flight \in Nat
    /\ previous \in [Task -> Nat]
    /\ waiters \in Nat
    /\ dynamic_limit \in Nat
    /\ notified \subseteq Task
    /\ rounds \in [Task -> Nat]
    /\ changes \in Nat
    /\ due \subseteq Task
    /\ leaked \in Nat
    /\ peak \in [Task -> Nat]

(* Every permit of the semaphore is either free or held by exactly one    *)
(* task, through every refusal, timeout, hand-over and dropped future of   *)
(* checkout_until: the gate's capacity never shrinks or grows.             *)
PermitsConserved == free + Cardinality(At(pc, HoldsPermit)) = Capacity

(* in_flight counts the permits granted or being decided and nothing else: *)
(* a refused or dropped checkout takes its count back, so the counter that *)
(* limit() is compared with does not drift.                                *)
InFlightExact == in_flight = Cardinality(At(pc, Counted))

(* The waiters counter accounts for every task inside a wait, plus one for *)
(* every wait whose future the caller dropped: nothing else is lost.       *)
WaitersAccounted == waiters = Cardinality(At(pc, CountedWaiting)) + leaked

(* A task in the semaphore's queue waits only while no permit is free: a   *)
(* permit put back by a refused checkout wakes a queued one.               *)
NoStrandedWaiter ==
    /\ queue # <<>> => free = 0
    /\ At(pc, {"queued"}) = Listed(queue)
    /\ Distinct(queue)

(* At most max_waiters tasks sit in the two waits together. *)
WaitersBounded ==
    Cardinality(At(pc, CountedWaiting \ {"undo"})) <= MaxWaiters

(* No more permits are out than a limit that was in force while the last   *)
(* of them was decided: lowering the limit never revokes a permit, and a   *)
(* fetch_add made under the old limit is the only way past the new one.    *)
GrantedWithinLimit ==
    LET granted == At(pc, {"granted"})
    IN  granted # {} => \E t \in granted : Cardinality(granted) <= peak[t]

(* The counters the gate decides by are those of the tasks it deals with,  *)
(* and what it grants stays within max_in_flight, the limit in force and   *)
(* max_waiters.                                                            *)
GateCounts ==
    /\ PermitsConserved /\ InFlightExact /\ WaitersAccounted
    /\ WaitersBounded /\ GrantedWithinLimit

(* backpressure.md: a request is rejected with the queue full when         *)
(* max_waiters requests wait.                                              *)
QueueFullMeansFull ==
    [][\A t \in Task :
        pc[t] \in {"qadd", "capadd"} /\ pc'[t] = "undo"
            => Cardinality(At(pc, CountedWaiting)) >= MaxWaiters]_vars

(* A checkout that starts is answered, with a permit or an error: neither  *)
(* a lost notification nor a refused retry leaves a client waiting.        *)
CheckoutAnswered ==
    \A t \in Task : pc[t] = "check" ~> pc[t] \in {"granted", "idle"}

(* A caller sees a checkout as asking until it holds the permit, and as    *)
(* inside until the permit is back in the semaphore.                       *)
Stage == [t \in Task |-> IF pc[t] = "idle" THEN "out"
                         ELSE IF pc[t] \in {"granted", "returning"} THEN "in"
                         ELSE "asking"]

Admission == INSTANCE AdmissionGate WITH stage <- Stage

(* The retry loop, the two waits, the hand-over of permits, the changing   *)
(* limit and the dropped futures of checkout_until all amount to the       *)
(* abstract gate: a caller is let in only while fewer than max_in_flight   *)
(* others hold a permit or are still giving one back.                      *)
ImplementsAdmission == Admission!Spec
=============================================================================
