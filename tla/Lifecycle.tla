------------------------------ MODULE Lifecycle ------------------------------
(***************************************************************************)
(* The lifecycle controller (ops/lifecycle.rs) that every part of the      *)
(* proxy updates, and the states it publishes.  An update reads the state, *)
(* changes it under the lock, reads it again and publishes it if it        *)
(* differs: accesses that other updates interleave with.                   *)
(***************************************************************************)
EXTENDS Naturals, Sequences

CONSTANTS
    Drainer,            \* the callers of begin_drain: the main loop and the shards
    FailDuringDrain,    \* readiness_fail_during_drain
    BackendChecks       \* startup_backend_checks_enabled

VARIABLES
    drain,      \* DrainController.state
    state,      \* LifecycleState: life, readiness, listeners, pools
    task,       \* each updater: its call, where it is and the state it read
    published   \* the last state sent to the subscribers and the gauges

vars == <<drain, state, task, published>>

Starter == "starter"
Stopper == "stopper"
Tasks == Drainer \cup {Starter, Stopper}
Lives == {"starting", "ready", "draining", "stopping", "stopped"}

(* The calls each part of the proxy makes, in order. *)
Calls(t) ==
    IF t = Starter THEN <<"pools", "ready", "listeners", "ready">>
    ELSE IF t = Stopper THEN <<"stopping", "stopped">>
    ELSE <<"drain">>

(* ReadinessGate.startup_ready and ReadinessGate.evaluate. *)
startup_ready(s) == s.listeners /\ (BackendChecks => s.pools)

evaluate(s) ==
    IF s.life = "ready" /\ startup_ready(s) THEN "ready"
    ELSE IF s.life = "draining" /\ ~FailDuringDrain THEN "draining"
    ELSE "not_ready"

(* RuntimeLifecycleState.can_transition_to. *)
can_transition_to ==
    {<<"starting", "ready">>, <<"starting", "stopping">>, <<"ready", "draining">>,
     <<"ready", "stopping">>, <<"draining", "stopping">>, <<"stopping", "stopped">>}

Initial == [life |-> "starting", readiness |-> "not_ready", listeners |-> FALSE, pools |-> FALSE]

Init ==
    /\ drain = "accepting" /\ state = Initial /\ published = Initial
    /\ task = [t \in Tasks |-> [call |-> 1, pc |-> "enter", saw |-> Initial, go |-> FALSE]]

Pending(t) == task[t].call <= Len(Calls(t))
Call(t) == Calls(t)[task[t].call]
Goes(t, pc) == task' = [task EXCEPT ![t].pc = pc]

(* The thread that starts the proxy begins a drain itself if a shard does  *)
(* not start, and then marks nothing more; otherwise a drain begins after  *)
(* it has entered its loop.  The coordinator follows the drain.            *)
Allowed(t) ==
    CASE t = Starter -> drain = "accepting"
      [] t = Stopper -> \E d \in Drainer : ~Pending(d)
      [] OTHER -> \/ drain # "accepting"
                  \/ task[Starter].pc = "enter" /\ task[Starter].call \in {3, 5}

(* What precedes the update: begin_drain and mark_stopped move the drain   *)
(* controller, maybe_mark_ready reads the flags; then `previous` is read.  *)
Enter(t) ==
    /\ Pending(t) /\ task[t].pc = "enter"
    /\ Allowed(t)
    /\ drain' = CASE Call(t) = "drain" /\ drain = "accepting" -> "draining"
                  [] Call(t) = "stopped" -> "drained"
                  [] OTHER -> drain
    /\ task' = [task EXCEPT ![t].pc = "lock", ![t].saw = state,
                            ![t].go = startup_ready(state)]
    /\ UNCHANGED <<state, published>>

(* Mutant: a drain is left to the controller alone. *)
LifeAfterKeeps(call, go) ==
    CASE call = "ready" /\ state.life = "starting" /\ go -> "ready"
      [] call = "stopping" /\ state.life \in {"starting", "ready", "draining"} -> "stopping"
      [] call = "stopped" /\ state.life = "stopping" -> "stopped"
      [] OTHER -> state.life

(* What each call does to the state, under the lock. *)
LifeAfter(call, go) ==
    CASE call = "ready" /\ state.life = "starting" /\ go -> "ready"
      [] call = "drain" /\ state.life = "ready" -> "draining"
      [] call = "stopping" /\ state.life \in {"starting", "ready", "draining"} -> "stopping"
      [] call = "stopped" /\ state.life = "stopping" -> "stopped"
      [] OTHER -> state.life

(* The closure of the update, and the readiness that follows from it. *)
Locked(t) ==
    LET s == [state EXCEPT !.life = LifeAfter(Call(t), task[t].go),
                           !.pools = @ \/ Call(t) = "pools",
                           !.listeners = @ \/ Call(t) = "listeners"]
    IN  /\ task[t].pc = "lock"
        /\ state' = [s EXCEPT !.readiness = evaluate(s)]
        /\ Goes(t, "read")
        /\ UNCHANGED <<drain, published>>

Finished(t) == [task[t] EXCEPT !.call = @ + 1, !.pc = "enter", !.saw = Initial, !.go = FALSE]

(* `current` is read; an update that changed nothing publishes nothing. *)
ReadCurrent(t) ==
    /\ task[t].pc = "read"
    /\ task' = [task EXCEPT ![t] = IF state = @.saw THEN Finished(t)
                                   ELSE [@ EXCEPT !.pc = "publish", !.saw = state]]
    /\ UNCHANGED <<drain, state, published>>

Publish(t) ==
    /\ task[t].pc = "publish"
    /\ published' = task[t].saw
    /\ task' = [task EXCEPT ![t] = Finished(t)]
    /\ UNCHANGED <<drain, state>>

Updates(t) == Enter(t) \/ Locked(t) \/ ReadCurrent(t) \/ Publish(t)

(* Every part of the proxy has made its calls. *)
Done == (\A t \in Tasks \ {Starter} : ~Pending(t)) /\ UNCHANGED vars

Next == (\E t \in Tasks : Updates(t)) \/ Done

Spec == Init /\ [][Next]_vars
-----------------------------------------------------------------------------
TypeOK ==
    /\ drain \in {"accepting", "draining", "drained"}
    /\ state.life \in Lives /\ published.life \in Lives
    /\ \A t \in Tasks : task[t].pc \in {"enter", "lock", "read", "publish"}

(* However the updates interleave, the lifecycle moves only along the      *)
(* transitions can_transition_to allows, although begin_drain and          *)
(* mark_stopping assign the state without asking it.                       *)
LifecycleMoves ==
    [][state'.life # state.life => <<state.life, state'.life>> \in can_transition_to]_vars

(* "`ready` means the proxy is accepting new work": a process that reports *)
(* itself ready accepts clients, except while a caller of begin_drain is   *)
(* between the drain controller and the lifecycle state.                   *)
ReadyAccepts ==
    state.readiness = "ready" /\ drain # "accepting" => \E t \in Drainer : task[t].pc = "lock"

(* The gauges are documented as the current state: once no update is under *)
(* way, the state last published is the state of the process.              *)
PublishedIsCurrent == (\A t \in Tasks : task[t].pc = "enter") => published = state
=============================================================================
