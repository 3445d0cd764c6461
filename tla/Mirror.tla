------------------------------- MODULE Mirror -------------------------------
(***************************************************************************)
(* The mirror dispatcher (ops/mirror.rs): a copy of a client's cycle is    *)
(* classified, sampled, admitted against a bound and run in a task of its  *)
(* own against a second server, within a timeout.  The live proxy builds   *)
(* the dispatcher switched off; these are the rules it has once it is on.  *)
(*                                                                         *)
(* A cycle is its route's query class, its command, the session's pin, the *)
(* routing target and whether its frames can be mirrored; `writes` is what *)
(* its statement really does, which the dispatcher does not see.           *)
(***************************************************************************)
EXTENDS Integers, Sequences, FiniteSets

CONSTANTS
    Task,          \* cycles handed to the dispatcher
    Cycles,        \* what a cycle may be
    Settings,      \* MirrorDispatchConfig
    max_in_flight  \* permits of the semaphore

VARIABLES
    config,    \* the settings in force
    in_flight, \* free permits
    task,      \* each cycle: where it is, what it is, what its task has done
    recorded   \* MirrorOutcomeRecorder: how often and how each was recorded

vars == <<config, in_flight, task, recorded>>

NoCycle == [class |-> "none", command |-> "none", pin |-> "none", route |-> "none",
            supported |-> FALSE, replays |-> FALSE, writes |-> FALSE]
Fresh == [at |-> "new", cycle |-> NoCycle, answered |-> FALSE]

Stages == {"spawned", "startup", "query"}

Init ==
    /\ config \in Settings
    /\ in_flight = max_in_flight
    /\ task = [t \in Task |-> Fresh]
    /\ recorded = [t \in Task |-> << >>]

(* The gate of a pin, and of a command that is no plain query. *)
PinGate(pin) ==
    CASE pin = "transaction" -> "transactions"
      [] pin = "copy" -> "copy"
      [] pin = "listen" -> "listen"
      [] pin = "temp" -> "temp"
      [] pin \in {"session", "advisory"} -> "session"
      [] pin = "unknown" -> "disabled"

CommandGate(command) ==
    CASE command = "transaction" -> "transactions"
      [] command = "session" -> "session"
      [] command = "copy" -> "copy"
      [] command = "listen" -> "listen"

(* MirrorMode::is_enabled. *)
is_enabled == config.mode # "off"

Opens(gate) == config.mode # "read_only" /\ gate \in config.gates

(* MirrorSafetyClassifier::classify; read_only closes every gate. *)
classify(c) ==
    IF ~is_enabled THEN "skipped"
    ELSE IF config.target = "absent" THEN "rejected"
    ELSE IF config.require_isolated /\ ~config.isolated /\ config.target = "production"
    THEN "rejected"
    ELSE IF c.route = "denied" THEN "rejected"
    ELSE IF c.route = "not routed" \/ ~c.supported THEN "skipped"
    ELSE IF c.class \in {"write", "maintenance"} /\ ~Opens("writes") THEN "skipped"
    ELSE IF c.command # "query" /\ ~Opens(CommandGate(c.command)) THEN "skipped"
    ELSE IF c.pin # "none" /\ ~Opens(PinGate(c.pin)) THEN "skipped"
    ELSE "mirrored"

(* MirrorSample::should_sample: both ends belong to the sample. *)
should_sample(sample) == sample <= config.rate

record(t, status) == recorded' = [recorded EXCEPT ![t] = Append(@, status)]

(* dispatch, of a cycle that is not mirrored: recorded at once. *)
DispatchSkips(t, c) ==
    /\ task[t].at = "new" /\ classify(c) # "mirrored"
    /\ task' = [task EXCEPT ![t].at = "over"]
    /\ record(t, classify(c))
    /\ UNCHANGED <<config, in_flight>>

(* ... of one that the sample leaves out, or that finds no permit.         *)
DispatchDrops(t, c, sample) ==
    /\ task[t].at = "new" /\ classify(c) = "mirrored"
    /\ ~should_sample(sample) \/ in_flight = 0
    /\ task' = [task EXCEPT ![t].at = "over"]
    /\ record(t, "dropped")
    /\ UNCHANGED <<config, in_flight>>

(* ... and of one that is: a task is spawned with the permit. *)
DispatchSpawns(t, c, sample) ==
    /\ task[t].at = "new" /\ classify(c) = "mirrored"
    /\ should_sample(sample) /\ in_flight > 0
    /\ in_flight' = in_flight - 1
    /\ task' = [task EXCEPT ![t].at = "spawned", ![t].cycle = c]
    /\ UNCHANGED <<config, recorded>>

-----------------------------------------------------------------------------
(* run_default_mirror_task: connect and send the startup packet ...        *)
Connects(t) ==
    /\ task[t].at = "spawned"
    /\ task' = [task EXCEPT ![t].at = "startup"]
    /\ UNCHANGED <<config, in_flight, recorded>>

(* ... the replay and the cycle once the target is ready ...               *)
Sends(t) ==
    /\ task[t].at = "startup"
    /\ task' = [task EXCEPT ![t].at = "query"]
    /\ UNCHANGED <<config, in_flight, recorded>>

(* External: the target answers the cycle. *)
Answers(t) ==
    /\ task[t].at = "query" /\ ~task[t].answered
    /\ task' = [task EXCEPT ![t].answered = TRUE]
    /\ UNCHANGED <<config, in_flight, recorded>>

(* The exchange ends: its outcome is recorded ... *)
Ends(t, status) ==
    /\ task' = [task EXCEPT ![t].at = "recorded", ![t].cycle = NoCycle]
    /\ record(t, status)
    /\ UNCHANGED <<config, in_flight>>

(* Mutant: a task that timed out keeps its permit. *)
DropPermitUnlessTimedOut(t) ==
    /\ task[t].at = "recorded"
    /\ task' = [task EXCEPT ![t].at = "over"]
    /\ in_flight' = IF recorded[t] = <<"timed_out">> THEN in_flight ELSE in_flight + 1
    /\ UNCHANGED <<config, recorded>>

(* ... and then the permit is dropped, with the task. *)
DropPermit(t) ==
    /\ task[t].at = "recorded"
    /\ task' = [task EXCEPT ![t].at = "over"]
    /\ in_flight' = in_flight + 1
    /\ UNCHANGED <<config, recorded>>

(* ... until the first ReadyForQuery after that, which is the replay's if  *)
(* there was one.                                                          *)
Completes(t) ==
    /\ task[t].at = "query"
    /\ task[t].answered \/ task[t].cycle.replays
    /\ Ends(t, "completed")

(* A refused connection, an authentication request, an error response, too *)
(* many bytes, a disconnect; or the timeout around it all.                 *)
Breaks(t) == task[t].at \in Stages /\ \E status \in {"error", "timed_out"} : Ends(t, status)

Dispatch(t) ==
    \E c \in Cycles :
        \/ DispatchSkips(t, c)
        \/ \E sample \in 0..2 : DispatchDrops(t, c, sample) \/ DispatchSpawns(t, c, sample)

Next ==
    \E t \in Task :
        \/ Dispatch(t)
        \/ Connects(t) \/ Sends(t) \/ Answers(t) \/ Completes(t) \/ Breaks(t) \/ DropPermit(t)

Spec == Init /\ [][Next]_vars
-----------------------------------------------------------------------------
Running == {t \in Task : task[t].at \in Stages}

(* The permits are exactly what the spawned tasks leave of them, however   *)
(* their exchanges ended: by an answer, an error or the timeout.           *)
PermitsExact ==
    in_flight = max_in_flight - Cardinality({t \in Task : task[t].at \in Stages \cup {"recorded"}})

(* Every cycle handed over is recorded once, when its exchange is over and *)
(* not before, with one status.                                            *)
RecordedOnce ==
    \A t \in Task : Len(recorded[t]) = IF task[t].at \in {"recorded", "over"} THEN 1 ELSE 0

(* A mirror that must be isolated never connects to the production server, *)
(* unless the configuration declares that address isolated.                *)
ProductionSpared ==
    (Running # {} /\ config.target = "production") => (config.isolated \/ ~config.require_isolated)

(* In read_only mode only a plain query of an unpinned session is mirrored. *)
ReadOnlyIsPlain ==
    config.mode = "read_only" => \A t \in Running :
        task[t].cycle.command = "query" /\ task[t].cycle.pin = "none"

(* "read_only": no statement that writes reaches the mirror.               *)
ReadOnlyWritesNothing ==
    config.mode = "read_only" => \A t \in Running : ~task[t].cycle.writes

(* A cycle is recorded as completed only when the mirror has answered it.  *)
CompletedIsAnswered == \A t \in Task : recorded[t] = <<"completed">> => task[t].answered
=============================================================================
