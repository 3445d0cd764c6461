--------------------------- MODULE IoUringEngine ---------------------------
(***************************************************************************)
(* The io_uring engine (engine/io_uring.rs): run starts one thread per     *)
(* shard, waits until each has bound its own SO_REUSEPORT listener, opens  *)
(* the start gate, and on a signal stops, drains and joins the threads.    *)
(* An accept loop looks at the stop flag only when a connection arrives,   *)
(* so run connects to its own address to wake the loops up; the kernel     *)
(* chooses the listener each of those connections goes to.                 *)
(*                                                                         *)
(* Each step is one access to state the threads share.  DrainToken's       *)
(* try_enter is one step here; Shutdown has it access by access.           *)
(***************************************************************************)
EXTENDS Naturals, Sequences, FiniteSetsExt

CONSTANTS Shards,        \* shard_count: shards are 1..Shards, in the order of the join
          ClientSlots,   \* permits of the client_slots semaphore
          Wakes,         \* connections a wake_accept_loops makes: 16 for each shard
          MaxClients     \* bound: connections clients make

VARIABLES main,      \* where run is; "failed" and "exit" are its returns
          ready,     \* startup results run has received
          results,   \* the startup channel: TRUE for Ok, FALSE for Err
          shard,     \* where each shard thread is
          backlog,   \* connections each listener has not accepted
          served,    \* session tasks of each shard
          late,      \* shards whose drain deadline has passed
          cut,       \* shards that ended with session tasks of theirs running
          flags,     \* stop, start_accepting (gate), the drain state, startup failed
          active,    \* DrainController.active_clients
          slots,     \* free permits
          wakes,     \* connections still to be made by wake_accept_loops
          clients    \* connections made by clients

vars == <<main, ready, results, shard, backlog, served, late, cut, flags, active, slots,
          wakes, clients>>

Shard == 1..Shards
ShardAt == {"building", "gate", "loop", "accept", "taken", "entered", "drain", "done", "failed"}
MainAt == {"startup", "open", "serve", "begin", "wake", "exit", "failed"}

Listening(s) == shard[s] \notin {"building", "done", "failed"}
Ended(s) == shard[s] \in {"done", "failed"}
At(s, pc) == shard[s] = pc
Goes(s, pc) == shard' = [shard EXCEPT ![s] = pc]
Tasks == MapThenSumSet(LAMBDA s : served[s], Shard)

Init ==
    /\ main = "startup" /\ ready = 0 /\ results = <<>>
    /\ shard = [s \in Shard |-> "building"]
    /\ backlog = [s \in Shard |-> 0]
    /\ served = [s \in Shard |-> 0]
    /\ late = {} /\ cut = {}
    /\ flags = [stop |-> FALSE, gate |-> FALSE, draining |-> FALSE, aborted |-> FALSE]
    /\ active = 0 /\ slots = ClientSlots
    /\ wakes = 0 /\ clients = 0

(***************************************************************************)
(* The shard threads.                                                      *)
(***************************************************************************)

(* The runtime is built and the listener bound; the result is reported and *)
(* the shard waits at the start gate.                                      *)
Bound(s) ==
    /\ At(s, "building")
    /\ results' = Append(results, TRUE)
    /\ Goes(s, "gate")
    /\ UNCHANGED <<main, ready, backlog, served, late, cut, flags, active, slots, wakes, clients>>

(* The runtime or the listener cannot be had: the thread reports and ends. *)
StartupErr(s) ==
    /\ At(s, "building")
    /\ results' = Append(results, FALSE)
    /\ Goes(s, "failed")
    /\ UNCHANGED <<main, ready, backlog, served, late, cut, flags, active, slots, wakes, clients>>

wait_for_start_gate(s) ==
    /\ At(s, "gate") /\ (flags.gate \/ flags.stop)
    /\ Goes(s, "loop")
    /\ UNCHANGED <<main, ready, results, backlog, served, late, cut, flags, active, slots, wakes,
                   clients>>

(* The condition of the accept loop.                                       *)
Loop(s) ==
    /\ At(s, "loop")
    /\ Goes(s, IF flags.stop \/ flags.draining THEN "drain" ELSE "accept")
    /\ UNCHANGED <<main, ready, results, backlog, served, late, cut, flags, active, slots, wakes,
                   clients>>

(* listener.accept returns and the stop flag is looked at.                 *)
Accept(s) ==
    /\ At(s, "accept") /\ backlog[s] > 0
    /\ backlog' = [backlog EXCEPT ![s] = @ - 1]
    /\ Goes(s, IF flags.stop THEN "drain" ELSE "taken")
    /\ UNCHANGED <<main, ready, results, served, late, cut, flags, active, slots, wakes, clients>>

(* A thread that returns drops its runtime, listener and session tasks,    *)
(* with the guards those hold.                                             *)
Returns(s, pc) ==
    /\ Goes(s, pc)
    /\ backlog' = [backlog EXCEPT ![s] = 0]
    /\ served' = [served EXCEPT ![s] = 0]
    /\ active' = active - served[s] /\ slots' = slots + served[s]
    /\ cut' = IF served[s] > 0 THEN cut \cup {s} ELSE cut
    /\ UNCHANGED <<main, ready, results, late, flags, wakes, clients>>

(* listener.accept fails: the thread returns the error at once.            *)
AcceptFails(s) == At(s, "accept") /\ Returns(s, "failed")

(* drain.try_enter: without a guard the connection is dropped.             *)
TryEnter(s) ==
    /\ At(s, "taken")
    /\ IF flags.draining THEN Goes(s, "loop") /\ UNCHANGED active
       ELSE Goes(s, "entered") /\ active' = active + 1
    /\ UNCHANGED <<main, ready, results, backlog, served, late, cut, flags, slots, wakes, clients>>

SpawnKeepingGuard(s) ==
    /\ At(s, "entered")
    /\ IF slots > 0
       THEN slots' = slots - 1 /\ served' = [served EXCEPT ![s] = @ + 1]
       ELSE UNCHANGED <<slots, served>>
    /\ Goes(s, "loop")
    /\ UNCHANGED <<main, ready, results, backlog, late, cut, flags, active, wakes, clients>>

(* A client slot and the session task; without a slot both the guard and   *)
(* the connection are dropped.                                             *)
Spawn(s) ==
    /\ At(s, "entered")
    /\ IF slots > 0
       THEN slots' = slots - 1 /\ served' = [served EXCEPT ![s] = @ + 1] /\ UNCHANGED active
       ELSE active' = active - 1 /\ UNCHANGED <<slots, served>>
    /\ Goes(s, "loop")
    /\ UNCHANGED <<main, ready, results, backlog, late, cut, flags, wakes, clients>>

(* proxy_connection returns: a session, or a cancel request passed on.     *)
SessionEnds(s) ==
    /\ served[s] > 0
    /\ served' = [served EXCEPT ![s] = @ - 1]
    /\ slots' = slots + 1 /\ active' = active - 1
    /\ UNCHANGED <<main, ready, results, shard, backlog, late, cut, flags, wakes, clients>>

(* The drain deadline of wait_for_active_sessions passes.                  *)
Deadline(s) ==
    /\ At(s, "drain") /\ active > 0
    /\ late' = late \cup {s}
    /\ UNCHANGED <<main, ready, results, shard, backlog, served, cut, flags, active, slots, wakes,
                   clients>>

(* wait_for_active_sessions returns once no shard has a session left, or   *)
(* late.                                                                   *)
Drained(s) == At(s, "drain") /\ (active = 0 \/ s \in late) /\ Returns(s, "done")

(***************************************************************************)
(* run.                                                                    *)
(***************************************************************************)

(* wait_for_shard_startup: the next result, or the startup grace passes.   *)
Receives ==
    /\ main = "startup" /\ results # <<>> /\ Head(results)
    /\ ready' = ready + 1 /\ results' = Tail(results)
    /\ main' = IF ready' = Shards THEN "open" ELSE main
    /\ UNCHANGED <<shard, backlog, served, late, cut, flags, active, slots, wakes, clients>>

StartupFailed ==
    /\ main = "startup" /\ (IF results = <<>> THEN TRUE ELSE ~Head(results))
    /\ results' = IF results = <<>> THEN results ELSE Tail(results)
    /\ flags' = [flags EXCEPT !.stop = TRUE, !.aborted = TRUE]
    /\ main' = "begin"
    /\ UNCHANGED <<ready, shard, backlog, served, late, cut, active, slots, wakes, clients>>

(* Every shard is bound: the start gate opens.                             *)
OpenGate ==
    /\ main = "open"
    /\ flags' = [flags EXCEPT !.gate = TRUE]
    /\ main' = "serve"
    /\ UNCHANGED <<ready, results, shard, backlog, served, late, cut, active, slots, wakes, clients>>

Signal ==
    /\ main = "serve"
    /\ flags' = [flags EXCEPT !.stop = TRUE]
    /\ main' = "begin"
    /\ UNCHANGED <<ready, results, shard, backlog, served, late, cut, active, slots, wakes, clients>>

(* begin_drain.  After a failed startup the loops are woken up twice.      *)
BeginDrain ==
    /\ main = "begin"
    /\ flags' = [flags EXCEPT !.draining = TRUE]
    /\ wakes' = IF flags.aborted THEN 2 * Wakes ELSE Wakes
    /\ main' = "wake"
    /\ UNCHANGED <<ready, results, shard, backlog, served, late, cut, active, slots, clients>>

(* wake_accept_loops: one connection, to a listener of the kernel's        *)
(* choice; without a listener it fails.                                    *)
Wake ==
    /\ main = "wake" /\ wakes > 0
    /\ wakes' = wakes - 1
    /\ \/ \E s \in Shard : Listening(s) /\ backlog' = [backlog EXCEPT ![s] = @ + 1]
       \/ (\A s \in Shard : ~Listening(s)) /\ UNCHANGED backlog
    /\ UNCHANGED <<main, ready, results, shard, served, late, cut, flags, active, slots, clients>>

(* join_shards: the threads in order; the first error is run's own.        *)
Join ==
    /\ main = "wake" /\ wakes = 0
    /\ \/ \E s \in Shard :
             /\ At(s, "failed") /\ \A r \in 1..(s - 1) : At(r, "done")
             /\ main' = "failed"
       \/ /\ \A s \in Shard : At(s, "done")
          /\ main' = IF flags.aborted THEN "failed" ELSE "exit"
    /\ UNCHANGED <<ready, results, shard, backlog, served, late, cut, flags, active, slots, wakes,
                   clients>>

(* A client connects, also before the gate opens or while shards drain.    *)
Connect(s) ==
    /\ clients < MaxClients /\ Listening(s) /\ main \notin {"exit", "failed"}
    /\ clients' = clients + 1
    /\ backlog' = [backlog EXCEPT ![s] = @ + 1]
    /\ UNCHANGED <<main, ready, results, shard, served, late, cut, flags, active, slots, wakes>>

Returned == main \in {"exit", "failed"}

ShardStep(s) ==
    \/ Bound(s) \/ StartupErr(s) \/ wait_for_start_gate(s) \/ Loop(s) \/ Accept(s)
    \/ TryEnter(s) \/ Spawn(s) \/ Drained(s)

MainStep == Receives \/ StartupFailed \/ OpenGate \/ BeginDrain \/ Wake \/ Join

(* Once run returns the process ends, the remaining threads with it.       *)
Next ==
    \/ /\ ~Returned
       /\ \/ MainStep \/ Signal
          \/ \E s \in Shard :
                ShardStep(s) \/ AcceptFails(s) \/ SessionEnds(s) \/ Deadline(s) \/ Connect(s)
    \/ Returned /\ UNCHANGED vars

Spec == Init /\ [][Next]_vars

(* Threads run and deadlines pass; sessions may last, nobody need connect  *)
(* and the signal need not come.                                           *)
FairSpec ==
    /\ Spec
    /\ WF_vars(MainStep)
    /\ \A s \in Shard :
          WF_vars(~Returned /\ ShardStep(s)) /\ WF_vars(~Returned /\ Deadline(s))

(***************************************************************************)
(* Properties.                                                             *)
(***************************************************************************)

(* Every variable stays in its domain.                                     *)
TypeOK ==
    /\ main \in MainAt /\ ready \in 0..Shards
    /\ results \in Seq(BOOLEAN) /\ Len(results) <= Shards
    /\ shard \in [Shard -> ShardAt]
    /\ backlog \in [Shard -> 0..(MaxClients + 2 * Wakes)]
    /\ served \in [Shard -> 0..ClientSlots]
    /\ late \subseteq Shard /\ cut \subseteq Shard
    /\ flags \in [stop : BOOLEAN, gate : BOOLEAN, draining : BOOLEAN, aborted : BOOLEAN]
    /\ active \in Nat /\ slots \in 0..ClientSlots
    /\ wakes \in 0..(2 * Wakes) /\ clients \in 0..MaxClients

(* No client is served unless every shard has started: not before the last *)
(* one is bound, and never by a start that failed, although a shard leaves *)
(* the start gate when run gives up.                                       *)
ServedOnceStarted ==
    (\E s \in Shard : served[s] > 0 \/ At(s, "entered")) => (ready = Shards /\ ~flags.aborted)

(* The drain counter and the client slots account for the session tasks    *)
(* there are: a refused connection leaves nothing counted, so that neither *)
(* a slot is lost nor a drain waits for a session that does not exist.     *)
SessionsAccounted ==
    /\ slots + Tasks = ClientSlots
    /\ active = Tasks + Cardinality({s \in Shard : At(s, "entered")})

(* A session is cut off only by its shard's drain deadline or by an accept *)
(* error of its shard: no thread returns under a session that could still  *)
(* finish, whichever shard drains first.                                   *)
CutOnlyLate == \A s \in cut : s \in late \/ At(s, "failed")

(* Once run has stopped it returns, unless a shard sits in accept for ever *)
(* with no connection to wake it up: no other wait is without an end.      *)
OnlyAcceptBlocks ==
    <>flags.stop => (<>Returned \/ <>[](\E s \in Shard : At(s, "accept") /\ backlog[s] = 0))

(* Once run has stopped it returns.  It need not: the connections made to  *)
(* wake the accept loops up may all go to the listeners of other shards.   *)
RunReturns == flags.stop ~> Returned
=============================================================================
