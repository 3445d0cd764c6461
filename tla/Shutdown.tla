------------------------------ MODULE Shutdown ------------------------------
(***************************************************************************)
(* Drain and shutdown: the drain controller (ops/drain.rs), the lifecycle  *)
(* states (ops/lifecycle.rs), the accept loop of each shard and the main   *)
(* loop that runs the shutdown coordinator (proxy.rs).  Each step is one   *)
(* access to shared state.  A Notified future is in `heard` once it has    *)
(* been notified.  With run the one shard is a branch of the main loop;    *)
(* with run_thread_per_core each shard is a thread, whose result reaches   *)
(* the main loop through a channel that closes when the last thread ends.  *)
(***************************************************************************)
EXTENDS Naturals, FiniteSets

CONSTANTS
    Shard, Client,
    None,           \* no client, no outcome
    ClientSlots,    \* permits of the client_slots semaphore
    PerCore,        \* run_thread_per_core rather than run
    Failures        \* the errors considered: of "accept", "reject", "bind", "control"

VARIABLES
    drain,       \* DrainController.state
    life,        \* LifecycleState.lifecycle
    active,      \* DrainController.active_clients
    slots,       \* free permits
    client,      \* each client: where it is and the shard that accepted it
    shard,       \* each shard: where it is, the client in hand, draining
    main,        \* where the main loop and its coordinator are
    serving,     \* the main loop has been entered
    results,     \* shards whose result is in the channel of the main loop
    forced,      \* ShutdownOutcome.forced_sessions, once decided
    completion,  \* the shutdown_completion channel
    heard        \* who has been notified by the drain controller

loop == <<serving, results>>
vars == <<drain, life, active, slots, client, shard, main, serving, results, forced,
          completion, heard>>

Main == "main"

(* slot, served, leave: the client's task, or its shard, holds the guard. *)
Guarded == {"slot", "served", "leave"}
ClientAt == Guarded \cup {"out", "hand", "add", "recheck", "notify", "left", "rejected", "closed"}
ShardAt == {"init", "unbound", "first", "arm", "loop", "check", "add", "recheck", "slot", "reject", "exit"}
MainAt == {"starting", "run", "mark", "begin", "check", "park", "wait", "grace", "send", "finish", "join",
           "exit"}

Init ==
    /\ drain = "accepting" /\ life = "starting"
    /\ active = 0 /\ slots = ClientSlots
    /\ client = [c \in Client |-> [pc |-> "out", shard |-> None]]
    /\ shard = [h \in Shard |-> [pc |-> IF PerCore THEN "init" ELSE "first", client |-> None, draining |-> FALSE]]
    /\ main = "starting" /\ serving = FALSE /\ results = {} /\ forced = None /\ completion = None
    /\ heard = {}

At(h, pc) == shard[h].pc = pc
Ended(h) == shard[h].pc \in {"unbound", "exit"}
Running(h) == main # "exit" /\ shard[h].pc \notin {"init", "unbound", "exit"} /\ (PerCore \/ serving)
InHand(h) == shard[h].client
ShardGoes(h, pc) == shard' = [shard EXCEPT ![h].pc = pc]
ClientGoes(c, pc) == client' = [client EXCEPT ![c].pc = pc]

(* notify_waiters: the shards hear it once their Notified future is made,  *)
(* the main loop while it is in wait_for_completion.                       *)
Armed(h) == shard[h].pc \notin {"init", "unbound", "first", "arm"}
Notified == heard \cup {h \in Shard : Armed(h)} \cup (IF main = "wait" THEN {Main} ELSE {})

(***************************************************************************)
(* The main loop.                                                          *)
(***************************************************************************)
(* Every shard has said that its listener is bound, the health and the     *)
(* admin listeners are bound too: listeners and pools are initialised and  *)
(* the loop is entered.                                                    *)
MarkReady ==
    /\ main = "starting" /\ \A h \in Shard : shard[h].pc \notin {"init", "unbound"}
    /\ main' = "run" /\ life' = "ready" /\ serving' = TRUE
    /\ UNCHANGED <<drain, active, slots, client, shard, results, forced, completion, heard>>

(* A listener of the control plane cannot be bound, or a shard says        *)
(* nothing for five seconds: the process ends.                             *)
StartFails ==
    /\ main = "starting" /\ "control" \in Failures
    /\ main' = "exit"
    /\ UNCHANGED <<drain, life, active, slots, client, shard, forced, completion, heard, loop>>

Drains == main' = "mark" /\ drain' = "draining" /\ heard' = Notified

(* A shard failed before it was bound, and the others are drained ...      *)
ShardNotStarted ==
    /\ main = "starting" /\ \E h \in Shard : At(h, "unbound")
    /\ Drains
    /\ UNCHANGED <<life, active, slots, client, shard, forced, completion, loop>>

(* The select is biased: nothing else is polled while a result is in the   *)
(* channel, nor once the channel is closed, because recv then answers at   *)
(* once every time.                                                        *)
AllEnded == PerCore /\ \A h \in Shard : Ended(h)
Polls == serving => results = {} /\ ~AllEnded

(* ... or after: its result begins a drain unless one is under way. *)
ReadResult(h) ==
    /\ serving /\ main \in {"run", "begin", "wait", "grace"} /\ h \in results
    /\ results' = results \ {h}
    /\ \/ main = "run" /\ Drains
       \/ main # "run" /\ UNCHANGED <<main, drain, heard>>
    /\ UNCHANGED <<life, active, slots, client, shard, serving, forced, completion>>

ReadClosed ==
    /\ serving /\ main \in {"run", "begin", "wait", "grace"} /\ results = {} /\ AllEnded
    /\ UNCHANGED vars

(* A signal: begin_drain, first the controller ... *)
BeginDrain ==
    /\ main = "run" /\ Polls
    /\ Drains
    /\ UNCHANGED <<life, active, slots, client, shard, forced, completion, loop>>

(* ... then the lifecycle state. *)
MarkDraining ==
    /\ main = "mark"
    /\ main' = "begin"
    /\ life' = IF life = "ready" THEN "draining" ELSE life
    /\ UNCHANGED <<drain, active, slots, client, shard, forced, completion, heard, loop>>

(* The coordinator is polled for the first time ... *)
Begin ==
    /\ main = "begin" /\ Polls
    /\ main' = "check"
    /\ UNCHANGED <<drain, life, active, slots, client, shard, forced, completion, heard, loop>>

(* ... and waits for completion: active_clients is read ... *)
CheckActive ==
    /\ main = "check"
    /\ \/ /\ active = 0
          /\ main' = "send" /\ life' = "stopping" /\ forced' = 0
       \/ /\ active # 0
          /\ main' = "park"
          /\ UNCHANGED <<life, forced>>
    /\ UNCHANGED <<drain, active, slots, client, shard, completion, heard, loop>>

(* ... and the Notified future made in two steps. *)
ParkMain ==
    /\ main = "park"
    /\ main' = "wait" /\ heard' = heard \ {Main}
    /\ UNCHANGED <<drain, life, active, slots, client, shard, forced, completion, loop>>

WakeMain ==
    /\ main = "wait" /\ Main \in heard /\ Polls
    /\ main' = "check"
    /\ UNCHANGED <<drain, life, active, slots, client, shard, forced, completion, heard, loop>>

(* The drain deadline: mark_stopping, then the shutdown grace ... *)
Deadline ==
    /\ main = "wait" /\ Polls
    /\ main' = "grace" /\ life' = "stopping"
    /\ UNCHANGED <<drain, active, slots, client, shard, forced, completion, heard, loop>>

(* ... after which whoever is left is to be closed by force. *)
Grace ==
    /\ main = "grace" /\ Polls
    /\ main' = "send" /\ forced' = active
    /\ UNCHANGED <<drain, life, active, slots, client, shard, completion, heard, loop>>

Send ==
    /\ main = "send"
    /\ main' = "finish" /\ completion' = forced
    /\ UNCHANGED <<drain, life, active, slots, client, shard, forced, heard, loop>>

(* complete: finish_drain and mark_stopped. *)
Complete ==
    /\ main = "finish"
    /\ main' = "join" /\ drain' = "drained" /\ life' = "stopped" /\ heard' = Notified
    /\ UNCHANGED <<active, slots, client, shard, forced, completion, loop>>

Join ==
    /\ main = "join" /\ \A h \in Shard : Ended(h)
    /\ main' = "exit"
    /\ UNCHANGED <<drain, life, active, slots, client, shard, forced, completion, heard, loop>>

(***************************************************************************)
(* A shard: its listener, accept, try_enter, a client slot.                *)
(***************************************************************************)
Bind(h) ==
    /\ At(h, "init") /\ main # "exit"
    /\ ShardGoes(h, "first")
    /\ UNCHANGED <<drain, life, active, slots, client, main, forced, completion, heard, loop>>

BindFails(h) ==
    /\ At(h, "init") /\ main # "exit" /\ "bind" \in Failures
    /\ ShardGoes(h, "unbound")
    /\ results' = results \cup {h}
    /\ UNCHANGED <<drain, life, active, slots, client, main, serving, forced, completion, heard>>

(* The first poll of wait_for_drain_start, a future that the loop keeps:   *)
(* the state is read, and it returns at once ...                           *)
FirstPoll(h) ==
    /\ Running(h) /\ At(h, "first")
    /\ ShardGoes(h, IF drain = "accepting" THEN "arm" ELSE "loop")
    /\ heard' = IF drain = "accepting" THEN heard ELSE heard \cup {h}
    /\ UNCHANGED <<drain, life, active, slots, client, main, forced, completion, loop>>

(* ... or the Notified future is made.                                     *)
Arm(h) ==
    /\ Running(h) /\ At(h, "arm")
    /\ ShardGoes(h, "loop")
    /\ UNCHANGED <<drain, life, active, slots, client, main, forced, completion, heard, loop>>

(* wait_for_drain_start returns; the shard's own begin_drain finds the     *)
(* controller draining and may be the first to move the lifecycle state.   *)
HearDrain(h) ==
    /\ Running(h) /\ At(h, "loop") /\ ~shard[h].draining /\ h \in heard
    /\ shard' = [shard EXCEPT ![h].draining = TRUE]
    /\ life' = IF life = "ready" THEN "draining" ELSE life
    /\ UNCHANGED <<drain, active, slots, client, main, forced, completion, heard, loop>>

(* The select is biased: a connection is accepted only if nothing was heard. *)
Accept(h, c) ==
    /\ Running(h) /\ At(h, "loop") /\ client[c].pc = "out"
    /\ \/ ~shard[h].draining /\ h \notin heard
       \/ shard[h].draining /\ completion = None
    /\ shard' = [shard EXCEPT ![h].client = c,
                              ![h].pc = IF shard[h].draining THEN "reject" ELSE "check"]
    /\ client' = [client EXCEPT ![c] = [pc |-> "hand", shard |-> h]]
    /\ UNCHANGED <<drain, life, active, slots, main, forced, completion, heard, loop>>

(* DrainToken.try_enter, and in it try_enter_client: the states are read, *)
(* the client is counted ...                                              *)
CheckEnter(h) ==
    /\ Running(h) /\ At(h, "check")
    /\ ShardGoes(h, IF drain = "accepting" /\ life = "ready" THEN "add" ELSE "reject")
    /\ UNCHANGED <<drain, life, active, slots, client, main, forced, completion, heard, loop>>

Add(h) ==
    /\ Running(h) /\ At(h, "add")
    /\ active' = active + 1
    /\ ShardGoes(h, "recheck")
    /\ ClientGoes(InHand(h), "recheck")
    /\ UNCHANGED <<drain, life, slots, main, forced, completion, heard, loop>>

(* Mutant: the state is not read again after the count. *)
RecheckNever(h) ==
    /\ Running(h) /\ At(h, "recheck")
    /\ ShardGoes(h, "slot") /\ ClientGoes(InHand(h), "slot")
    /\ UNCHANGED <<drain, life, active, slots, main, forced, completion, heard, loop>>

(* ... and the state is read again: a client counted too late is taken     *)
(* back, and nobody is notified.                                           *)
Recheck(h) ==
    /\ Running(h) /\ At(h, "recheck")
    /\ \/ /\ drain = "accepting"
          /\ ShardGoes(h, "slot") /\ ClientGoes(InHand(h), "slot")
          /\ UNCHANGED active
       \/ /\ drain # "accepting"
          /\ active' = active - 1
          /\ ShardGoes(h, "reject") /\ ClientGoes(InHand(h), "hand")
    /\ UNCHANGED <<drain, life, slots, main, forced, completion, heard, loop>>

(* The shard waits for a client slot inside its accept arm. *)
TakeSlot(h) ==
    /\ Running(h) /\ At(h, "slot") /\ slots > 0
    /\ slots' = slots - 1
    /\ shard' = [shard EXCEPT ![h].pc = "loop", ![h].client = None]
    /\ ClientGoes(InHand(h), "served")
    /\ UNCHANGED <<drain, life, active, main, forced, completion, heard, loop>>

Reject(h) ==
    /\ Running(h) /\ At(h, "reject")
    /\ shard' = [shard EXCEPT ![h].pc = "loop", ![h].client = None]
    /\ ClientGoes(InHand(h), "rejected")
    /\ UNCHANGED <<drain, life, active, slots, main, forced, completion, heard, loop>>

(***************************************************************************)
(* The end of a shard.                                                     *)
(***************************************************************************)
ClientsOf(S) == {c \in Client : client[c].shard \in S}

(* The client tasks of the shards in S are dropped, their permits and      *)
(* guards with them, and so is a client in hand.                           *)
DropClients(S) ==
    LET gone == {c \in ClientsOf(S) : client[c].pc \in Guarded}
        permits == {c \in gone : client[c].pc = "served"}
    IN  /\ active' = active - Cardinality(gone)
        /\ slots' = slots + Cardinality(permits)
        /\ client' = [c \in Client |->
               IF c \in gone THEN [client[c] EXCEPT !.pc = "closed"]
               ELSE IF c \in ClientsOf(S) /\ client[c].pc = "hand"
               THEN [client[c] EXCEPT !.pc = "rejected"]
               ELSE client[c]]
        /\ heard' = IF gone # {} /\ active' = 0 /\ drain = "draining" THEN Notified ELSE heard

Ends(h) == results' = IF PerCore THEN results \cup {h} ELSE results

(* The outcome arrives: abort_all, or nothing to abort, and return. *)
FinishShard(h) ==
    /\ Running(h) /\ At(h, "loop") /\ shard[h].draining /\ completion # None
    /\ ShardGoes(h, "exit")
    /\ DropClients({h})
    /\ Ends(h)
    /\ UNCHANGED <<drain, life, main, serving, forced, completion>>

(* An error of accept, or of the rejection's write, ends the shard; run    *)
(* then returns at once, run_thread_per_core reads the result.             *)
FailShard(h) ==
    /\ Running(h)
    /\ \/ At(h, "loop") /\ "accept" \in Failures
       \/ At(h, "reject") /\ "reject" \in Failures
    /\ shard' = [shard EXCEPT ![h].pc = "exit", ![h].client = None]
    /\ main' = IF PerCore THEN main ELSE "exit"
    /\ DropClients({h})
    /\ Ends(h)
    /\ UNCHANGED <<drain, life, serving, forced, completion>>

(***************************************************************************)
(* A session ends: the permit, the count, the notification of the last.    *)
(***************************************************************************)
Leave(c) ==
    /\ client[c].pc = "served"
    /\ slots' = slots + 1
    /\ ClientGoes(c, "leave")
    /\ UNCHANGED <<drain, life, active, shard, main, forced, completion, heard, loop>>

Uncount(c) ==
    /\ client[c].pc = "leave"
    /\ active' = active - 1
    /\ ClientGoes(c, IF active = 1 THEN "notify" ELSE "left")
    /\ UNCHANGED <<drain, life, slots, shard, main, forced, completion, heard, loop>>

NotifyLast(c) ==
    /\ client[c].pc = "notify"
    /\ ClientGoes(c, "left")
    /\ heard' = IF drain = "draining" THEN Notified ELSE heard
    /\ UNCHANGED <<drain, life, active, slots, shard, main, forced, completion, loop>>

(***************************************************************************)
(* The specification.                                                      *)
(***************************************************************************)
MainSteps ==
    \/ MarkReady \/ ShardNotStarted \/ MarkDraining \/ Begin \/ CheckActive \/ ParkMain \/ WakeMain \/ Deadline
    \/ Grace \/ Send \/ Complete \/ Join \/ \E h \in Shard : ReadResult(h)

ShardSteps(h) ==
    \/ Bind(h) \/ FirstPoll(h) \/ Arm(h) \/ HearDrain(h) \/ CheckEnter(h) \/ Add(h) \/ Recheck(h) \/ TakeSlot(h) \/ Reject(h)
    \/ FinishShard(h)

Exits(c) == Uncount(c) \/ NotifyLast(c)

Done == main = "exit" /\ UNCHANGED vars

Next ==
    \/ StartFails \/ ReadClosed \/ BeginDrain \/ MainSteps
    \/ \E h \in Shard : ShardSteps(h) \/ BindFails(h) \/ FailShard(h) \/ \E c \in Client : Accept(h, c)
    \/ \E c \in Client : Leave(c) \/ Exits(c)
    \/ Done

Spec == Init /\ [][Next]_vars

(* Loops are scheduled and timers fire; no session need ever end.          *)
FairSpec ==
    /\ Spec
    /\ WF_vars(MainSteps)
    /\ \A h \in Shard : WF_vars(ShardSteps(h))
    /\ \A c \in Client : WF_vars(Exits(c))
-----------------------------------------------------------------------------
(* The counters stay in range: no client is taken back twice. *)
TypeOK ==
    /\ drain \in {"accepting", "draining", "drained"}
    /\ life \in {"starting", "ready", "draining", "stopping", "stopped"}
    /\ active \in 0..Cardinality(Client)
    /\ slots \in 0..ClientSlots
    /\ client \in [Client -> [pc : ClientAt, shard : Shard \cup {None}]]
    /\ shard \in [Shard -> [pc : ShardAt, client : Client \cup {None}, draining : BOOLEAN]]
    /\ main \in MainAt /\ serving \in BOOLEAN /\ results \subseteq Shard
    /\ forced \in Nat \cup {None} /\ completion \in Nat \cup {None}
    /\ heard \subseteq Shard \cup {Main}

(* active_clients counts the clients that hold a guard or are being        *)
(* entered, and the free slots the permits of those being served.          *)
CountsExact ==
    /\ active = Cardinality({c \in Client : client[c].pc \in Guarded \cup {"recheck"}})
    /\ slots = ClientSlots - Cardinality({c \in Client : client[c].pc = "served"})

(* A shutdown that announces no forced session has none left: nobody is    *)
(* served, or about to be, once active_clients was seen at zero.           *)
QuietOutcome == forced = 0 => \A c \in Client : client[c].pc \notin {"slot", "served"}

(* A shard whose future was made too late for every notification.          *)
Deaf(h) == drain = "drained" /\ At(h, "loop") /\ ~shard[h].draining /\ h \notin heard

(* Once a drain has begun the proxy exits, unless a shard is left waiting  *)
(* for a client slot, or has missed the whole drain in its first poll, or  *)
(* every shard thread has ended in the drain: although no session ever     *)
(* ends by itself and although the wakeup of the last session may be       *)
(* missed.                                                                 *)
ShutdownEnds ==
    drain = "draining" ~>
        \/ main = "exit" \/ (AllEnded /\ completion = None)
        \/ \E h \in Shard : At(h, "slot") \/ Deaf(h)

(* The documented sequence waits "for active sessions within               *)
(* `drain_timeout_ms`" before it closes any: no session is closed by the   *)
(* proxy in a drain whose outcome is not decided.                          *)
DrainWindowKept ==
    [][drain = "draining" /\ forced = None =>
        \A c \in Client : client[c].pc = "served" => client'[c].pc # "closed"]_vars

(* The sequence ends with the remaining sessions closed by force: a drain  *)
(* that has begun ends.                                                    *)
DrainEnds == drain = "draining" ~> main = "exit"
=============================================================================
