--------------------------- MODULE SharedSession ---------------------------
(***************************************************************************)
(* The session loop of the io_uring engine: handle_client_session of       *)
(* client_session.rs.  It drives the same cycles as handle_client over     *)
(* the same pool core, but has no cleanup query, no recovery and no        *)
(* finalisation of its own: a backend is kept while the virtual session    *)
(* is pinned and released otherwise.                                       *)
(*                                                                         *)
(* A connection to a server may be lost at any time (lost); the session    *)
(* notices where it next reads.  previous is the id of the backend used    *)
(* last; the id of a discarded backend is never used again.                *)
(***************************************************************************)
EXTENDS PostgresServer, FiniteSets, Integers

CONSTANTS Backend,
          Cycles,              \* the cycles a client may send: sequences of [st, mode]
          Blocked,             \* the cycles the guardrails deny
          PassThrough,         \* auth_mode is pass_through
          FailoverEnabled,     \* resilience.failover_enabled
          ReplayOnFailover,    \* resilience.failover_replay_session_state
          MaxCycles,           \* bound: cycles sent by all clients together
          MaxLosses            \* bound: connections lost

VARIABLES task,      \* the session task of each client
          place,     \* where a backend is: "absent", "pooled", or with a client
          server,    \* the PostgreSQL process behind each backend
          batch,     \* backends with an extended batch that waits for its Sync
          lost,      \* backends whose connection is gone, unnoticed
          target,    \* the cancel registry: the backend a client's key is bound to
          used       \* cycles sent, connections lost

vars == <<task, place, server, batch, lost, target, used>>

(* proxied: startup_proxied.  owed: the writes the client asked for, less  *)
(* those servers executed for it.  told: the transaction status the client *)
(* was last sent.                                                          *)
Task ==
    [session : Session, unknown : BOOLEAN, previous : Backend \cup {None}, proxied : BOOLEAN,
     pc : {"startup", "idle", "checkout", "send", "replay", "forward", "probe", "reconnect",
           "restore", "closed"},
     cycle : {<<>>} \cup Cycles, started : BOOLEAN, committed : BOOLEAN,
     retried : BOOLEAN, waiting : BOOLEAN, told : {"I", "T", "E"}, owed : Int]

NewTask ==
    [session |-> NewSession, unknown |-> FALSE, previous |-> None, proxied |-> TRUE,
     pc |-> "startup", cycle |-> <<>>, started |-> FALSE, committed |-> FALSE,
     retried |-> FALSE, waiting |-> FALSE, told |-> "I", owed |-> 0]

Closed == [NewTask EXCEPT !.pc = "closed"]

(* Back at the top of the loop, with what outlives a cycle.                *)
Idle(t) ==
    [NewTask EXCEPT !.pc = "idle", !.session = t.session, !.unknown = t.unknown,
                    !.previous = t.previous, !.proxied = t.proxied, !.told = t.told,
                    !.waiting = t.waiting, !.owed = t.owed]

Init ==
    /\ task = [c \in Client |-> NewTask]
    /\ place = [b \in Backend |-> "absent"]
    /\ server = [b \in Backend |-> FreshServer]
    /\ batch = {} /\ lost = {}
    /\ target = [c \in Client |-> None]
    /\ used = [cycles |-> 0, losses |-> 0]

At(c, pc) == task[c].pc = pc
Has(c, b) == place[b] = c
Holds(c) == \E b \in Backend : Has(c, b)
Pinned(t) == t.unknown \/ PinReason(t.session) # "none"

(* should_reuse_held_backend. *)
Reuses(c, t) == Pinned(t) /\ Holds(c)

(* The error responses: each ends with a ReadyForQuery that says idle,     *)
(* whatever the transaction's state.                                       *)
Told(t) == [t EXCEPT !.told = "I"]

Becomes(c, t) == task' = [task EXCEPT ![c] = t]
Bind(c, b) == target' = [target EXCEPT ![c] = b]
Submit(b, requests) == server' = [server EXCEPT ![b].inbox = @ \o requests]

(* release_backend_with_cancel_unbind: back to the pool as it is.          *)
Release(c, b, t) ==
    /\ place' = [place EXCEPT ![b] = "pooled"]
    /\ Bind(c, None)
    /\ Becomes(c, t)
    /\ UNCHANGED <<server, batch, lost>>

(* discard_backend_with_cancel_unbind: the connection is closed.           *)
Discard(c, b, t) ==
    /\ place' = [place EXCEPT ![b] = "absent"]
    /\ server' = [server EXCEPT ![b] = FreshServer]
    /\ batch' = batch \ {b} /\ lost' = lost \ {b}
    /\ Bind(c, None)
    /\ task' = [d \in Client |->
                   LET u == IF d = c THEN t ELSE task[d]
                   IN  IF u.previous = b THEN [u EXCEPT !.previous = None] ELSE u]

(* cleanup_held_shared_backend: whatever is held is released.              *)
Park(c, t) ==
    IF Holds(c) THEN \E b \in Backend : Has(c, b) /\ Release(c, b, t)
    ELSE Becomes(c, t) /\ UNCHANGED <<place, server, batch, lost, target>>

(* checkout: an idle backend of the pool, else a new connection.           *)
Available(b) ==
    \/ place[b] = "pooled"
    \/ place[b] = "absent" /\ \A d \in Backend : place[d] # "pooled"

(***************************************************************************)
(* Startup.                                                                *)
(***************************************************************************)

(* A backend is checked out for the startup exchange and released again.   *)
StartupDone(c, b) ==
    /\ At(c, "startup") /\ Available(b) /\ b \notin lost
    /\ Release(c, b, [task[c] EXCEPT !.pc = "idle", !.previous = b])
    /\ UNCHANGED used

(* The pool refuses: the client is told, and stays.  Without managed       *)
(* authentication its startup is still to be proxied by a later cycle.     *)
StartupRefused(c) ==
    /\ At(c, "startup")
    /\ Becomes(c, [task[c] EXCEPT !.pc = "idle", !.proxied = ~PassThrough])
    /\ UNCHANGED <<place, server, batch, lost, target, used>>

(* Authentication or the exchange fails, or the pool is closed.            *)
StartupFails(c) ==
    /\ At(c, "startup")
    /\ Becomes(c, Closed)
    /\ UNCHANGED <<place, server, batch, lost, target, used>>

(***************************************************************************)
(* A cycle.                                                                *)
(***************************************************************************)

(* The guardrails deny it: nothing is forwarded, and the client is told    *)
(* its session is idle.                                                    *)
GuardrailDenies(c, cycle) ==
    /\ At(c, "idle") /\ cycle \in Blocked /\ used.cycles < MaxCycles
    /\ Becomes(c, Told([task[c] EXCEPT !.waiting = FALSE]))
    /\ used' = [used EXCEPT !.cycles = @ + 1]
    /\ UNCHANGED <<place, server, batch, lost, target>>

Writes(cycle) == Cardinality({i \in DOMAIN cycle : cycle[i].st.op = "write"})

(* The transaction state is tracked first; then a pinned session goes on   *)
(* with the backend it holds, any other gives it up and asks the pool.     *)
BeginCycle(c, cycle) ==
    LET tracked == TrackTransaction(task[c].session, cycle)
        t == [task[c] EXCEPT !.pc = "checkout", !.cycle = cycle, !.waiting = FALSE,
                !.session = tracked.session, !.committed = tracked.committed,
                !.owed = @ + Writes(cycle)]
    IN
    /\ At(c, "idle") /\ cycle \notin Blocked /\ used.cycles < MaxCycles
    /\ IF Reuses(c, t)
       THEN Becomes(c, t) /\ UNCHANGED <<place, server, batch, lost, target>>
       ELSE Park(c, t)
    /\ used' = [used EXCEPT !.cycles = @ + 1]

(* Read routing answers Wait or Reject, which this loop cannot do.         *)
RouteUnsupported(c, cycle) ==
    /\ ReadRouting /\ At(c, "idle") /\ cycle \notin Blocked /\ used.cycles < MaxCycles
    /\ Park(c, Closed)
    /\ used' = [used EXCEPT !.cycles = @ + 1]

ShouldReplay(t, b) == HasReplayable(t.session) /\ t.previous # b

(* The held backend or one of the pool, started up where it is new, bound  *)
(* to the client's cancel key, and given the session's settings unless it  *)
(* is the one the session used last.                                       *)
Checkout(c, b) ==
    LET t == [task[c] EXCEPT !.proxied = TRUE, !.previous = b] IN
    /\ At(c, "checkout") /\ (IF Holds(c) THEN Has(c, b) ELSE Available(b))
    /\ place' = [place EXCEPT ![b] = c]
    /\ Bind(c, b)
    /\ IF ShouldReplay(task[c], b)
       THEN /\ Submit(b, ReplayFrames(c, t.session))
            /\ Becomes(c, [t EXCEPT !.pc = "replay"])
       ELSE Becomes(c, [t EXCEPT !.pc = "send"]) /\ UNCHANGED server
    /\ UNCHANGED <<batch, lost, used>>

(* Queue full, timeout or open breaker: the client is told and stays.      *)
CheckoutRefused(c) ==
    /\ At(c, "checkout") /\ ~Holds(c)
    /\ Becomes(c, Told(Idle(task[c])))
    /\ UNCHANGED <<place, server, batch, lost, target, used>>

(* The pool is closed, or a new backend cannot be connected or started.    *)
CheckoutFails(c) ==
    /\ At(c, "checkout") /\ ~Holds(c)
    /\ Becomes(c, Closed)
    /\ UNCHANGED <<place, server, batch, lost, target, used>>

(* forward_runtime_cycle reads until it has one ReadyForQuery per SET; the *)
(* status it ends with is not looked at.                                   *)
ReplayDone(c, b) ==
    LET n == Len(ReplayFrames(c, task[c].session)) IN
    /\ At(c, "replay") /\ Has(c, b) /\ b \notin lost /\ n <= Len(server[b].outbox)
    /\ server' = [server EXCEPT ![b].outbox = SubSeq(@, n + 1, Len(@))]
    /\ Becomes(c, [task[c] EXCEPT !.pc = "send"])
    /\ UNCHANGED <<place, batch, lost, target, used>>

(* DISCARD ALL clears the unknown mark with the rest of the session.       *)
Discards(cycle) == \E i \in DOMAIN cycle : cycle[i].mode = "query" /\ cycle[i].st.op = "discard"

(* plan_frontend_cycle and the write to the backend.                       *)
SendCycle(c, b) ==
    LET t == task[c] IN
    /\ At(c, "send") /\ Has(c, b)
    /\ Submit(b, [i \in DOMAIN t.cycle |->
                     [by |-> c, st |-> t.cycle[i].st, mode |-> t.cycle[i].mode]])
    /\ batch' = IF SomeMode(t.cycle, {"flush"}) THEN batch \cup {b} ELSE batch \ {b}
    /\ Becomes(c, [t EXCEPT !.pc = "forward", !.session = TrackSession(@, t.cycle),
                            !.unknown = @ /\ ~Discards(t.cycle)])
    /\ UNCHANGED <<place, lost, target, used>>

(* A first part of the response is passed on.                              *)
ReadFrames(c, b) ==
    /\ At(c, "forward") /\ Has(c, b) /\ b \notin lost
    /\ server[b].outbox # <<>> /\ ~task[c].started
    /\ Becomes(c, [task[c] EXCEPT !.started = TRUE])
    /\ UNCHANGED <<place, server, batch, lost, target, used>>

(* The answer is complete.  A pinned session keeps its backend; any other  *)
(* gives it back as the statements left it.                                *)
Finishes(c, b, t) ==
    IF Pinned(t) THEN Becomes(c, Idle(t)) /\ UNCHANGED <<place, server, batch, lost, target>>
    ELSE Release(c, b, Idle(t))

(* The last awaited ReadyForQuery, or the last completion of a batch ended *)
(* by Flush, which keeps the backend.  A committed write is probed first.  *)
ReadAnswer(c, b) ==
    LET t == task[c]
        n == Len(t.cycle)
        status == server[b].outbox[n].status
        flushed == SomeMode(t.cycle, {"flush"})
        probes == t.committed /\ ReadRouting /\ status = "I"
        rest == [server EXCEPT ![b].outbox = SubSeq(@, n + 1, Len(@))]
        told == [t EXCEPT !.told = status]
    IN
    /\ At(c, "forward") /\ Has(c, b) /\ b \notin lost /\ n <= Len(server[b].outbox)
    /\ \/ /\ flushed
          /\ server' = rest /\ Becomes(c, Idle(t)) /\ UNCHANGED <<place, target>>
       \/ /\ ~flushed /\ probes
          /\ server' = [rest EXCEPT ![b].inbox = Append(@, Ask(c, "read", "-"))]
          /\ Becomes(c, [told EXCEPT !.pc = "probe"]) /\ UNCHANGED <<place, target>>
       \/ /\ ~flushed /\ ~probes
          /\ server' = rest
          /\ Becomes(c, Idle(told))
          /\ IF Pinned(t) THEN UNCHANGED <<place, target>>
             ELSE place' = [place EXCEPT ![b] = "pooled"] /\ Bind(c, None)
    /\ UNCHANGED <<batch, lost, used>>

(* The read-after-write probe is answered.                                 *)
ProbeAnswered(c, b) ==
    /\ At(c, "probe") /\ Has(c, b) /\ b \notin lost /\ server[b].outbox # <<>>
    /\ server' = [server EXCEPT ![b].outbox = Tail(@)]
    /\ Becomes(c, Idle(task[c]))
    /\ IF Pinned(task[c]) THEN UNCHANGED <<place, target>>
       ELSE place' = [place EXCEPT ![b] = "pooled"] /\ Bind(c, None)
    /\ UNCHANGED <<batch, lost, used>>

(* It times out or errs: the freshness is unknown, and the backend is kept *)
(* or released all the same.                                               *)
ProbeFails(c, b) ==
    /\ At(c, "probe") /\ Has(c, b)
    /\ Finishes(c, b, task[c])
    /\ UNCHANGED used

QueryTimeoutUnstarted(c, b) ==
    /\ At(c, "forward") /\ Has(c, b) /\ ~task[c].started
    /\ Discard(c, b, Told([Idle(task[c]) EXCEPT !.unknown = TRUE]))
    /\ UNCHANGED used

(* The query timeout: the backend is given up, the client told, and the    *)
(* session marked unknown for good.                                        *)
QueryTimeout(c, b) ==
    /\ At(c, "forward") /\ Has(c, b)
    /\ Discard(c, b, Told([Idle(task[c]) EXCEPT !.unknown = TRUE]))
    /\ UNCHANGED used

(***************************************************************************)
(* A lost backend.                                                         *)
(***************************************************************************)
SafeUnlessStarted(t) ==
    /\ ~t.retried /\ ~t.started
    /\ \A i \in DOMAIN t.cycle : t.cycle[i].mode = "query"
    /\ ~Pinned(t)
    /\ ~HasReplayable(t.session) \/ (FailoverEnabled /\ ReplayOnFailover)

(* safe_request_to_replay and retry_disposition: one simple read, nothing  *)
(* of the answer seen, no pin, and settings only where they are replayed.  *)
SafeToRetry(t) ==
    /\ ~t.retried /\ ~t.started
    /\ Len(t.cycle) = 1 /\ t.cycle[1].mode = "query" /\ t.cycle[1].st.op = "read"
    /\ ~Pinned(t)
    /\ ~HasReplayable(t.session) \/ (FailoverEnabled /\ ReplayOnFailover)

(* The read fails: the request is tried once more, or the session ends.    *)
LossNoticed(c, b) ==
    LET t == task[c] IN
    /\ t.pc \in {"forward", "replay"} /\ Has(c, b) /\ b \in lost
    /\ Discard(c, b, IF At(c, "forward") /\ SafeToRetry(t)
                     THEN [t EXCEPT !.pc = "reconnect"] ELSE Closed)
    /\ UNCHANGED used

(* The write fails, the response is over its limit, or the client does not *)
(* take it: the backend is given up and the session ends.                  *)
ForwardFails(c, b) ==
    /\ At(c, "forward") /\ Has(c, b)
    /\ Discard(c, b, Closed)
    /\ UNCHANGED used

ReplacementFrames(c) ==
    IF ReplayOnFailover THEN ReplayFrames(c, task[c].session) ELSE <<>>

(* The replacement: checked out, started up and given the settings.        *)
Reconnect(c, b) ==
    /\ At(c, "reconnect") /\ ~Holds(c) /\ Available(b)
    /\ place' = [place EXCEPT ![b] = c]
    /\ Submit(b, ReplacementFrames(c))
    /\ Becomes(c, [task[c] EXCEPT !.pc = "restore"])
    /\ UNCHANGED <<batch, lost, target, used>>

(* The replay must end with an idle status; then the cycle is sent again.  *)
Reconnected(c, b) ==
    LET t == task[c]
        n == Len(ReplacementFrames(c))
    IN
    /\ At(c, "restore") /\ Has(c, b) /\ n <= Len(server[b].outbox)
    /\ n > 0 => (b \notin lost /\ server[b].outbox[n].status = "I")
    /\ server' = [server EXCEPT
                    ![b].outbox = SubSeq(@, n + 1, Len(@)),
                    ![b].inbox = Append(@, [by |-> c, st |-> t.cycle[1].st,
                                            mode |-> t.cycle[1].mode])]
    /\ Bind(c, b)
    /\ Becomes(c, [t EXCEPT !.pc = "forward", !.retried = TRUE, !.previous = b])
    /\ UNCHANGED <<place, batch, lost, used>>

(* The reconnect is refused, fails or takes too long: a lease it has is    *)
(* dropped, the client is told and stays.                                  *)
ReconnectFails(c) ==
    LET t == Told(Idle(task[c])) IN
    /\ task[c].pc \in {"reconnect", "restore"}
    /\ IF Holds(c) THEN \E b \in Backend : Has(c, b) /\ Discard(c, b, t)
       ELSE Becomes(c, t) /\ UNCHANGED <<place, server, batch, lost, target>>
    /\ UNCHANGED used

(***************************************************************************)
(* What cuts in between cycles.                                            *)
(***************************************************************************)

(* Terminate, EOF, a read error, a request that does not parse or is over  *)
(* the buffer limit: what is held is released.                             *)
Leaves(c) == At(c, "idle") /\ Park(c, Closed) /\ UNCHANGED used

(* An idle pinned session ends and its backend is discarded; any other is  *)
(* told once, and what it holds is released.                               *)
IdleTimeout(c) ==
    /\ At(c, "idle") /\ ~task[c].waiting
    /\ IF Pinned(task[c])
       THEN IF Holds(c) THEN \E b \in Backend : Has(c, b) /\ Discard(c, b, Closed)
            ELSE Becomes(c, Closed) /\ UNCHANGED <<place, server, batch, lost, target>>
       ELSE Park(c, Told([task[c] EXCEPT !.waiting = TRUE]))
    /\ UNCHANGED used

ConnectionLost(b) ==
    /\ place[b] # "absent" /\ b \notin lost /\ used.losses < MaxLosses
    /\ lost' = lost \cup {b}
    /\ used' = [used EXCEPT !.losses = @ + 1]
    /\ UNCHANGED <<task, place, server, batch, target>>

(* The server goes on with what it was sent, its connection lost or not.   *)
ServerExecutes(b) ==
    LET rq == Head(server[b].inbox) IN
    /\ server[b].inbox # <<>>
    /\ server' = [server EXCEPT ![b] = Execute(@)]
    /\ task' = IF rq.st.op = "write" /\ ~At(rq.by, "closed")
               THEN [task EXCEPT ![rq.by].owed = @ - 1] ELSE task
    /\ UNCHANGED <<place, batch, lost, target, used>>

AllClosed == (\A c \in Client : At(c, "closed")) /\ UNCHANGED vars

Proceeds(c, b) ==
    \/ StartupDone(c, b) \/ Checkout(c, b) \/ ReplayDone(c, b) \/ SendCycle(c, b)
    \/ ReadAnswer(c, b) \/ ProbeAnswered(c, b) \/ LossNoticed(c, b)
    \/ Reconnect(c, b) \/ Reconnected(c, b)

Timers(c, b) == QueryTimeout(c, b) \/ ProbeFails(c, b) \/ ReconnectFails(c)

Next ==
    \/ \E c \in Client, cycle \in Cycles :
          GuardrailDenies(c, cycle) \/ BeginCycle(c, cycle) \/ RouteUnsupported(c, cycle)
    \/ \E c \in Client :
          \/ StartupRefused(c) \/ StartupFails(c) \/ CheckoutRefused(c) \/ CheckoutFails(c)
          \/ Leaves(c) \/ IdleTimeout(c)
    \/ \E c \in Client, b \in Backend :
          Proceeds(c, b) \/ Timers(c, b) \/ ReadFrames(c, b) \/ ForwardFails(c, b)
    \/ \E b \in Backend : ConnectionLost(b) \/ ServerExecutes(b)
    \/ AllClosed

Spec == Init /\ [][Next]_vars

AnswersProxy(b) ==
    server[b].inbox # <<>> /\ Head(server[b].inbox).mode = "proxy" /\ ServerExecutes(b)

(* Tasks are polled, checkouts time out, the timers fire, and a server     *)
(* answers what the proxy itself asks; a client's statement may run for    *)
(* ever.                                                                   *)
FairSpec ==
    /\ Spec
    /\ \A c \in Client :
          /\ WF_vars(\E b \in Backend : Proceeds(c, b))
          /\ WF_vars(\E b \in Backend : Timers(c, b))
          /\ WF_vars(CheckoutRefused(c))
    /\ \A b \in Backend : WF_vars(AnswersProxy(b))

(***************************************************************************)
(* Properties.                                                             *)
(***************************************************************************)

(* Every variable stays in its domain.                                     *)
TypeOK ==
    /\ task \in [Client -> Task]
    /\ place \in [Backend -> {"absent", "pooled"} \cup Client]
    /\ server \in [Backend -> Server]
    /\ batch \subseteq Backend /\ lost \subseteq Backend
    /\ target \in [Client -> Backend \cup {None}]
    /\ used \in [cycles : 0..MaxCycles, losses : 0..MaxLosses]

(* A lease is never leaked or doubled: a session that ended or waits for   *)
(* the pool has no backend, one with a cycle under way has exactly one,    *)
(* and an idle one keeps a backend only for a pin or an open batch.        *)
LeaseHeldOnce ==
    \A c \in Client :
        /\ \A b, d \in Backend : (Has(c, b) /\ Has(c, d)) => b = d
        /\ task[c].pc \in {"startup", "reconnect", "closed"} => ~Holds(c)
        /\ task[c].pc \in {"send", "replay", "forward", "probe", "restore"} => Holds(c)
        /\ \A b \in Backend : (At(c, "idle") /\ Has(c, b)) => (Pinned(task[c]) \/ b \in batch)

(* A client's cancel key is bound to the backend it has or to none: a      *)
(* cancel request never reaches a backend that went back to the pool, and  *)
(* while a cycle is forwarded it does reach the backend that runs it.      *)
CancelReachesOwn ==
    \A c \in Client :
        /\ target[c] # None => Has(c, target[c])
        /\ At(c, "forward") => target[c] # None

(* A request is tried again only if that cannot repeat a write: servers    *)
(* never execute more writes for a client than it asked for.               *)
WritesRunOnce == \A c \in Client : task[c].owed >= 0

(* A request sent again runs under the settings the client made: every     *)
(* tracked setting is its own on the replacement backend.                  *)
RetryKeepsSettings ==
    \A c \in Client, b \in Backend :
        (At(c, "forward") /\ task[c].retried /\ Has(c, b)) =>
            \A k \in task[c].session.settings : server[b].residue[k] = c

(* Every cycle ends: whatever servers, connections and the pool do, the    *)
(* session is back at its loop or closed.                                  *)
CycleEnds ==
    \A c \in Client :
        (task[c].pc \notin {"startup", "idle", "closed"}) ~> (task[c].pc \in {"idle", "closed"})

(* transaction-pooling.md: a backend goes back to the pool only when it is *)
(* known to be reusable, and a transaction is rolled back first.  Here a   *)
(* session that leaves inside a transaction releases the backend with it.  *)
PooledOutsideTransaction ==
    \A b \in Backend : place[b] = "pooled" => server[b].tx = "I"

(* A pooled backend owes nobody an answer; a probe that times out leaves   *)
(* one behind, and the next session would read it as its own.              *)
PooledQuiet == \A b \in Backend : place[b] = "pooled" => Quiet(server[b])

(* A batch is finished on the backend it was begun on; a session with an   *)
(* unfinished batch and no pin gives that backend up.                      *)
PooledSynced == \A b \in Backend : place[b] = "pooled" => b \notin batch

(* A session's statements run under its own settings, not those another    *)
(* session left on the backend since.                                      *)
OwnSettings ==
    \A c \in Client, b \in Backend :
        (At(c, "send") /\ Has(c, b)) =>
            \A k \in task[c].session.settings : server[b].residue[k] = c

(* What the client was last told of its transaction is so.                 *)
ToldTruth ==
    \A c \in Client, b \in Backend :
        (At(c, "idle") /\ Has(c, b) /\ Quiet(server[b]) /\ b \notin batch) =>
            server[b].tx = task[c].told
=============================================================================
