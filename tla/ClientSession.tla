--------------------------- MODULE ClientSession ---------------------------
(***************************************************************************)
(* Client sessions sharing pooled backends: handle_client and the frame    *)
(* cycle it runs (client_session.rs, forwarding.rs, recovery.rs).          *)
(*                                                                         *)
(* A session waits for a cycle of client requests, takes its held backend  *)
(* or checks one out, replays tracked settings if the backend may not      *)
(* have them, forwards the cycle, and decides at ReadyForQuery whether the *)
(* backend goes back to the pool, stays held or is discarded.  Timeouts,   *)
(* client disconnects and backend failures cut in at every wait.  Servers  *)
(* run concurrently and answer in their own time; one read of the socket   *)
(* may return any number of the answers that are there.                    *)
(*                                                                         *)
(* A cycle is a sequence of requests, each answered by one ReadyForQuery:  *)
(* pipelined simple queries, or one extended batch ended by Sync.          *)
(***************************************************************************)
EXTENDS PostgresServer

CONSTANTS Backend,
          Cycles,            \* the cycles a client may send: sequences of [st, mode]
          PoolMode,          \* performance.pool_mode
          RecoveryMode,      \* performance.recovery_mode
          ReplayOnFailover,  \* failover_enabled and failover_replay_session_state
          Cuts,              \* bound: what may cut in: "timeout", "break", "leave"
          MaxCycles          \* bound: cycles sent by all clients together

ASSUME SessionAssumption ==
    /\ PoolMode \in {"transaction", "session"}
    /\ RecoveryMode \in {"drop", "rollback_only", "recover"}
    /\ ReplayOnFailover \in BOOLEAN
    /\ Cuts \subseteq {"timeout", "break", "leave"} /\ MaxCycles \in Nat
    /\ Cycles \subseteq Seq([st : Statement, mode : {"query", "parse", "prepare", "bind"}])
    /\ Client \cap {None, "absent", "pooled"} = {}

VARIABLES task,      \* the session task of each client
          place,     \* where a backend is: "absent", "pooled", or with a client
          server,    \* the PostgreSQL process behind each backend
          sent       \* cycles sent so far

vars == <<task, place, server, sent>>

Exchanges == {"replay", "reset", "rollback", "recover_rollback", "recover_drain"}

(* session, named, pinned: the VirtualSession, has_named_statements() and  *)
(* PinnedBackend of the task.  cycle, ready: the cycle being forwarded and *)
(* its ReadyForQuery count.  started: response_started.  committed:        *)
(* committed_write_transaction.  retried: retry_attempted.  trigger, sync, *)
(* timedout: what recover_backend was called with, and that the query      *)
(* timeout called it.  answered, status: the wait under way got a status.  *)
(* leaving: the client is gone, the session ends after this.  waiting:     *)
(* wait_for_client_activity_after_timeout.  told: the transaction status   *)
(* the client was last sent.                                               *)
Task ==
    [session : Session, named : BOOLEAN, pinned : Backend \cup {None},
     pc : {"idle", "checkout", "send", "forward", "probe", "cleanup", "recover",
           "finalize", "closed"} \cup Exchanges,
     cycle : {<<>>} \cup Cycles, ready : Nat, started : BOOLEAN, committed : BOOLEAN,
     retried : BOOLEAN, trigger : {"response", "transaction"}, sync : BOOLEAN,
     timedout : BOOLEAN, answered : BOOLEAN, status : {"I", "T", "E"},
     leaving : BOOLEAN, waiting : BOOLEAN, told : {"I", "T", "E"}]

NewTask ==
    [session |-> NewSession, named |-> FALSE, pinned |-> None,
     pc |-> "idle", cycle |-> <<>>, ready |-> 0, started |-> FALSE, committed |-> FALSE,
     retried |-> FALSE, trigger |-> "response", sync |-> FALSE, timedout |-> FALSE,
     answered |-> FALSE, status |-> "I", leaving |-> FALSE, waiting |-> FALSE, told |-> "I"]

Init ==
    /\ task = [c \in Client |-> NewTask]
    /\ place = [b \in Backend |-> "absent"]
    /\ server = [b \in Backend |-> FreshServer]
    /\ sent = 0

At(c, pc) == task[c].pc = pc
Has(c, b) == place[b] = c
Holds(c) == \E b \in Backend : Has(c, b)

(***************************************************************************)
(* What becomes of a task and of its backend.                              *)
(***************************************************************************)
Becomes(c, t) == task' = [task EXCEPT ![c] = t]

Closed == [NewTask EXCEPT !.pc = "closed"]

(* Back in the client loop, with what outlives a cycle.                    *)
Idle(t) ==
    [NewTask EXCEPT !.session = t.session, !.named = t.named, !.pinned = t.pinned,
                    !.waiting = t.waiting, !.told = t.told]

Settled(t) == IF t.leaving THEN Closed ELSE Idle(t)

(* The lease is given up: clear_pinned_backend.  A discarded backend's id  *)
(* is never used again, so None also stands for a mark of such an id.      *)
Parted(t) == [t EXCEPT !.pinned = None]

Release(b) == place' = [place EXCEPT ![b] = "pooled"] /\ UNCHANGED server

Discard(b) ==
    /\ place' = [place EXCEPT ![b] = "absent"]
    /\ server' = [server EXCEPT ![b] = FreshServer]

(* `?` in the task: the session ends and dropping the lease discards it.   *)
Fail(c, b) == Discard(b) /\ Becomes(c, Closed)

(* mark_pinned and hold; a client already gone is finalized next.          *)
Kept(t, b) ==
    LET k == [t EXCEPT !.pinned = b]
    IN  IF t.leaving THEN [k EXCEPT !.pc = "finalize"] ELSE Idle(k)

Submit(b, requests) == server' = [server EXCEPT ![b].inbox = @ \o requests]

(* The proxy sends requests of its own and waits at pc for an answer.      *)
Exchange(c, b, t, requests, pc) ==
    /\ Submit(b, requests)
    /\ Becomes(c, [t EXCEPT !.pc = pc])
    /\ UNCHANGED place

(***************************************************************************)
(* A frame cycle.                                                          *)
(***************************************************************************)

BeginCycle(c, cycle) ==
    LET tracked == TrackTransaction(task[c].session, cycle)
    IN
    /\ At(c, "idle") /\ sent < MaxCycles
    /\ SomeMode(cycle, {"bind"}) => task[c].named
    /\ Becomes(c, [task[c] EXCEPT !.pc = "checkout", !.cycle = cycle, !.waiting = FALSE,
                     !.session = tracked.session, !.committed = tracked.committed])
    /\ sent' = sent + 1
    /\ UNCHANGED <<place, server>>

ShouldReplay(c, b) == HasReplayable(task[c].session) /\ task[c].pinned # b

(* The held backend if there is one; else an idle backend of the pool,     *)
(* else a new connection.                                                  *)
Available(c, b) ==
    IF Holds(c) THEN Has(c, b)
    ELSE \/ place[b] = "pooled"
         \/ place[b] = "absent" /\ \A d \in Backend : place[d] # "pooled"

(* Mutant: the replayed settings are sent and their answers not awaited.   *)
CheckoutUnawaited(c, b) ==
    /\ At(c, "checkout") /\ Available(c, b)
    /\ place' = [place EXCEPT ![b] = c]
    /\ Submit(b, IF ShouldReplay(c, b) THEN ReplayFrames(c, task[c].session) ELSE <<>>)
    /\ Becomes(c, [task[c] EXCEPT !.pc = "send"])
    /\ UNCHANGED sent

CheckoutBackend(c, b) ==
    /\ At(c, "checkout") /\ Available(c, b)
    /\ place' = [place EXCEPT ![b] = c]
    /\ IF ShouldReplay(c, b)
       THEN Submit(b, ReplayFrames(c, task[c].session)) /\ Becomes(c, [task[c] EXCEPT !.pc = "replay"])
       ELSE UNCHANGED server /\ Becomes(c, [task[c] EXCEPT !.pc = "send"])
    /\ UNCHANGED sent

(* Overload, timeout or connection failure: the session finishes.          *)
CheckoutFails(c) ==
    /\ At(c, "checkout") /\ ~Holds(c)
    /\ Becomes(c, Closed)
    /\ UNCHANGED <<place, server, sent>>

(* plan_frontend_cycle and the write to the backend.                       *)
SendCycle(c, b) ==
    LET t == task[c]
    IN
    /\ At(c, "send") /\ Has(c, b)
    /\ Submit(b, [i \in DOMAIN t.cycle |->
                     [by |-> c, st |-> t.cycle[i].st, mode |-> t.cycle[i].mode]])
    /\ Becomes(c, [t EXCEPT !.pc = "forward", !.session = TrackSession(@, t.cycle),
                            !.named = @ \/ SomeMode(t.cycle, {"prepare"})])
    /\ UNCHANGED <<place, sent>>

(* classify_backend_frames: an ErrorResponse fails an open transaction.    *)
AfterErrors(s, answers) ==
    IF PinReason(s) = "open" /\ \E i \in 1..Len(answers) : answers[i].err
    THEN MarkFailedTransaction(s) ELSE s

(* Complete frames of these answers were read; passing them on finds the   *)
(* client there or gone.                                                   *)
Passed(t, answers, gone) ==
    [t EXCEPT !.started = TRUE, !.leaving = gone, !.session = AfterErrors(@, answers),
              !.sync = gone /\ NeedsSync(t.cycle)]

(* A read of complete frames that ends before the ReadyForQuery; another   *)
(* such read would change nothing.                                         *)
ReadFrames(c, b, gone) ==
    /\ At(c, "forward") /\ Has(c, b) /\ server[b].outbox # <<>>
    /\ ~task[c].started
    /\ Becomes(c, [Passed(task[c], SubSeq(server[b].outbox, 1, 1), gone) EXCEPT
                     !.pc = IF gone THEN "recover" ELSE "forward"])
    /\ UNCHANGED <<place, server, sent>>

(* Mutants: the first ReadyForQuery ends a pipelined cycle; one more than  *)
(* was asked for is waited for.                                            *)
FirstReadyEnds(t, n) == n > 0
OneMoreAwaited(t, n) == t.ready + n > Len(t.cycle)

(* expected_ready of the response drain: all ReadyForQuery have been read. *)
CycleDone(t, n) == t.ready + n >= Len(t.cycle)

(* A read that completes n answers.  With the last expected ReadyForQuery  *)
(* the cycle is over, client gone or not; a client lost before that leaves *)
(* an abandoned response.  A committed write is probed first.              *)
ReadAnswers(c, b, n, gone) ==
    LET t == task[c]
        answers == SubSeq(server[b].outbox, 1, n)
        last == answers[n].status
        done == CycleDone(t, n)
        probes == done /\ t.committed /\ ReadRouting /\ last = "I"
    IN
    /\ At(c, "forward") /\ Has(c, b) /\ n <= Len(server[b].outbox)
    /\ Becomes(c, [Passed(t, answers, gone) EXCEPT
                     !.ready = @ + n, !.status = last, !.told = IF gone THEN @ ELSE last,
                     !.pc = CASE probes -> "probe"
                              [] done /\ ~probes -> "cleanup"
                              [] ~done /\ gone -> "recover"
                              [] OTHER -> "forward"])
    /\ server' = [server EXCEPT
                    ![b].outbox = SubSeq(@, n + 1, Len(@)),
                    ![b].inbox = IF probes THEN Append(@, Ask(c, "read", "-")) ELSE @]
    /\ UNCHANGED <<place, sent>>

(* The read-after-write probe is answered, or times out or errs: either    *)
(* way the session goes on to the cleanup with the same backend.           *)
ProbeAnswered(c, b, n) ==
    /\ At(c, "probe") /\ Has(c, b) /\ n <= Len(server[b].outbox)
    /\ server' = [server EXCEPT ![b].outbox = SubSeq(@, n + 1, Len(@))]
    /\ Becomes(c, [task[c] EXCEPT !.pc = "cleanup"])
    /\ UNCHANGED <<place, sent>>

ProbeFails(c) ==
    /\ At(c, "probe")
    /\ Becomes(c, [task[c] EXCEPT !.pc = "cleanup"])
    /\ UNCHANGED <<place, server, sent>>

(***************************************************************************)
(* finish_ready_backend.                                                   *)
(***************************************************************************)
Cleanup(c, b) ==
    LET t == [task[c] EXCEPT !.session.copy = FALSE]
        action == IF t.status = "I" /\ t.named THEN "keep"
                  ELSE CleanupAction(t.session, t.status, PoolMode)
    IN
    /\ At(c, "cleanup") /\ Has(c, b)
    /\ \/ action = "reuse" /\ Release(b) /\ Becomes(c, Settled(Parted(t)))
       \/ action = "keep" /\ Becomes(c, Kept(t, b)) /\ UNCHANGED <<place, server>>
       \/ action = "reset_reuse" /\ Exchange(c, b, t, <<Ask(c, "discard", "-")>>, "reset")
       \/ /\ action \in {"rollback_reuse", "rollback_keep"}
          /\ Exchange(c, b, t, <<Ask(c, "rollback", "-")>>, "rollback")
    /\ UNCHANGED sent

(***************************************************************************)
(* recover_backend, and the places it is called from.                      *)
(***************************************************************************)
Recover(c, b) ==
    LET t == task[c]
        action == RecoveryAction(t.trigger, RecoveryMode)
    IN
    /\ At(c, "recover") /\ Has(c, b)
    /\ \/ action = "discard" /\ Discard(b) /\ Becomes(c, Settled(Parted(t)))
       \/ /\ action = "rollback"
          /\ Exchange(c, b, t, <<Ask(c, "rollback", "-")>>, "recover_rollback")
       \/ /\ action = "drain"
          /\ Exchange(c, b, t, IF t.sync THEN <<Ask(c, "read", "-")>> ELSE <<>>,
                      "recover_drain")
    /\ UNCHANGED sent

(* recovery_timeout, or an error of the exchange.                          *)
RecoveryFails(c, b) ==
    /\ task[c].pc \in {"recover_rollback", "recover_drain"} /\ Has(c, b)
    /\ Discard(b) /\ Becomes(c, Settled(Parted(task[c])))
    /\ UNCHANGED sent

(* Mutant: no timeout once the response has begun.                         *)
QueryTimeoutUnstarted(c, b) ==
    /\ "timeout" \in Cuts /\ At(c, "forward") /\ Has(c, b) /\ ~task[c].started
    /\ Becomes(c, [task[c] EXCEPT !.pc = "recover", !.timedout = TRUE, !.waiting = TRUE,
                                  !.told = "I"])
    /\ UNCHANGED <<place, server, sent>>

(* A client that saw nothing yet is told of the error and may go on.       *)
QueryTimeout(c, b) ==
    LET t == task[c]
    IN
    /\ "timeout" \in Cuts /\ At(c, "forward") /\ Has(c, b)
    /\ Becomes(c, [t EXCEPT !.pc = "recover", !.timedout = TRUE,
                     !.trigger = IF InTransactionPin(t.session) THEN "transaction"
                                                                ELSE "response",
                     !.leaving = t.started, !.waiting = ~t.started,
                     !.told = IF t.started THEN @ ELSE "I"])
    /\ UNCHANGED <<place, server, sent>>

(* Mutant: a backend without a pin is given back without the reset.        *)
FinalizeUnreset(c, b) ==
    /\ At(c, "finalize") /\ Has(c, b)
    /\ IF PinReason(task[c].session) = "none" THEN Release(b) ELSE Discard(b)
    /\ Becomes(c, Settled(Parted(task[c])))
    /\ UNCHANGED sent

(* finalize_held_backend_on_disconnect.                                    *)
Finalize(c, b) ==
    LET t == task[c]
        pin == PinReason(t.session)
    IN
    /\ At(c, "finalize") /\ Has(c, b)
    /\ \/ /\ pin \in {"open", "failed"}
          /\ Becomes(c, [t EXCEPT !.pc = "recover", !.trigger = "transaction", !.sync = FALSE])
          /\ UNCHANGED <<place, server>>
       \/ pin \in {"copy", "state"} /\ Discard(b) /\ Becomes(c, Settled(Parted(t)))
       \/ /\ pin = "none" /\ HasReplayable(t.session)
          /\ Exchange(c, b, t, <<Ask(c, "discard", "-")>>, "reset")
       \/ /\ pin = "none" /\ ~HasReplayable(t.session)
          /\ Release(b) /\ Becomes(c, Settled(Parted(t)))
    /\ UNCHANGED sent

(***************************************************************************)
(* await_ready_status: a read that brings at least one ReadyForQuery ends  *)
(* the wait, the last one read gives the status, and the rest of what was  *)
(* read is dropped with the local buffer.                                  *)
(***************************************************************************)
AwaitReady(c, b, n) ==
    /\ task[c].pc \in Exchanges /\ ~task[c].answered /\ Has(c, b)
    /\ n <= Len(server[b].outbox)
    /\ server' = [server EXCEPT ![b].outbox = SubSeq(@, n + 1, Len(@))]
    /\ Becomes(c, [task[c] EXCEPT !.answered = TRUE, !.status = server[b].outbox[n].status])
    /\ UNCHANGED <<place, sent>>

Answered(c, b, points) ==
    task[c].pc \in points /\ task[c].answered /\ task[c].status = "I" /\ Has(c, b)

ReplayDone(c, b) ==
    /\ Answered(c, b, {"replay"})
    /\ Becomes(c, [task[c] EXCEPT !.pc = "send", !.answered = FALSE])
    /\ UNCHANGED <<place, server, sent>>

ResetDone(c, b) ==
    /\ Answered(c, b, {"reset"})
    /\ Release(b) /\ Becomes(c, Settled(Parted(task[c])))
    /\ UNCHANGED sent

RollbackDone(c, b) ==
    LET t == [task[c] EXCEPT !.session = EndTransaction(@)]
    IN
    /\ Answered(c, b, {"rollback"})
    /\ IF PoolMode = "session"
       THEN Becomes(c, Kept([t EXCEPT !.answered = FALSE], b)) /\ UNCHANGED <<place, server>>
       ELSE Release(b) /\ Becomes(c, Settled(Parted(t)))
    /\ UNCHANGED sent

(* After a query timeout in session mode the backend is held, unmarked; a  *)
(* session that ends with a backend held discards it.                      *)
RecoveryDone(c, b) ==
    LET t == IF At(c, "recover_drain") THEN task[c]
             ELSE [task[c] EXCEPT !.session = EndTransaction(@)]
        holds == t.timedout /\ PoolMode = "session"
    IN
    /\ Answered(c, b, {"recover_rollback", "recover_drain"})
    /\ \/ ~holds /\ Release(b)
       \/ holds /\ t.leaving /\ Discard(b)
       \/ holds /\ ~t.leaving /\ UNCHANGED <<place, server>>
    /\ Becomes(c, Settled(Parted(t)))
    /\ UNCHANGED sent

(* Any other status is an error: the task gives the lease up.              *)
ExchangeRefused(c, b) ==
    LET t == task[c]
    IN
    /\ t.pc \in Exchanges /\ t.answered /\ t.status # "I" /\ Has(c, b)
    /\ Discard(b)
    /\ Becomes(c, IF t.pc \in {"recover_rollback", "recover_drain"}
                  THEN Settled(Parted(t)) ELSE Closed)
    /\ UNCHANGED sent

(***************************************************************************)
(* What cuts in: the client leaves or stays silent, the backend breaks.    *)
(***************************************************************************)

(* Terminate, EOF, or a client buffer over its limit, between cycles.      *)
Terminate(c) ==
    /\ At(c, "idle")
    /\ Becomes(c, IF Holds(c) THEN [task[c] EXCEPT !.pc = "finalize", !.leaving = TRUE]
                              ELSE Closed)
    /\ UNCHANGED <<place, server, sent>>

(* Reading from the client fails: the session ends, dropping the lease.    *)
ClientReadFails(c) ==
    /\ "leave" \in Cuts /\ At(c, "idle")
    /\ IF Holds(c) THEN \E b \in Backend : Has(c, b) /\ Discard(b)
                   ELSE UNCHANGED <<place, server>>
    /\ Becomes(c, Closed)
    /\ UNCHANGED sent

(* An idle client keeps its session and is told it is idle; an idle        *)
(* transaction ends the session.                                           *)
IdleTimeout(c) ==
    LET ends == InTransactionPin(task[c].session)
        t == [task[c] EXCEPT !.leaving = ends, !.waiting = TRUE,
                             !.told = IF ends THEN @ ELSE "I"]
    IN
    /\ "timeout" \in Cuts /\ At(c, "idle") /\ ~task[c].waiting
    /\ Becomes(c, IF Holds(c) THEN [t EXCEPT !.pc = "finalize"] ELSE Settled(t))
    /\ UNCHANGED <<place, server, sent>>

(* What a held backend sends unasked goes to the client as it is.          *)
ForwardUnasked(c, b) ==
    /\ At(c, "idle") /\ Has(c, b) /\ server[b].outbox # <<>>
    /\ Becomes(c, [task[c] EXCEPT !.told = Last(server[b].outbox).status])
    /\ server' = [server EXCEPT ![b].outbox = <<>>]
    /\ UNCHANGED <<place, sent>>

(* A backend buffer over its limit, or an error reply the client does not  *)
(* take: the backend is given up and the session ends.                     *)
CycleFails(c, b) ==
    /\ "break" \in Cuts /\ At(c, "forward") /\ Has(c, b)
    /\ Fail(c, b)
    /\ UNCHANGED sent

(* safe_request_to_replay with retry_disposition.                          *)
SafeToRetry(t) ==
    /\ ~t.retried /\ ~t.started
    /\ Len(t.cycle) = 1 /\ t.cycle[1].mode = "query" /\ t.cycle[1].st.op = "read"
    /\ PinReason(t.session) = "none"
    /\ ReplayOnFailover \/ ~HasReplayable(t.session)

(* The backend's connection breaks; the task notices where it reads or     *)
(* writes: while the client is idle, while forwarding, in an exchange.     *)
BackendBreaks(c, b) ==
    LET t == task[c]
    IN
    /\ "break" \in Cuts /\ Has(c, b)
    /\ \/ At(c, "idle") /\ Discard(b) /\ Becomes(c, Parted(t))
       \/ /\ At(c, "forward") /\ SafeToRetry(t)
          /\ Discard(b) /\ Becomes(c, [Parted(t) EXCEPT !.pc = "checkout", !.retried = TRUE])
       \/ At(c, "forward") /\ ~SafeToRetry(t) /\ Fail(c, b)
       \/ t.pc \in {"send", "replay", "reset", "rollback"} /\ ~t.answered /\ Fail(c, b)
    /\ UNCHANGED sent

(* The bounded reconnect of a retry runs out while settings are replayed.  *)
ReconnectTimeout(c, b) ==
    /\ "timeout" \in Cuts /\ At(c, "replay") /\ task[c].retried /\ Has(c, b)
    /\ Fail(c, b)
    /\ UNCHANGED sent

ServerExecutes(b) ==
    /\ server[b].inbox # <<>>
    /\ server' = [server EXCEPT ![b] = Execute(@)]
    /\ UNCHANGED <<task, place, sent>>

AllClosed == (\A c \in Client : At(c, "closed")) /\ UNCHANGED vars

(* Whether writing to the client finds it gone.                            *)
Gone == IF "leave" \in Cuts THEN BOOLEAN ELSE {FALSE}

Reads(c, b) ==
    \E n \in 1..Len(server[b].outbox) :
        \/ \E gone \in Gone : ReadAnswers(c, b, n, gone)
        \/ ProbeAnswered(c, b, n)
        \/ AwaitReady(c, b, n)

Proceeds(c, b) ==
    \/ CheckoutBackend(c, b) \/ SendCycle(c, b)
    \/ Cleanup(c, b) \/ Recover(c, b) \/ Finalize(c, b)
    \/ ReplayDone(c, b) \/ ResetDone(c, b) \/ RollbackDone(c, b) \/ RecoveryDone(c, b)
    \/ ExchangeRefused(c, b)

Next ==
    \/ \E c \in Client, cycle \in Cycles : BeginCycle(c, cycle)
    \/ \E c \in Client : CheckoutFails(c) \/ ProbeFails(c)
                         \/ Terminate(c) \/ ClientReadFails(c) \/ IdleTimeout(c)
    \/ \E c \in Client, b \in Backend :
          \/ Proceeds(c, b) \/ Reads(c, b)
          \/ \E gone \in Gone : ReadFrames(c, b, gone)
          \/ QueryTimeout(c, b) \/ RecoveryFails(c, b)
          \/ ForwardUnasked(c, b) \/ CycleFails(c, b) \/ BackendBreaks(c, b)
          \/ ReconnectTimeout(c, b)
    \/ \E b \in Backend : ServerExecutes(b)
    \/ AllClosed

Spec == Init /\ [][Next]_vars

(* The runtime polls a task that can go on.                                *)
TaskFairness ==
    \A c \in Client :
        /\ WF_vars(\E b \in Backend : Proceeds(c, b))
        /\ WF_vars(\E b \in Backend : Reads(c, b))
        /\ WF_vars(CheckoutFails(c)) /\ WF_vars(ProbeFails(c))

(* Servers answer whatever they are asked; no timer has to fire.           *)
FairSpec == Spec /\ TaskFairness /\ \A b \in Backend : WF_vars(ServerExecutes(b))

(***************************************************************************)
(* Properties.                                                             *)
(***************************************************************************)

(* Every variable stays in its declared domain: in particular the task is  *)
(* at one of handle_client's points and a backend has one owner.           *)
TypeOK ==
    /\ task \in [Client -> Task]
    /\ place \in [Backend -> {"absent", "pooled"} \cup Client]
    /\ server \in [Backend -> Server]
    /\ sent \in 0..MaxCycles

(* No lease is leaked or doubled: a session that ended has no backend, one *)
(* in the middle of a cycle has exactly one (handle_client's early returns *)
(* drop the lease, and a held backend is taken before another is checked   *)
(* out).                                                                   *)
LeaseHeldOnce ==
    \A c \in Client :
        /\ \A b, d \in Backend : Has(c, b) /\ Has(c, d) => b = d
        /\ At(c, "closed") => ~Holds(c)
        /\ task[c].pc \notin {"idle", "checkout", "closed"} => Holds(c)

(* A backend in the pool is between transactions and owes nobody an        *)
(* answer: whatever path put it there read every ReadyForQuery it was due. *)
PooledQuiet ==
    \A b \in Backend : place[b] = "pooled" => server[b].tx = "I" /\ Quiet(server[b])

(* A backend in the pool carries no setting, temporary table, advisory     *)
(* lock or LISTEN of a client that used it.                                *)
PooledClean ==
    \A b \in Backend : place[b] = "pooled" => server[b].residue = Clean

(* While a cycle is forwarded, exactly its own outstanding requests are    *)
(* in the backend's queues, so each answer passed on is an answer to it.   *)
AnswersAligned ==
    \A c \in Client, b \in Backend :
        At(c, "forward") /\ Has(c, b) =>
            /\ Len(server[b].inbox) + Len(server[b].outbox)
                   = Len(task[c].cycle) - task[c].ready
            /\ \A i \in 1..Len(server[b].outbox) :
                   /\ server[b].outbox[i].by = c
                   /\ server[b].outbox[i].mode # "proxy"

(* A cycle comes to an end: handle_frame_cycle never waits for an answer   *)
(* nobody will give.  It holds though a client's statement hangs: the      *)
(* query timeout bounds the forward, and what follows is answered.         *)
CycleEnds ==
    \A c \in Client :
        task[c].pc \notin {"idle", "closed"} ~> task[c].pc \in {"idle", "closed"}

(* A client that was told it is inside a transaction still has the backend *)
(* the transaction is on; a session that lost it is ended, not carried on. *)
TransactionKeepsBackend ==
    \A c \in Client : At(c, "idle") /\ task[c].told = "T" => Holds(c)
============================================================================
