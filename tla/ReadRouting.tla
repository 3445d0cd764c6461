---------------------------- MODULE ReadRouting ----------------------------
(***************************************************************************)
(* Where a client's cycle runs: the session's record of its transaction    *)
(* (virtual_session.rs, session.rs), the choice of a primary or a replica  *)
(* (routing.rs, checkout.rs), the wait for a replica to catch up           *)
(* (proxy.rs), the freshness requirement taken after a committed write     *)
(* (client_session.rs, recovery.rs) and the health probe that tells the    *)
(* proxy how far each replica has replayed (health.rs).  PostgreSQL and    *)
(* the client are external.                                                *)
(*                                                                         *)
(* A cycle is a sequence of request plans.  A plan has the statements of   *)
(* its SQL text, by kind, with the routing hint and the shard hint of its  *)
(* leading comments; its kind says whether it came from a Query, a Parse   *)
(* (of a named statement) or a Bind of a statement parsed earlier.         *)
(***************************************************************************)
EXTENDS Integers, Sequences, SequencesExt, FiniteSets

CONSTANTS
    Replica,    \* ids of the configured replicas
    Cycles,     \* cycles the client may send
    Configs,    \* route configurations: mode, fallback, fresh, protect, pool, recovery
    Lags,       \* lags a health probe may measure
    MaxLag,     \* max_replica_lag_ms
    MaxLsn,     \* other sessions write up to this WAL position
    MaxCycles   \* bound on the cycles of the session

ASSUME ReplicaAssumption == Replica \subseteq (Nat \ {0}) /\ IsFiniteSet(Replica)

VARIABLES
    cfg,        \* the configuration of the route
    wal,        \* the primary's WAL position (external)
    rep,        \* each replica: how far it has replayed, whether it is a standby (external)
    store,      \* the last health snapshot published for each replica
    ok,         \* the health flag of each replica's pool
    sess,       \* VirtualSession: transaction, routing state, shard, read_after_write
    named,      \* the prepared catalog has named statements
    held,       \* held_backend: where it is
    srv,        \* the transaction on the backend that is held or in use (external)
    cyc,        \* the cycle in progress
    phase,      \* how far it has come
    on,         \* where it is to run
    flags,      \* committed_write_transaction, retry_attempted, ready status
    sent,       \* number of cycles sent
    tracked,    \* history: position of the last commit the session could see
                \* writing and whose answer it had
    written,    \* history: position of the last commit that wrote
    torn        \* history: the backend of the session's transaction is gone

vars == <<cfg, wal, rep, store, ok, sess, named, held, srv, cyc, phase, on,
          flags, sent, tracked, written, torn>>

Nowhere == -1
Primary == 0            \* places are numbers: the primary, or a replica's id
Missing == -1           \* an LSN or a lag the probe did not report
Place == {Primary} \cup Replica

Statements == {"read", "write", "begin", "begin_ro", "commit", "rollback",
               "set_ro", "set_rw", "discard", "other"}
Plan == [kind : {"simple", "parse", "bind"}, stmts : Seq(Statements),
         hint : {"none", "primary", "replica", "stale_ok", "strict_fresh"},
         shard : {"none", "a", "b"}]

NoRoute == [on |-> FALSE, ro |-> FALSE, forced |-> FALSE]
NoShard == [id |-> "none", crossed |-> FALSE]
NoWrite == [is |-> "disabled", lsn |-> 0]
NoTransaction == [tx |-> "idle", ro |-> FALSE, wrote |-> FALSE, seen |-> FALSE]
NoFlags == [committed |-> FALSE, retried |-> FALSE, status |-> "idle"]

Init ==
    /\ cfg \in Configs
    /\ wal = 0
    /\ rep = [r \in Replica |-> [replay |-> 0, standby |-> TRUE]]
    /\ store = [r \in Replica |-> [lsn |-> Missing, lag |-> Missing, warned |-> FALSE]]
    /\ ok = [r \in Replica |-> TRUE]
    /\ sess = [tx |-> "idle", route |-> NoRoute, shard |-> NoShard, raw |-> NoWrite]
    /\ named = FALSE
    /\ held = Nowhere
    /\ srv = NoTransaction
    /\ cyc = <<>>
    /\ phase = "idle"
    /\ on = Nowhere
    /\ flags = NoFlags
    /\ sent = 0
    /\ tracked = 0
    /\ written = 0
    /\ torn = FALSE

-----------------------------------------------------------------------------
(* Classification of an SQL text (sql_classify.rs).                        *)

ClassifyStatement(s) ==
    CASE s = "read" -> "ReadCandidate"
      [] s = "write" -> "Write"
      [] s \in {"begin", "begin_ro", "commit", "rollback", "set_ro", "set_rw"} ->
            "TransactionControl"
      [] s = "discard" -> "SessionMutation"
      [] s = "other" -> "Unknown"

\* A text of several statements: the first that is neither a read nor
\* transaction control decides; a mix of those two counts as a read.
Classify(stmts) ==
    LET classes == [i \in DOMAIN stmts |-> ClassifyStatement(stmts[i])]
        deciding == {i \in DOMAIN stmts :
                        classes[i] \notin {"ReadCandidate", "TransactionControl"}}
    IN  IF Len(stmts) = 1 THEN classes[1]
        ELSE IF deciding # {}
        THEN classes[CHOOSE i \in deciding : \A j \in deciding : i <= j]
        ELSE IF \E i \in DOMAIN stmts : classes[i] = "ReadCandidate"
        THEN "ReadCandidate"
        ELSE "TransactionControl"

RoutesToReplica(class) == class = "ReadCandidate"

-----------------------------------------------------------------------------
(* The session's record of its transaction.                                *)

BeginTransaction(s, ro) ==
    [s EXCEPT !.tx = "open", !.route = [on |-> TRUE, ro |-> ro, forced |-> FALSE]]

EndTransaction(s) ==
    [s EXCEPT !.tx = "idle", !.route = NoRoute, !.shard = NoShard]

SetAccessMode(s, ro) ==
    IF s.tx = "open" THEN [s EXCEPT !.route.on = TRUE, !.route.ro = ro] ELSE s

MarkTransactionWrite(s) ==
    IF s.tx = "open" THEN [s EXCEPT !.route.on = TRUE, !.route.forced = TRUE] ELSE s

TargetRole(route) == IF route.forced \/ ~route.ro THEN "primary" ELSE "replica"

ApplyTransactionStatement(s, st) ==
    CASE st = "begin" -> BeginTransaction(s, FALSE)
      [] st = "begin_ro" -> BeginTransaction(s, TRUE)
      [] st \in {"commit", "rollback"} -> EndTransaction(s)
      [] st = "set_ro" -> SetAccessMode(s, TRUE)
      [] st = "set_rw" -> SetAccessMode(s, FALSE)
      [] st = "write" /\ cfg.mode # "off" -> MarkTransactionWrite(s)
      [] OTHER -> s


\* committed_write_transaction: an explicit COMMIT of a transaction that the
\* session saw write.
ApplyTransactionSql(a, st) ==
    [s |-> ApplyTransactionStatement(a.s, st),
     committed |-> a.committed \/ (st = "commit" /\ a.s.route.on /\ a.s.route.forced)]

\* The shard of the transaction: the first hint sets it; another hint, or a
\* text with no hint once it is set, is a cross-shard violation.
ApplyShard(s, shard) ==
    IF cfg.mode = "off" \/ ~s.route.on \/ (shard = "none" /\ s.shard = NoShard) THEN s
    ELSE IF shard = "none" THEN [s EXCEPT !.shard.crossed = TRUE]
    ELSE IF s.tx # "open" THEN s
    ELSE IF s.shard = NoShard THEN [s EXCEPT !.shard.id = shard]
    ELSE IF s.shard.id = shard THEN s
    ELSE [s EXCEPT !.shard.crossed = TRUE]

\* A mutant that reads only the first statement of a text.
UpdateFromFirst(a, p) ==
    IF p.kind = "bind" THEN a
    ELSE LET b == ApplyTransactionSql(a, Head(p.stmts))
         IN  [b EXCEPT !.s = ApplyShard(@, p.shard)]

\* A Bind's plan comes from the prepared catalog and updates nothing.
UpdateFromPlan(a, p) ==
    IF p.kind = "bind" THEN a
    ELSE LET b == FoldLeft(ApplyTransactionSql, a, p.stmts)
         IN  [b EXCEPT !.s = ApplyShard(@, p.shard)]

UpdateFromPlans(s, c) == FoldLeft(UpdateFromPlan, [s |-> s, committed |-> FALSE], c)

-----------------------------------------------------------------------------
(* The choice of a target.                                                 *)

RequiresLsn(policy) == policy \in {"lsn", "lsn_lag"}
RequiresLag(policy) == policy \in {"lag", "lsn_lag"}

EffectivePolicy(policy, hint) ==
    CASE hint = "strict_fresh" -> "lsn_lag"
      [] hint = "stale_ok" /\ policy = "lsn_lag" -> "lag"
      [] OTHER -> policy


SatisfiesFreshness(c, policy, raw) ==
    /\ RequiresLsn(policy) =>
          \/ raw.is = "disabled"
          \/ raw.is = "required" /\ c.lsn # Missing /\ c.lsn >= raw.lsn
    /\ RequiresLag(policy) => c.lag # Missing /\ c.lag <= MaxLag

To(place) == [is |-> "run", at |-> place]
Wait == [is |-> "wait", at |-> Nowhere]
Reject == [is |-> "reject", at |-> Nowhere]

Fallback(policy) ==
    CASE policy = "primary" -> To(Primary) [] policy = "wait" -> Wait [] policy = "reject" -> Reject

CheckoutFallback(mode, policy) ==
    IF mode = "require_replica" THEN Reject ELSE Fallback(policy)

\* build_route_health_snapshot: the pool's flag with the last probe's figures.
Candidate(r) == [healthy |-> ok[r], lsn |-> store[r].lsn, lag |-> store[r].lag,
                 warned |-> store[r].warned]

SafeReplicas(policy, raw) ==
    {r \in Replica : /\ Candidate(r).healthy
                     /\ ~Candidate(r).warned
                     /\ SatisfiesFreshness(Candidate(r), policy, raw)}

\* min_by_key (lag or u64::MAX, id)
Closer(r, q) ==
    LET lag(x) == IF store[x].lag = Missing THEN MaxLag + 2 ELSE store[x].lag
    IN  lag(r) < lag(q) \/ (lag(r) = lag(q) /\ r <= q)

\* No replica is safe.
WithoutReplica ==
    IF cfg.mode = "require_replica" THEN Reject ELSE Fallback(cfg.fallback)

ChooseTarget(class, hint, raw) ==
    LET policy == EffectivePolicy(cfg.fresh, hint)
        safe == SafeReplicas(policy, raw)
    IN  IF ~RoutesToReplica(class) \/ hint = "primary" THEN To(Primary)
        ELSE IF hint = "strict_fresh" /\ raw.is = "disabled" THEN Fallback(cfg.fallback)
        ELSE IF safe # {} THEN To(CHOOSE r \in safe : \A q \in safe : Closer(r, q))
        ELSE WithoutReplica

\* ensure_policy_action_target_is_safe on the candidate of a read-only
\* transaction, which carries the pool's flag and no figures.
EnsureSafe(r, class, hint, raw) ==
    IF SatisfiesFreshness([lsn |-> Missing, lag |-> Missing], cfg.fresh, raw)
    THEN To(r) ELSE ChooseTarget(class, hint, raw)

\* select_checkout_target: a set, because the selector's choice among healthy
\* replicas depends on waiting hints and a shared cursor.
CheckoutTargets(s, p) ==
    LET class == Classify(p.stmts)
        healthy == {r \in Replica : ok[r]}
    IN  IF cfg.mode \in {"off", "primary_only"} THEN {To(Primary)}
        ELSE IF s.shard.crossed THEN {Reject}
        ELSE IF ~s.route.on THEN {ChooseTarget(class, p.hint, s.raw)}
        ELSE IF TargetRole(s.route) = "primary" THEN {To(Primary)}
        ELSE IF healthy = {} THEN {CheckoutFallback(cfg.mode, cfg.fallback)}
        ELSE {EnsureSafe(r, class, p.hint, s.raw) : r \in healthy}

-----------------------------------------------------------------------------
(* A cycle.                                                                *)

Settle(t) ==
    \/ t.is = "run" /\ phase' = "checkout" /\ on' = t.at
    \/ t.is = "wait" /\ phase' = "waiting" /\ on' = Nowhere
    \/ t.is = "reject" /\ phase' = "done" /\ on' = Nowhere

\* handle_frame_cycle up to the checkout.  The transaction state is updated
\* from every plan, the target is chosen from the first one, and a held backend
\* is used whatever the target.
BeginCycle(c) ==
    /\ phase = "idle" /\ sent < MaxCycles
    /\ c \in Cycles
    /\ LET a == UpdateFromPlans(sess, c)
       IN  /\ sess' = a.s
           /\ flags' = [NoFlags EXCEPT !.committed = a.committed]
           /\ IF held # Nowhere
              THEN phase' = "running" /\ on' = held
              ELSE \E t \in CheckoutTargets(a.s, Head(c)) : Settle(t)
    /\ cyc' = c
    /\ held' = Nowhere
    /\ sent' = sent + 1
    /\ torn' = (torn /\ sess'.tx # "idle")
    /\ UNCHANGED <<cfg, wal, rep, store, ok, named, srv, tracked, written>>

\* wait_for_checkout_target: one more look after 25 ms.
PollTarget ==
    /\ phase = "waiting"
    /\ \E t \in CheckoutTargets(sess, Head(cyc)) : t.is # "wait" /\ Settle(t)
    /\ UNCHANGED <<cfg, wal, rep, store, ok, sess, named, held, srv, cyc,
                   flags, sent, tracked, written, torn>>

\* A mutant that asks the configured policy again when the wait is over.
ConfiguredTimeout == CheckoutFallback(cfg.mode, cfg.fallback)

\* After read_after_write_timeout the target is the fallback with Primary.
TimeoutTarget == CheckoutFallback(cfg.mode, "primary")

WaitTimesOut ==
    /\ phase = "waiting"
    /\ Settle(TimeoutTarget)
    /\ UNCHANGED <<cfg, wal, rep, store, ok, sess, named, held, srv, cyc,
                   flags, sent, tracked, written, torn>>

Checkout ==
    /\ phase = "checkout"
    /\ phase' = "running"
    /\ srv' = NoTransaction
    /\ UNCHANGED <<cfg, wal, rep, store, ok, sess, named, held, cyc, on,
                   flags, sent, tracked, written, torn>>

\* Queue full, timeout, closed, breaker open, connect error: the session ends.
CheckoutFails ==
    /\ phase = "checkout"
    /\ phase' = "done"
    /\ on' = Nowhere
    /\ UNCHANGED <<cfg, wal, rep, store, ok, sess, named, held, srv, cyc,
                   flags, sent, tracked, written, torn>>

\* safe_request_to_replay, without replayable settings.
SafeToReplay == /\ Len(cyc) = 1 /\ cyc[1].kind = "simple"
                /\ RoutesToReplica(Classify(cyc[1].stmts))
                /\ sess.tx = "idle"

\* The backend is lost before it answers: mark_failed, then one retry at the
\* same target.
BackendLost ==
    /\ phase = "running"
    /\ ok' = [r \in Replica |-> ok[r] /\ r # on]
    /\ IF SafeToReplay /\ ~flags.retried
       THEN /\ phase' = "checkout"
            /\ flags' = [flags EXCEPT !.retried = TRUE]
            /\ UNCHANGED on
       ELSE /\ phase' = "done"
            /\ on' = Nowhere
            /\ UNCHANGED flags
    /\ srv' = NoTransaction
    /\ UNCHANGED <<cfg, wal, rep, store, sess, named, held, cyc, sent, tracked, written,
                   torn>>

-----------------------------------------------------------------------------
(* PostgreSQL running the statements of a cycle (external).  v holds the    *)
(* backend's transaction t, the WAL position, the two history positions,   *)
(* whether the current text has failed and whether any has.                *)

Fail(v) == [v EXCEPT !.skip = TRUE, !.err = TRUE,
                     !.t.tx = IF @ = "idle" THEN "idle" ELSE "failed"]

Commits(v) == v.t.tx = "open" /\ v.t.wrote /\ on = Primary

Committed(v, seen) ==
    [v EXCEPT !.wal = @ + 1, !.written = v.wal + 1,
              !.tracked = IF seen THEN v.wal + 1 ELSE @]

CanWrite(v) == (on = Primary \/ ~rep[on].standby) /\ ~v.t.ro

ServeStatement(v, st, seen, broken) ==
    CASE v.skip -> v
      [] st \in {"commit", "rollback"} ->
            [(IF st = "commit" /\ Commits(v) THEN Committed(v, seen /\ v.t.seen) ELSE v)
                EXCEPT !.t = NoTransaction]
      [] v.t.tx = "failed" \/ st = broken -> Fail(v)
      [] st \in {"begin", "begin_ro"} ->
            IF v.t.tx = "open" THEN v
            ELSE [v EXCEPT !.t = [NoTransaction EXCEPT !.tx = "open", !.ro = (st = "begin_ro")]]
      [] st \in {"set_ro", "set_rw"} ->
            IF v.t.tx = "open" THEN [v EXCEPT !.t.ro = (st = "set_ro")] ELSE v
      [] st = "write" ->
            IF ~CanWrite(v) THEN Fail(v)
            ELSE IF v.t.tx = "open" THEN [v EXCEPT !.t.wrote = TRUE, !.t.seen = @ \/ seen]
            ELSE IF on = Primary THEN Committed(v, FALSE) ELSE v
      [] st = "discard" -> IF v.t.tx = "open" THEN Fail(v) ELSE v
      [] OTHER -> v

\* The statements that fail in a cycle: none, the reads or the writes.
Broken == {"none", "read", "write"}

ServePlan(v, p, broken) ==
    FoldLeft(LAMBDA w, st : ServeStatement(w, st, p.kind # "bind", broken),
             [v EXCEPT !.skip = FALSE], p.stmts)

Unserved == [t |-> srv, wal |-> wal, tracked |-> tracked, written |-> written,
             skip |-> FALSE, err |-> FALSE]

ServeCycle(broken) == FoldLeft(LAMBDA v, p : ServePlan(v, p, broken), Unserved, cyc)

-----------------------------------------------------------------------------
(* Forwarding the cycle and what the session takes from the answer.        *)

Discards(c) == \E i \in DOMAIN c : c[i].kind = "simple" /\ c[i].stmts = <<"discard">>

ClearAll(s) == [EndTransaction(s) EXCEPT !.raw = NoWrite]

\* An ErrorResponse while the session is in a transaction.
MarkFailedTransaction(s) ==
    IF s.tx = "open" THEN [MarkTransactionWrite(s) EXCEPT !.tx = "failed"] ELSE s

\* plan_frontend_cycle: what the session takes from the frames it sends.
Planned == IF Discards(cyc) THEN ClearAll(sess) ELSE sess
NamedBy(c) == \E i \in DOMAIN c : c[i].kind = "parse"

Forward(broken) ==
    /\ phase = "running"
    /\ LET v == ServeCycle(broken)
           s == Planned
       IN  /\ wal' = v.wal
           /\ srv' = v.t
           /\ written' = v.written
           /\ tracked' = IF Discards(cyc) THEN 0 ELSE v.tracked
           /\ sess' = IF v.err THEN MarkFailedTransaction(s) ELSE s
           /\ flags' = [flags EXCEPT !.status = v.t.tx]
    /\ named' = (named \/ NamedBy(cyc))
    /\ torn' = (torn /\ sess'.tx # "idle")
    /\ phase' = "finishing"
    /\ UNCHANGED <<cfg, rep, store, ok, held, cyc, on, sent>>

\* recover_backend keeps the backend: after a ROLLBACK when the session is in a
\* transaction, else after a drain that ends idle.  That the answers are still
\* aligned afterwards is taken for granted here: see ClientSession.
CanRecover(s, t) ==
    \/ cfg.recovery \in {"recover", "rollback_only"} /\ s.tx # "idle"
    \/ cfg.recovery = "recover" /\ s.tx = "idle" /\ t.tx = "idle"

\* The query timeout and handle_query_timeout.  PostgreSQL may have run the
\* cycle, committed it too, or not; nothing is probed.  The session ends if its
\* client already has a part of the answer; else it goes on, with the backend
\* recovered or discarded.
QueryTimesOut(recovered) ==
    /\ phase = "running"
    /\ \E v \in {Unserved} \cup {ServeCycle(broken) : broken \in Broken} :
         /\ wal' = v.wal
         /\ written' = v.written
         /\ recovered => CanRecover(Planned, v.t)
    /\ tracked' = IF Discards(cyc) THEN 0 ELSE tracked
    /\ named' = (named \/ NamedBy(cyc))
    /\ sess' = IF recovered /\ Planned.tx # "idle" THEN EndTransaction(Planned) ELSE Planned
    /\ torn' = (sess'.tx # "idle")
    /\ held' = IF recovered /\ cfg.pool = "session" THEN on ELSE Nowhere
    /\ \/ phase' = "idle" /\ cyc' = <<>>
       \/ phase' = "done" /\ cyc' = cyc
    /\ srv' = NoTransaction
    /\ on' = Nowhere
    /\ flags' = NoFlags
    /\ UNCHANGED <<cfg, rep, store, ok, sent>>

\* The held backend is closed, or its read fails, while the client is idle: it
\* is discarded and the session goes on.
HeldCloses ==
    /\ phase = "idle" /\ held # Nowhere
    /\ held' = Nowhere
    /\ srv' = NoTransaction
    /\ torn' = (sess.tx # "idle")
    /\ UNCHANGED <<cfg, wal, rep, store, ok, sess, named, cyc, phase, on, flags, sent,
                   tracked, written>>

\* probe_read_after_write_requirement: pg_current_wal_lsn(), which fails on a
\* standby, or an error or a timeout.
Probed == IF on = Primary THEN {[is |-> "required", lsn |-> wal], [is |-> "unknown", lsn |-> 0]}
          ELSE {[is |-> "unknown", lsn |-> 0]}

ShouldProbe == flags.committed /\ cfg.protect /\ flags.status = "idle"

\* finish_ready_backend: the probe, then keep, roll back or release the backend.
FinishReady ==
    /\ phase = "finishing"
    /\ \E raw \in IF ShouldProbe THEN Probed ELSE {sess.raw} :
         LET s == [sess EXCEPT !.raw = raw]
         IN  sess' = IF flags.status = "failed" THEN EndTransaction(s) ELSE s
    /\ held' = IF \/ flags.status = "open"
                  \/ flags.status = "idle" /\ (named \/ sess.tx # "idle")
                  \/ cfg.pool = "session"
               THEN on ELSE Nowhere
    /\ srv' = IF flags.status = "failed" THEN NoTransaction ELSE srv
    /\ phase' = "idle"
    /\ on' = Nowhere
    /\ cyc' = <<>>
    /\ flags' = NoFlags
    /\ torn' = (torn /\ sess'.tx # "idle")
    /\ UNCHANGED <<cfg, wal, rep, store, ok, named, sent, tracked, written>>

-----------------------------------------------------------------------------
(* Health probes (health.rs) and the pool's flag.                          *)

Published(r, snapshot) == store' = [store EXCEPT ![r] = snapshot]

\* probe_once with an answer: a standby's replay position and lag; a server
\* that is no standby raises the split-brain warning and reports neither.
ProbeAnswers(r, lag) ==
    /\ Published(r, IF rep[r].standby
                    THEN [lsn |-> rep[r].replay, lag |-> lag, warned |-> FALSE]
                    ELSE [lsn |-> Missing, lag |-> Missing, warned |-> TRUE])
    /\ UNCHANGED <<cfg, wal, rep, ok, sess, named, held, srv, cyc, phase, on,
                   flags, sent, tracked, written, torn>>

\* probe_once with an error or a timeout: every figure is forgotten, the
\* warning too.
ProbeFails(r) ==
    /\ Published(r, [lsn |-> Missing, lag |-> Missing, warned |-> FALSE])
    /\ UNCHANGED <<cfg, wal, rep, ok, sess, named, held, srv, cyc, phase, on,
                   flags, sent, tracked, written, torn>>

\* mark_failed and mark_succeeded by the leases of other sessions.
SetFlag(r) ==
    /\ ok' = [ok EXCEPT ![r] = ~@]
    /\ UNCHANGED <<cfg, wal, rep, store, sess, named, held, srv, cyc, phase, on,
                   flags, sent, tracked, written, torn>>

-----------------------------------------------------------------------------
(* The servers (external): other sessions write, replicas replay, a        *)
(* replica is promoted.                                                    *)

OtherWrites ==
    /\ wal < MaxLsn
    /\ wal' = wal + 1
    /\ UNCHANGED <<cfg, rep, store, ok, sess, named, held, srv, cyc, phase, on,
                   flags, sent, tracked, written, torn>>

Replays(r) ==
    /\ rep[r].standby /\ rep[r].replay < wal
    /\ \E l \in (rep[r].replay + 1) .. wal : rep' = [rep EXCEPT ![r].replay = l]
    /\ UNCHANGED <<cfg, wal, store, ok, sess, named, held, srv, cyc, phase, on,
                   flags, sent, tracked, written, torn>>

Promoted(r) ==
    /\ rep[r].standby
    /\ rep' = [rep EXCEPT ![r].standby = FALSE]
    /\ UNCHANGED <<cfg, wal, store, ok, sess, named, held, srv, cyc, phase, on,
                   flags, sent, tracked, written, torn>>

-----------------------------------------------------------------------------
Cycle == \/ PollTarget \/ WaitTimesOut \/ Checkout \/ CheckoutFails
         \/ BackendLost \/ \E broken \in Broken : Forward(broken)
         \/ FinishReady \/ \E recovered \in BOOLEAN : QueryTimesOut(recovered)

Servers == \/ OtherWrites
           \/ \E r \in Replica :
                 \/ \E lag \in Lags : ProbeAnswers(r, lag)
                 \/ ProbeFails(r) \/ SetFlag(r) \/ Replays(r) \/ Promoted(r)

Next == (\E c \in Cycles : BeginCycle(c)) \/ HeldCloses \/ Cycle \/ Servers

Spec == Init /\ [][Next]_vars

(* A session that is not waiting for its client goes on: the poll and the   *)
(* timeout of the wait are timers, the checkout and the forwarding end in   *)
(* their own timeouts.                                                     *)
FairSpec == Spec /\ WF_vars(Cycle)

-----------------------------------------------------------------------------
(* Properties.                                                             *)

\* Every variable has the shape the code gives it: a target only while a cycle
\* runs, a held backend only between cycles, a shard only in a transaction.
TypeOK ==
    /\ cfg \in Configs
    /\ sess.tx \in {"idle", "open", "failed"}
    /\ sess.raw.is \in {"disabled", "unknown", "required"}
    /\ sess.shard # NoShard => sess.route.on
    /\ sess.route.on <=> sess.tx # "idle"
    /\ phase \in {"idle", "waiting", "checkout", "running", "finishing", "done"}
    /\ on \in Place <=> phase \in {"checkout", "running", "finishing"}
    /\ held \in Place => phase = "idle"
    /\ srv.tx = "open" /\ phase = "idle" => held \in Place
    /\ \A r \in Replica : store[r].lsn <= rep[r].replay /\ rep[r].replay <= wal

\* The route asks for the session's write position and the text does not
\* accept stale data in its place.
AsksFresh(p) == RequiresLsn(EffectivePolicy(cfg.fresh, p.hint)) /\ cfg.protect


\* The same for every write of the session, also an autocommitted one and one
\* whose COMMIT timed out before it was answered.
\* docs/read-routing.md: "A read after a client write is eligible for a replica
\* only when the selected replica has replayed at least the session's required
\* write LSN".
ReadYourWrites ==
    phase = "running" /\ on \in Replica /\ AsksFresh(Head(cyc)) => rep[on].replay >= written


\* In require_replica mode a read outside a transaction, with no backend held
\* over, runs on a replica or is rejected, also after a wait and on the retry
\* (docs/read-routing.md: "the proxy rejects the read rather than using the
\* primary").  A primary or strict-fresh hint is excepted here.
RequireReplicaServes ==
    phase \in {"checkout", "running"} /\ cfg.mode = "require_replica" /\ ~named
        /\ cfg.pool = "transaction" /\ sess.tx = "idle"
        /\ RoutesToReplica(Classify(Head(cyc).stmts)) /\ srv.tx = "idle"
        /\ Head(cyc).hint \notin {"primary", "strict_fresh"} /\ Len(cyc) = 1
      => on \in Replica

\* A text that begins with a split-brain replica known to the proxy never
\* starts there: the replica the cycle is about to be checked out at had no
\* warning when it was chosen.
\* docs/read-routing.md: "the detected role must match the configured endpoint
\* role".
NoWarnedReplica ==
    [][phase = "idle" /\ phase' = "checkout" /\ on' \in Replica => ~store[on'].warned]_vars

\* A cycle with a write runs on the primary.  docs/read-routing.md: "writes,
\* DDL, and transaction control stay on the primary".
WritesOnPrimary ==
    phase = "running" /\ (\E i \in DOMAIN cyc : "write" \in Range(cyc[i].stmts))
      => on = Primary

\* The proxy's record of an open transaction and the backend's agree whenever a
\* backend is held: a transaction open on the backend is always known to the
\* session, and one the session knows is on the backend it holds, unless the
\* backend it was on is gone.
TransactionAgrees ==
    phase = "idle" /\ held # Nowhere =>
        /\ srv.tx # "idle" => sess.tx # "idle"
        /\ sess.tx # "idle" /\ ~torn => srv.tx # "idle"

\* The same without exception: the session's transaction never changes server,
\* although a query timeout under recovery mode drop, or the end of a held
\* backend, leaves the session's record as it was.
TransactionStays == phase = "idle" /\ held # Nowhere /\ sess.tx # "idle" => srv.tx # "idle"

\* Every cycle ends: a wait for a fresh replica too, whatever the fallback
\* policy and however long the replicas take.
CycleEnds == phase = "waiting" ~> phase \in {"idle", "done"}
=============================================================================
