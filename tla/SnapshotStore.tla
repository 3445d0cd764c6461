--------------------------- MODULE SnapshotStore ---------------------------
(***************************************************************************)
(* What the admin views say of the proxy: the snapshot store               *)
(* (observe/snapshot.rs), the places that write it (the session's guard    *)
(* and pin rows, the pool's leases, recovery, the policy engine) and the   *)
(* tables the admin console renders from it (ops/admin.rs).                *)
(*                                                                         *)
(* Every write of the store is one step under its lock.  What a writer     *)
(* reads before, the counts of a gate, it reads in an earlier step, so     *)
(* another session can write in between.  The primary pool of a            *)
(* route has the store attached and its replica pools have not             *)
(* (proxy.rs), so leases of replica backends write no server row.          *)
(***************************************************************************)
EXTENDS Naturals, FiniteSets, Sequences, SequencesExt, Functions

CONSTANTS Client,       \* session ids; NEXT_SESSION_ID never repeats one
          MaxBackend,   \* backend ids 1 .. MaxBackend; never repeated either
          Capacity,     \* capacity of the two policy rings (128 in the code)
          MaxEvents,    \* bound: policy events recorded
          MaxCycles,    \* bound: query cycles of a session
          Roles,        \* roles the sessions' checkouts are routed to
          Events        \* kinds of policy event that are recorded

VARIABLES client,  \* the session's task: where it is and what it holds
          server,  \* the life of each backend: which pool it is of, and where
          inFlight,\* permits out of the route's gate
          store,   \* the snapshot store
          events   \* every policy event recorded, oldest first

ovars == <<client, server, inFlight, store, events>>

NoRow == "none"
Backends == 1 .. MaxBackend
Reasons == {"open_transaction", "session_state"}
Outcomes == {"settled", "error"}   \* settled: Ok, Discarded and Timeout

(***************************************************************************)
(* Rows and operations of the store.  A table is a function from the keys  *)
(* that have a row.                                                        *)
(***************************************************************************)
Put(table, key, row) == [k \in DOMAIN table \cup {key} |-> IF k = key THEN row ELSE table[k]]
Without(table, key) == Restrict(table, DOMAIN table \ {key})
Empty == [k \in {} |-> NoRow]

ClientSnapshot(state) == [state |-> state]
ServerSnapshot(state) == [state |-> state]
PinningSnapshot(b, reason) == [backend |-> b, reason |-> reason]
RecoverySnapshot(error) == [last_error |-> error]
BackpressureSnapshot(n) == [in_flight |-> n, rejected |-> 0]

SnapshotStoreInner ==
  [clients |-> Empty, servers |-> Empty, pinning |-> Empty, recoveries |-> Empty,
   backpressure |-> Empty,
   policy_audit_events |-> <<>>, policy_decisions |-> <<>>]

upsert(s, c, row) == [s EXCEPT !.clients = Put(@, c, row)]
remove_client(s, c) == [s EXCEPT !.clients = Without(@, c)]
set_server_snapshot(s, b, row) == [s EXCEPT !.servers = Put(@, b, row)]
remove_server_snapshot(s, b) == [s EXCEPT !.servers = Without(@, b)]
set_pinning_snapshot(s, c, row) == [s EXCEPT !.pinning = Put(@, c, row)]
remove_pinning_snapshot(s, c) == [s EXCEPT !.pinning = Without(@, c)]

\* A row per outcome, pushed the first time; how often it came is left out.
record_recovery(s, outcome) ==
  IF outcome \in DOMAIN s.recoveries THEN s
  ELSE [s EXCEPT !.recoveries = Put(@, outcome, RecoverySnapshot(FALSE))]

\* Only a row that is already there takes the text of the error.
set_last_error(s, outcome) ==
  IF outcome \in DOMAIN s.recoveries
  THEN [s EXCEPT !.recoveries[outcome].last_error = TRUE]
  ELSE s

set_route(s, route, n) ==
  LET row == IF route \in DOMAIN s.backpressure THEN s.backpressure[route] ELSE BackpressureSnapshot(0)
  IN  [s EXCEPT !.backpressure = Put(@, route, [row EXCEPT !.in_flight = n])]

\* push_back on a ring that is full first drops its oldest.
Pushed(ring, e) == Append(IF Len(ring) = Capacity THEN Tail(ring) ELSE ring, e)

record_policy_event(s, e) ==
  LET audited == [s EXCEPT !.policy_audit_events = Pushed(@, e)]
  IN  IF e.kind = "decision" THEN [audited EXCEPT !.policy_decisions = Pushed(@, e)] ELSE audited

(***************************************************************************)
(* The tables the console renders.                                         *)
(***************************************************************************)
clients_table == [c \in DOMAIN store.clients |-> store.clients[c].state]
servers_table == [b \in DOMAIN store.servers |-> store.servers[b].state]
pinning_table == store.pinning
recovery_table == store.recoveries
backpressure_table == store.backpressure

(***************************************************************************)
(* The sessions and the pool.  `then` is what the task goes on to when its *)
(* lease is over: the next cycle, or its end.                              *)
(***************************************************************************)
NoSession == [pc |-> "none", backend |-> 0, target |-> NoRow,
              reason |-> NoRow, then |-> NoRow, seen |-> 0, cycles |-> 0]

OInit ==
  /\ client = [c \in Client |-> NoSession]
  /\ server = [b \in Backends |-> [role |-> NoRow, at |-> "unborn"]]
  /\ inFlight = 0
  /\ store = SnapshotStoreInner
  /\ events = <<>>

At(c, pc) == client[c].pc = pc
Goes(c, pc) == client' = [client EXCEPT ![c].pc = pc]
Attached(b) == server[b].role = "primary"

\* The accept loop registers the session before its task is spawned.
Register(c) ==
  /\ At(c, "none") /\ Goes(c, "accepted")
  /\ store' = upsert(store, c, ClientSnapshot("connected"))
  /\ UNCHANGED <<server, inFlight, events>>

\* The plan of the startup packet is known; authentication follows.
ShowStartup(c) ==
  /\ At(c, "accepted") /\ Goes(c, "startup")
  /\ store' = upsert(store, c, ClientSnapshot("startup"))
  /\ UNCHANGED <<server, inFlight, events>>

ShowActive(c) ==
  /\ At(c, "startup") /\ Goes(c, "idle")
  /\ store' = upsert(store, c, ClientSnapshot("active"))
  /\ UNCHANGED <<server, inFlight, events>>

\* Mutant: the guard made once the startup is over.
GuardAfterStartup(c) ==
  /\ \/ client[c].pc \in {"accepted", "startup", "leaving"}
     \/ At(c, "idle") /\ client[c].backend = 0
  /\ client' = [client EXCEPT ![c] = [NoSession EXCEPT !.pc = "gone"]]
  /\ store' = IF At(c, "leaving") THEN remove_client(store, c) ELSE store
  /\ UNCHANGED <<server, inFlight, events>>

\* ClientSnapshotGuard::drop, on whichever path handle_client returns.
DropGuard(c) ==
  /\ \/ client[c].pc \in {"accepted", "startup", "leaving"}
     \/ At(c, "idle") /\ client[c].backend = 0
  /\ client' = [client EXCEPT ![c] = [NoSession EXCEPT !.pc = "gone"]]
  /\ store' = remove_client(store, c)
  /\ UNCHANGED <<server, inFlight, events>>

\* checkout_backend, with the target of the route decision.
ChooseTarget(c) ==
  /\ At(c, "idle") /\ client[c].backend = 0 /\ client[c].cycles < MaxCycles
  /\ \E target \in Roles :
       client' = [client EXCEPT ![c].pc = "checkout", ![c].target = target, ![c].cycles = @ + 1]
  /\ UNCHANGED <<server, inFlight, store, events>>

\* Each pool has a gate for the route; the primary's is the one that is shown.
Permits(c) == IF client[c].target = "primary" THEN 1 ELSE 0

\* The permit is in hand: the gate's counts are read ...
TakePermit(c) ==
  /\ At(c, "checkout")
  /\ inFlight' = inFlight + Permits(c)
  /\ client' = [client EXCEPT ![c].pc = "counted", ![c].seen = inFlight']
  /\ UNCHANGED <<server, store, events>>

\* The breaker is open, and nothing is recorded; or a gate refuses, and its counts
\* are.  A checkout that fails ends the session.
CheckoutRefused(c) ==
  /\ At(c, "checkout")
  /\ \/ client' = [client EXCEPT ![c].pc = "leaving"]
     \/ client' = [client EXCEPT ![c].pc = "recounted", ![c].seen = inFlight, ![c].then = "leaving"]
  /\ UNCHANGED <<server, inFlight, store, events>>

\* ... and stored, under the route key of the lease.  The key holds the client's
\* address, so no two sessions share one: c stands for it.
record_backpressure_counts(c, from, to) ==
  /\ At(c, from)
  /\ client' = [client EXCEPT ![c].pc = to, ![c].seen = 0, ![c].then = NoRow,
                              ![c].target = IF to = "taking" THEN @ ELSE NoRow]
  /\ store' = IF client[c].target = "primary" THEN set_route(store, c, client[c].seen) ELSE store
  /\ UNCHANGED <<server, inFlight, events>>

\* An idle backend of the pool, or a new connection under a fresh id.
TakeBackend(c) ==
  /\ At(c, "taking")
  /\ LET idle == {b \in Backends : server[b].role = client[c].target /\ server[b].at = "idle"}
         unborn == {b \in Backends : server[b].at = "unborn"}
     IN  \E b \in idle \cup (IF idle = {} /\ unborn /= {} THEN {CHOOSE b \in unborn : \A o \in unborn : b <= o} ELSE {}) :
           /\ server' = [server EXCEPT ![b] = [role |-> client[c].target, at |-> "leased"]]
           /\ client' = [client EXCEPT ![c].backend = b, ![c].pc = "marking"]
  /\ UNCHANGED <<inFlight, store, events>>

\* No backend within the checkout timeout: the permits go back, the counts are
\* stored once more and the session ends.
CheckoutTimesOut(c) ==
  /\ At(c, "taking")
  /\ inFlight' = inFlight - Permits(c)
  /\ client' = [client EXCEPT ![c].pc = "recounted", ![c].seen = inFlight', ![c].then = "leaving"]
  /\ UNCHANGED <<server, store, events>>

\* The connection to PostgreSQL fails: `?` drops the permits, and no counts are stored.
ConnectFails(c) ==
  /\ At(c, "taking") /\ Goes(c, "leaving")
  /\ inFlight' = inFlight - Permits(c)
  /\ UNCHANGED <<server, store, events>>

mark_checked_out(c) ==
  /\ At(c, "marking") /\ Goes(c, "using")
  /\ store' = IF Attached(client[c].backend)
              THEN set_server_snapshot(store, client[c].backend, ServerSnapshot("checked_out"))
              ELSE store
  /\ UNCHANGED <<server, inFlight, events>>

(***************************************************************************)
(* How a cycle ends: what the session does with its pin row, what becomes  *)
(* of the lease, and where the task goes on.                               *)
(***************************************************************************)
\* KeepPinned, with the reason shown when the session has one (it has none when
\* only named prepared statements keep the backend).
KeepPinned(c) ==
  /\ At(c, "using")
  /\ \E reason \in Reasons \cup {NoRow} :
       /\ client' = [client EXCEPT ![c].pc = "idle", ![c].reason = reason]
       /\ store' = IF reason = NoRow THEN store
                   ELSE set_pinning_snapshot(store, c, PinningSnapshot(client[c].backend, reason))
  /\ UNCHANGED <<server, inFlight, events>>

\* Flushed, and RollbackThenKeepPinned: the backend is kept, the row as it was.
KeepUnshown(c) ==
  /\ At(c, "using")
  /\ client' = [client EXCEPT ![c].pc = "idle", ![c].reason = NoRow]
  /\ UNCHANGED <<server, inFlight, store, events>>

\* A held backend serves the next cycle without a checkout.
UseHeld(c) ==
  /\ At(c, "idle") /\ client[c].backend /= 0 /\ client[c].cycles < MaxCycles
  /\ client' = [client EXCEPT ![c].pc = "using", ![c].cycles = @ + 1]
  /\ UNCHANGED <<server, inFlight, store, events>>

\* clear_pinned_backend, then the lease is released or discarded.
clear_pinned_backend(c, lease, then) ==
  /\ client' = [client EXCEPT ![c].pc = lease, ![c].then = then, ![c].reason = NoRow]
  /\ store' = remove_pinning_snapshot(store, c)
  /\ UNCHANGED <<server, inFlight, events>>

\* Reuse, ResetThenReuse and RollbackThenReuse done; Discard; a forward that failed.
EndCycle(c) ==
  /\ At(c, "using")
  /\ \/ clear_pinned_backend(c, "release", "idle")
     \/ clear_pinned_backend(c, "discard", "idle")
     \/ clear_pinned_backend(c, "discard", "leaving")

\* The reset or rollback of a cleanup failed: `?` returns at once, the lease is
\* dropped on the way out and the pin row is not looked at.
CleanupFails(c) ==
  /\ At(c, "using")
  /\ client' = [client EXCEPT ![c].pc = "discard", ![c].then = "leaving"]
  /\ UNCHANGED <<server, inFlight, store, events>>

\* recover_backend: after a query timeout, an abandoned response, or a client
\* that left inside a transaction.
RecoverBackend(c) ==
  /\ \/ At(c, "using")
     \/ At(c, "idle") /\ client[c].backend /= 0 /\ client[c].reason = "open_transaction"
  /\ \E outcome \in Outcomes :
       /\ client' = [client EXCEPT ![c].pc = IF outcome = "error" THEN "failed" ELSE "recovered",
                                   ![c].then = IF At(c, "using") THEN "cycle" ELSE "finalize"]
       /\ store' = record_recovery(store, outcome)
  /\ UNCHANGED <<server, inFlight, events>>

\* The text of the error goes into the row record just made.
RecoveryFailed(c) ==
  /\ At(c, "failed")
  /\ client' = [client EXCEPT ![c].pc = "erred"]
  /\ store' = set_last_error(store, "error")
  /\ UNCHANGED <<server, inFlight, events>>

\* A query timeout swallows the error (unwrap_or) and clears the pin; the other
\* callers return it with `?`, which leaves the row.
AfterRecovery(c) ==
  \/ /\ At(c, "recovered")
     /\ \E lease \in {"release", "discard"} :
            \/ clear_pinned_backend(c, lease, "leaving")
            \/ client[c].then = "cycle" /\ clear_pinned_backend(c, lease, "idle")
  \/ /\ At(c, "erred") /\ client[c].then = "cycle"
     /\ clear_pinned_backend(c, "discard", "idle")
  \/ /\ At(c, "erred")
     /\ client' = [client EXCEPT ![c].pc = "discard", ![c].then = "leaving"]
     /\ UNCHANGED <<server, inFlight, store, events>>

\* finalize_backend_on_disconnect outside a transaction: a backend with session
\* state is discarded, any other released (after a reset that may fail).
FinalizeHeld(c) ==
  /\ At(c, "idle") /\ client[c].backend /= 0 /\ client[c].reason /= "open_transaction"
  /\ \/ clear_pinned_backend(c, IF client[c].reason = NoRow THEN "release" ELSE "discard", "leaving")
     \/ /\ client[c].reason = NoRow
        /\ client' = [client EXCEPT ![c].pc = "discard", ![c].then = "leaving"]
        /\ UNCHANGED <<server, inFlight, store, events>>

(***************************************************************************)
(* PooledBackendLease: release, discard and drop.                          *)
(***************************************************************************)
\* The row says idle before the backend can be taken by anyone else.
mark_idle(c) ==
  /\ At(c, "release") /\ Goes(c, "returning")
  /\ store' = IF Attached(client[c].backend)
              THEN set_server_snapshot(store, client[c].backend, ServerSnapshot("idle"))
              ELSE store
  /\ UNCHANGED <<server, inFlight, events>>

return_backend(c) ==
  /\ At(c, "returning") /\ Goes(c, "permit")
  /\ server' = [server EXCEPT ![client[c].backend].at = "idle"]
  /\ UNCHANGED <<inFlight, store, events>>

ReleaseLease(c) == mark_idle(c) \/ return_backend(c)

mark_discarded(c) ==
  /\ At(c, "discard") /\ Goes(c, "closing")
  /\ store' = IF Attached(client[c].backend) THEN remove_server_snapshot(store, client[c].backend) ELSE store
  /\ UNCHANGED <<server, inFlight, events>>

discard_backend(c) ==
  /\ At(c, "closing") /\ Goes(c, "permit")
  /\ server' = [server EXCEPT ![client[c].backend].at = "closed"]
  /\ UNCHANGED <<inFlight, store, events>>

\* take_permit, and the counts read for the row.
ReturnPermit(c) ==
  /\ At(c, "permit")
  /\ inFlight' = inFlight - Permits(c)
  /\ client' = [client EXCEPT ![c].pc = "recounted", ![c].seen = inFlight', ![c].backend = 0]
  /\ UNCHANGED <<server, store, events>>

\* reap_idle and retire_idle_backends: taken out of the idle list under its
\* lock, then unlisted, then closed.
ReapTakes(b) ==
  /\ server[b].at = "idle"
  /\ server' = [server EXCEPT ![b].at = "reaped"]
  /\ UNCHANGED <<client, inFlight, store, events>>

ReapCloses(b) ==
  /\ server[b].at = "reaped"
  /\ server' = [server EXCEPT ![b].at = "closed"]
  /\ store' = IF Attached(b) THEN remove_server_snapshot(store, b) ELSE store
  /\ UNCHANGED <<client, inFlight, events>>

\* record_audit_event of the policy engine: a decision or a reload.
RecordPolicyEvent ==
  /\ Len(events) < MaxEvents
  /\ \E kind \in Events :
       LET e == [kind |-> kind, number |-> Len(events) + 1]
       IN  /\ events' = Append(events, e)
           /\ store' = record_policy_event(store, e)
  /\ UNCHANGED <<client, server, inFlight>>

SessionStep(c) ==
  \/ Register(c) \/ ShowStartup(c) \/ ShowActive(c) \/ DropGuard(c)
  \/ ChooseTarget(c) \/ TakePermit(c) \/ TakeBackend(c)
  \/ CheckoutRefused(c) \/ CheckoutTimesOut(c) \/ ConnectFails(c)
  \/ record_backpressure_counts(c, "counted", "taking") \/ mark_checked_out(c)
  \/ KeepPinned(c) \/ KeepUnshown(c) \/ UseHeld(c) \/ EndCycle(c) \/ CleanupFails(c)
  \/ RecoverBackend(c) \/ RecoveryFailed(c) \/ AfterRecovery(c) \/ FinalizeHeld(c)
  \/ ReleaseLease(c) \/ mark_discarded(c) \/ discard_backend(c) \/ ReturnPermit(c)
  \/ record_backpressure_counts(c, "recounted", client[c].then)

PoolNext ==
  \/ \E c \in Client : SessionStep(c)
  \/ \E b \in Backends : ReapTakes(b) \/ ReapCloses(b)

ONext == PoolNext \/ RecordPolicyEvent

OSpec == OInit /\ [][ONext]_ovars

(***************************************************************************)
(* Properties.                                                             *)
(***************************************************************************)
\* The types of the store and of the tasks that write it.
OTypeOK ==
  /\ \A c \in Client : client[c].backend \in 0 .. MaxBackend /\ client[c].reason \in Reasons \cup {NoRow}
  /\ inFlight \in 0 .. Cardinality(Client)
  /\ DOMAIN store.clients \subseteq Client /\ DOMAIN store.pinning \subseteq Client
  /\ DOMAIN store.servers \subseteq Backends
  /\ DOMAIN store.recoveries \subseteq Outcomes

\* SHOW CLIENTS lists exactly the sessions that are connected, whichever way
\* their startup or their last cycle went, and shows a session as active only
\* once its startup is over.
ClientsShown ==
  /\ DOMAIN clients_table = {c \in Client : client[c].pc \notin {"none", "gone"}}
  /\ \A c \in DOMAIN clients_table :
       clients_table[c] = "active" <=> client[c].pc \notin {"accepted", "startup"}

\* SHOW SERVERS never says idle of a backend a session is using, nor checked
\* out of one any session may take, and lists no backend that is closed.
ServersShown ==
  /\ \A c \in Client : (At(c, "using") /\ Attached(client[c].backend)) =>
       (client[c].backend \in DOMAIN servers_table /\ servers_table[client[c].backend] = "checked_out")
  /\ \A b \in Backends : (Attached(b) /\ server[b].at = "idle") =>
       (b \in DOMAIN servers_table /\ servers_table[b] = "idle")
  /\ \A b \in DOMAIN servers_table : server[b].at \notin {"unborn", "closed"}

\* A row of SHOW PINNING for a connected client names the backend its session
\* holds: a session that gives its backend up and goes on has taken its row back.
PinsNameHeld ==
  \A c \in DOMAIN pinning_table :
    client[c].pc \in {"idle", "checkout", "counted", "taking", "marking", "using"} =>
      client[c].backend = pinning_table[c].backend

\* SHOW RECOVERY has the text of an error for every recovery that ended in one,
\* except while the session that failed is between its two writes.
ErrorsExplained ==
  (\A c \in Client : ~At(c, "failed")) =>
    \A outcome \in DOMAIN recovery_table : recovery_table[outcome].last_error <=> outcome = "error"

\* The two policy rings agree: the decisions in the audit ring are the newest
\* entries of the decision ring, in the same order.
RingsAgree ==
  LET decisions == SelectSeq(store.policy_audit_events, LAMBDA e : e.kind = "decision")
  IN  IsSuffix(decisions, store.policy_decisions)

\* (Violated) SHOW PINNING shows current pins: only connected clients have one.
PinsHaveOwners == \A c \in DOMAIN pinning_table : ~At(c, "gone")

\* (Violated) SHOW PINNING shows the reason the session is pinned for now.
PinReasonsCurrent ==
  \A c \in DOMAIN pinning_table : At(c, "idle") => pinning_table[c].reason = client[c].reason

\* (Violated) Once every session is gone, SHOW BACKPRESSURE has none in flight.
QuietIsIdle ==
  (\A c \in Client : At(c, "gone")) => \A r \in DOMAIN backpressure_table : backpressure_table[r].in_flight = 0

\* (Violated) Every backend a session uses is listed by SHOW SERVERS.
EveryServerShown == \A c \in Client : At(c, "using") => client[c].backend \in DOMAIN servers_table
=============================================================================
