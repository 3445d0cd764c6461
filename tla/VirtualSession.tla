--------------------------- MODULE VirtualSession ---------------------------
(***************************************************************************)
(* The proxy's picture of one client's PostgreSQL session, and the pure    *)
(* decisions taken from it: what a statement does to the picture           *)
(* (virtual_session.rs), whether the picture pins the backend, what is     *)
(* done with a backend at ReadyForQuery (cleanup.rs) and after something   *)
(* went wrong (recovery.rs).                                               *)
(*                                                                         *)
(* SQL text is abstracted to a statement [op, arg].  arg is a replayable   *)
(* setting (Key), or a backend-session object (Object): a temporary table, *)
(* an advisory lock, a LISTEN channel, a setting outside the replayable    *)
(* list.  The picture keeps one flag per kind of object, Kind[o], however  *)
(* many objects of that kind the client made.                              *)
(***************************************************************************)
EXTENDS Naturals, SequencesExt

CONSTANTS Key,       \* replayable settings (is_replayable_setting)
          Object,    \* objects only the PostgreSQL session holds
          Kind,      \* the flag of VirtualSession an object sets
          ReadRouting \* read routing with read-after-write protection is on

Flags == {"temp", "lock", "listen", "unsafe"}

ASSUME KindAssumption == Kind \in [Object -> Flags]

ASSUME ReadRoutingAssumption == ReadRouting \in BOOLEAN

Statement ==
    [op : {"read", "write", "fail", "begin", "commit", "rollback", "discard", "copy"},
     arg : {"-"}]
        \cup [op : {"set", "reset"}, arg : Key]
        \cup [op : {"raise", "drop"}, arg : Object]

(* unknown_protocol_state is absent: nothing on the modelled path sets it. *)
Session ==
    [tx : {"idle", "open", "failed"}, forced : BOOLEAN, settings : SUBSET Key,
     flags : SUBSET Flags, copy : BOOLEAN]

NewSession ==
    [tx |-> "idle", forced |-> FALSE, settings |-> {}, flags |-> {}, copy |-> FALSE]

(* forced is primary_forced of read_routing_transaction: the open          *)
(* transaction wrote something.                                            *)
BeginTransaction(s) == [s EXCEPT !.tx = "open", !.forced = FALSE]
EndTransaction(s) == [s EXCEPT !.tx = "idle", !.forced = FALSE]
MarkTransactionWrite(s) == [s EXCEPT !.forced = @ \/ s.tx = "open"]

MarkFailedTransaction(s) == [MarkTransactionWrite(s) EXCEPT !.tx = "failed"]

(* RESET of a setting that cannot be replayed counts as unsafe state too.  *)
DropFlag(s, flag) ==
    [s EXCEPT !.flags = IF flag = "unsafe" THEN @ \cup {flag} ELSE @ \ {flag}]

ApplySql(s, st) ==
    CASE st.op = "begin" -> BeginTransaction(s)
      [] st.op \in {"commit", "rollback"} -> EndTransaction(s)
      [] st.op = "set" -> [s EXCEPT !.settings = @ \cup {st.arg}]
      [] st.op = "reset" -> [s EXCEPT !.settings = @ \ {st.arg}]
      [] st.op = "raise" -> [s EXCEPT !.flags = @ \cup {Kind[st.arg]}]
      [] st.op = "drop" -> DropFlag(s, Kind[st.arg])
      [] st.op = "discard" -> NewSession
      [] st.op = "copy" -> [s EXCEPT !.copy = TRUE]
      [] OTHER -> s

(* apply_transaction_command: transaction control and the write mark only. *)
ApplyTransaction(s, st, routing) ==
    CASE st.op \in {"begin", "commit", "rollback"} -> ApplySql(s, st)
      [] st.op = "write" /\ routing -> MarkTransactionWrite(s)
      [] OTHER -> s

CommitsWrite(s, st) == st.op = "commit" /\ s.forced

HasReplayable(s) == s.settings # {}

PinReason(s) ==
    CASE s.copy -> "copy"
      [] ~s.copy /\ s.tx = "failed" -> "failed"
      [] ~s.copy /\ s.tx = "open" -> "open"
      [] ~s.copy /\ s.tx = "idle" /\ s.flags # {} -> "state"
      [] OTHER -> "none"

InTransactionPin(s) == PinReason(s) \in {"open", "failed"}

(* status is the transaction status of ReadyForQuery: "I", "T" or "E".     *)
CleanupAction(s, status, mode) ==
    CASE status = "E" -> IF mode = "session" THEN "rollback_keep" ELSE "rollback_reuse"
      [] status = "T" -> "keep"
      [] status = "I" /\ (mode = "session" \/ PinReason(s) # "none") -> "keep"
      [] status = "I" /\ mode = "transaction" /\ PinReason(s) = "none" ->
             IF HasReplayable(s) THEN "reset_reuse" ELSE "reuse"

RecoveryAction(trigger, mode) ==
    CASE mode = "drop" -> "discard"
      [] mode # "drop" /\ trigger = "transaction" -> "rollback"
      [] mode = "rollback_only" /\ trigger = "response" -> "discard"
      [] mode = "recover" /\ trigger = "response" -> "drain"

----------------------------------------------------------------------------
(* What a cycle of client requests, a sequence of [st, mode], does to the  *)
(* picture before its backend is chosen and when it is forwarded.  Both    *)
(* session loops, handle_client and the io_uring handle_client_session,    *)
(* call these (request_plan.rs, forwarding.rs).                            *)

(* update_transaction_state_from_request_plans: before the checkout, for   *)
(* simple queries and Parse; a Bind of a prepared statement changes        *)
(* nothing (RequestPlan::from_prepared).                                   *)
TrackTransaction(s, cycle) ==
    FoldLeft(LAMBDA acc, rq :
               IF rq.mode = "bind" THEN acc
               ELSE [session |-> ApplyTransaction(acc.session, rq.st, ReadRouting),
                     committed |-> acc.committed \/ CommitsWrite(acc.session, rq.st)],
             [session |-> s, committed |-> FALSE], cycle)

(* update_virtual_session_from_frame: at the forward, for simple queries   *)
(* that are not transaction control.                                       *)
TrackSession(s, cycle) ==
    FoldLeft(LAMBDA acc, rq :
               IF rq.mode = "query" /\ rq.st.op \notin {"begin", "commit", "rollback"}
               THEN ApplySql(acc, rq.st) ELSE acc,
             s, cycle)

SomeMode(cycle, modes) == \E i \in 1..Len(cycle) : cycle[i].mode \in modes

NeedsSync(cycle) == SomeMode(cycle, {"parse", "prepare", "bind", "flush"})

(* A request of the proxy's own, sent on behalf of client c.               *)
Ask(c, op, arg) == [by |-> c, st |-> [op |-> op, arg |-> arg], mode |-> "proxy"]

(* replay_frames: one simple SET per tracked setting.                      *)
ReplayFrames(c, s) ==
    LET keys == SetToSeq(s.settings)
    IN  [i \in DOMAIN keys |-> Ask(c, "set", keys[i])]
=============================================================================
