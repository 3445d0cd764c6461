------------------------- MODULE PreparedStatements -------------------------
(***************************************************************************)
(* One session's extended-protocol traffic, message by message: how the    *)
(* client's bytes are cut into cycles and how the end of an answer is      *)
(* recognised (io_runtime.rs), and how prepared statements are renamed,    *)
(* re-prepared on other backends and forgotten (prepare.rs and             *)
(* prepare_frame_for_backend of forwarding.rs).                            *)
(*                                                                         *)
(* A statement the client names n is known to the backends by a number,    *)
(* its cache_key (the name pgk_<session>_<key>); 0 is the unnamed          *)
(* statement.  Raw stands for a client's name that is forwarded as it is:  *)
(* every Parse is renamed, so no backend knows a statement of that name.   *)
(***************************************************************************)
EXTENDS Integers, Sequences, FiniteSets

CONSTANTS Name, Unnamed,   \* statement names; Unnamed is the empty one
          Query, None,
          Foreign,         \* a query of some other session
          Outcome,         \* what running a query does: "read", "begin", "commit", or an SQLSTATE
          Backend,
          Batches,         \* what a client may send at once: sequences of frames
          Patient,         \* a client that sent a Flush waits for its answer
          MaxBatches,      \* bound: batches sent
          MaxOthers        \* bound: uses of a released backend by others

(* Three codes that SqlState::parse knows and that invalidate statements, *)
(* and three that it returns None for.                                   *)
SqlState == {"26000", "0A000", "42P01", "42P05", "34000", "25P02"}

ASSUME PreparedAssumption ==
    /\ Unnamed \in Name /\ None \notin Query \cup Backend
    /\ Outcome \in [Query \cup {Foreign} -> {"read", "begin", "commit"} \cup SqlState]
    /\ MaxBatches \in Nat /\ MaxOthers \in Nat /\ Patient \in BOOLEAN

Raw == -1

(* A frontend frame as the client sends it, and as the backend gets it.    *)
(* want is the query the client means by the statement it binds.           *)
Tag == {"Q", "P", "B", "D", "E", "C", "H", "S"}
Frame == [tag : Tag, name : Name, query : Query \cup {None}]
BackendFrame == [tag : Tag, key : Nat \cup {Raw}, query : Query \cup {None},
                 want : Query \cup {None}]

ASSUME BatchesAssumption ==
    \A batch \in Batches :
        /\ batch \in Seq(Frame)
        /\ \A i \in DOMAIN batch : batch[i].tag \in {"P", "Q"} => batch[i].query \in Query

VARIABLES buffer, sent,        \* client_buffer, and the batches received so far
          next, stmts, mat,    \* PreparedCatalog: next_statement_id, statements, materialized
          held,                \* held_backend
          pc, cycle, todo, out,  \* the cycle, its frames still to plan, the backend bytes
          progress,            \* BackendCycleProgress
          on, inbox, srv,      \* the PostgreSQL processes: prepared statements, frames to
                               \* read, the rest
          others,              \* uses of a released backend by others
          meant, issued, bound \* history: what the names mean, what keys were given to,
                               \* and the Bind executed last

catalog == <<next, stmts, mat>>
vars == <<buffer, sent, next, stmts, mat, held, pc, cycle, todo, out, progress, on,
          inbox, srv, others, meant, issued, bound>>

NoStatement == [key |-> 0, query |-> None]
NewProgress == [ready |-> 0, injected |-> 0, completions |-> 0, error |-> FALSE]
FreshServer ==
    [alive |-> TRUE, portal |-> None, skip |-> FALSE, tx |-> "I", outbox |-> <<>>]
server == <<on, inbox, srv>>

Init ==
    /\ buffer = <<>> /\ sent = 0
    /\ next = 1 /\ stmts = [n \in Name |-> NoStatement] /\ mat = [b \in Backend |-> {}]
    /\ held = None /\ pc = "read" /\ cycle = <<>> /\ todo = <<>> /\ out = <<>>
    /\ progress = NewProgress
    /\ on = [b \in Backend |-> {}] /\ inbox = [b \in Backend |-> <<>>]
    /\ srv = [b \in Backend |-> FreshServer] /\ others = 0
    /\ meant = [n \in Name |-> None] /\ issued = {} /\ bound = [want |-> None, got |-> None]

(***************************************************************************)
(* Cycles and their shape (io_runtime.rs).                                 *)
(***************************************************************************)
CountTags(frames, tags) == Cardinality({i \in DOMAIN frames : frames[i].tag \in tags})

Boundary == {"S", "H"}                       \* is_extended_cycle_boundary
ExpectsCompletion == {"P", "B", "D", "E", "C"}    \* expects_backend_completion

(* Mutant: the answer to a Describe does not count.                        *)
CompletionButDescribe == {"1", "2", "3", "C", "I", "s"}

(* is_backend_cycle_completion.  (The server below answers a Describe with *)
(* rows and an Execute in one piece: it sends no "n", "I" or "s".)         *)
Completion == {"1", "2", "3", "T", "n", "C", "I", "s"}

ReadyCount(frames) ==
    CountTags(frames, {"Q"})
        + (IF frames # <<>> /\ frames[Len(frames)].tag = "S" THEN 1 ELSE 0)

(* FrontendCycleShape::from_frames.                                        *)
Shape(frames) ==
    [ready |-> ReadyCount(frames),
     completions |-> IF ReadyCount(frames) = 0 THEN CountTags(frames, ExpectsCompletion) ELSE 0]

(* take_frontend_cycle_bytes: a run of simple queries, or everything up to *)
(* the next Sync or Flush; 0 while more bytes are needed.                  *)
Ends(frames, i) ==
    IF Head(frames).tag = "Q"
    THEN /\ \A j \in 1..i : frames[j].tag = "Q"
         /\ i < Len(frames) => frames[i + 1].tag # "Q"
    ELSE /\ frames[i].tag \in Boundary
         /\ \A j \in 1..i-1 : frames[j].tag \notin Boundary

ExpectsNoResponse(shape) == shape.ready = 0 /\ shape.completions = 0

FlushCycleComplete(shape, p) == p.error \/ p.completions >= shape.completions

(***************************************************************************)
(* The client and the start of a cycle.                                    *)
(***************************************************************************)
(* A client may pipeline, but a patient one that asks for an answer with a *)
(* Flush waits for it, and answers an error with a Sync.                   *)
MaySend(batch) ==
    Patient => IF CountTags(cycle \o buffer, {"H"}) = 0 THEN TRUE
               ELSE /\ pc = "read" /\ buffer = <<>>
                    /\ progress.error => Head(batch).tag = "S"

ClientSends(batch) ==
    /\ sent < MaxBatches /\ MaySend(batch)
    /\ sent' = sent + 1 /\ buffer' = buffer \o batch
    /\ UNCHANGED <<catalog, held, pc, cycle, todo, out, progress, server, others,
                   meant, issued, bound>>

(* The held backend, or one of the pool.                                   *)
TakeCycle(b, i) ==
    /\ pc = "read" /\ i \in DOMAIN buffer /\ Ends(buffer, i)
    /\ srv[b].alive /\ held \in {None, b}
    /\ held' = b /\ pc' = "plan"
    /\ cycle' = SubSeq(buffer, 1, i) /\ todo' = SubSeq(buffer, 1, i)
    /\ buffer' = SubSeq(buffer, i + 1, Len(buffer))
    /\ out' = <<>> /\ progress' = NewProgress
    /\ UNCHANGED <<sent, catalog, server, others, meant, issued, bound>>

(***************************************************************************)
(* prepare_frame_for_backend, one frame of the cycle at a time.            *)
(***************************************************************************)
Known(n) == stmts[n] # NoStatement

(* Mutant: the name given to the statement's predecessor is used again.    *)
ReusedKey(n) ==
    IF n = Unnamed THEN 0 ELSE IF Known(n) THEN stmts[n].key ELSE next

NewKey(n) == IF n = Unnamed THEN 0 ELSE next

(* remove_materialized_statement.                                          *)
Forgotten(m, n) ==
    IF Known(n) /\ stmts[n].key # 0 THEN [b \in Backend |-> m[b] \ {stmts[n].key}] ELSE m

(* mark_materialized: the unnamed statement is never recorded.             *)
Marked(m, b, k) == IF k = 0 THEN m ELSE [m EXCEPT ![b] = @ \cup {k}]

IsMaterialized(b, k) == k = 0 \/ k \in mat[b]

Emit(frames) == out' = out \o frames

(* upsert: a Parse replaces what the name stood for and gets a new key.    *)
PlanParse(f, k) ==
    /\ stmts' = [stmts EXCEPT ![f.name] = [key |-> k, query |-> f.query]]
    /\ next' = IF f.name = Unnamed THEN next ELSE next + 1
    /\ mat' = Marked(Forgotten(mat, f.name), held, k)
    /\ Emit(<<[tag |-> "P", key |-> k, query |-> f.query, want |-> None]>>)
    /\ meant' = [meant EXCEPT ![f.name] = f.query]
    /\ issued' = IF k = 0 THEN issued ELSE issued \cup {[key |-> k, query |-> f.query]}
    /\ UNCHANGED progress

(* The Parse the proxy injects ahead of a Bind or Describe when the        *)
(* statement is not recorded on this backend.                              *)
Prelude(k, q) ==
    IF IsMaterialized(held, k) THEN <<>>
    ELSE <<[tag |-> "P", key |-> k, query |-> q, want |-> None]>>

PlanUse(f) ==
    /\ Known(f.name)
    /\ LET k == stmts[f.name].key
           prelude == Prelude(k, stmts[f.name].query)
       IN  /\ Emit(Append(prelude, [tag |-> f.tag, key |-> k, query |-> None,
                                    want |-> meant[f.name]]))
           /\ mat' = IF prelude = <<>> THEN mat ELSE Marked(mat, held, k)
           /\ progress' = [progress EXCEPT !.injected = @ + Len(prelude)]
    /\ UNCHANGED <<next, stmts, meant, issued>>

PlanClose(f) ==
    /\ Known(f.name)
    /\ stmts' = [stmts EXCEPT ![f.name] = NoStatement]
    /\ mat' = Forgotten(mat, f.name)
    /\ Emit(<<[tag |-> "C", key |-> stmts[f.name].key, query |-> None, want |-> None]>>)
    /\ meant' = [meant EXCEPT ![f.name] = None]
    /\ UNCHANGED <<next, progress, issued>>

(* Everything else goes through as it is, a name nobody parsed included.   *)
PlanOther(f) ==
    /\ f.tag \notin {"P"} /\ (f.tag \in {"B", "D", "C"} => ~Known(f.name))
    /\ Emit(<<[tag |-> f.tag, key |-> IF f.name = Unnamed THEN 0 ELSE Raw,
               query |-> f.query, want |-> None]>>)
    /\ UNCHANGED <<catalog, progress, meant, issued>>

PlanFrame ==
    /\ pc = "plan" /\ todo # <<>>
    /\ LET f == Head(todo)
       IN  \/ f.tag = "P" /\ PlanParse(f, NewKey(f.name))
           \/ f.tag \in {"B", "D"} /\ PlanUse(f)
           \/ f.tag = "C" /\ PlanClose(f)
           \/ PlanOther(f)
    /\ todo' = Tail(todo)
    /\ UNCHANGED <<buffer, sent, held, pc, cycle, server, others, bound>>

(* The write to the backend; a cycle nothing answers is over at once.      *)
SendCycle ==
    /\ pc = "plan" /\ todo = <<>>
    /\ inbox' = [inbox EXCEPT ![held] = @ \o out]
    /\ out' = <<>>
    /\ pc' = IF ExpectsNoResponse(Shape(cycle)) THEN "read" ELSE "forward"
    /\ UNCHANGED <<buffer, sent, catalog, held, cycle, todo, progress, on, srv, others,
                   meant, issued, bound>>

(***************************************************************************)
(* The PostgreSQL process behind a backend (external): it executes frames  *)
(* in order, and after an error ignores everything up to the next Sync.    *)
(***************************************************************************)
Has(b, k) == \E s \in on[b] : s.key = k

At(b, k) == CHOOSE s \in on[b] : s.key = k

Without(b, k) == {s \in on[b] : s.key # k}

(* An aborted transaction runs nothing but its end.                        *)
Refused(b, q) == srv[b].tx = "E" /\ Outcome[q] # "commit"

(* The error a query meets when it is analysed, and the one a frame meets. *)
Meets(b, q) ==
    IF Refused(b, q) THEN "25P02" ELSE IF Outcome[q] \in SqlState THEN Outcome[q] ELSE "ok"

Code(b, f) ==
    CASE f.tag \in {"P", "Q"} ->
             IF Meets(b, f.query) = "ok" /\ f.tag = "P" /\ f.key # 0 /\ Has(b, f.key)
             THEN "42P05" ELSE Meets(b, f.query)
      [] f.tag \in {"B", "D"} ->
             IF ~Has(b, f.key) THEN "26000"
             ELSE IF Refused(b, At(b, f.key).query) THEN "25P02"
             ELSE IF f.tag = "B" /\ At(b, f.key).stale THEN "0A000" ELSE "ok"
      [] f.tag = "E" -> IF srv[b].portal = None THEN "34000" ELSE "ok"
      [] OTHER -> "ok"

(* The statements afterwards: a Parse replaces the unnamed one even when   *)
(* it fails, a simple query drops it.                                      *)
StatementsAfter(b, f, code) ==
    CASE f.tag = "P" ->
             (IF f.key = 0 THEN Without(b, 0) ELSE on[b])
                 \cup (IF code = "ok"
                       THEN {[key |-> f.key, query |-> f.query, stale |-> FALSE]} ELSE {})
      [] f.tag = "C" -> Without(b, f.key)
      [] f.tag = "Q" -> Without(b, 0)
      [] OTHER -> on[b]

AfterRunning(tx, q) ==
    CASE Outcome[q] = "begin" -> "T" [] Outcome[q] = "commit" -> "I" [] OTHER -> tx

Aborted(tx) == IF tx = "T" THEN "E" ELSE tx

Bare(tags) == [i \in DOMAIN tags |-> [tag |-> tags[i], code |-> "-"]]

(* Describe answers with two frames, a simple query and a Sync with        *)
(* ReadyForQuery whatever happened before.                                 *)
ServerAfter(b, f, code) ==
    LET sv == srv[b]
        tx == IF code # "ok" THEN Aborted(sv.tx)
              ELSE IF f.tag = "Q" THEN AfterRunning(sv.tx, f.query)
              ELSE IF f.tag = "E" THEN AfterRunning(sv.tx, sv.portal) ELSE sv.tx
        error == [tag |-> "E", code |-> code]
        ready == [tag |-> "Z", code |-> tx]
        says == CASE f.tag = "S" -> <<ready>>
                  [] f.tag = "Q" -> <<IF code = "ok" THEN Bare(<<"C">>)[1] ELSE error, ready>>
                  [] f.tag \notin {"S", "Q"} /\ code # "ok" -> <<error>>
                  [] f.tag = "P" /\ code = "ok" -> Bare(<<"1">>)
                  [] f.tag = "B" /\ code = "ok" -> Bare(<<"2">>)
                  [] f.tag = "D" /\ code = "ok" -> Bare(<<"t", "T">>)
                  [] f.tag = "E" /\ code = "ok" -> Bare(<<"D", "C">>)
                  [] f.tag = "C" -> Bare(<<"3">>)
                  [] OTHER -> <<>>
    IN  [sv EXCEPT !.tx = tx, !.outbox = @ \o says,
                   !.skip = IF f.tag \in {"S", "Q"} THEN FALSE ELSE code # "ok",
                   !.portal = CASE f.tag = "B" /\ code = "ok" -> At(b, f.key).query
                                [] f.tag = "Q" \/ (f.tag = "S" /\ tx = "I") -> None
                                [] OTHER -> @]

Serve(b) ==
    LET f == Head(inbox[b])
        runs == ~srv[b].skip \/ f.tag = "S"
    IN
    /\ srv[b].alive /\ inbox[b] # <<>>
    /\ inbox' = [inbox EXCEPT ![b] = Tail(@)]
    /\ IF runs
       THEN /\ on' = [on EXCEPT ![b] = StatementsAfter(b, f, Code(b, f))]
            /\ srv' = [srv EXCEPT ![b] = ServerAfter(b, f, Code(b, f))]
            /\ bound' = IF f.tag = "B" /\ f.key # 0 /\ Has(b, f.key)
                        THEN [want |-> f.want, got |-> At(b, f.key).query] ELSE bound
       ELSE UNCHANGED <<on, srv, bound>>
    /\ UNCHANGED <<buffer, sent, catalog, held, pc, cycle, todo, out, progress, others,
                   meant, issued>>

(***************************************************************************)
(* Reading the answer: BackendResponseDrain and what follows it.           *)
(***************************************************************************)

(* invalidate_for_sqlstate.                                                *)
Invalidated(m, code, b) ==
    CASE code = "26000" -> [m EXCEPT ![b] = {}]
      [] code \in {"0A000", "42P01"} -> [d \in Backend |-> {}]
      [] OTHER -> m

(* drain_with, one frame: a ParseComplete that answers an injected Parse   *)
(* is swallowed, everything else is counted and forwarded.                 *)
Drained(acc, r) ==
    IF acc.p.injected > 0 /\ r.tag = "1" THEN [acc EXCEPT !.p.injected = @ - 1]
    ELSE [p |-> [acc.p EXCEPT !.ready = @ + (IF r.tag = "Z" THEN 1 ELSE 0),
                              !.completions = @ + (IF r.tag \in Completion THEN 1 ELSE 0),
                              !.error = @ \/ r.tag = "E"],
          status |-> IF r.tag = "Z" THEN r.code ELSE acc.status,
          mat |-> IF r.tag = "E" THEN Invalidated(acc.mat, r.code, held) ELSE acc.mat]

(* The whole answer, frame by frame. *)
Drain(replies) ==
    LET drained[i \in 0..Len(replies)] ==
            IF i = 0 THEN [p |-> progress, status |-> "-", mat |-> mat]
            ELSE Drained(drained[i - 1], replies[i])
    IN  drained[Len(replies)]

HasNamedStatements == \E n \in Name \ {Unnamed} : Known(n)

(* finish_ready_backend in transaction pooling: keep the backend in a      *)
(* transaction and while statements are named; roll a failed transaction   *)
(* back; else give it to the pool.                                         *)
FinishReady(sv, status) ==
    IF status = "E"
    THEN [keep |-> FALSE, sv |-> [sv EXCEPT !.tx = "I", !.portal = None]]
    ELSE [keep |-> status = "T" \/ HasNamedStatements, sv |-> sv]

FlushEnds(shape, d) == shape.ready = 0 /\ FlushCycleComplete(shape, d.p)

ReadBackend(m) ==
    LET sv == srv[held]
        d == Drain(SubSeq(sv.outbox, 1, m))
        rest == [sv EXCEPT !.outbox = SubSeq(@, m + 1, Len(@))]
        over == d.status # "-" /\ d.p.ready >= Shape(cycle).ready
        finished == FinishReady(rest, d.status)
    IN
    /\ pc = "forward" /\ m \in DOMAIN sv.outbox
    /\ progress' = d.p /\ mat' = d.mat
    /\ srv' = [srv EXCEPT ![held] = IF over THEN finished.sv ELSE rest]
    /\ held' = IF over /\ ~finished.keep THEN None ELSE held
    /\ pc' = IF over \/ FlushEnds(Shape(cycle), d) THEN "read" ELSE "forward"
    /\ UNCHANGED <<buffer, sent, next, stmts, cycle, todo, out, on, inbox, others,
                   meant, issued, bound>>

(* The query timeout: the client is told, the backend discarded, and the   *)
(* session goes on with another.                                           *)
QueryTimeout ==
    /\ pc = "forward"
    /\ srv' = [srv EXCEPT ![held] = [FreshServer EXCEPT !.alive = FALSE]]
    /\ on' = [on EXCEPT ![held] = {}] /\ inbox' = [inbox EXCEPT ![held] = <<>>]
    /\ held' = None /\ pc' = "read" /\ cycle' = <<>> /\ progress' = NewProgress
    /\ UNCHANGED <<buffer, sent, catalog, todo, out, others, meant, issued, bound>>

(***************************************************************************)
(* Others (external): sessions that get a released backend, and a change   *)
(* of the schema.                                                          *)
(***************************************************************************)
Touch(b, statements) ==
    /\ others < MaxOthers /\ others' = others + 1
    /\ on' = [on EXCEPT ![b] = statements]
    /\ UNCHANGED <<buffer, sent, catalog, held, pc, cycle, todo, out, progress, inbox, srv,
                   meant, issued, bound>>

(* A session that parses its own unnamed statement; one that resets the    *)
(* backend (DISCARD ALL) when it is done.                                  *)
OtherParses(b) ==
    /\ held # b /\ srv[b].alive
    /\ Touch(b, Without(b, 0) \cup {[key |-> 0, query |-> Foreign, stale |-> FALSE]})

OtherResets(b) == held # b /\ on[b] # {} /\ Touch(b, {})

SchemaChange(b) == Touch(b, {[s EXCEPT !.stale = TRUE] : s \in on[b]})

Next ==
    \/ \E batch \in Batches : ClientSends(batch)
    \/ \E b \in Backend, i \in 1..Len(buffer) : TakeCycle(b, i)
    \/ PlanFrame
    \/ SendCycle
    \/ \E b \in Backend : Serve(b)
    \/ held # None /\ \E m \in 1..Len(srv[held].outbox) : ReadBackend(m)
    \/ QueryTimeout
    \/ \E b \in Backend : OtherParses(b) \/ OtherResets(b) \/ SchemaChange(b)

Spec == Init /\ [][Next]_vars

(* The session's task runs whenever it can, and the servers answer.        *)
Fairness ==
    /\ WF_vars(PlanFrame) /\ WF_vars(SendCycle)
    /\ WF_vars(\E b \in Backend, i \in 1..Len(buffer) : TakeCycle(b, i))
    /\ WF_vars(held # None /\ \E m \in 1..Len(srv[held].outbox) : ReadBackend(m))
    /\ \A b \in Backend : WF_vars(Serve(b))

(***************************************************************************)
(* Properties.                                                             *)
(***************************************************************************)

(* Type invariant of the session, its catalog and the servers.             *)
TypeOK ==
    /\ buffer \in Seq(Frame) /\ sent \in 0..MaxBatches
    /\ next \in Nat \ {0} /\ stmts \in [Name -> [key : Nat, query : Query \cup {None}]]
    /\ mat \in [Backend -> SUBSET (1..next-1)]
    /\ held \in Backend \cup {None} /\ pc \in {"read", "plan", "forward"}
    /\ cycle \in Seq(Frame) /\ todo \in Seq(Frame) /\ out \in Seq(BackendFrame)
    /\ progress \in [ready : Nat, injected : Nat, completions : Nat, error : BOOLEAN]
    /\ pc # "read" => held # None
    /\ others \in 0..MaxOthers /\ meant \in [Name -> Query \cup {None}]
    /\ issued \subseteq [key : 1..next-1, query : Query]

(* A Bind of a named statement that a backend accepts binds the query the  *)
(* client last gave that name, whichever backend the cycle runs on and     *)
(* however often the name was closed, parsed again or re-prepared there.   *)
(* prepare_frame_for_backend rewrites names it recorded earlier; a key     *)
(* used for two queries, or a stale statement left on a backend under a    *)
(* reused name, would run another statement.                               *)
BindMeaning == bound.want = bound.got

(* A cycle that met no error has forwarded one terminating reply for every *)
(* request of the client and none for a Parse of the proxy's own:          *)
(* drain_with swallows as many ParseCompletes as plan_frontend_cycle       *)
(* injected, in whatever order they come.                                  *)
Answered ==
    pc = "read" /\ ~progress.error =>
        progress.completions = CountTags(cycle, ExpectsCompletion \cup {"Q"})

(* When the proxy takes a cycle for finished the backend has nothing more  *)
(* to send: what the server has still to read is a Flush, or what it will  *)
(* ignore after an error, and a backend given to the pool is quiet.        *)
NothingStranded ==
    pc = "read" => \A b \in Backend :
        /\ srv[b].outbox = <<>>
        /\ inbox[b] # <<>> => held = b
        /\ CountTags(inbox[b], IF srv[b].skip THEN {"S"} ELSE Tag \ {"H"}) = 0

(* The materialisations the catalog records belong to statements the       *)
(* client can still name: upsert and remove drop those of the statement    *)
(* they replace, so a session's record does not grow with what it closed.  *)
RecordsLive ==
    \A b \in Backend : \A k \in mat[b] : \E n \in Name : stmts[n].key = k

(* Every cycle that is being forwarded ends, whatever mixture of requests  *)
(* it holds, without the query timeout having to end it.                   *)
CycleEnds == pc = "forward" ~> pc = "read"

(* What docs/prepared-statements.md says of statement state: the unnamed   *)
(* statement a client binds is its own, not that of another session.       *)
UnnamedOwn ==
    held # None => srv[held].portal # Foreign

=============================================================================
