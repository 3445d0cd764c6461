----------------------------- MODULE MCSessions -----------------------------
(***************************************************************************)
(* Client sessions, what the admin views say of them, the bytes of their   *)
(* backends and the buffers they lease, on small instances.  The modules   *)
(* share no state: a behaviour is one of sessions, of views, of the policy *)
(* rings, of a byte stream or of the pool of buffers (part), so TLC visits *)
(* the sum of their states and not the product.                            *)
(***************************************************************************)
EXTENDS ClientSession, TLC

CONSTANTS Parts, Roles
CONSTANTS c1, c2, b1, b2, k1, k2, o1, o2

Symmetric == Permutations({c1, c2}) \cup Permutations({b1, b2})

Plain(op) == [st |-> [op |-> op, arg |-> "-"], mode |-> "query"]
On(op, arg) == [st |-> [op |-> op, arg |-> arg], mode |-> "query"]
Extended(op, arg, mode) == [st |-> [op |-> op, arg |-> arg], mode |-> mode]

AllListen == [o \in Object |-> "listen"]

(* Reads, failures, transaction control, a tracked setting and a LISTEN.   *)
Usual ==
    {<<Plain("read")>>, <<Plain("fail")>>, <<Plain("begin")>>, <<Plain("commit")>>,
     <<Plain("rollback")>>, <<On("set", k1)>>, <<On("raise", o1)>>}

(* The same with pipelined queries, COPY and an extended batch.            *)
Mixed == Usual \cup
    {<<Plain("copy")>>, <<Plain("commit"), Plain("begin")>>, <<Plain("read"), Plain("fail")>>,
     <<Extended("begin", "-", "parse")>>}

(* Writing transactions, a failure, an extended batch.                     *)
Lively ==
    {<<Plain("begin"), Plain("write")>>, <<Plain("commit")>>,
     <<Plain("fail")>>, <<Extended("read", "-", "prepare")>>}

(* The sets below show what section 6 of the README says.                  *)
Transactions == {<<Plain("read")>>, <<Plain("begin")>>}
Writes == {<<Plain("begin")>>, <<Plain("write")>>, <<Plain("commit")>>}
Settings == {<<Plain("read")>>, <<On("set", k1)>>, <<On("set", k2)>>}
Failing == {<<On("raise", o1)>>, <<Plain("begin")>>, <<Plain("fail")>>}
Clearing == {<<On("raise", o1)>>, <<Plain("begin")>>, <<On("drop", o1)>>, <<Plain("rollback")>>}
TwoChannels == {<<On("raise", o1)>>, <<On("raise", o2)>>, <<On("drop", o1)>>}
Prepared == {<<Extended("read", "-", "prepare")>>, <<Extended("begin", "-", "bind")>>}
ExtendedSet == {<<Extended("set", k1, "parse")>>}
Listening == {<<On("raise", o1)>>, <<Plain("read")>>}

VARIABLES part, fault, client, leased, inFlight, store, events,
          sess, peer, backend_read, drained, passed, used,
          policy, cached, bytes, lease

viewVars == <<client, leased, inFlight, store, events>>
streamVars == <<sess, peer, backend_read, drained, passed, used>>
bufferVars == <<policy, cached, bytes, lease>>

O == INSTANCE SnapshotStore WITH
       MaxBackend <- 2, Capacity <- 2, MaxEvents <- 5,
       MaxCycles <- 2, Events <- {"decision", "reload"}, server <- leased

B == INSTANCE ReadBuffer WITH
       Conn <- Backend, Drains <- TRUE, MaxCycle <- 2, MaxNote <- 1, MaxSession <- 2

(* The same stream with recovery_mode = drop, and nothing unasked for.     *)
D == INSTANCE ReadBuffer WITH
       Conn <- Backend, Drains <- FALSE, MaxCycle <- 2, MaxNote <- 0, MaxSession <- 2

(* A budget that two sets fill, and one from a memory limit.               *)
ThePolicies ==
    {[initial |-> 0, max_sessions |-> 2, max_bytes |-> 3, max_retained |-> 2, memory |-> 0],
     [initial |-> 1, max_sessions |-> 2, max_bytes |-> 4, max_retained |-> 0, memory |-> 200]}

P == INSTANCE BufferPool WITH
       User <- {"u1", "u2"}, Buf <- {"read", "write"}, Sizes <- {2, 3},
       Policies <- ThePolicies

(* Bound: two connected clients have had two cycles between them.         *)
FewCycles == \A c, d \in Client : c # d => client[c].cycles + client[d].cycles <= 2

AllGone == \A c \in Client : client[c].pc = "gone"

(* Bound: once a frame was cut a stream is followed within its first cycle.*)
SoonAfterCut == sess.cut => Len(passed) = 0 /\ used.sessions = 1 /\ used.cycles < 2

(* A pool of buffers is only set up in its own part.                       *)
MCBegin ==
    /\ part \in Parts
    /\ Init /\ O!OInit /\ B!StreamInit /\ P!BufferInit
    /\ part # "buffers" => policy.initial = 1 /\ policy.max_bytes = 3

MCInit == MCBegin /\ fault = "none"

AllVars == <<part, fault, vars, viewVars, streamVars, bufferVars>>

MCNext ==
    \/ /\ part = "sessions" /\ Next
       /\ UNCHANGED <<part, fault, viewVars, streamVars, bufferVars>>
    \/ /\ \/ part = "views" /\ O!PoolNext /\ FewCycles'
          \/ part = "rings" /\ O!RecordPolicyEvent
       /\ UNCHANGED <<part, fault, vars, streamVars, bufferVars>>
    \/ /\ \/ part = "stream" /\ SoonAfterCut /\ B!StreamNext
          \/ part = "dropping" /\ SoonAfterCut /\ D!StreamNext
       /\ UNCHANGED <<part, fault, vars, viewVars, bufferVars>>
    \/ /\ part = "buffers" /\ P!BufferNext
       /\ UNCHANGED <<part, fault, vars, viewVars, streamVars>>
    \/ part = "views" /\ AllGone /\ UNCHANGED AllVars
    \/ part = "rings" /\ Len(events) = 5 /\ UNCHANGED AllVars
    \/ part \in {"stream", "dropping"} /\ (sess.pc = "gone" \/ ~SoonAfterCut) /\ UNCHANGED AllVars

MCSpec == MCInit /\ [][MCNext]_AllVars

----------------------------------------------------------------------------
(* Liveness of client sessions in session pooling, as two instances of     *)
(* ClientSession that a run explores side by side: the one the constants   *)
(* describe, whose servers answer everything (fault = "none"), and one     *)
(* with recovery_mode = drop and no read routing, whose clients' queries   *)
(* may run for ever (fault = "hang").                                      *)

(* A statement that hangs, inside a transaction or not, and the residue a  *)
(* session leaves.                                                         *)
Hanging ==
    {<<Plain("fail")>>, <<Plain("begin")>>, <<On("set", k1)>>, <<On("raise", o1)>>}

Dropping ==
    INSTANCE ClientSession WITH RecoveryMode <- "drop", ReadRouting <- FALSE, Cycles <- Hanging

LiveInit == MCBegin /\ part = "sessions" /\ fault \in {"none", "hang"}

LiveNext ==
    /\ \/ fault = "none" /\ Next
       \/ fault = "hang" /\ Dropping!Next
    /\ UNCHANGED <<part, fault, viewVars, streamVars, bufferVars>>

LiveVars == <<vars, fault>>

(* The runtime polls a task that can go on, in either instance.            *)
Polled(c) ==
    /\ WF_LiveVars(\E b \in Backend :
                    (IF fault = "none" THEN Proceeds(c, b) ELSE Dropping!Proceeds(c, b))
                    /\ UNCHANGED fault)
    /\ WF_LiveVars(\E b \in Backend :
                    (IF fault = "none" THEN Reads(c, b) ELSE Dropping!Reads(c, b))
                    /\ UNCHANGED fault)
    /\ WF_LiveVars(CheckoutFails(c) /\ UNCHANGED fault)
    /\ WF_LiveVars(fault = "none" /\ ProbeFails(c) /\ UNCHANGED fault)

(* The timers of handle_query_timeout and recover_backend fire.            *)
Timed(c) ==
    /\ WF_LiveVars(\E b \in Backend :
                    fault = "hang" /\ Dropping!QueryTimeout(c, b) /\ UNCHANGED fault)
    /\ WF_LiveVars(\E b \in Backend :
                    fault = "hang" /\ Dropping!RecoveryFails(c, b) /\ UNCHANGED fault)

(* A server answers; a hung one only what the proxy itself asks of it.     *)
Answers(b) ==
    WF_LiveVars(/\ server[b].inbox # <<>>
                /\ fault = "none" \/ Head(server[b].inbox).mode = "proxy"
                /\ ServerExecutes(b) /\ UNCHANGED fault)

LiveSpec ==
    /\ LiveInit /\ [][LiveNext]_AllVars
    /\ \A c \in Client : Polled(c) /\ Timed(c)
    /\ \A b \in Backend : Answers(b)

(* No lease is leaked or doubled, and with recovery_mode = drop a backend  *)
(* in the pool carries no setting, temporary table, advisory lock or       *)
(* LISTEN of a client that used it, whatever timeouts and disconnects its  *)
(* clients had (ClientSession).                                            *)
LeasesClean == LeaseHeldOnce /\ (fault = "hang" => PooledClean)

----------------------------------------------------------------------------

(* The types of all.                                                       *)
MCTypeOK == TypeOK /\ O!OTypeOK /\ B!StreamTypeOK /\ P!BufferTypeOK

(* The bytes of an answer arrive: frames reach the client whole and in     *)
(* order whatever reads and drains cut them up (ReadBuffer); the count of  *)
(* cached bytes does not stay too high, and a cached set of buffers is     *)
(* empty and not oversized (BufferPool).                                   *)
BytesSound == B!FramesIntact /\ P!CountNotStuck /\ P!CachedReady

(* What the admin console shows of sessions is true: SHOW CLIENTS lists    *)
(* exactly the connected ones; SHOW SERVERS is right about backends in     *)
(* use, idle and closed; a pin row of a session that goes on names the     *)
(* backend it holds; an error that SHOW RECOVERY counts has its text; and  *)
(* the two policy rings agree on the decisions (SnapshotStore).            *)
ViewsTruthful ==
    /\ O!ClientsShown /\ O!ServersShown /\ O!PinsNameHeld
    /\ O!ErrorsExplained /\ O!RingsAgree

----------------------------------------------------------------------------
(* What the documents say and these models do not do (README, section 6).  *)

(* A cycle finds only its own backend's bytes in the buffer (ReadBuffer).  *)
LeftoverOwned == B!LeftoverOwned

(* An idle session passes on whole frames (ReadBuffer).                    *)
IdleWhole == B!IdleWhole

(* The cache keeps to its budget (BufferPool).                             *)
CachedWithinBudget == P!CachedWithinBudget

(* Only connected clients have a pin row (SnapshotStore).                  *)
PinsHaveOwners == O!PinsHaveOwners

(* A pin row has the reason of now (SnapshotStore).                        *)
PinReasonsCurrent == O!PinReasonsCurrent

(* Nothing is shown in flight once every session is gone (SnapshotStore).  *)
QuietIsIdle == O!QuietIsIdle

(* Every backend in use is listed (SnapshotStore).                         *)
EveryServerShown == O!EveryServerShown
=============================================================================
