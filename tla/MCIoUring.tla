----------------------------- MODULE MCIoUring -----------------------------
(***************************************************************************)
(* The io_uring engine on small instances: its session loop over a pool of *)
(* backends, and its shard threads from start to stop.  A behaviour is one *)
(* of a single part while the other rests as it starts.                    *)
(***************************************************************************)
EXTENDS SharedSession, TLC

CONSTANTS Parts,         \* of "session", "engine"
          c1, c2, b1, b2, k1,
          Shards, ClientSlots, Wakes, MaxClients    \* of IoUringEngine

VARIABLES part,
          eMain, eReady, eResults, eShard, eBacklog, eServed, eLate,
          eCut, eFlags, eActive, eSlots, eWakes, eClients

eVars == <<eMain, eReady, eResults, eShard, eBacklog, eServed, eLate,
           eCut, eFlags, eActive, eSlots, eWakes, eClients>>

E == INSTANCE IoUringEngine WITH
       main <- eMain, ready <- eReady, results <- eResults, shard <- eShard,
       backlog <- eBacklog, served <- eServed, late <- eLate, cut <- eCut,
       flags <- eFlags, active <- eActive, slots <- eSlots, wakes <- eWakes,
       clients <- eClients

Plain(op) == [st |-> [op |-> op, arg |-> "-"], mode |-> "query"]
On(op, arg) == [st |-> [op |-> op, arg |-> arg], mode |-> "query"]
Extended(op, mode) == [st |-> [op |-> op, arg |-> "-"], mode |-> mode]

NoKind == [o \in Object |-> "listen"]
AllCycles == {<<Plain("read")>>, <<Plain("write")>>, <<Plain("begin"), Plain("write")>>,
              <<Plain("commit")>>, <<On("set", k1)>>, <<Extended("read", "flush")>>,
              <<Plain("discard")>>}
DeniedCycles == {<<Plain("discard")>>}

MCInit == part \in Parts /\ Init /\ E!Init

MCNext ==
    \/ part = "session" /\ Next /\ UNCHANGED <<part, eVars>>
    \/ part = "engine" /\ E!Next /\ UNCHANGED <<part, vars>>

MCvars == <<part, vars, eVars>>
MCSpec == MCInit /\ [][MCNext]_MCvars

(* The fairness of both parts, each for the behaviours it runs in.         *)
MCFairSpec ==
    /\ MCSpec
    /\ \A c \in Client :
          /\ WF_vars(part = "session" /\ \E b \in Backend : Proceeds(c, b))
          /\ WF_vars(part = "session" /\ \E b \in Backend : Timers(c, b))
          /\ WF_vars(part = "session" /\ CheckoutRefused(c))
    /\ \A b \in Backend : WF_vars(part = "session" /\ AnswersProxy(b))
    /\ WF_eVars(part = "engine" /\ E!MainStep)
    /\ \A s \in E!Shard :
          /\ WF_eVars(part = "engine" /\ ~E!Returned /\ E!ShardStep(s))
          /\ WF_eVars(part = "engine" /\ ~E!Returned /\ E!Deadline(s))

-----------------------------------------------------------------------------
(* A request sent again is harmless: servers never execute more writes for *)
(* a client than it asked for, and the replacement backend has the         *)
(* settings the client made; a lease is never leaked or doubled, and a     *)
(* cancel key leads to the backend its client has (SharedSession).         *)
RetriesSound ==
    WritesRunOnce /\ RetryKeepsSettings /\ LeaseHeldOnce /\ CancelReachesOwn

(* The engine accounts for its sessions: the drain counter and the client  *)
(* slots are those of the session tasks there are; no client is served     *)
(* unless every shard has started; and a session is cut off only by its    *)
(* shard's drain deadline or an accept error of its shard (IoUringEngine). *)
SessionsAccounted == E!SessionsAccounted /\ E!ServedOnceStarted /\ E!CutOnlyLate

(* Waits end: every cycle is back at the session's loop or closed whatever *)
(* servers, connections and the pool do, and once run has stopped it       *)
(* returns, unless a shard sits in accept for ever with no connection to   *)
(* wake it up.                                                             *)
EngineWaitsEnd ==
    /\ (part = "session") => CycleEnds
    /\ (part = "engine") => E!OnlyAcceptBlocks

-----------------------------------------------------------------------------
(* What the documents say and these models do not do (README, section 6).  *)

(* Once run has stopped it returns.  It need not: the connections made to  *)
(* wake the accept loops up may all go to the listeners of other shards.   *)
RunReturns == (part = "engine") => E!RunReturns
=============================================================================
