----------------------------- MODULE MCResources -----------------------------
(***************************************************************************)
(* What the sessions of a proxy share, on small instances: the backend     *)
(* pools, cancel keys, and the client count and slots of a drain.  A       *)
(* behaviour is one of a single part while the others rest as they start,  *)
(* so TLC visits the sum of their states and not the product.              *)
(***************************************************************************)
EXTENDS BackendPool, CancelRegistry, TLC

CONSTANTS
    Parts,              \* of "cancel", "pool", "shutdown"
    Shard, Visitor      \* of Shutdown

VARIABLES part,
          sDrain, sLife, sActive, sSlots, sClient, sShard, sMain, sServing,
          sResults, sForced, sCompletion, sHeard

sVars == <<sDrain, sLife, sActive, sSlots, sClient, sShard, sMain, sServing,
           sResults, sForced, sCompletion, sHeard>>

S == INSTANCE Shutdown WITH
       Client <- Visitor, ClientSlots <- 1, PerCore <- TRUE,
       Failures <- {"accept", "reject", "bind", "control"},
       drain <- sDrain, life <- sLife, active <- sActive, slots <- sSlots,
       client <- sClient, shard <- sShard, main <- sMain, serving <-
       sServing, results <- sResults, forced <- sForced, completion <-
       sCompletion, heard <- sHeard

(* Bound: checkouts and sweeps of a behaviour, together.                   *)
MaxUses == 3

MCInit == part \in Parts /\ Init /\ PoolInit /\ S!Init

PoolStep ==
    /\ part = "pool" /\ PoolNext /\ used'.checkouts + used'.sweeps <= MaxUses
    /\ UNCHANGED <<part, vars, sVars>>

MCNext ==
    \/ part = "cancel" /\ Next /\ UNCHANGED <<part, poolVars, sVars>>
    \/ PoolStep

MCvars == <<part, vars, poolVars, sVars>>
MCSpec == MCInit /\ [][MCNext]_MCvars

(* Bound: one client uses a pool of its own, the others share one.         *)
Loner == CHOOSE c \in Client : TRUE
ItsPool == CHOOSE p \in Pool : TRUE
Parted == \A c \in Client : task'[c].pool # None => (c = Loner <=> task'[c].pool = ItsPool)

(* Bound: of the visitors a fixed one comes first, to a fixed shard.       *)
OneFirst ==
    LET guest == CHOOSE v \in Visitor : TRUE
        thread == CHOOSE h \in Shard : TRUE
    IN  /\ (\E v \in Visitor : sClient'[v].pc # "out") => sClient'[guest].pc # "out"
        /\ sClient'[guest].shard \in {None, thread}

MCLiveNext ==
    \/ PoolStep /\ Parted
    \/ part = "shutdown" /\ S!Next /\ OneFirst /\ UNCHANGED <<part, vars, poolVars>>

(* The fairness of the pools' clients and of the shutdown, for the part    *)
(* that runs.  WaitsEnd needs none of the sweeper or the breakers.         *)
MCFairSpec ==
    /\ MCInit /\ [][MCLiveNext]_MCvars
    /\ \A c \in Client :
          WF_poolVars(part = "pool" /\ Runs(c)) /\ SF_poolVars(part = "pool" /\ Timers(c))
    /\ WF_sVars(part = "shutdown" /\ S!MainSteps)
    /\ \A h \in Shard : WF_sVars(part = "shutdown" /\ S!ShardSteps(h))
    /\ \A c \in Visitor : WF_sVars(part = "shutdown" /\ S!Exits(c))

Symmetry == Permutations(Session) \cup Permutations(Cancel) \cup Permutations(Backend)
              \cup Permutations(Client) \cup Permutations(Server)
-----------------------------------------------------------------------------
(* active_clients counts the clients that hold a guard or are being        *)
(* entered, the free slots the permits of those being served; and a        *)
(* shutdown that announces no forced session has none left: nobody is      *)
(* served, or about to be, once active_clients was seen at zero (Shutdown).*)
OutcomeExact == S!CountsExact /\ S!QuietOutcome

(* Waits end.  A checkout past the breaker gets a lease or an error,       *)
(* though a wake may be missed and a connect may hang: the timeout covers  *)
(* every wait (BackendPool).  Once a drain has begun the proxy exits,      *)
(* unless a shard is left waiting for a client slot, or has missed the     *)
(* whole drain in its first poll, or every shard thread has ended in the   *)
(* drain: although no session ever ends by itself and although the wakeup  *)
(* of the last session may be missed (Shutdown).                           *)
WaitsEnd ==
    /\ (part = "pool") => PoolAnswers
    /\ (part = "shutdown") => S!ShutdownEnds
=============================================================================
