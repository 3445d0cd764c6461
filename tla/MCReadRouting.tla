--------------------------- MODULE MCReadRouting ---------------------------
(* Instances of ReadRouting for TLC.                                       *)
EXTENDS ReadRouting

P(kind, stmts, hint, shard) == [kind |-> kind, stmts |-> stmts, hint |-> hint, shard |-> shard]
Q(stmts) == P("simple", stmts, "none", "none")
H(hint) == P("simple", <<"read">>, hint, "none")
S(stmts, shard) == P("simple", stmts, "none", shard)

OneReplica == {1}

\* Statements one at a time, one text with a whole transaction, and hints.
MCCycles == {<<Q(<<"read">>)>>, <<Q(<<"write">>)>>, <<Q(<<"begin">>)>>,
             <<Q(<<"begin_ro">>)>>, <<Q(<<"commit">>)>>,
             <<Q(<<"begin", "write", "commit">>)>>,
             <<H("stale_ok")>>, <<H("strict_fresh")>>, <<Q(<<"discard">>)>>}

\* Read-only transactions, prepared statements, shards, pipelined texts.
MoreCycles == {<<Q(<<"begin", "set_ro">>)>>, <<Q(<<"write">>), Q(<<"rollback">>)>>,
               <<P("parse", <<"read">>, "none", "none")>>,
               <<P("bind", <<"write">>, "none", "none")>>,
               <<S(<<"begin", "read">>, "a")>>, <<S(<<"read">>, "b")>>}

EveryCycle == MCCycles \cup MoreCycles

C(mode, fallback, fresh, protect, pool, recovery) ==
    [mode |-> mode, fallback |-> fallback, fresh |-> fresh, protect |-> protect, pool |-> pool,
     recovery |-> recovery]

MCConfigs == {C("prefer_replica", "wait", "lsn_lag", TRUE, "transaction", "recover"),
              C("require_replica", "primary", "lsn", TRUE, "transaction", "drop"),
              C("prefer_replica", "reject", "lag", FALSE, "session", "recover")}
(* No freshness is asked for (README, section 6).                          *)
UnprotectedConfigs ==
    {C("prefer_replica", "primary", "none", TRUE, "transaction", "recover")}

(* The last cycle of a session looks back or commits: what a BEGIN, a      *)
(* DISCARD or a Parse leads to would be seen only in a cycle after it.     *)
LastCycles == {<<Q(<<"read">>)>>, <<Q(<<"commit">>)>>, <<Q(<<"begin", "write", "commit">>)>>,
               <<H("stale_ok")>>, <<H("strict_fresh")>>, <<S(<<"read">>, "b")>>,
               <<P("bind", <<"write">>, "none", "none")>>}

(* Bound: in session pooling the session sends one cycle fewer.  Replicas  *)
(* and what is known of them change while a target is still to be chosen:  *)
(* the rest of a cycle does not choose again, so a change that comes later *)
(* may as well come before the cycle or after it.                          *)
Few == /\ sent' # sent /\ sent' = MaxCycles => cyc' \in LastCycles
       /\ sent' + (IF cfg.pool = "session" THEN 1 ELSE 0) <= MaxCycles
       /\ phase' = phase /\ phase \notin {"idle", "waiting"} => UNCHANGED <<rep, store, ok>>
       /\ phase # "done"

MCSpec == Init /\ [][Next /\ Few]_vars /\ WF_vars(Cycle)

(* A read that must have a replica runs on one or is rejected, and the     *)
(* proxy's record of an open transaction agrees with the backend it holds  *)
(* (ReadRouting).                                                          *)
RoutedAsTold == RequireReplicaServes /\ TransactionAgrees
=============================================================================
