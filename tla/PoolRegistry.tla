----------------------------- MODULE PoolRegistry -----------------------------
(***************************************************************************)
(* Which pool a session's backends come from: the pools built from the     *)
(* configuration (build_route_pool_selector), their choice by route and    *)
(* routing target (RoutePoolSelector, RoutePools, RoutePoolRegistry), the  *)
(* io_uring engine's pools, made when first asked for                      *)
(* (MonoioBackendPoolSelector), and the pass over all pools that closes    *)
(* their idle backends after a reload (RoutePoolRetirementTargets).        *)
(*                                                                         *)
(* A backend is what it was started for: the route key of the session that *)
(* opened it.  How a single pool hands out backends is BackendPool.        *)
(***************************************************************************)
EXTENDS Integers, Sequences, FiniteSets, SequencesExt

CONSTANTS
    Session,
    Setups,   \* engine, configured pools (database, user) with their addresses, the number of
              \* replicas of the default route, and the keys that clients ask for
    MaxMade   \* bound: io_uring pools made

VARIABLES
    setup,  \* the configuration in force
    made,   \* route_pools of the io_uring selector: the pool of each key and address
    count,  \* io_uring pools made so far, kept or not
    user,   \* each session: where it is, its route key, target, pool and backend
    idle,   \* idle backends of each pool, and when they were released
    health, \* replica pools whose last checkout succeeded
    pass    \* the retirement pass: the pools it still has to visit

regVars == <<setup, made, count, user, idle, health, pass>>

None == [kind |-> "none"]
Default == <<"default", "default">>

(* A pool of the registry: of a runtime shard, a route and a node (0 is    *)
(* the primary); and an io_uring pool.                                     *)
Pool(site, key, node) == [kind |-> "route", site |-> site, key |-> key, node |-> node]
Uring(n) == [kind |-> "uring", made |-> n]

Sites == IF setup.engine = "cores" THEN 1..2 ELSE {0}
Configured == DOMAIN setup.pools

(* RoutePoolRegistry::route_pools, by selection_key. *)
Registered(key) == {k \in Configured : k = key}

(* RoutePoolSelector::resolve: the route's own pools, or the default ones  *)
(* where none are configured.                                              *)
Resolve(key) ==
    IF Registered(key) # {} THEN Registered(key)
    ELSE IF Configured = {} THEN {Default} ELSE {}

Nodes(key) == IF key = Default THEN 0..setup.replicas ELSE {0}
Address(key, node) == IF key = Default THEN node ELSE setup.pools[key]

(* build_route_pool_selector, for the first shard and for each core.       *)
RoutePoolsOf(key) == {Pool(site, key, node) : site \in Sites, node \in Nodes(key)}
AllRoutePools == UNION {RoutePoolsOf(k) : k \in IF Configured = {} THEN {Default} ELSE Configured}

(* register_retirement_target. *)
Targets == AllRoutePools
AllPools == AllRoutePools \cup {Uring(n) : n \in 0..MaxMade}

Replicas == {p \in AllRoutePools : p.node # 0}

Connected(key) == [key |-> key, age |-> "new"]
Fresh == [pc |-> "new", key |-> None, site |-> 0, route |-> None, node |-> 0,
          pool |-> None, backend |-> None]

RegInit ==
    /\ setup \in Setups
    /\ made = << >> /\ count = 0
    /\ user = [s \in Session |-> Fresh]
    /\ idle = [p \in AllPools |-> {}]
    /\ health = Replicas
    /\ pass = [at |-> "none", left |-> {}]

Moves(s, u) == user' = [user EXCEPT ![s] = u]

(* startup_backend_plan: a client of no configured route is refused. *)
Start(s, key, site) ==
    /\ user[s].pc = "new" /\ site \in Sites
    /\ \/ /\ Resolve(key) = {}
          /\ Moves(s, [Fresh EXCEPT !.pc = "gone", !.key = key])
       \/ \E route \in Resolve(key) :
            Moves(s, [Fresh EXCEPT !.pc = "idle", !.key = key, !.site = site, !.route = route])
    /\ UNCHANGED <<setup, made, count, idle, health, pass>>

(* RoutePools::checkout_target: the primary, or a replica that is known    *)
(* and healthy; else the checkout is closed and the session ends.          *)
Choose(s, node) ==
    LET u == user[s]
        p == Pool(u.site, u.route, node)
    IN
    /\ u.pc = "idle" /\ setup.engine # "io_uring"
    /\ \/ /\ node \in Nodes(u.route) /\ (node = 0 \/ p \in health)
          /\ Moves(s, [u EXCEPT !.pc = "ask", !.pool = p, !.node = node])
       \/ /\ ~(node \in Nodes(u.route) /\ (node = 0 \/ p \in health))
          /\ Moves(s, [u EXCEPT !.pc = "gone"])
    /\ UNCHANGED <<setup, made, count, idle, health, pass>>

(* checkout_replica_or_primary: the least waiting healthy replica (no hint *)
(* is ever set, so the first), then the primary.                           *)
ChooseEither(s) ==
    LET u == user[s]
        able == {n \in Nodes(u.route) \ {0} : Pool(u.site, u.route, n) \in health}
        node == IF able = {} THEN 0 ELSE CHOOSE n \in able : \A m \in able : n <= m
    IN
    /\ u.pc = "idle" /\ setup.engine # "io_uring"
    /\ Moves(s, [u EXCEPT !.pc = IF able = {} THEN "ask" ELSE "either",
                          !.pool = Pool(u.site, u.route, node), !.node = node])
    /\ UNCHANGED <<setup, made, count, idle, health, pass>>

Slot(s, node) == <<user[s].key, Address(user[s].route, node)>>

(* MonoioBackendPoolSelector::pool_for_target: the address of the target's *)
(* pool, and the route key, name the io_uring pool; but the address of the *)
(* default connection names the default pool, whatever the route.          *)
FindPool(s, node) ==
    LET u == user[s] IN
    /\ u.pc = "idle" /\ setup.engine = "io_uring" /\ node \in Nodes(u.route)
    /\ Moves(s, IF Address(u.route, node) = 0
                THEN [u EXCEPT !.pc = "ask", !.pool = Uring(0), !.node = node]
                ELSE IF Slot(s, node) \in DOMAIN made
                THEN [u EXCEPT !.pc = "ask", !.pool = made[Slot(s, node)], !.node = node]
                ELSE [u EXCEPT !.pc = "missed", !.node = node])
    /\ UNCHANGED <<setup, made, count, idle, health, pass>>

(* entry().or_insert_with: the pool that came first stays. *)
Kept(slot, p) == IF slot \in DOMAIN made THEN made[slot] ELSE p

(* After the miss a pool is built, and offered under the write lock. *)
MakePool(s) ==
    LET u == user[s]
        slot == Slot(s, u.node)
        p == Kept(slot, Uring(count + 1))
    IN
    /\ u.pc = "missed" /\ count < MaxMade
    /\ count' = count + 1
    /\ made' = [k \in DOMAIN made \cup {slot} |-> IF k = slot THEN p ELSE made[k]]
    /\ Moves(s, [u EXCEPT !.pc = "ask", !.pool = p])
    /\ UNCHANGED <<setup, idle, health, pass>>

(* Only a replica is asked for its health. *)
Healthy(p, ok) ==
    IF p \notin Replicas THEN health ELSE IF ok THEN health \cup {p} ELSE health \ {p}

(* The pool reuses an idle backend, or opens one for this session. *)
Checkout(s) ==
    LET u == user[s] IN
    /\ u.pc \in {"ask", "either"}
    /\ \/ /\ idle[u.pool] = {}
          /\ Moves(s, [u EXCEPT !.pc = "holds", !.backend = Connected(u.key)])
          /\ UNCHANGED idle
       \/ \E b \in idle[u.pool] :
            /\ Moves(s, [u EXCEPT !.pc = "holds", !.backend = b])
            /\ idle' = [idle EXCEPT ![u.pool] = @ \ {b}]
    /\ health' = Healthy(u.pool, TRUE)
    /\ UNCHANGED <<setup, made, count, pass>>

(* It fails: a session that may use either goes on to the primary, which   *)
(* the code asks whatever the replica's error was.                         *)
CheckoutFails(s) ==
    LET u == user[s] IN
    /\ u.pc \in {"ask", "either"} /\ idle[u.pool] = {}
    /\ health' = Healthy(u.pool, FALSE)
    /\ Moves(s, IF u.pc = "either"
                THEN [u EXCEPT !.pc = "ask", !.node = 0, !.pool = Pool(u.site, u.route, 0)]
                ELSE [u EXCEPT !.pc = "gone"])
    /\ UNCHANGED <<setup, made, count, idle, pass>>

(* The backend goes back to its pool. *)
Return(s) ==
    LET u == user[s] IN
    /\ u.pc = "holds"
    /\ idle' = [idle EXCEPT ![u.pool] = @ \cup {[u.backend EXCEPT !.age = "new"]}]
    /\ Moves(s, [u EXCEPT !.pc = "idle", !.pool = None, !.backend = None])
    /\ UNCHANGED <<setup, made, count, health, pass>>

(* A reload was applied: the pass takes the list of targets.  What is idle *)
(* now was released before it.                                             *)
BeginPass ==
    /\ pass.at = "none"
    /\ pass' = [at |-> "runs", left |-> Targets]
    /\ idle' = [p \in AllPools |-> {[b EXCEPT !.age = "old"] : b \in idle[p]}]
    /\ UNCHANGED <<setup, made, count, user, health>>

RetiresPrimaryOnly(p) == p.node = 0
(* RoutePools::retire_idle_backends closes the primary's and every         *)
(* replica's.                                                              *)
Retires(p) == TRUE

RetirePool ==
    /\ pass.at = "runs"
    /\ \E p \in pass.left :
         /\ idle' = IF Retires(p) THEN [idle EXCEPT ![p] = {}] ELSE idle
         /\ pass' = [pass EXCEPT !.left = @ \ {p}]
    /\ UNCHANGED <<setup, made, count, user, health>>

EndPass ==
    /\ pass.at = "runs" /\ pass.left = {}
    /\ pass' = [pass EXCEPT !.at = "over"]
    /\ UNCHANGED <<setup, made, count, user, idle, health>>

RegNext ==
    \/ \E s \in Session, key \in setup.keys, site \in 0..2 : Start(s, key, site)
    \/ \E s \in Session, node \in 0..2 : Choose(s, node) \/ FindPool(s, node)
    \/ \E s \in Session :
         ChooseEither(s) \/ MakePool(s) \/ Checkout(s) \/ CheckoutFails(s) \/ Return(s)
    \/ BeginPass \/ RetirePool \/ EndPass

RegSpec == RegInit /\ [][RegNext]_regVars

-----------------------------------------------------------------------------
RegTypeOK ==
    /\ setup \in Setups /\ count \in 0..MaxMade
    /\ \A s \in Session : user[s].pc \in {"new", "idle", "missed", "ask", "either", "holds", "gone"}
    /\ \A s \in Session : user[s].pool \in AllPools \cup {None}
    /\ pass.at \in {"none", "runs", "over"} /\ pass.left \subseteq AllPools

(* Where pools are configured, a session on the tokio engines is never     *)
(* given a backend that was started for another database or user, however  *)
(* the backends go around.                                                 *)
OwnRoute ==
    \A s \in Session :
        (user[s].pc = "holds" /\ Configured # {} /\ setup.engine # "io_uring")
            => user[s].backend.key = user[s].key

(* Two sessions that find no pool for the same route at the same time end  *)
(* up with one: no session uses a pool that is not the one later sessions  *)
(* find, and no pool is left that nobody will ask again.                   *)
OnePoolPerSlot ==
    \A s \in Session :
        (user[s].pool.kind = "uring" /\ user[s].pool # Uring(0))
            => \E slot \in DOMAIN made : made[slot] = user[s].pool /\ slot[1] = user[s].key

(* A pass leaves no backend that was idle when it began, in any pool of    *)
(* any shard and on any node.                                              *)
PassRetires ==
    pass.at = "over" => \A p \in Targets : \A b \in idle[p] : b.age = "new"

(* The same of every pool there is, the io_uring engine's included.        *)
PassRetiresAll ==
    pass.at = "over" => \A p \in AllPools : \A b \in idle[p] : b.age = "new"

(* Under io_uring too, a session's backend was started for its route.      *)
UringOwnRoute ==
    \A s \in Session :
        (user[s].pc = "holds" /\ Configured # {}) => user[s].backend.key = user[s].key
=============================================================================
