---------------------------- MODULE ShardRouting ----------------------------
(***************************************************************************)
(* Shard routing: the planner of routing/sharding.rs and the store of      *)
(* route maps it reads, ShardRouteMapStore.                                *)
(*                                                                         *)
(* The store guards its route maps, its transaction affinities and its     *)
(* draining shards with three locks of their own, and an operation takes   *)
(* them one after another.  Every lock section is an action here, so the   *)
(* operations of sessions (set and clear an affinity) and of operators     *)
(* (reload) interleave as threads do.  The planner takes one snapshot of   *)
(* the route maps; a plan and an evaluation of a rule set are computed in  *)
(* one step and held in the variable answer until the caller has read it.  *)
(*                                                                         *)
(* Shards, tenants and tables are numbers: a hint names a shard and a      *)
(* tenant with the same word.  What choose_routing_target says of a        *)
(* statement (ReadRouting models it) comes with the request.               *)
(***************************************************************************)
EXTENDS ShardRules

CONSTANTS Sessions,      \* the sessions that hold transactions
          Operators,     \* the threads that reload route maps
          RouteMapSets,  \* the route maps that a reload may bring
          ShardIds,      \* the shards that a transaction may hold
          ShardedTables, \* RouteMapValidationInput.sharded_tables
          Requests,      \* what the planner may be asked
          RangeSets,     \* range rules offered to ShardStrategyEvaluator
          ListSets,      \* list rules offered to it
          Keys,          \* keys it evaluates
          Hash,          \* deterministic_shard_hash of every key
          PreviewFiles,     \* what a previewed file may say: [enabled, policy, maps]
          PreviewRequests,  \* [login, application, comments, stmt, reads]
          MaxPriority,      \* u32::MAX, what a map without a priority has
          MaxGeneration  \* bound: reloads that succeed

(* A shard has a name: 0 stands for none.                                  *)
ShardRoute == [shard : Nat \ {0}, role : {"primary", "replica"}]

ShardRouteMap ==
    [scope : [kind : {"global", "tenant", "table"}, name : Nat], strategy : {"hash", "list", "range"},
     policy : {"reject", "first_match", "fan_out"}, routes : Seq(ShardRoute)]

ASSUME RouteMapsAssumption == RouteMapSets \subseteq Seq(ShardRouteMap)
ASSUME ShardIdsAssumption == ShardIds \subseteq Nat \ {0}
ASSUME RulesAssumption ==
    RangeSets \subseteq Seq(RangeShardRule) /\ ListSets \subseteq Seq(SUBSET ShardKey) /\ Keys \subseteq ShardKey

(* parse_hint_comment makes no hint of a directive without a value.        *)
ASSUME CommentsAssumption ==
    \A r \in Requests : /\ r.comments \in Seq([kind : HintKinds \cup {"bad", "plain", "bare"}, value : Nat])
                        /\ \A i \in DOMAIN r.comments : r.comments[i].kind \in HintKinds => r.comments[i].value # 0

VARIABLES routeMaps,   \* ShardRouteMapStoreInner::route_maps
          generation,  \* generation_id
          affinity,    \* active_transaction_shard_affinities; 0 for none
          draining,    \* draining_shard_ids
          call,        \* what every session and operator is doing
          overlapped,  \* history: two store operations have overlapped
          answer       \* what a planner or an evaluator has just returned

store == <<routeMaps, generation, affinity, draining>>
vars  == <<routeMaps, generation, affinity, draining, call, overlapped, answer>>

Threads == Sessions \cup Operators

Idle == [pc |-> "idle", active |-> {}, current |-> {}, next |-> <<>>, override |-> FALSE]

NoAnswer == [kind |-> "none"]

(* route_map_shard_ids and current_shard_ids.                              *)
ShardsOf(maps) == UNION {{m.routes[i].shard : i \in DOMAIN m.routes} : m \in {maps[j] : j \in DOMAIN maps}}

(* active_transaction_shard_ids *)
ActiveShards == {affinity[s] : s \in Sessions} \ {0}

(* ShardRouteMap::new: routes; one of them when several shards are to be   *)
(* rejected; no shard twice.                                               *)
NewRouteMap(m) ==
    /\ m.routes # <<>>
    /\ m.policy = "reject" => Len(m.routes) = 1
    /\ \A i, j \in DOMAIN m.routes : m.routes[i].shard = m.routes[j].shard => i = j

(* validate_reload_route_maps: some map, no scope twice.                   *)
ValidateReload(maps) ==
    /\ maps # <<>>
    /\ \A i, j \in DOMAIN maps : maps[i].scope = maps[j].scope => i = j

----------------------------------------------------------------------------
(* The store. *)

Busy(t) == call[t].pc # "idle"

Enter(t, c) ==
    /\ ~Busy(t)
    /\ call' = [call EXCEPT ![t] = c]
    /\ overlapped' = (overlapped \/ \E u \in Threads : Busy(u))
    /\ UNCHANGED answer

Go(t, c) ==
    /\ call' = [call EXCEPT ![t] = c]
    /\ UNCHANGED <<overlapped, answer>>

(* set_transaction_shard_affinity, up to the refresh; the shard need not   *)
(* be one of the maps.                                                     *)
SetAffinity(s, shard) ==
    /\ affinity' = [affinity EXCEPT ![s] = shard]
    /\ Enter(s, [Idle EXCEPT !.pc = "refresh"])
    /\ UNCHANGED <<routeMaps, generation, draining>>

(* Clearing the affinity and leaving the draining shards as they were.     *)
ClearAffinityOnly(s) ==
    /\ affinity' = [affinity EXCEPT ![s] = 0]
    /\ Enter(s, Idle)
    /\ UNCHANGED <<routeMaps, generation, draining>>

(* clear_transaction_shard_affinity, up to the refresh.                    *)
ClearAffinity(s) ==
    /\ affinity' = [affinity EXCEPT ![s] = 0]
    /\ Enter(s, [Idle EXCEPT !.pc = "refresh"])
    /\ UNCHANGED <<routeMaps, generation, draining>>

(* reload: maps that do not validate change nothing.                       *)
StartReload(o, maps, override) ==
    /\ generation < MaxGeneration
    /\ Enter(o, IF ValidateReload(maps)
                  THEN [Idle EXCEPT !.pc = "active", !.next = maps, !.override = override]
                  ELSE Idle)
    /\ UNCHANGED store

ReloadReadsActive(o) ==
    /\ call[o].pc = "active"
    /\ Go(o, [call[o] EXCEPT !.pc = "current", !.active = ActiveShards])
    /\ UNCHANGED store

(* The difference the wrong way round.                                     *)
MayReplaceSwapped(c, current) ==
    c.override \/ (ShardsOf(c.next) \ current) \cap c.active = {}

(* An active shard that the new maps remove needs the rebalance plan's     *)
(* explicit override.                                                      *)
MayReplace(c, current) ==
    c.override \/ (current \ ShardsOf(c.next)) \cap c.active = {}

ReloadReadsCurrent(o) ==
    /\ call[o].pc = "current"
    /\ Go(o, IF MayReplace(call[o], ShardsOf(routeMaps))
               THEN [call[o] EXCEPT !.pc = "swap", !.active = {}]
               ELSE Idle)
    /\ UNCHANGED store

(* The swap and the generation, under the lock of the route maps.          *)
ReloadSwaps(o) ==
    /\ call[o].pc = "swap"
    /\ routeMaps' = call[o].next
    /\ generation' = generation + 1
    /\ Go(o, [Idle EXCEPT !.pc = "refresh"])
    /\ UNCHANGED <<affinity, draining>>

(* refresh_draining_shards: two reads under two locks, then the overwrite  *)
(* under a third.                                                          *)
RefreshReadsActive(t) ==
    /\ call[t].pc = "refresh"
    /\ Go(t, [call[t] EXCEPT !.pc = "routes", !.active = ActiveShards])
    /\ UNCHANGED store

RefreshReadsCurrent(t) ==
    /\ call[t].pc = "routes"
    /\ Go(t, [call[t] EXCEPT !.pc = "overwrite", !.current = ShardsOf(routeMaps)])
    /\ UNCHANGED store

RefreshOverwrites(t) ==
    /\ call[t].pc = "overwrite"
    /\ draining' = call[t].active \ call[t].current
    /\ Go(t, Idle)
    /\ UNCHANGED <<routeMaps, generation, affinity>>

----------------------------------------------------------------------------
(* The planner. *)

ExplicitShard(hint) == IF hint.kind \in HintKinds THEN hint.value ELSE 0

(* route_map_matches_context.  The name of a table holds its schema: a     *)
(* table without one matches no scope.                                     *)
MatchesContext(m, hint, key, table) ==
    CASE m.scope.kind = "global" -> TRUE
      [] m.scope.kind = "tenant" -> hint.kind \in HintKinds /\ hint.value = m.scope.name
      [] OTHER                   -> key # NoKey /\ table = m.scope.name

RouteOf(m, shard) == Position(Len(m.routes), LAMBDA i : m.routes[i].shard = shard)

(* select_route_for_shard_key: the index of the route, or 0.  A list is    *)
(* looked up by the shard's own name, a range map has one route or none.   *)
RouteForKey(m, key) ==
    LET only == IF Len(m.routes) = 1 THEN 1 ELSE 0
        named == IF key.type = "text" THEN RouteOf(m, key.value) ELSE 0
    IN  CASE m.strategy = "hash"  -> HashBucket(Hash[key], Len(m.routes)) + 1
          [] m.strategy = "list"  -> IF named # 0 THEN named ELSE only
          [] m.strategy = "range" -> only

(* choose_shard_route: the route of that shard with the role that read     *)
(* routing wants, or else the first route of that shard.                   *)
ChooseShardRoute(m, i, role) ==
    LET shard == m.routes[i].shard
        wanted == Position(Len(m.routes),
                           LAMBDA j : m.routes[j].shard = shard /\ m.routes[j].role = role)
    IN  m.routes[IF wanted # 0 THEN wanted ELSE RouteOf(m, shard)]

NoRoute == [shard |-> 0, role |-> "none"]

Decision(route, reason) == [route |-> route, reason |-> reason]

(* The map that decides: among those that match, the first that names the  *)
(* hinted shard, else the first.                                           *)
DecidingMap(maps, hint, key, table) ==
    LET Matches(i) == MatchesContext(maps[i], hint, key, table)
        Named(i)   == ExplicitShard(hint) = 0 \/ RouteOf(maps[i], ExplicitShard(hint)) # 0
        explicit   == Position(Len(maps), LAMBDA i : Matches(i) /\ Named(i))
    IN  IF explicit # 0 THEN explicit ELSE Position(Len(maps), Matches)

(* A planner that falls back to the key when the hinted shard is not there. *)
PlanWithoutValidation(maps, tables, request) ==
    LET hint  == ExtractShardHint(request.comments)
        key   == ExtractShardKey(request.stmt, tables)
        which == DecidingMap(maps, hint, key, request.stmt.table)
        m     == maps[which]
        shard == ExplicitShard(hint)
    IN  CASE which = 0 -> Decision(NoRoute, "no_match")
          [] which # 0 /\ shard # 0 /\ RouteOf(m, shard) # 0
               -> Decision(ChooseShardRoute(m, RouteOf(m, shard), request.role), "admin_override")
          [] OTHER
               -> IF key # NoKey /\ RouteForKey(m, key) # 0
                    THEN Decision(ChooseShardRoute(m, RouteForKey(m, key), request.role), m.strategy)
                    ELSE Decision(NoRoute, "no_match")

(* plan_sharded_route, with sharding enabled and these sharded tables.     *)
PlanShardedRoute(maps, tables, request) ==
    LET hint  == ExtractShardHint(request.comments)
        key   == ExtractShardKey(request.stmt, tables)
        which == DecidingMap(maps, hint, key, request.stmt.table)
        m     == maps[which]
        shard == ExplicitShard(hint)
    IN  CASE which = 0 -> Decision(NoRoute, "no_match")
          [] which # 0 /\ hint.kind = "unknown" /\ MentionsProxy(request.comments)
               -> Decision(NoRoute, "validation_failed")
          [] which # 0 /\ shard # 0
               -> IF RouteOf(m, shard) # 0
                    THEN Decision(ChooseShardRoute(m, RouteOf(m, shard), request.role), "admin_override")
                    ELSE Decision(NoRoute, "validation_failed")
          [] OTHER
               -> IF key # NoKey /\ RouteForKey(m, key) # 0
                    THEN Decision(ChooseShardRoute(m, RouteForKey(m, key), request.role), m.strategy)
                    ELSE Decision(NoRoute, "no_match")

(* choose_sharded_routing_target: a shard's route leaves the target to     *)
(* read routing, a failed validation rejects, no match takes the fallback. *)
ShardedTarget(decision, role, fallback) ==
    CASE decision.route # NoRoute -> role
      [] decision.route = NoRoute /\ decision.reason = "validation_failed" -> "reject"
      [] OTHER -> fallback

Plan(request) ==
    /\ LET decision == PlanShardedRoute(routeMaps, ShardedTables, request)
       IN  answer' = [kind |-> "plan", maps |-> routeMaps, request |-> request,
                      decision |-> decision,
                      target |-> ShardedTarget(decision, request.role, request.fallback)]
    /\ UNCHANGED <<store, call, overlapped>>

(* ShardStrategyEvaluator::range and ::list, then evaluate_shard_key.      *)
EvaluateRange(rules, k) ==
    /\ \A i \in DOMAIN rules : WithBounds(rules[i])
    /\ ValidateRangeRules(rules)
    /\ answer' = [kind |-> "range", rules |-> rules, key |-> k, found |-> RangeLookup(rules, k)]
    /\ UNCHANGED <<store, call, overlapped>>

EvaluateList(rules, k) ==
    /\ \A i \in DOMAIN rules : NewListRule(rules[i])
    /\ ValidateListRules(rules)
    /\ answer' = [kind |-> "list", rules |-> rules, key |-> k, found |-> ListLookup(rules, k)]
    /\ UNCHANGED <<store, call, overlapped>>

Read ==
    /\ answer # NoAnswer
    /\ answer' = NoAnswer
    /\ UNCHANGED <<store, call, overlapped>>

----------------------------------------------------------------------------
(* The route-preview command: a sharding file is read and validated        *)
(* (config.rs), the route map that covers the request and comes first is   *)
(* selected and turned into the planner's own form, and the planner is     *)
(* asked with that map alone (preview_route).                              *)
(*                                                                         *)
(* Names are numbers, and 11, 12, ... are 1, 2, ... in capitals: the       *)
(* selection ignores case and the planner does not.  Table names are       *)
(* written in one case.  "key" is the column tenant_id, the shard key that *)
(* a preview assumes of every table.                                       *)

NoPriority == -1

SameName(a, b) == a % 10 = b % 10

(* RouteMapConfig::validate: targets, none without a name, none twice.     *)
ValidRouteMap(m) ==
    /\ m.targets # <<>>
    /\ \A i, j \in DOMAIN m.targets :
          m.targets[i].shard # 0 /\ (m.targets[i].shard = m.targets[j].shard => i = j)

(* ShardingConfig::validate: of two maps with one scope, one has a priority. *)
ValidSharding(file) ==
    /\ \A i \in DOMAIN file.maps : ValidRouteMap(file.maps[i])
    /\ \A i, j \in DOMAIN file.maps :
          i # j /\ file.maps[i].scope = file.maps[j].scope
             => file.maps[i].priority # NoPriority \/ file.maps[j].priority # NoPriority

(* preview_route_map_validation_input: the tables that the maps name.      *)
PreviewTables(maps) ==
    LET scoped == SelectSeq(maps, LAMBDA m : m.scope.kind = "table")
    IN  [i \in DOMAIN scoped |-> scoped[i].scope.name]

(* route_map_matches_preview_context *)
PreviewMatches(m, request, tables) ==
    LET hint == ExtractShardHint(request.comments)
    IN  CASE m.scope.kind = "login"       -> SameName(m.scope.name, request.login)
          [] m.scope.kind = "application" -> request.application # 0 /\ SameName(m.scope.name, request.application)
          [] m.scope.kind = "tenant"      -> hint.kind \in HintKinds /\ SameName(hint.value, m.scope.name)
          [] m.scope.kind = "table"       -> /\ ExtractShardKey(request.stmt, tables) # NoKey
                                             /\ request.stmt.table = m.scope.name

Precedence(m) == IF m.priority = NoPriority THEN MaxPriority ELSE m.priority

(* The first map that matches, whatever the priorities.                    *)
FirstPreviewMap(maps, request) ==
    Position(Len(maps), LAMBDA i : PreviewMatches(maps[i], request, PreviewTables(maps)))

(* select_preview_route_map: the lowest priority, then the lowest index; 0 *)
(* when none matches.                                                      *)
SelectPreviewMap(maps, request) ==
    LET covering == {i \in DOMAIN maps : PreviewMatches(maps[i], request, PreviewTables(maps))}
    IN  Position(Len(maps), LAMBDA i :
                    i \in covering /\ \A j \in covering : Precedence(maps[i]) <= Precedence(maps[j]))

(* build_preview_route_map: a map of a login or of an application holds    *)
(* everywhere once it was selected.                                        *)
BuildPreviewMap(m, policy) ==
    [scope |-> IF m.scope.kind \in {"login", "application"} THEN [kind |-> "global", name |-> 0] ELSE m.scope,
     strategy |-> m.strategy, policy |-> policy, routes |-> m.targets]

(* preview_route_health_snapshot: a healthy replica for every replica      *)
(* route, so that a read prefers a replica when there is one.              *)
PreviewRole(maps, reads) ==
    IF reads /\ \E i \in DOMAIN maps : \E j \in DOMAIN maps[i].routes : maps[i].routes[j].role = "replica"
      THEN "replica"
      ELSE "primary"

Summary(decision, role) ==
    [shard |-> decision.route.shard, reason |-> decision.reason,
     role |-> IF decision.route # NoRoute THEN decision.route.role ELSE role]

Failed(code) == [shard |-> 0, reason |-> code, role |-> "none"]

Prints(file, request, summary) ==
    answer' = [kind |-> "preview", file |-> file, request |-> request, summary |-> summary]

(* preview_route: what the command prints, with the map selected alone.    *)
PreviewRoute(file, request) ==
    \E which \in {SelectPreviewMap(file.maps, request)} :
    \E maps \in {IF which = 0 THEN <<>> ELSE <<BuildPreviewMap(file.maps[which], file.policy)>>} :
    \E role \in {PreviewRole(maps, request.reads)} :
        IF \E i \in DOMAIN maps : ~NewRouteMap(maps[i])
          THEN Prints(file, request, Failed("multi_shard_rejected"))
          ELSE \E plan \in {IF file.enabled
                              THEN PlanShardedRoute(maps, PreviewTables(file.maps),
                                                    [comments |-> request.comments, stmt |-> request.stmt,
                                                     role |-> role])
                              ELSE Decision(NoRoute, "no_match")} :
               \E target \in {IF file.enabled THEN ShardedTarget(plan, role, "primary") ELSE role} :
                 Prints(file, request, Summary(plan, IF target = "reject" THEN "none" ELSE target))

(* run_route_preview: a file that does not validate is not previewed.      *)
Preview(file, request) ==
    /\ IF ValidSharding(file)
         THEN PreviewRoute(file, request)
         ELSE Prints(file, request, Failed("config_load_failed"))
    /\ UNCHANGED <<store, call, overlapped>>

PreviewNext == answer = NoAnswer /\ \E file \in PreviewFiles, request \in PreviewRequests : Preview(file, request)

----------------------------------------------------------------------------
Init ==
    /\ routeMaps \in {maps \in RouteMapSets : ValidateReload(maps)}
    /\ generation = 0
    /\ affinity = [s \in Sessions |-> 0]
    /\ draining = {}
    /\ call = [t \in Threads |-> Idle]
    /\ overlapped = FALSE
    /\ answer = NoAnswer

StoreNext ==
    \/ \E s \in Sessions : ClearAffinity(s) \/ \E shard \in ShardIds : SetAffinity(s, shard)
    \/ \E o \in Operators :
          \/ \E maps \in RouteMapSets, override \in BOOLEAN : StartReload(o, maps, override)
          \/ ReloadReadsActive(o)
          \/ ReloadReadsCurrent(o)
          \/ ReloadSwaps(o)
    \/ \E t \in Threads : RefreshReadsActive(t) \/ RefreshReadsCurrent(t) \/ RefreshOverwrites(t)

AnswerNext ==
    \/ /\ answer = NoAnswer
       /\ \/ \E request \in Requests : Plan(request)
          \/ \E rules \in RangeSets, k \in Keys : EvaluateRange(rules, k)
          \/ \E rules \in ListSets, k \in Keys : EvaluateList(rules, k)
    \/ Read

Next == StoreNext \/ AnswerNext \/ PreviewNext

Spec == Init /\ [][Next]_vars

----------------------------------------------------------------------------
(* Between operations that did not overlap, the draining shards are those  *)
(* that a transaction holds and the route maps no longer name              *)
(* (ShardRouteMapStore::refresh_draining_shards).                          *)
DrainingAccurate ==
    ~overlapped /\ (\A t \in Threads : ~Busy(t)) => draining = ActiveShards \ ShardsOf(routeMaps)

(* A reload without the explicit override takes no shard away from a       *)
(* transaction that holds it, unless operations have overlapped            *)
(* (ShardRouteMapStore::reload).                                           *)
RemovalNeedsOverride ==
    [][\A o \in Operators :
          call[o].pc = "swap" /\ routeMaps' # routeMaps /\ ~call[o].override /\ ~overlapped
             => (ShardsOf(routeMaps) \ ShardsOf(routeMaps')) \cap ActiveShards = {}]_vars

(* The same whether or not operations overlap: what the error message of a *)
(* refused reload says, "route map reload removes an active shard and      *)
(* requires an explicit migration override".                               *)
ActiveShardsStay ==
    [][\A o \in Operators :
          call[o].pc = "swap" /\ routeMaps' # routeMaps /\ ~call[o].override
             => (ShardsOf(routeMaps) \ ShardsOf(routeMaps')) \cap ActiveShards = {}]_vars

(* A statement whose comments name a shard, a tenant or a route runs       *)
(* there or is refused, unless no route map matches it; one whose          *)
(* directive cannot be read is given no shard (plan_sharded_route).        *)
HintHonoured ==
    answer.kind = "plan" =>
       LET hint == ExtractShardHint(answer.request.comments)
           route == answer.decision.route
       IN  /\ hint.kind \in HintKinds /\ route # NoRoute => route.shard = hint.value
           /\ hint.kind \in HintKinds /\ answer.decision.reason = "validation_failed"
                => \A i \in DOMAIN answer.maps :
                      answer.maps[i].scope.kind = "global" => RouteOf(answer.maps[i], hint.value) = 0
           /\ hint.kind = "unknown" /\ MentionsProxy(answer.request.comments)
                => route = NoRoute

(* A key belongs to the rule the lookup returned and to no other, whatever *)
(* the order of a validated rule set (validate_range_rules,                *)
(* validate_list_rules, range_lookup, list_lookup).                        *)
KeyBelongsOnce ==
    /\ answer.kind = "range" =>
          {i \in DOMAIN answer.rules : RangeRuleMatches(answer.rules[i], answer.key)} = {answer.found} \ {0}
    /\ answer.kind = "list" =>
          {i \in DOMAIN answer.rules : answer.key \in answer.rules[i]} = {answer.found} \ {0}

TypeOK ==
    /\ routeMaps \in RouteMapSets
    /\ \A i \in DOMAIN routeMaps : NewRouteMap(routeMaps[i])
    /\ generation \in 0 .. MaxGeneration + Cardinality(Operators)
    /\ affinity \in [Sessions -> ShardIds \cup {0}]
    /\ draining \subseteq ShardIds
=============================================================================
