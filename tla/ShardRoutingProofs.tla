-------------------------- MODULE ShardRoutingProofs --------------------------
(***************************************************************************)
(* Shard routing for any sessions, operators, route maps, statements and   *)
(* rules: a key belongs to the one rule that the lookup returns, a hint is *)
(* honoured or the statement refused, and what the store says of draining  *)
(* shards and removes by a reload is right while its operations do not     *)
(* overlap.                                                                *)
(***************************************************************************)
EXTENDS ShardRouting, NaturalsInduction, WellFoundedInduction, TLAPS

(* Two ranges, each accepted by with_bounds, of which one is before the    *)
(* other share no key.                                                     *)
LEMMA BeforeDisjoint ==
    ASSUME NEW l \in RangeShardRule, NEW r \in RangeShardRule, NEW k \in ShardKey,
           WithBounds(l), WithBounds(r), RangeIsBefore(l, r), RangeRuleMatches(l, k)
    PROVE  ~RangeRuleMatches(r, k)
  <1>1. /\ l.upper \in ShardKey /\ r.lower \in ShardKey /\ l.lower \in ShardKey
        /\ l.ui \in BOOLEAN /\ r.li \in BOOLEAN
    BY Zenon DEF RangeShardRule
  <1>2. /\ k.value \in Int /\ l.upper.value \in Int /\ r.lower.value \in Int
    BY <1>1, Zenon DEF ShardKey
  <1>3. CASE Below(l.upper, r.lower)
    <2>1. l.upper.value < r.lower.value
      BY <1>3, Zenon DEF Below
    <2>2. k.value <= l.upper.value
      BY <1>2 DEF RangeRuleMatches, Below
    <2>3. ~(r.lower.value <= k.value)
      BY <1>2, <2>1, <2>2
    <2>. QED
      BY <1>2, <2>3 DEF RangeRuleMatches, Below
  <1>4. CASE l.upper = r.lower /\ ~(l.ui /\ r.li)
    <2>1. CASE ~l.ui
      BY <1>2, <1>4, <2>1 DEF RangeRuleMatches, Below
    <2>2. CASE ~r.li
      BY <1>2, <1>4, <2>2 DEF RangeRuleMatches, Below
    <2>. QED
      BY <1>4, <2>1, <2>2, Zenon
  <1>. QED
    BY <1>3, <1>4, Zenon DEF RangeIsBefore

(* A key belongs to at most one rule of a range set that                   *)
(* ShardStrategyEvaluator::range accepts, whatever the rules: what the     *)
(* lookup returns does not depend on their order.                          *)
THEOREM RangesDisjoint ==
    ASSUME NEW rules \in Seq(RangeShardRule), NEW k \in ShardKey,
           \A i \in DOMAIN rules : WithBounds(rules[i]),
           ValidateRangeRules(rules),
           NEW i \in DOMAIN rules, NEW j \in DOMAIN rules,
           RangeRuleMatches(rules[i], k), RangeRuleMatches(rules[j], k)
    PROVE  i = j
  <1>1. SUFFICES ASSUME i # j PROVE FALSE
    BY Zenon
  <1>2. /\ i \in Nat /\ j \in Nat
        /\ rules[i] \in RangeShardRule /\ rules[j] \in RangeShardRule
    OBVIOUS
  <1>3. ~RangesOverlap(rules[i], rules[j])
    <2>1. CASE i < j
      BY <2>1, Zenon DEF ValidateRangeRules
    <2>2. CASE j < i
      <3>1. ~RangesOverlap(rules[j], rules[i])
        BY <2>2, Zenon DEF ValidateRangeRules
      <3>. QED
        BY <3>1, Zenon DEF RangesOverlap
    <2>. QED
      BY <1>1, <1>2, <2>1, <2>2
  <1>4. RangeIsBefore(rules[i], rules[j]) \/ RangeIsBefore(rules[j], rules[i])
    BY <1>3, Zenon DEF RangesOverlap
  <1>. QED
    BY <1>2, <1>4, BeforeDisjoint, Zenon

(* The rule that range_lookup returns is the rule a key belongs to: no     *)
(* other rule of a validated set would do, wherever it stands.             *)
THEOREM RangeLookupExact ==
    ASSUME NEW rules \in Seq(RangeShardRule), NEW k \in ShardKey,
           \A m \in DOMAIN rules : WithBounds(rules[m]),
           ValidateRangeRules(rules),
           NEW i \in DOMAIN rules, RangeRuleMatches(rules[i], k)
    PROVE  RangeLookup(rules, k) = i
  <1>1. \A j \in 1 .. Len(rules) : RangeRuleMatches(rules[j], k) => j = i
    BY RangesDisjoint
  <1>2. i \in 1 .. Len(rules)
    OBVIOUS
  <1>. QED
    BY <1>1, <1>2 DEF RangeLookup, Position

(* The same of lists: a value belongs to the one rule list_lookup returns. *)
THEOREM ListLookupExact ==
    ASSUME NEW rules \in Seq(SUBSET ShardKey), NEW k \in ShardKey,
           ValidateListRules(rules),
           NEW i \in DOMAIN rules, k \in rules[i]
    PROVE  ListLookup(rules, k) = i
  <1>1. \A j \in 1 .. Len(rules) : k \in rules[j] => j = i
    BY DEF ValidateListRules
  <1>2. i \in 1 .. Len(rules)
    OBVIOUS
  <1>. QED
    BY <1>1, <1>2 DEF ListLookup, Position

----------------------------------------------------------------------------
(* What an evaluator has returned stays until it is read.                  *)
LEMMA StepKeepsAnswer ==
    ASSUME [Next]_vars
    PROVE  \/ answer' = answer
           \/ answer' = NoAnswer
           \/ \E request \in Requests : Plan(request)
           \/ \E rules \in RangeSets, k \in Keys : EvaluateRange(rules, k)
           \/ \E rules \in ListSets, k \in Keys : EvaluateList(rules, k)
           \/ answer'.kind = "preview"
  <1>1. CASE StoreNext
    BY <1>1, Zenon DEF StoreNext, ClearAffinity, SetAffinity, StartReload, ReloadReadsActive,
       ReloadReadsCurrent, ReloadSwaps, RefreshReadsActive, RefreshReadsCurrent,
       RefreshOverwrites, Enter, Go
  <1>2. CASE AnswerNext
    BY <1>2, Zenon DEF AnswerNext, Read
  <1>3. CASE PreviewNext
    BY <1>3 DEF PreviewNext, Preview, PreviewRoute, Prints
  <1>4. CASE UNCHANGED vars
    BY <1>4, Zenon DEF vars
  <1>. QED
    BY <1>1, <1>2, <1>3, <1>4, Zenon DEF Next

LEMMA RangeAnswer ==
    ASSUME NEW rules \in RangeSets, NEW k \in Keys, EvaluateRange(rules, k)
    PROVE  KeyBelongsOnce'
  <1>1. /\ rules \in Seq(RangeShardRule) /\ k \in ShardKey
        /\ \A i \in DOMAIN rules : WithBounds(rules[i])
        /\ ValidateRangeRules(rules)
    BY RulesAssumption, Zenon DEF EvaluateRange
  <1>2. answer' = [kind |-> "range", rules |-> rules, key |-> k, found |-> RangeLookup(rules, k)]
    BY Zenon DEF EvaluateRange
  <1>3. {i \in DOMAIN rules : RangeRuleMatches(rules[i], k)} = {RangeLookup(rules, k)} \ {0}
    <2>1. CASE \E i \in DOMAIN rules : RangeRuleMatches(rules[i], k)
      <3>1. PICK i \in DOMAIN rules : RangeRuleMatches(rules[i], k)
        BY <2>1, Zenon
      <3>2. RangeLookup(rules, k) = i
        BY <1>1, <3>1, RangeLookupExact, Zenon
      <3>3. \A j \in DOMAIN rules : RangeRuleMatches(rules[j], k) => j = i
        BY <1>1, <3>1, RangesDisjoint, Zenon
      <3>4. i # 0
        BY <1>1
      <3>. QED
        BY <3>1, <3>2, <3>3, <3>4, Zenon
    <2>2. CASE ~ \E i \in DOMAIN rules : RangeRuleMatches(rules[i], k)
      <3>1. RangeLookup(rules, k) = 0
        BY <1>1, <2>2 DEF RangeLookup, Position
      <3>. QED
        BY <2>2, <3>1, Zenon
    <2>. QED
      BY <2>1, <2>2, Zenon
  <1>. QED
    BY <1>2, <1>3, Zenon DEF KeyBelongsOnce

LEMMA ListAnswer ==
    ASSUME NEW rules \in ListSets, NEW k \in Keys, EvaluateList(rules, k)
    PROVE  KeyBelongsOnce'
  <1>1. rules \in Seq(SUBSET ShardKey) /\ k \in ShardKey /\ ValidateListRules(rules)
    BY RulesAssumption, Zenon DEF EvaluateList
  <1>2. answer' = [kind |-> "list", rules |-> rules, key |-> k, found |-> ListLookup(rules, k)]
    BY Zenon DEF EvaluateList
  <1>3. {i \in DOMAIN rules : k \in rules[i]} = {ListLookup(rules, k)} \ {0}
    <2>1. CASE \E i \in DOMAIN rules : k \in rules[i]
      <3>1. PICK i \in DOMAIN rules : k \in rules[i]
        BY <2>1, Zenon
      <3>2. ListLookup(rules, k) = i
        BY <1>1, <3>1, ListLookupExact, Zenon
      <3>3. \A j \in DOMAIN rules : k \in rules[j] => j = i
        BY <1>1, <3>1, Zenon DEF ValidateListRules
      <3>4. i # 0
        BY <1>1
      <3>. QED
        BY <3>1, <3>2, <3>3, <3>4, Zenon
    <2>2. CASE ~ \E i \in DOMAIN rules : k \in rules[i]
      <3>1. ListLookup(rules, k) = 0
        BY <1>1, <2>2 DEF ListLookup, Position
      <3>. QED
        BY <2>2, <3>1, Zenon
    <2>. QED
      BY <2>1, <2>2, Zenon
  <1>. QED
    BY <1>2, <1>3, Zenon DEF KeyBelongsOnce

(* Whatever rule set an evaluator accepted and whatever key it was asked   *)
(* for, the rule it answers with is the one rule the key belongs to, and   *)
(* it answers with none only when there is none.                           *)
THEOREM OneRulePerKey == Spec => []KeyBelongsOnce
  <1>1. Init => KeyBelongsOnce
    BY DEF Init, NoAnswer, KeyBelongsOnce
  <1>2. KeyBelongsOnce /\ [Next]_vars => KeyBelongsOnce'
    <2> SUFFICES ASSUME KeyBelongsOnce, [Next]_vars PROVE KeyBelongsOnce'
      BY Zenon
    <2>1. CASE answer' = answer
      BY <2>1, Zenon DEF KeyBelongsOnce
    <2>2. CASE answer' = NoAnswer
      BY <2>2, Zenon DEF KeyBelongsOnce, NoAnswer
    <2>3. ASSUME NEW request \in Requests, Plan(request) PROVE KeyBelongsOnce'
      BY <2>3, Zenon DEF Plan, KeyBelongsOnce
    <2>4. CASE answer'.kind = "preview"
      BY <2>4, Zenon DEF KeyBelongsOnce
    <2>. QED
      BY <2>1, <2>2, <2>3, <2>4, StepKeepsAnswer, RangeAnswer, ListAnswer, Zenon
  <1>. QED
    BY <1>1, <1>2, PTL DEF Spec

----------------------------------------------------------------------------
(* A non-empty set of positions has a first one: Iterator::position finds  *)
(* it.                                                                     *)
LEMMA FirstExists ==
    ASSUME NEW n \in Nat, NEW T, T \subseteq 1 .. n, T # {}
    PROVE  \E i \in T : \A j \in T : i <= j
  <1>1. T \subseteq Nat
    OBVIOUS
  <1>2. PICK i \in T : \A j \in T : ~(<<j, i>> \in OpToRel(<, Nat))
    BY <1>1, NatLessThanWellFounded, WFMin, Zenon
  <1>3. \A j \in T : ~(j < i)
    BY <1>1, <1>2, Zenon DEF OpToRel
  <1>. QED
    BY <1>1, <1>3

(* RouteOf finds a route of that shard exactly when there is one.          *)
LEMMA RouteOfExact ==
    ASSUME NEW m, m.routes \in Seq(ShardRoute), NEW shard
    PROVE  IF \E i \in 1 .. Len(m.routes) : m.routes[i].shard = shard
             THEN RouteOf(m, shard) \in 1 .. Len(m.routes) /\ m.routes[RouteOf(m, shard)].shard = shard
             ELSE RouteOf(m, shard) = 0
  <1>1. CASE \E i \in 1 .. Len(m.routes) : m.routes[i].shard = shard
    <2> DEFINE T == {i \in 1 .. Len(m.routes) : m.routes[i].shard = shard}
    <2>1. Len(m.routes) \in Nat
      OBVIOUS
    <2>2. PICK i \in T : \A j \in T : i <= j
      BY <1>1, <2>1, FirstExists, Zenon
    <2>3. \E k \in 1 .. Len(m.routes) :
             m.routes[k].shard = shard
               /\ \A j \in 1 .. Len(m.routes) : m.routes[j].shard = shard => k <= j
      BY <2>2, Zenon
    <2>. QED
      BY <1>1, <2>3, Zenon DEF RouteOf, Position
  <1>2. CASE ~ \E i \in 1 .. Len(m.routes) : m.routes[i].shard = shard
    BY <1>2, Zenon DEF RouteOf, Position
  <1>. QED
    BY <1>1, <1>2, Zenon

(* The route that is chosen for a route's shard is one of that shard.      *)
LEMMA ChosenShard ==
    ASSUME NEW m, m.routes \in Seq(ShardRoute), NEW i \in 1 .. Len(m.routes), NEW role
    PROVE  ChooseShardRoute(m, i, role).shard = m.routes[i].shard
  <1> DEFINE shard == m.routes[i].shard
             Is(j) == m.routes[j].shard = shard /\ m.routes[j].role = role
             wanted == Position(Len(m.routes), Is)
  <1>0. Len(m.routes) \in Nat
    OBVIOUS
  <1>1. wanted = 0 \/ (wanted \in 1 .. Len(m.routes) /\ m.routes[wanted].shard = shard)
    <2>1. CASE \E j \in 1 .. Len(m.routes) : Is(j)
      <3> DEFINE T == {j \in 1 .. Len(m.routes) : Is(j)}
      <3>0. T \subseteq 1 .. Len(m.routes) /\ T # {}
        BY <2>1, Zenon
      <3>1. PICK k \in T : \A j \in T : k <= j
        <4> HIDE DEF T
        <4>. QED
          BY <1>0, <3>0, FirstExists, Zenon
      <3>2. \E k2 \in 1 .. Len(m.routes) :
               Is(k2) /\ \A j \in 1 .. Len(m.routes) : Is(j) => k2 <= j
        BY <3>1, Zenon
      <3>. QED
        BY <2>1, <3>2, Zenon DEF Position
    <2>2. CASE ~ \E j \in 1 .. Len(m.routes) : Is(j)
      BY <2>2, Zenon DEF Position
    <2>. QED
      BY <2>1, <2>2, Zenon
  <1>2. RouteOf(m, shard) \in 1 .. Len(m.routes) /\ m.routes[RouteOf(m, shard)].shard = shard
    BY RouteOfExact, Zenon
  <1>3. ChooseShardRoute(m, i, role) = m.routes[IF wanted # 0 THEN wanted ELSE RouteOf(m, shard)]
    BY Zenon DEF ChooseShardRoute
  <1>. QED
    BY <1>1, <1>2, <1>3, Zenon

Comments == Seq([kind : HintKinds \cup {"bad", "plain", "bare"}, value : Nat])

(* A hint is one of the comments, so it has a value.                       *)
LEMMA HintHasValue ==
    ASSUME NEW comments \in Comments,
           \A i \in DOMAIN comments : comments[i].kind \in HintKinds => comments[i].value # 0,
           ExtractShardHint(comments).kind \in HintKinds
    PROVE  ExtractShardHint(comments).value # 0
  <1> DEFINE n == Len(comments)
             Directive(i) == comments[i].kind \in HintKinds \cup {"bad"}
             first == Position(n, Directive)
             T == {i \in 1 .. n : Directive(i)}
  <1>0. n \in Nat /\ DOMAIN comments = 1 .. n
    BY DEF Comments
  <1>1. first # 0 /\ ExtractShardHint(comments) = comments[first]
    BY Zenon DEF ExtractShardHint, Hint, HintKinds
  <1>2. \E i \in 1 .. n : Directive(i)
    BY <1>1, Zenon DEF Position
  <1>3. T \subseteq 1 .. n /\ T # {}
    BY <1>2, Zenon
  <1>4. \E k \in T : \A j \in T : k <= j
    <2> HIDE DEF T
    <2>. QED
      BY <1>0, <1>3, FirstExists, Zenon
  <1>5. first \in 1 .. n
    BY <1>2, <1>4, Zenon DEF Position
  <1>. QED
    BY <1>0, <1>1, <1>5, Zenon

(* The deciding map is one of the maps; unless it names the hinted shard,  *)
(* no map that matches does.                                               *)
LEMMA DecidingMapExact ==
    ASSUME NEW maps \in Seq(ShardRouteMap), NEW hint, NEW key, NEW table,
           DecidingMap(maps, hint, key, table) # 0
    PROVE  LET which == DecidingMap(maps, hint, key, table)
           IN  /\ which \in 1 .. Len(maps)
               /\ ExplicitShard(hint) # 0 /\ RouteOf(maps[which], ExplicitShard(hint)) = 0
                    => \A i \in 1 .. Len(maps) :
                          MatchesContext(maps[i], hint, key, table) => RouteOf(maps[i], ExplicitShard(hint)) = 0
  <1> DEFINE n == Len(maps)
             Matches(i) == MatchesContext(maps[i], hint, key, table)
             Named(i) == ExplicitShard(hint) = 0 \/ RouteOf(maps[i], ExplicitShard(hint)) # 0
             Both(i) == Matches(i) /\ Named(i)
             explicit == Position(n, Both)
             any == Position(n, Matches)
             T == {i \in 1 .. n : Both(i)}
             U == {i \in 1 .. n : Matches(i)}
  <1>0. n \in Nat
    OBVIOUS
  <1>1. DecidingMap(maps, hint, key, table) = IF explicit # 0 THEN explicit ELSE any
    BY Zenon DEF DecidingMap
  <1> HIDE DEF Matches, Named
  <1>2. CASE \E i \in 1 .. n : Both(i)
    <2>1. T \subseteq 1 .. n /\ T # {}
      BY <1>2, Zenon
    <2>2. \E k \in T : \A j \in T : k <= j
      <3> HIDE DEF T
      <3>. QED
        BY <1>0, <2>1, FirstExists, Zenon
    <2>3. explicit \in 1 .. n /\ Both(explicit)
      BY <1>2, <2>2, Zenon DEF Position
    <2>4. explicit # 0
      BY <1>0, <2>3
    <2>. QED
      BY <1>1, <2>3, <2>4, Zenon DEF Named
  <1>3. CASE ~ \E i \in 1 .. n : Both(i)
    <2>1. explicit = 0
      BY <1>3, Zenon DEF Position
    <2>2. any # 0
      BY <1>1, <2>1, Zenon
    <2>3. \E i \in 1 .. n : Matches(i)
      BY <2>2, Zenon DEF Position
    <2>4. U \subseteq 1 .. n /\ U # {}
      BY <2>3, Zenon
    <2>5. \E k \in U : \A j \in U : k <= j
      <3> HIDE DEF U
      <3>. QED
        BY <1>0, <2>4, FirstExists, Zenon
    <2>6. any \in 1 .. n
      BY <2>3, <2>5, Zenon DEF Position
    <2>7. \A i \in 1 .. n : Matches(i) => ~Named(i)
      BY <1>3, Zenon
    <2>. QED
      BY <1>1, <2>1, <2>6, <2>7, Zenon DEF Matches, Named
  <1>. QED
    BY <1>2, <1>3, Zenon

(* The plan of a request whose comments hold a hint.                       *)
LEMMA HintedPlan ==
    ASSUME NEW maps \in Seq(ShardRouteMap), NEW tables, NEW request,
           ExtractShardHint(request.comments).kind \in HintKinds,
           ExtractShardHint(request.comments).value # 0
    PROVE  LET hint == ExtractShardHint(request.comments)
               plan == PlanShardedRoute(maps, tables, request)
           IN  /\ plan.route # NoRoute => plan.route.shard = hint.value
               /\ plan.reason = "validation_failed"
                    => \A i \in DOMAIN maps :
                          maps[i].scope.kind = "global" => RouteOf(maps[i], hint.value) = 0
  <1> DEFINE hint == ExtractShardHint(request.comments)
             key == ExtractShardKey(request.stmt, tables)
             which == DecidingMap(maps, hint, key, request.stmt.table)
             plan == PlanShardedRoute(maps, tables, request)
             shard == hint.value
  <1>0. ExplicitShard(hint) = shard /\ shard # 0 /\ hint.kind # "unknown"
    BY Zenon DEF ExplicitShard, HintKinds
  <1>1. CASE which = 0
    <2>1. plan = Decision(NoRoute, "no_match")
      BY <1>1, Zenon DEF PlanShardedRoute
    <2>. QED
      BY <2>1 DEF Decision
  <1>2. CASE which # 0
    <2>1. /\ which \in 1 .. Len(maps)
          /\ RouteOf(maps[which], shard) = 0
               => \A i \in 1 .. Len(maps) :
                     MatchesContext(maps[i], hint, key, request.stmt.table) => RouteOf(maps[i], shard) = 0
      BY <1>0, <1>2, DecidingMapExact, Zenon
    <2>2. maps[which].routes \in Seq(ShardRoute)
      <3>1. maps[which] \in ShardRouteMap
        BY <2>1
      <3>. QED
        BY <3>1, Zenon DEF ShardRouteMap
    <2>3. plan = IF RouteOf(maps[which], shard) # 0
                   THEN Decision(ChooseShardRoute(maps[which], RouteOf(maps[which], shard), request.role),
                                 "admin_override")
                   ELSE Decision(NoRoute, "validation_failed")
      <3> HIDE DEF which, hint
      <3>1. PlanShardedRoute(maps, tables, request) =
              CASE which = 0 -> Decision(NoRoute, "no_match")
                [] which # 0 /\ hint.kind = "unknown" /\ MentionsProxy(request.comments)
                     -> Decision(NoRoute, "validation_failed")
                [] which # 0 /\ ExplicitShard(hint) # 0
                     -> IF RouteOf(maps[which], ExplicitShard(hint)) # 0
                          THEN Decision(ChooseShardRoute(maps[which], RouteOf(maps[which], ExplicitShard(hint)),
                                                         request.role), "admin_override")
                          ELSE Decision(NoRoute, "validation_failed")
                [] OTHER
                     -> IF key # NoKey /\ RouteForKey(maps[which], key) # 0
                          THEN Decision(ChooseShardRoute(maps[which], RouteForKey(maps[which], key), request.role),
                                        maps[which].strategy)
                          ELSE Decision(NoRoute, "no_match")
        BY Zenon DEF PlanShardedRoute, which, hint
      <3>. QED
        BY <1>0, <1>2, <3>1, Zenon
    <2>4. CASE RouteOf(maps[which], shard) # 0
      <3>1. /\ RouteOf(maps[which], shard) \in 1 .. Len(maps[which].routes)
            /\ maps[which].routes[RouteOf(maps[which], shard)].shard = shard
        BY <2>2, <2>4, RouteOfExact, Zenon
      <3>2. ChooseShardRoute(maps[which], RouteOf(maps[which], shard), request.role).shard = shard
        BY <2>2, <3>1, ChosenShard, Zenon
      <3>. QED
        BY <2>3, <2>4, <3>2 DEF Decision
    <2>5. CASE RouteOf(maps[which], shard) = 0
      <3>1. plan.route = NoRoute
        BY <2>3, <2>5 DEF Decision
      <3>2. \A i \in 1 .. Len(maps) : maps[i].scope.kind = "global" => RouteOf(maps[i], shard) = 0
        BY <2>1, <2>5, Zenon DEF MatchesContext
      <3>3. DOMAIN maps = 1 .. Len(maps)
        OBVIOUS
      <3>. QED
        BY <3>1, <3>2, <3>3, Zenon
    <2>. QED
      BY <2>4, <2>5, Zenon
  <1>. QED
    BY <1>1, <1>2, Zenon

(* A directive that cannot be read takes the statement to no shard.        *)
LEMMA UnreadablePlan ==
    ASSUME NEW maps, NEW tables, NEW request,
           ExtractShardHint(request.comments).kind = "unknown", MentionsProxy(request.comments)
    PROVE  PlanShardedRoute(maps, tables, request).route = NoRoute
  <1> DEFINE hint == ExtractShardHint(request.comments)
             which == DecidingMap(maps, hint, ExtractShardKey(request.stmt, tables), request.stmt.table)
  <1>0. ExplicitShard(hint) = 0
    BY Zenon DEF ExplicitShard, HintKinds
  <1>1. CASE which = 0
    BY <1>1, Zenon DEF PlanShardedRoute, Decision
  <1>2. CASE which # 0
    BY <1>0, <1>2, Zenon DEF PlanShardedRoute, Decision
  <1>. QED
    BY <1>1, <1>2, Zenon

----------------------------------------------------------------------------
(***************************************************************************)
(* The store.  Its three locks are taken one after another, so what an     *)
(* operation has read may be stale when it writes; while no two operations *)
(* have overlapped it is not, and the invariant says so of every place an  *)
(* operation can be at.                                                    *)
(***************************************************************************)
Calls == [pc : {"idle", "refresh", "routes", "overwrite", "active", "current", "swap"},
          active : SUBSET Nat, current : SUBSET Nat, next : RouteMapSets \cup {<<>>}, override : BOOLEAN]

StoreOK ==
    /\ routeMaps \in RouteMapSets
    /\ affinity \in [Sessions -> Nat]
    /\ call \in [Threads -> Calls]
    /\ overlapped \in BOOLEAN
    /\ \A t \in Threads : call[t].pc \in {"active", "current", "swap"} => call[t].next \in RouteMapSets

(* The draining shards are right outside a refresh.                        *)
Quiet == {"idle", "active", "current", "swap"}

FreshInv ==
    ~overlapped =>
      /\ \A t, u \in Threads : Busy(t) /\ Busy(u) => t = u
      /\ \A t \in Threads : call[t].pc \in {"current", "routes", "overwrite"} => call[t].active = ActiveShards
      /\ \A t \in Threads : call[t].pc = "overwrite" => call[t].current = ShardsOf(routeMaps)
      /\ \A t \in Threads : call[t].pc = "swap" /\ ~call[t].override =>
            (ShardsOf(routeMaps) \ ShardsOf(call[t].next)) \cap ActiveShards = {}
      /\ (\A t \in Threads : call[t].pc \in Quiet) => draining = ActiveShards \ ShardsOf(routeMaps)

LEMMA ShardsAreNumbers ==
    /\ \A maps \in RouteMapSets : ShardsOf(maps) \subseteq Nat
    /\ StoreOK => ActiveShards \subseteq Nat
  <1>1. ASSUME NEW maps \in RouteMapSets PROVE ShardsOf(maps) \subseteq Nat
    <2>1. maps \in Seq(ShardRouteMap)
      BY RouteMapsAssumption, Zenon
    <2>2. ASSUME NEW j \in DOMAIN maps, NEW i \in DOMAIN maps[j].routes
          PROVE  maps[j].routes[i].shard \in Nat
      <3>1. maps[j] \in ShardRouteMap
        BY <2>1
      <3>2. maps[j].routes \in Seq(ShardRoute)
        BY <3>1, Zenon DEF ShardRouteMap
      <3>3. maps[j].routes[i] \in ShardRoute
        BY <3>2
      <3>. QED
        BY <3>3, Zenon DEF ShardRoute
    <2>. QED
      BY <2>2 DEF ShardsOf
  <1>2. StoreOK => ActiveShards \subseteq Nat
    BY Zenon DEF StoreOK, ActiveShards
  <1>. QED
    BY <1>1, <1>2, Zenon

LEMMA IdleIsCall == Idle \in Calls /\ Idle.pc = "idle"
  BY Zenon DEF Idle, Calls

LEMMA StoreInit == Init => StoreOK /\ FreshInv
  <1> SUFFICES ASSUME Init PROVE StoreOK /\ FreshInv
    BY Zenon
  <1>1. StoreOK
    BY IdleIsCall, Zenon DEF Init, StoreOK
  <1>2. ActiveShards = {}
    BY Zenon DEF Init, ActiveShards
  <1>3. \A t \in Threads : call[t].pc = "idle"
    BY IdleIsCall, Zenon DEF Init
  <1>4. draining = {}
    BY Zenon DEF Init
  <1>. QED
    BY <1>1, <1>2, <1>3, <1>4, Zenon DEF FreshInv, Busy

(* An operation begins: it overlaps with every other that is under way.    *)
LEMMA EnterStep ==
    ASSUME StoreOK, FreshInv, NEW t \in Threads, NEW c \in Calls, Enter(t, c),
           routeMaps' = routeMaps, draining' = draining, affinity' \in [Sessions -> Nat],
           c.pc \in {"active", "current", "swap"} => c.next \in RouteMapSets,
           c.pc \in {"idle", "refresh", "active"},
           c.pc # "refresh" => affinity' = affinity
    PROVE  StoreOK' /\ FreshInv'
  <1>1. StoreOK'
    BY Zenon DEF StoreOK, Enter
  <1>2. SUFFICES ASSUME ~overlapped' PROVE FreshInv'
    BY <1>1, Zenon DEF FreshInv
  <1>3. ~overlapped /\ \A u \in Threads : call[u].pc = "idle"
    BY <1>2, Zenon DEF Enter, Busy, StoreOK
  <1>4. /\ call'[t] = c /\ \A u \in Threads : u # t => call'[u] = call[u]
    BY Zenon DEF StoreOK, Enter
  <1>5. draining = ActiveShards \ ShardsOf(routeMaps)
    BY <1>3, Zenon DEF FreshInv, Quiet
  <1>6. \A u, v \in Threads : Busy(u)' /\ Busy(v)' => u = v
    BY <1>3, <1>4, Zenon DEF Busy
  <1>7. \A u \in Threads : call'[u].pc \in {"idle", "refresh", "active"}
    BY <1>3, <1>4, Zenon
  <1>8. (\A u \in Threads : call'[u].pc \in Quiet) => draining' = (ActiveShards \ ShardsOf(routeMaps))'
    <2> SUFFICES ASSUME \A u \in Threads : call'[u].pc \in Quiet
                 PROVE  draining' = (ActiveShards \ ShardsOf(routeMaps))'
      BY Zenon
    <2>1. c.pc # "refresh"
      BY <1>4, Zenon DEF Quiet
    <2>. QED
      BY <1>5, <2>1, Zenon DEF ActiveShards
  <1>. QED
    BY <1>6, <1>7, <1>8, Zenon DEF FreshInv

(* An operation goes on: while none has overlapped, it is the only one.    *)
LEMMA GoStep ==
    ASSUME StoreOK, FreshInv, NEW t \in Threads, Busy(t), NEW c \in Calls, Go(t, c),
           affinity' = affinity, routeMaps' \in RouteMapSets,
           c.pc \in {"active", "current", "swap"} => c.next \in RouteMapSets,
           ~overlapped /\ c.pc \in {"current", "routes", "overwrite"} => c.active = ActiveShards,
           ~overlapped /\ c.pc = "overwrite" => c.current = ShardsOf(routeMaps'),
           ~overlapped /\ c.pc = "swap" /\ ~c.override =>
              (ShardsOf(routeMaps') \ ShardsOf(c.next)) \cap ActiveShards = {},
           ~overlapped /\ c.pc \in Quiet => draining' = ActiveShards \ ShardsOf(routeMaps')
    PROVE  StoreOK' /\ FreshInv'
  <1>1. StoreOK'
    BY Zenon DEF StoreOK, Go
  <1>2. SUFFICES ASSUME ~overlapped' PROVE FreshInv'
    BY <1>1, Zenon DEF FreshInv
  <1>3. ~overlapped /\ \A u \in Threads : u # t => call[u].pc = "idle"
    BY <1>2, Zenon DEF Go, Busy, FreshInv
  <1>4. /\ call'[t] = c /\ \A u \in Threads : u # t => call'[u].pc = "idle"
    BY <1>3, Zenon DEF StoreOK, Go
  <1>5. ActiveShards' = ActiveShards
    BY Zenon DEF ActiveShards
  <1>6. \A u, v \in Threads : Busy(u)' /\ Busy(v)' => u = v
    BY <1>4, Zenon DEF Busy
  <1>7. /\ \A u \in Threads : call'[u].pc \in {"current", "routes", "overwrite"} => call'[u].active = ActiveShards'
        /\ \A u \in Threads : call'[u].pc = "overwrite" => call'[u].current = ShardsOf(routeMaps')
        /\ \A u \in Threads : call'[u].pc = "swap" /\ ~call'[u].override =>
              (ShardsOf(routeMaps') \ ShardsOf(call'[u].next)) \cap ActiveShards' = {}
    BY <1>3, <1>4, <1>5, Zenon
  <1>8. (\A u \in Threads : call'[u].pc \in Quiet) => draining' = ActiveShards' \ ShardsOf(routeMaps')
    BY <1>3, <1>4, <1>5, Zenon
  <1>9. ShardsOf(routeMaps)' = ShardsOf(routeMaps') /\ \A u \in Threads : ShardsOf(call[u].next)' = ShardsOf(call'[u].next)
    BY Zenon DEF ShardsOf
  <1>. QED
    BY <1>6, <1>7, <1>8, <1>9, Zenon DEF FreshInv

LEMMA StoreStep == StoreOK /\ FreshInv /\ [Next]_vars => StoreOK' /\ FreshInv'
  <1> SUFFICES ASSUME StoreOK, FreshInv, [Next]_vars PROVE StoreOK' /\ FreshInv'
    BY Zenon
  <1> USE DEF store
  <1>0. /\ affinity \in [Sessions -> Nat] /\ routeMaps \in RouteMapSets
        /\ ActiveShards \subseteq Nat /\ ShardsOf(routeMaps) \subseteq Nat
        /\ \A t \in Threads : call[t] \in Calls
    BY ShardsAreNumbers, Zenon DEF StoreOK
  <1>1. ASSUME NEW s \in Sessions, ClearAffinity(s) PROVE StoreOK' /\ FreshInv'
    <2> DEFINE c == [Idle EXCEPT !.pc = "refresh"]
    <2>1. c \in Calls /\ c.pc = "refresh" /\ s \in Threads
      BY IdleIsCall, Zenon DEF Calls, Idle, Threads
    <2>2. Enter(s, c) /\ routeMaps' = routeMaps /\ draining' = draining /\ affinity' \in [Sessions -> Nat]
      BY <1>0, <1>1, Zenon DEF ClearAffinity
    <2> HIDE DEF c
    <2>. QED
      BY <2>1, <2>2, EnterStep, Zenon
  <1>2. ASSUME NEW s \in Sessions, NEW shard \in ShardIds, SetAffinity(s, shard) PROVE StoreOK' /\ FreshInv'
    <2> DEFINE c == [Idle EXCEPT !.pc = "refresh"]
    <2>1. c \in Calls /\ c.pc = "refresh" /\ s \in Threads
      BY IdleIsCall, Zenon DEF Calls, Idle, Threads
    <2>2. shard \in Nat
      BY ShardIdsAssumption
    <2>3. Enter(s, c) /\ routeMaps' = routeMaps /\ draining' = draining /\ affinity' \in [Sessions -> Nat]
      BY <1>0, <1>2, <2>2, Zenon DEF SetAffinity
    <2> HIDE DEF c
    <2>. QED
      BY <2>1, <2>3, EnterStep, Zenon
  <1>3. ASSUME NEW o \in Operators, NEW maps \in RouteMapSets, NEW override \in BOOLEAN,
               StartReload(o, maps, override)
        PROVE  StoreOK' /\ FreshInv'
    <2> DEFINE c == IF ValidateReload(maps)
                      THEN [Idle EXCEPT !.pc = "active", !.next = maps, !.override = override]
                      ELSE Idle
    <2>1. c \in Calls /\ c.pc \in {"idle", "active"} /\ (c.pc = "active" => c.next \in RouteMapSets) /\ o \in Threads
      BY IdleIsCall, Zenon DEF Calls, Idle, Threads
    <2>2. Enter(o, c) /\ routeMaps' = routeMaps /\ draining' = draining /\ affinity' = affinity
      BY <1>0, <1>3, Zenon DEF StartReload
    <2> HIDE DEF c
    <2>. QED
      BY <1>0, <2>1, <2>2, EnterStep, Zenon
  <1>4. ASSUME NEW o \in Operators, ReloadReadsActive(o) PROVE StoreOK' /\ FreshInv'
    <2> DEFINE c == [call[o] EXCEPT !.pc = "current", !.active = ActiveShards]
    <2>1. /\ o \in Threads /\ Busy(o) /\ call[o].pc = "active" /\ Go(o, c)
          /\ affinity' = affinity /\ routeMaps' = routeMaps /\ draining' = draining
      BY <1>4, Zenon DEF ReloadReadsActive, Threads, Busy
    <2>2. c \in Calls /\ c.pc = "current" /\ c.active = ActiveShards /\ c.next = call[o].next
      BY <1>0, <2>1, Zenon DEF Calls
    <2>3. c.next \in RouteMapSets
      BY <2>1, <2>2, Zenon DEF StoreOK
    <2>4. ~overlapped => draining = ActiveShards \ ShardsOf(routeMaps)
      BY <2>1, Zenon DEF FreshInv, Busy, Quiet
    <2> HIDE DEF c
    <2>. QED
      BY <1>0, <2>1, <2>2, <2>3, <2>4, GoStep, Zenon
  <1>5. ASSUME NEW o \in Operators, ReloadReadsCurrent(o) PROVE StoreOK' /\ FreshInv'
    <2> DEFINE c == IF MayReplace(call[o], ShardsOf(routeMaps))
                      THEN [call[o] EXCEPT !.pc = "swap", !.active = {}]
                      ELSE Idle
    <2>1. /\ o \in Threads /\ Busy(o) /\ call[o].pc = "current" /\ Go(o, c)
          /\ affinity' = affinity /\ routeMaps' = routeMaps /\ draining' = draining
      BY <1>5, Zenon DEF ReloadReadsCurrent, Threads, Busy
    <2>2. c \in Calls /\ c.pc \in {"idle", "swap"}
      BY <1>0, <2>1, IdleIsCall, Zenon DEF Calls
    <2>3. c.pc = "swap" => /\ c.next = call[o].next /\ c.override = call[o].override
                           /\ MayReplace(call[o], ShardsOf(routeMaps))
      BY <1>0, <2>1, IdleIsCall, Zenon DEF Calls
    <2>4. call[o].next \in RouteMapSets
      BY <2>1, Zenon DEF StoreOK
    <2>5. ~overlapped => draining = ActiveShards \ ShardsOf(routeMaps)
      BY <2>1, Zenon DEF FreshInv, Busy, Quiet
    <2>6. ~overlapped /\ c.pc = "swap" /\ ~c.override =>
             (ShardsOf(routeMaps) \ ShardsOf(c.next)) \cap ActiveShards = {}
      BY <2>1, <2>3, Zenon DEF FreshInv, MayReplace
    <2> HIDE DEF c
    <2>. QED
      BY <1>0, <2>1, <2>2, <2>3, <2>4, <2>5, <2>6, GoStep, Zenon
  <1>6. ASSUME NEW o \in Operators, ReloadSwaps(o) PROVE StoreOK' /\ FreshInv'
    <2> DEFINE c == [Idle EXCEPT !.pc = "refresh"]
    <2>1. /\ o \in Threads /\ Busy(o) /\ call[o].pc = "swap" /\ Go(o, c)
          /\ affinity' = affinity /\ routeMaps' = call[o].next
      BY <1>6, Zenon DEF ReloadSwaps, Threads, Busy
    <2>2. c \in Calls /\ c.pc = "refresh"
      BY IdleIsCall, Zenon DEF Calls, Idle
    <2>3. routeMaps' \in RouteMapSets
      BY <2>1, Zenon DEF StoreOK
    <2> HIDE DEF c
    <2>. QED
      BY <2>1, <2>2, <2>3, GoStep, Zenon DEF Quiet
  <1>7. ASSUME NEW t \in Threads, RefreshReadsActive(t) PROVE StoreOK' /\ FreshInv'
    <2> DEFINE c == [call[t] EXCEPT !.pc = "routes", !.active = ActiveShards]
    <2>1. /\ Busy(t) /\ Go(t, c) /\ affinity' = affinity /\ routeMaps' = routeMaps
      BY <1>7, Zenon DEF RefreshReadsActive, Busy
    <2>2. c \in Calls /\ c.pc = "routes" /\ c.active = ActiveShards
      BY <1>0, Zenon DEF Calls
    <2> HIDE DEF c
    <2>. QED
      BY <1>0, <2>1, <2>2, GoStep, Zenon DEF Quiet
  <1>8. ASSUME NEW t \in Threads, RefreshReadsCurrent(t) PROVE StoreOK' /\ FreshInv'
    <2> DEFINE c == [call[t] EXCEPT !.pc = "overwrite", !.current = ShardsOf(routeMaps)]
    <2>1. /\ Busy(t) /\ call[t].pc = "routes" /\ Go(t, c) /\ affinity' = affinity /\ routeMaps' = routeMaps
      BY <1>8, Zenon DEF RefreshReadsCurrent, Busy
    <2>2. c \in Calls /\ c.pc = "overwrite" /\ c.active = call[t].active /\ c.current = ShardsOf(routeMaps)
      BY <1>0, Zenon DEF Calls
    <2>3. ~overlapped => call[t].active = ActiveShards
      BY <2>1, Zenon DEF FreshInv
    <2> HIDE DEF c
    <2>. QED
      BY <1>0, <2>1, <2>2, <2>3, GoStep, Zenon DEF Quiet
  <1>9. ASSUME NEW t \in Threads, RefreshOverwrites(t) PROVE StoreOK' /\ FreshInv'
    <2>1. /\ Busy(t) /\ call[t].pc = "overwrite" /\ Go(t, Idle) /\ affinity' = affinity
          /\ routeMaps' = routeMaps /\ draining' = call[t].active \ call[t].current
      BY <1>9, Zenon DEF RefreshOverwrites, Busy
    <2>2. ~overlapped => call[t].active = ActiveShards /\ call[t].current = ShardsOf(routeMaps)
      BY <2>1, Zenon DEF FreshInv
    <2>. QED
      BY <1>0, <2>1, <2>2, IdleIsCall, GoStep, Zenon
  <1>10. ASSUME UNCHANGED <<store, call, overlapped>> PROVE StoreOK' /\ FreshInv'
    <2>1. ActiveShards' = ActiveShards /\ \A t \in Threads : Busy(t)' = Busy(t)
      BY <1>10, Zenon DEF ActiveShards, Busy
    <2>2. StoreOK'
      BY <1>10, Zenon DEF StoreOK
    <2>. QED
      BY <1>10, <2>1, <2>2, Zenon DEF FreshInv, Quiet
  <1>11. ASSUME AnswerNext \/ PreviewNext \/ UNCHANGED vars PROVE UNCHANGED <<store, call, overlapped>>
    BY <1>11, Zenon DEF AnswerNext, PreviewNext, Plan, EvaluateRange, EvaluateList, Read, Preview, vars
  <1>12. CASE StoreNext
    BY <1>12, <1>1, <1>2, <1>3, <1>4, <1>5, <1>6, <1>7, <1>8, <1>9, Zenon DEF StoreNext
  <1>. QED
    BY <1>10, <1>11, <1>12, Zenon DEF Next

(* The route-map store keeps its shape, and while no two operations have   *)
(* overlapped what an operation read is still what the store holds.        *)
THEOREM StoreSafe == Spec => [](StoreOK /\ FreshInv)
  BY StoreInit, StoreStep, PTL DEF Spec

(* While operations of the store have not overlapped, the shards it says   *)
(* are draining are those a transaction holds and no route map names.      *)
THEOREM DrainingIsAccurate == Spec => []DrainingAccurate
  <1>1. StoreOK /\ FreshInv => DrainingAccurate
    BY Zenon DEF StoreOK, FreshInv, DrainingAccurate, Busy, Quiet
  <1>. QED
    BY <1>1, StoreSafe, PTL

(* A reload without the override that nothing overlapped removes no shard  *)
(* that a transaction holds, for any number of sessions and operators.     *)
THEOREM RemovalIsOverridden == Spec => RemovalNeedsOverride
  <1>1. StoreOK /\ FreshInv /\ [Next]_vars =>
          [\A o \in Operators :
              call[o].pc = "swap" /\ routeMaps' # routeMaps /\ ~call[o].override /\ ~overlapped
                 => (ShardsOf(routeMaps) \ ShardsOf(routeMaps')) \cap ActiveShards = {}]_vars
    <2> SUFFICES ASSUME StoreOK, FreshInv, [Next]_vars, NEW o \in Operators,
                        call[o].pc = "swap", routeMaps' # routeMaps, ~call[o].override, ~overlapped
                 PROVE  (ShardsOf(routeMaps) \ ShardsOf(routeMaps')) \cap ActiveShards = {}
      BY Zenon
    <2>1. PICK p \in Operators : ReloadSwaps(p)
      BY Zenon DEF Next, StoreNext, ClearAffinity, SetAffinity, StartReload, ReloadReadsActive,
         ReloadReadsCurrent, RefreshReadsActive, RefreshReadsCurrent, RefreshOverwrites, store,
         AnswerNext, Plan, EvaluateRange, EvaluateList, Read, PreviewNext, Preview, vars
    <2>2. p = o
      BY <2>1, Zenon DEF FreshInv, Busy, ReloadSwaps, Threads
    <2>. QED
      BY <2>1, <2>2, Zenon DEF FreshInv, ReloadSwaps, Threads
  <1>. QED
    BY <1>1, StoreSafe, PTL DEF Spec, RemovalNeedsOverride

----------------------------------------------------------------------------
(* A plan is about a request and maps of the types that the code gives     *)
(* them.                                                                   *)
LEMMA PlanHonours ==
    ASSUME StoreOK, NEW request \in Requests, Plan(request)
    PROVE  HintHonoured'
  <1> DEFINE plan == PlanShardedRoute(routeMaps, ShardedTables, request)
             hint == ExtractShardHint(request.comments)
  <1>1. routeMaps \in Seq(ShardRouteMap)
    BY RouteMapsAssumption, Zenon DEF StoreOK
  <1>2. answer'.maps = routeMaps /\ answer'.request = request /\ answer'.decision = plan
    BY Zenon DEF Plan
  <1>3. hint.kind \in HintKinds => hint.value # 0
    BY CommentsAssumption, HintHasValue, Zenon DEF Comments
  <1>4. hint.kind \in HintKinds =>
          /\ plan.route # NoRoute => plan.route.shard = hint.value
          /\ plan.reason = "validation_failed"
               => \A i \in DOMAIN routeMaps :
                     routeMaps[i].scope.kind = "global" => RouteOf(routeMaps[i], hint.value) = 0
    BY <1>1, <1>3, HintedPlan, Zenon
  <1>5. hint.kind = "unknown" /\ MentionsProxy(request.comments) => plan.route = NoRoute
    BY UnreadablePlan, Zenon
  <1> HIDE DEF plan
  <1>. QED
    BY <1>2, <1>4, <1>5, Zenon DEF HintHonoured

(* Whatever the route maps, the statement and its comments: a statement    *)
(* whose comments name a shard runs there, is refused, or matches no map;  *)
(* it is refused only when no global map names the shard.                  *)
THEOREM HintsAreHonoured == Spec => []HintHonoured
  <1>1. Init => HintHonoured
    BY DEF Init, NoAnswer, HintHonoured
  <1>2. StoreOK /\ HintHonoured /\ [Next]_vars => HintHonoured'
    <2> SUFFICES ASSUME StoreOK, HintHonoured, [Next]_vars PROVE HintHonoured'
      BY Zenon
    <2>1. CASE answer' = answer
      BY <2>1, Zenon DEF HintHonoured
    <2>2. CASE answer' = NoAnswer
      BY <2>2, Zenon DEF HintHonoured, NoAnswer
    <2>3. ASSUME NEW rules \in RangeSets, NEW k \in Keys, EvaluateRange(rules, k) PROVE HintHonoured'
      BY <2>3, Zenon DEF EvaluateRange, HintHonoured
    <2>4. ASSUME NEW rules \in ListSets, NEW k \in Keys, EvaluateList(rules, k) PROVE HintHonoured'
      BY <2>4, Zenon DEF EvaluateList, HintHonoured
    <2>5. CASE answer'.kind = "preview"
      BY <2>5, Zenon DEF HintHonoured
    <2>. QED
      BY <2>1, <2>2, <2>3, <2>4, <2>5, StepKeepsAnswer, PlanHonours, Zenon
  <1>. QED
    BY <1>1, <1>2, StoreSafe, PTL DEF Spec
=============================================================================
