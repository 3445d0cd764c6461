---------------------------- MODULE MCDecisions ----------------------------
(***************************************************************************)
(* Traffic policy, shard routing, the choice of a pool and the reading of  *)
(* SQL on small instances.  They share no state: a behaviour is one of a   *)
(* single part, so TLC visits the sum of their states and not the product. *)
(***************************************************************************)
EXTENDS ShardRouting, TLC

VARIABLES part,
          current, published, module, eval, policyAnswer,
          setup, made, count, user, idle, health, pass,
          query

policyVars == <<current, published, module, eval, policyAnswer>>
poolVars   == <<setup, made, count, user, idle, health, pass>>

----------------------------------------------------------------------------
(* The instance of Policy. *)

Rule(hook, action, target) == [hook |-> hook, action |-> action, target |-> target]

Before(action, target) == Rule("before_routing", action, target)

Config(mode, rules, wasm) == [mode |-> mode, rules |-> rules, wasm |-> wasm]

MCConfigs ==
    {Config("disabled", <<>>, FALSE)}
    \cup {Config(mode, <<Before("wasm", "m")>>, TRUE) : mode \in {"enforce", "dry_run"}}
    \cup {Config("enforce", <<Before("wasm", "m")>>, FALSE),
          Config("enforce", <<Before("deny", ""), Before("allow", "")>>, FALSE),
          Config("enforce", <<Rule("after_routing", "route_override", "r1"), Before("deny", "no")>>, FALSE),
          Config("dry_run", <<Before("shard_override", "s1")>>, FALSE),
          Config("enforce", <<Before("require_replica", ""), Before("require_primary", "")>>, FALSE)}

MCModules == {[shape |-> TRUE, abi |-> 1, code |-> c] : c \in {0, 3, 4}}
             \cup {[shape |-> FALSE, abi |-> 1, code |-> 0], [shape |-> TRUE, abi |-> 2, code |-> 0]}

NoCriteria == [database |-> {}, role |-> {}]

DeclaredRules ==
    {[criteria |-> c, raw |-> raw, action |-> action, terminal |-> terminal] :
        c \in {NoCriteria, [NoCriteria EXCEPT !.database = {"app"}], [NoCriteria EXCEPT !.role = {"primary"}]},
        raw \in BOOLEAN, action \in {"allow", "deny"}, terminal \in BOOLEAN}

MCRuleSets ==
    {<<>>}
    \cup {[i \in DOMAIN s |-> [id |-> i] @@ s[i]] : s \in UNION {[1 .. n -> DeclaredRules] : n \in 1 .. 2}}
    \cup {[i \in 1 .. 3 |-> [id |-> i, criteria |-> [NoCriteria EXCEPT !.database = {"app"}], raw |-> FALSE,
                             action |-> IF i = 2 THEN "deny" ELSE "allow", terminal |-> t[i]]] :
            t \in [1 .. 3 -> BOOLEAN]}

MCRuleContexts == [database : {{"app"}, {"other"}}, role : {{}, {"primary"}}]

Lengths == [name : {2}, value : 0 .. 4]

MCContextFields == {<<>>} \cup [1 .. 1 -> Lengths] \cup [1 .. 2 -> Lengths] \cup [1 .. 3 -> Lengths]

P == INSTANCE Policy WITH
       Configs <- MCConfigs, RouteSets <- {{}, {"r1"}}, ShardSets <- {{}, {"s1"}},
       Modules <- MCModules, WasmFeature <- TRUE, RuleSets <- MCRuleSets,
       RuleContexts <- MCRuleContexts, ContextFields <- MCContextFields,
       ContextLimits <- {0, 2, 3, 5, 9, 14, 30}, MaxGeneration <- 2, answer <- policyAnswer

----------------------------------------------------------------------------
(* The instance of ShardRouting.  Table 1 is sharded once, table 2 is      *)
(* defined twice, table 3 not at all.                                      *)

Route(shard, role) == [shard |-> shard, role |-> role]

Map(kind, name, strategy, policy, routes) ==
    [scope |-> [kind |-> kind, name |-> name], strategy |-> strategy, policy |-> policy, routes |-> routes]

TwoShards(strategy) ==
    Map("global", 0, strategy, "first_match", <<Route(1, "primary"), Route(2, "replica")>>)

OneShard(shard) == Map("global", 0, "range", "reject", <<Route(shard, "primary")>>)

MCRouteMapSets ==
    {<<>>, <<OneShard(1), OneShard(2)>>, <<OneShard(1)>>, <<OneShard(2)>>,
     <<TwoShards("hash")>>, <<TwoShards("list")>>, <<TwoShards("range")>>,
     <<Map("tenant", 2, "hash", "reject", <<Route(1, "primary")>>), OneShard(2)>>,
     <<Map("table", 1, "hash", "fan_out", <<Route(2, "replica"), Route(1, "primary")>>), OneShard(1)>>}

(* Conditions in postfix order, as tokens and as the rows they select.     *)
Atoms == {<<"key=1">>, <<"key=2">>, <<"col=1">>, <<"u.key=1">>}

Conditions ==
    LET both == {a \o b \o <<op>> : a \in Atoms, b \in Atoms, op \in {"and", "or"}}
    IN  Atoms \cup both \cup {a \o <<"not">> : a \in Atoms \cup both}
              \cup {a \o b \o <<op>> : a \in Atoms, b \in both, op \in {"and", "or"}}

Rows == [key : 1 .. 3, col : 1 .. 2]

AtomTokens(a) ==
    CASE a = "key=1"   -> <<"key", "=", "1">>
      [] a = "key=2"   -> <<"key", "=", "2">>
      [] a = "col=1"   -> <<"col", "=", "1">>
      [] a = "u.key=1" -> <<"u", ".", "key", "=", "1">>

AtomRows(a) ==
    CASE a = "key=1"   -> {r \in Rows : r.key = 1}
      [] a = "key=2"   -> {r \in Rows : r.key = 2}
      [] a = "col=1"   -> {r \in Rows : r.col = 1}
      [] a = "u.key=1" -> Rows

(* The condition written out, an operand in parentheses where it must be:  *)
(* top is the operator of the text so far.                                 *)
Written(c) ==
    LET paren(x, ops) == IF x.top \in ops THEN <<"(">> \o x.text \o <<")">> ELSE x.text
        step[i \in 0 .. Len(c)] ==
          IF i = 0
            THEN <<>>
            ELSE LET st == step[i - 1]
                     n  == Len(st)
                     push(x, k) == Append(SubSeq(st, 1, n - k), x)
                 IN  CASE c[i] = "and" -> push([top |-> "and", text |-> paren(st[n - 1], {"or"}) \o <<"and">>
                                                  \o paren(st[n], {"or"}),
                                                rows |-> st[n - 1].rows \cap st[n].rows], 2)
                       [] c[i] = "or"  -> push([top |-> "or", text |-> st[n - 1].text \o <<"or">> \o st[n].text,
                                                rows |-> st[n - 1].rows \cup st[n].rows], 2)
                       [] c[i] = "not" -> push([top |-> "not", text |-> <<"not">> \o paren(st[n], {"and", "or"}),
                                                rows |-> Rows \ st[n].rows], 1)
                       [] OTHER        -> push([top |-> "atom", text |-> AtomTokens(c[i]),
                                                rows |-> AtomRows(c[i])], 0)
    IN  step[Len(c)][1]

(* A statement and the keys of the rows it touches.                        *)
Statement(verb, table, set, where, columns, rows, touched) ==
    [verb |-> verb, table |-> table, set |-> set, where |-> where, columns |-> columns, rows |-> rows,
     touched |-> touched]

Where(verb, c) ==
    LET w == Written(c)
    IN  Statement(verb, 1, <<>>, w.text, <<>>, <<>>, {r.key : r \in w.rows})

(* SET moves the rows that WHERE selects to the key it assigns.            *)
Update(set, moved, c) ==
    LET w == Written(c)
    IN  Statement("update", 1, set, w.text, <<>>, <<>>, {r.key : r \in w.rows} \cup moved)

Insert(columns, rows, touched) == Statement("insert", 1, <<>>, <<>>, columns, rows, touched)

(* WHERE text that is no condition over columns alone.                     *)
Raw(table, where, touched) == Statement("select", table, <<>>, where, <<>>, <<>>, touched)

Simple == {c \in Conditions : Len(c) <= 3}

MCStatements ==
    {Where("select", c) : c \in Conditions}
    \cup {Where("delete", c) : c \in Simple}
    \cup {Update(<<"col", "=", "1">>, {}, c) : c \in Simple}
    \cup {Update(<<"key", "=", "2", ",", "col", "=", "1">>, {2}, c) : c \in Simple}
    \cup {Insert(<<"col", "key">>, <<<<"2", "1">>>>, {1}),
          Insert(<<"col", "key">>, <<<<"2", "1">>, <<"1", "1">>>>, {1}),
          Insert(<<"key", "col">>, <<<<"1", "1">>, <<"2", "1">>>>, {1, 2}),
          Insert(<<"key">>, <<<<"$1">>>>, 1 .. 3), Insert(<<"col">>, <<<<"1">>>>, 1 .. 3),
          Insert(<<>>, <<<<"1", "2">>>>, {1})}
    \cup {Raw(1, <<>>, 1 .. 3), Raw(2, <<"key", "=", "1">>, {1}), Raw(3, <<"key", "=", "1">>, {1}),
          Raw(1, <<"key", "=", "$1">>, 1 .. 3), Raw(1, <<"key", "=", "1", ".", "col">>, 1 .. 3),
          Raw(1, <<"key", "=", "'1'">>, {1}), Raw(1, <<"key", "=", "'2'", "returning", "col">>, {2})}

Comment(kind, value) == [kind |-> kind, value |-> value]

MCComments ==
    {<<>>} \cup {<<Comment(k, v)>> : k \in {"shard", "tenant", "route"}, v \in 1 .. 3}
    \cup {<<Comment("plain", 0)>>, <<Comment("bare", 0)>>, <<Comment("bad", 0)>>,
          <<Comment("plain", 0), Comment("shard", 2)>>, <<Comment("bare", 0), Comment("shard", 1)>>,
          <<Comment("bad", 0), Comment("shard", 1)>>}

Request(comments, stmt, role, fallback) ==
    [comments |-> comments, stmt |-> stmt, role |-> role, fallback |-> fallback]

MCRequests ==
    {Request(<<>>, stmt, "primary", "primary") : stmt \in MCStatements}
    \cup {Request(comments, Where("select", c), role, fallback) :
            comments \in MCComments, c \in {<<"key=1">>, <<"col=1">>},
            role \in {"primary", "replica"}, fallback \in {"primary", "reject"}}

KeysUsed == [type : {"integer", "text"}, value : 0 .. 3]

Ranges == [lower : [type : {"integer"}, value : 1 .. 2], li : BOOLEAN,
           upper : [type : {"integer"}, value : 1 .. 3], ui : BOOLEAN]

TextRange == [lower |-> [type |-> "text", value |-> 1], li |-> TRUE,
              upper |-> [type |-> "text", value |-> 2], ui |-> TRUE]

MCRangeSets == {<<>>} \cup {<<r, s>> : r \in Ranges, s \in Ranges \cup {TextRange}}

Lists == SUBSET {[type |-> "integer", value |-> 1], [type |-> "integer", value |-> 2],
                 [type |-> "text", value |-> 1]}

MCListSets == {<<>>} \cup {<<l, m>> : l \in Lists, m \in Lists}

(* Files for the preview: maps of every scope, two of one table or one     *)
(* tenant with and without priorities, names in capitals.                  *)
PreviewMap(kind, name, strategy, priority, targets) ==
    [scope |-> [kind |-> kind, name |-> name], strategy |-> strategy, priority |-> priority, targets |-> targets]

Shard12 == <<Route(1, "primary"), Route(2, "replica")>>
Shard3  == <<Route(3, "replica")>>

PreviewMaps ==
    {PreviewMap(scope[1], scope[2], "hash", priority, targets) :
        scope \in {<<"login", 1>>, <<"application", 11>>, <<"tenant", 1>>, <<"tenant", 13>>, <<"table", 1>>},
        priority \in {-1, 5, 9}, targets \in {Shard12, Shard3}}
    \cup {PreviewMap("login", 1, "list", 5, targets) :
             targets \in {<<>>, <<Route(0, "primary")>>, <<Route(1, "primary"), Route(1, "replica")>>, Shard12}}

MCPreviewFiles ==
    {[enabled |-> enabled, policy |-> policy, maps |-> <<m>>] :
        enabled \in BOOLEAN, policy \in {"reject", "first_match"}, m \in PreviewMaps}
    \cup {[enabled |-> TRUE, policy |-> "first_match", maps |-> <<m, n>>] : m \in PreviewMaps, n \in PreviewMaps}

MCPreviewRequests ==
    {[login |-> 11, application |-> application, comments |-> comments, stmt |-> Where("select", c), reads |-> TRUE] :
        application \in 0 .. 1, comments \in {<<>>, <<Comment("shard", 1)>>, <<Comment("tenant", 3)>>, <<Comment("bad", 0)>>},
        c \in {<<"key=1">>, <<"col=1">>}}
    \cup {[login |-> login, application |-> 0, comments |-> <<>>, stmt |-> Where("delete", <<"key=2">>), reads |-> FALSE] :
             login \in 1 .. 2}

MCHash == [k \in KeysUsed |-> k.value]
MCShardIds == 1 .. 2
MCTables == <<1, 2, 2>>

----------------------------------------------------------------------------
(* The instance of PoolRegistry: no pools configured and two replicas, two  *)
(* routes on every core, three routes under io_uring of which two have the  *)
(* address of the default connection.                                      *)
K1 == <<"d1", "u1">>
K2 == <<"d1", "u2">>
K3 == <<"d2", "u2">>

TokioSetup == [engine |-> "tokio", pools |-> << >>, replicas |-> 2, keys |-> {K1}]
CoresSetup == [engine |-> "cores", pools |-> K1 :> 0 @@ K2 :> 0, replicas |-> 0, keys |-> {K1, K2, K3}]
UringSetup == [engine |-> "io_uring", pools |-> K1 :> 0 @@ K2 :> 3 @@ K3 :> 0, replicas |-> 0,
               keys |-> {K1, K2, K3}]

R == INSTANCE PoolRegistry WITH
       Session <- Sessions, Setups <- {TokioSetup, CoresSetup, UringSetup}, MaxMade <- 2

----------------------------------------------------------------------------
(* The instance of SqlText: statements of every kind, alone or after one   *)
(* another, with literals, names and remarks full of quotes, semicolons    *)
(* and comment marks.                                                      *)

W(w) == [kind |-> "word", lex |-> <<w>>]
L(lex) == [kind |-> "literal", lex |-> lex]
Y(s) == [kind |-> "symbol", lex |-> <<s>>]

Number == L(<<"1">>)
Quoted == L(<<"'", ";", "'", "'", "sp", "into", "sp", "--", "'">>)
Named == L(<<"dq", "'", "dq", "dq", ";", "/*", "dq">>)
Param == [kind |-> "param", lex |-> <<"$", "1">>]
Dollars == [kind |-> "dollar", lex |-> <<"$", "$", "'", ";", "$", "$">>]
LineComment == [kind |-> "comment", lex |-> <<"--", "'", ";", "primary hint", "nl">>]
BlockComment == [kind |-> "comment", lex |-> <<"/*", "sp", "where", "primary hint", ";", "dq", "--", "*/">>]
HintComment == [kind |-> "hint", lex |-> <<"/*", "sp", "replica hint", "nl", "*/">>]

Known(does, open, fragments) == [does |-> does, open |-> open, fragments |-> fragments]

PlainStatements ==
    {Known("read", FALSE, s) : s \in {
        <<W("select"), Number>>, <<W("select"), Quoted, W("from"), Named>>,
        <<W("select"), W("x"), W("where"), W("x"), W("in"), Y("("), Number, Y(","), Quoted, Y(")")>>,
        <<W("select"), Param, Y(","), Dollars>>,
        <<W("show"), W("x")>>, <<W("copy"), W("x"), W("to"), W("stdout")>>,
        <<W("explain"), W("select"), Number>>,
        <<W("explain"), Y("("), W("verbose"), Y(")"), W("select"), Number>>,
        <<W("with"), W("x"), W("as"), Y("("), W("select"), Number, Y(")"), W("select"), Number>>}}
    \cup {Known("write", FALSE, s) : s \in {
        <<W("insert"), W("into"), W("x"), W("values"), Y("("), Quoted, Y(")")>>,
        <<W("delete"), W("from"), W("x"), W("where"), W("x"), Y("="), Number>>,
        <<W("update"), W("x"), W("set"), W("x"), Y("="), Quoted, W("where"), Named>>,
        <<W("select"), W("x"), W("into"), Named>>, <<W("select"), Quoted, W("for"), W("update")>>,
        <<W("select"), W("pg_advisory_lock"), Y("("), Number, Y(")")>>,
        <<W("with"), W("x"), W("as"), Y("("), W("insert"), W("into"), W("x"), Y(")"), W("select"), Number>>,
        <<W("copy"), W("x"), W("from"), W("stdin")>>, <<W("create"), W("x")>>,
        <<W("explain"), W("analyze"), W("insert"), W("into"), W("x")>>,
        <<W("explain"), Y("("), W("analyze"), Y(")"), W("insert"), W("into"), W("x")>>}}
    \cup {Known("write", TRUE, s) : s \in {
        <<W("delete"), W("from"), Named>>, <<W("update"), W("x"), W("set"), W("x"), Y("="), Quoted>>,
        <<W("update"), W("x"), W("set"), W("x"), Y("="), Y("("), W("select"), W("x"), W("where"), Quoted, Y(")")>>}}
    \cup {Known("transaction", FALSE, s) : s \in {
        <<W("begin")>>, <<W("begin"), W("read"), W("only")>>, <<W("commit")>>, <<W("rollback"), W("to"), W("x")>>}}
    \cup {Known("session", FALSE, s) : s \in {<<W("set"), W("x"), Y("="), Number>>, <<W("listen"), Named>>}}

(* A remark before any fragment of a statement. *)
Remarked(s) ==
    {[s EXCEPT !.fragments = SubSeq(@, 1, i - 1) \o <<c>> \o SubSeq(@, i, Len(@))] :
        i \in 1..Len(s.fragments), c \in {LineComment, BlockComment, HintComment}}

Remarks == UNION {Remarked(s) : s \in PlainStatements}

(* One statement of each kind. *)
Samples ==
    {Known("read", FALSE, <<W("select"), Quoted, W("from"), Named>>), Known("write", TRUE, <<W("delete"), W("from"), Named>>),
     Known("transaction", FALSE, <<W("commit")>>), Known("session", FALSE, <<W("listen"), Named>>)}

MCQueries ==
    {[statements |-> <<s>>, closed |-> closed] : s \in PlainStatements \cup Remarks, closed \in BOOLEAN}
    \cup {[statements |-> <<[s EXCEPT !.fragments = <<BlockComment>> \o @]>>, closed |-> TRUE] : s \in Remarks}
    \cup {[statements |-> <<s, t>>, closed |-> TRUE] : s \in PlainStatements, t \in PlainStatements}
    \cup {[statements |-> <<s, t>>, closed |-> FALSE] : s \in Samples, t \in Remarks}
    \cup {[statements |-> <<r, s, t>>, closed |-> FALSE] : r \in Samples, s \in PlainStatements, t \in Samples}

Q == INSTANCE SqlText WITH Queries <- MCQueries, MaxFingerprint <- 12

----------------------------------------------------------------------------
(* The maps that reloads bring: every set of shards, and what is refused.  *)
ReloadedMaps ==
    {<<>>, <<OneShard(1), OneShard(2)>>, <<OneShard(1)>>, <<OneShard(2)>>, <<TwoShards("hash")>>}

AModule == [shape |-> TRUE, abi |-> 1, code |-> 0]

(* What a pure function answers does not depend on what else goes on, so   *)
(* each module's answers are a part of their own, in any state that the    *)
(* answers depend on.                                                      *)
MCInit ==
    /\ part \in {"policy", "rules", "shards", "plans", "previews", "pools", "texts"}
    /\ P!Init
    /\ Init
    /\ R!RegInit
    /\ Q!SqlInit
    /\ part # "pools" => setup = TokioSetup
    /\ part \in {"shards", "plans", "previews", "pools", "texts"} => module = AModule
    /\ part = "rules" => module.code = 0 /\ module.abi = 1
    /\ part \in {"policy", "rules", "previews", "pools", "texts"} => routeMaps = <<OneShard(1)>>
    /\ part = "shards" => routeMaps \in ReloadedMaps

(* Every session has left and the pass is over, or the query was read, or  *)
(* the preview printed.                                                    *)
Done ==
    /\ \/ part = "pools" /\ pass.at = "over" /\ \A s \in Sessions : user[s].pc = "gone"
       \/ part = "texts" /\ query # Q!NoQuery
       \/ part = "previews" /\ answer # NoAnswer
    /\ UNCHANGED <<part, policyVars, vars, poolVars, query>>

MCNext ==
    \/ part = "policy" /\ P!StoreNext /\ UNCHANGED <<part, vars, poolVars, query>>
    \/ part = "rules" /\ P!AnswerNext /\ UNCHANGED <<part, vars, poolVars, query>>
    \/ /\ part = "shards" /\ StoreNext /\ UNCHANGED <<part, policyVars, poolVars, query>>
       /\ \A t \in Sessions \cup Operators : call'[t].next \in ReloadedMaps
    \/ part = "plans" /\ AnswerNext /\ UNCHANGED <<part, policyVars, poolVars, query>>
    \/ part = "previews" /\ PreviewNext /\ UNCHANGED <<part, policyVars, poolVars, query>>
    \/ part = "pools" /\ R!RegNext /\ UNCHANGED <<part, policyVars, vars, query>>
    \/ part = "texts" /\ Q!SqlNext /\ UNCHANGED <<part, policyVars, vars, poolVars>>
    \/ Done

MCvars == <<part, policyVars, vars, poolVars, query>>

MCSpec == MCInit /\ [][MCNext]_MCvars

----------------------------------------------------------------------------
(* The types of all parts. *)
MCTypeOK == P!TypeOK /\ TypeOK /\ R!RegTypeOK /\ Q!SqlTypeOK

(* Traffic policy decides as configured (Policy): a generation names one   *)
(* configuration; a failed evaluation under enforce denies and only        *)
(* enforce changes a target; no action keeps a replica that is not safe; a *)
(* module is checked when it is loaded, not only at reload; a rule set     *)
(* applies its first terminal match or its last match, and no validated    *)
(* rule matches everything; a context fits its limit and loses only its    *)
(* end; and the preview accepts what a reload accepts.                     *)
PolicyDecides ==
    /\ P!GenerationNamesConfig
    /\ P!FailsClosed /\ P!OnlyEnforceActs
    /\ P!UnsafeReplicaGivenUp /\ P!ModuleCheckedAgain
    /\ P!FirstTerminalDecides /\ P!RulesSelective
    /\ P!ContextFits /\ P!PreviewAcceptsReloadable

(* Every route map of the file that covers the request, in the order of    *)
(* their priorities.                                                       *)
AllMaps(file, request) ==
    LET tables   == PreviewTables(file.maps)
        covering == SelectSeq(file.maps, LAMBDA m : PreviewMatches(m, request, tables))
        places   == SortSeq([i \in DOMAIN covering |-> i],
                            LAMBDA i, j : \/ Precedence(covering[i]) < Precedence(covering[j])
                                          \/ Precedence(covering[i]) = Precedence(covering[j]) /\ i < j)
    IN  [i \in DOMAIN places |-> BuildPreviewMap(covering[places[i]], file.policy)]

(* A preview plans with one route map only, and still a shard that it      *)
(* names is the one that the planner chooses from all the maps that cover  *)
(* the request: selecting the map first, ignoring case, leads to no other  *)
(* shard than the planner's search for the hinted one (preview_route,      *)
(* select_preview_route_map against plan_sharded_route).                   *)
PreviewIsThePlan ==
    answer.kind = "preview" /\ answer.summary.shard # 0 =>
       answer.summary.shard =
          PlanShardedRoute(AllMaps(answer.file, answer.request), PreviewTables(answer.file.maps),
                           [comments |-> answer.request.comments, stmt |-> answer.request.stmt,
                            role |-> "primary"]).route.shard

(* A session is given backends of its own route only, two sessions that    *)
(* miss a pool at once end up with one, and a pass leaves no backend that  *)
(* was idle when it began (PoolRegistry).                                  *)
PoolsOwned == part = "pools" => R!OwnRoute /\ R!OnePoolPerSlot /\ R!PassRetires

(* Every row that the statement of the answer touches has the key that was *)
(* extracted from it.                                                      *)
Sound ==
    answer.kind = "plan" =>
       LET k == ExtractShardKey(answer.request.stmt, ShardedTables)
       IN  k # NoKey => answer.request.stmt.touched \subseteq {k.value}

(* A statement over one relation, without negation, that assigns no key    *)
(* touches only rows of the shard key that extract_shard_key reads out of  *)
(* it, whatever AND, OR and parentheses it is made of, in all four verbs.  *)
PlainExtractionSound ==
    answer.kind = "plan"
      /\ (\A i \in DOMAIN answer.request.stmt.where : answer.request.stmt.where[i] \notin {"not", "u"})
      /\ (\A i \in DOMAIN answer.request.stmt.set : answer.request.stmt.set[i] # "key")
         => Sound

(* What the proxy reads out of SQL text is in it (SqlText): a query is     *)
(* split where its statements end, one classified as a read only reads,    *)
(* the hint is the first leading comment that is one, unqualified DML is   *)
(* the DML without a WHERE of its own, the fingerprint does not depend on  *)
(* literals and comments; and a key is the key of the rows.                *)
TextsRead ==
    /\ part = "texts" =>
         /\ Q!SplitExact /\ Q!ReadsAreReads /\ Q!HintLeads
         /\ Q!UnqualifiedExact /\ Q!FingerprintStable
    /\ PlainExtractionSound

----------------------------------------------------------------------------
(* What the documents say and these models do not do (README, section 6).  *)

(* The same of every statement: what docs/sharding.md says of extraction,  *)
(* "ambiguous expressions are rejected".                                   *)
ExtractionSound == Sound

(* Sharding enabled, a statement that no shard is found for is refused:    *)
(* docs/sharding.md, "multi-shard behavior must fail closed".              *)
MultiShardFailsClosed ==
    answer.kind = "plan" /\ answer.decision.route.shard = 0 => answer.target = "reject"

(* Two maps of one table, told apart by a priority, route a statement on   *)
(* that table whose key is plain: docs/configuration.md says that strict   *)
(* reloads reject "overlapping route maps without explicit priority", so   *)
(* maps with one are there to be used.                                     *)
OverlapDecided ==
    answer.kind = "preview" /\ answer.file.enabled /\ ValidSharding(answer.file)
      /\ answer.request.comments = <<>>
      /\ (\E i \in DOMAIN answer.file.maps :
             /\ answer.file.maps[i].scope = [kind |-> "table", name |-> answer.request.stmt.table]
             /\ answer.file.maps[i].strategy = "hash"
             /\ ExtractShardKey(answer.request.stmt, <<answer.request.stmt.table>>) # NoKey)
         => answer.summary.shard # 0 \/ answer.summary.reason = "multi_shard_rejected"

(* A pass retires the idle backends of the io_uring pools (PoolRegistry).  *)
PassRetiresAll == part = "pools" => R!PassRetiresAll

(* Backends of the own route, under io_uring too (PoolRegistry).           *)
UringOwnRoute == part = "pools" => R!UringOwnRoute

(* Reads are reads with comments anywhere (SqlText).                       *)
CommentedReadsAreReads == part = "texts" => Q!CommentedReadsAreReads

(* COPY and transaction control stay on the primary (SqlText).             *)
StaysOnPrimary == part = "texts" => Q!StaysOnPrimary

(* Fingerprints of queries with several parameters too (SqlText).          *)
AllFingerprintsStable == part = "texts" => Q!AllFingerprintsStable
=============================================================================
