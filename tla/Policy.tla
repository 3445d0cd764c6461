------------------------------- MODULE Policy -------------------------------
(***************************************************************************)
(* Traffic policy: the store of policy snapshots and its reload, the       *)
(* evaluation of an inline or WebAssembly rule under one snapshot, what    *)
(* becomes of a failed evaluation, and the routing target that results     *)
(* (routing/policy.rs, routing/policy_wasm.rs, routing.rs, checkout.rs);   *)
(* with them the declarative rule sets of policy_rule.rs, the fitting of   *)
(* the context to its size limit, and the preview.                         *)
(*                                                                         *)
(* PolicyStore::reload holds the write lock from the read of the current   *)
(* generation to the swap, so it is one action.  An evaluation holds the   *)
(* snapshot it took while reloads go on, and loads the module from disk    *)
(* when it runs: the file may have been replaced since reload checked it.  *)
(*                                                                         *)
(* A routing target is "primary", "wait", "reject", "denied", "replica"    *)
(* (healthy, no split brain, within the configured freshness) or "stale"   *)
(* (a replica that is not).                                                *)
(***************************************************************************)
EXTENDS Integers, Sequences, FiniteSets, SequencesExt

CONSTANTS Configs,        \* the policy configurations that may be offered
          RouteSets,      \* the active routes a reload may be validated with
          ShardSets,      \* the active shards
          Modules,        \* the contents the module file may have
          WasmFeature,    \* whether the crate is built with policy-wasm
          RuleSets,       \* declarative rule sets
          RuleContexts,   \* contexts they are evaluated in
          ContextFields,  \* fields of an evaluation context, as sequences of
                          \*   [name |-> length, value |-> length]
          ContextLimits,  \* policy_max_context_bytes
          MaxGeneration   \* bound: reloads that succeed

VARIABLES current,    \* PolicyStore: the generation and the configuration
          published,  \* history: the first configuration of every generation
          module,     \* the WebAssembly module on disk
          eval,       \* an evaluation in progress
          answer      \* what a pure function has just returned

vars == <<current, published, module, eval, answer>>

Modes == {"disabled", "enforce", "dry_run"}

FailureModes == {"default", "fail_closed", "fail_open", "disable_policy"}

Targets == {"primary", "replica", "stale", "wait", "reject", "denied"}

NoEval == [pc |-> "idle"]

NoAnswer == [kind |-> "none"]

----------------------------------------------------------------------------
(* Validation of a configuration, and the store. *)

(* validate_module_shape and validate_module_abi, at reload and at load.   *)
ModuleLoads(m) == m.shape /\ m.abi = 1

(* PolicyConfig::validate_internal of one rule.                            *)
RuleInternallyValid(config, rule) ==
    CASE rule.action = "deny" -> rule.target # ""
      [] rule.action = "wasm" -> config.wasm /\ WasmFeature /\ ModuleLoads(module)
      [] OTHER                -> TRUE

(* validate_with_context: every override names an active route or, with    *)
(* sharding enabled, an active shard.                                      *)
ValidateWithContext(config, routes, sharding, shards) ==
    \A i \in DOMAIN config.rules :
       LET rule == config.rules[i]
       IN  /\ RuleInternallyValid(config, rule)
           /\ rule.action = "route_override" => rule.target \in routes
           /\ rule.action = "shard_override" /\ sharding => rule.target \in shards

(* PolicyGeneration::next *)
NextGeneration(g) == g + 1

(* PolicyStore::reload, from reload_policy_once.                           *)
Reload(config, routes, sharding, shards) ==
    LET g == NextGeneration(current.generation)
    IN  /\ current.generation < MaxGeneration
        /\ ValidateWithContext(config, routes, sharding, shards)
        /\ current' = [generation |-> g, config |-> config]
        /\ published' = IF g \in DOMAIN published
                          THEN published
                          ELSE [h \in DOMAIN published \cup {g} |->
                                  IF h = g THEN config ELSE published[h]]
        /\ UNCHANGED <<module, eval, answer>>

(* The module file is replaced on disk: outside the proxy.                 *)
ReplaceModule(m) ==
    /\ m # module
    /\ module' = m
    /\ UNCHANGED <<current, published, eval, answer>>

----------------------------------------------------------------------------
(* One evaluation. *)

(* PolicyStore::runtime: PolicyRuntime::from_config of one snapshot; the   *)
(* caller may set the failure mode (with_policy_failure_mode).             *)
TakeRuntime(failureMode) ==
    /\ eval = NoEval
    /\ eval' = [pc |-> "runtime", generation |-> current.generation,
                config |-> current.config, failureMode |-> failureMode]
    /\ UNCHANGED <<current, published, module, answer>>

(* PolicyFailureMode::default_for_policy_mode *)
DefaultFailureMode(mode) == IF mode = "enforce" THEN "fail_closed" ELSE "disable_policy"

FailureMode(e) ==
    IF e.failureMode = "default" THEN DefaultFailureMode(e.config.mode) ELSE e.failureMode

(* policy_failure_action_for_error: PolicyFailureMode::fallback_action.    *)
FailureAction(e) ==
    CASE FailureMode(e) = "fail_closed" -> "deny"
      [] FailureMode(e) = "fail_open"   -> "allow"
      [] OTHER                          -> "none"

(* policy_action_from_code: the codes 0 to 3, and no other.                *)
CodeActions == <<"allow", "deny", "require_primary", "require_replica">>

(* Running a module without checking the file again.                       *)
UncheckedWasmResults(e) ==
    IF e.config.wasm /\ module.code \in 0 .. 3
      THEN {CodeActions[module.code + 1], "error"}
      ELSE {"error"}

(* evaluate_wasm_policy: what it may return.  The module is loaded and     *)
(* checked again; too large an input, too small a memory, a trap or the    *)
(* fuel running out, an output or a duration over the limit all fail, and  *)
(* any of them may (error).                                                *)
WasmResults(e) ==
    IF e.config.wasm /\ WasmFeature /\ ModuleLoads(module) /\ module.code \in 0 .. 3
      THEN {CodeActions[module.code + 1], "error"}
      ELSE {"error"}

(* The rule's own action, or what its module or its failure makes of it.   *)
Evaluate(i, result) ==
    /\ eval.pc = "runtime"
    /\ i \in DOMAIN eval.config.rules
    /\ LET rule == eval.config.rules[i]
       IN  /\ result \in IF rule.action = "wasm" THEN WasmResults(eval) ELSE {rule.action}
           /\ eval' = [pc |-> "decided", generation |-> eval.generation, config |-> eval.config,
                       failureMode |-> eval.failureMode, rule |-> rule, result |-> result,
                       sound |-> ModuleLoads(module),
                       action |-> IF result = "error" THEN FailureAction(eval) ELSE result]
    /\ UNCHANGED <<current, published, module, answer>>

(* ensure_policy_action_target_is_safe: a replica that is not safe is      *)
(* given up for what choose_routing_target says (chosen).                  *)
EnsureSafe(target, chosen) == IF target = "stale" THEN chosen ELSE target

(* apply_policy_action_to_routing_target, and the sharded twin of it.      *)
(* required is what a planner that requires a replica chooses.             *)
ApplyPolicyAction(action, target, required, chosen) ==
    EnsureSafe(
      CASE action = "deny"            -> "denied"
        [] action = "require_primary" -> "primary"
        [] action = "require_replica" -> IF required = "wait" THEN "reject" ELSE required
        [] OTHER                      -> target,
      chosen)

(* apply_policy_action_to_routing_target_with_mode: only enforce acts.     *)
ApplyWithMode(mode, action, target, required, chosen) ==
    IF mode = "enforce" THEN ApplyPolicyAction(action, target, required, chosen) ELSE target

(* choose_routing_target returns no "denied", and a stale replica only     *)
(* where a hint weakens the freshness that is required.                    *)
Apply(target, required, chosen) ==
    /\ eval.pc = "decided"
    /\ eval' = [pc |-> "done", generation |-> eval.generation, config |-> eval.config,
                failureMode |-> eval.failureMode, rule |-> eval.rule, result |-> eval.result,
                sound |-> eval.sound, action |-> eval.action,
                before |-> target, chosen |-> chosen,
                target |-> ApplyWithMode(eval.config.mode, eval.action, target, required, chosen)]
    /\ UNCHANGED <<current, published, module, answer>>

Finish ==
    /\ eval.pc = "done"
    /\ eval' = NoEval
    /\ UNCHANGED <<current, published, module, answer>>

----------------------------------------------------------------------------
(* Declarative rule sets. *)

(* PolicyRuleMatch::matches: a criterion that names values needs one of    *)
(* them in the context (an absent optional value has none); raw_sql_text   *)
(* is not looked at.                                                       *)
RuleMatches(rule, context) ==
    \A c \in DOMAIN rule.criteria :
       rule.criteria[c] = {} \/ rule.criteria[c] \cap context[c] # {}

(* PolicyRuleMatch::is_empty and PolicyRuleValidator::validate_rule.       *)
ValidRule(rule) ==
    /\ \E c \in DOMAIN rule.criteria : rule.criteria[c] # {}
    /\ ~rule.raw

(* PolicyRuleValidator::validate: rules, each of them valid, no id twice.  *)
ValidRuleSet(rules) ==
    /\ rules # <<>>
    /\ \A i \in DOMAIN rules : ValidRule(rules[i])
    /\ \A i, j \in DOMAIN rules : rules[i].id = rules[j].id => i = j

NothingApplied == [matched |-> <<>>, applied |-> "none", terminated |-> FALSE]

(* PolicyRuleSet::evaluate: every match in order is the one applied, until *)
(* a terminal one.                                                         *)
ApplyRule(context, result, rule) ==
    IF result.terminated \/ ~RuleMatches(rule, context)
      THEN result
      ELSE [matched |-> Append(result.matched, rule.id),
            applied |-> rule.action,
            terminated |-> rule.terminal]

EvaluateRules(rules, context) ==
    FoldLeft(LAMBDA result, rule : ApplyRule(context, result, rule), NothingApplied, rules)

EvaluateRuleSet(rules, context) ==
    /\ ValidRuleSet(rules)
    /\ answer' = [kind |-> "rules", rules |-> rules, context |-> context,
                  result |-> EvaluateRules(rules, context)]
    /\ UNCHANGED <<current, published, module, eval>>

----------------------------------------------------------------------------
(* The context of an evaluation. *)

(* rendered_fields_len_bytes: name=value, two bytes between fields.        *)
Rendered(fields) ==
    FoldLeft(LAMBDA n, f : n + f.name + 1 + f.value, 0, fields)
      + (IF fields = <<>> THEN 0 ELSE 2 * (Len(fields) - 1))

(* fit_context_fields: the longest prefix that fits, the first field being *)
(* cut (at the boundary of a character of up to four bytes) or dropped     *)
(* when it does not fit alone.                                             *)
FitContextFields(fields, max) ==
    LET fitting == {n \in 1 .. Len(fields) : Rendered(SubSeq(fields, 1, n)) <= max}
        room    == max - fields[1].name - 1
    IN  IF fields = <<>>
          THEN {fields}
          ELSE IF max # 0 /\ fitting # {}
            THEN {SubSeq(fields, 1, CHOOSE n \in fitting : \A m \in fitting : m <= n)}
            ELSE IF room > 0
              THEN {<<[fields[1] EXCEPT !.value = v]>> : v \in {v \in room - 3 .. room : v >= 0}}
              ELSE {<<>>}

BuildContext(fields, max, result) ==
    /\ result \in FitContextFields(fields, max)
    /\ answer' = [kind |-> "context", fields |-> fields, max |-> max, result |-> result]
    /\ UNCHANGED <<current, published, module, eval>>

----------------------------------------------------------------------------
(* The preview. *)

Overrides(config, action) ==
    {config.rules[i].target : i \in {j \in DOMAIN config.rules : config.rules[j].action = action}}

(* synthetic_routes and synthetic_shards: whatever the rules name.         *)
SyntheticRoutes(config) == Overrides(config, "route_override")

SyntheticShards(config) == Overrides(config, "shard_override")

(* preview_policy: the first rule of the hook before routing, whether it   *)
(* matches or not; a module cannot be previewed.                           *)
PreviewPolicy(config, sharding) ==
    LET rules == SelectSeq(config.rules, LAMBDA r : r.hook = "before_routing")
    IN  CASE ~ValidateWithContext(config, SyntheticRoutes(config), sharding, SyntheticShards(config))
               -> "invalid"
          [] rules = <<>> -> "allow"
          [] OTHER -> IF Head(rules).action = "wasm" THEN "unsupported" ELSE Head(rules).action

Preview(config, sharding) ==
    /\ answer' = [kind |-> "preview", config |-> config, result |-> PreviewPolicy(config, sharding),
                  reloads |-> \E routes \in RouteSets, shards \in ShardSets :
                                 ValidateWithContext(config, routes, sharding, shards)]
    /\ UNCHANGED <<current, published, module, eval>>

Read ==
    /\ answer # NoAnswer
    /\ answer' = NoAnswer
    /\ UNCHANGED <<current, published, module, eval>>

----------------------------------------------------------------------------
Init ==
    /\ \E config \in Configs :
          /\ config.rules = <<>>
          /\ current = [generation |-> 0, config |-> config]
          /\ published = [g \in {0} |-> config]
    /\ module \in Modules
    /\ eval = NoEval
    /\ answer = NoAnswer

StoreNext ==
    \/ \E config \in Configs, routes \in RouteSets, sharding \in BOOLEAN, shards \in ShardSets :
          Reload(config, routes, sharding, shards)
    \/ \E m \in Modules : ReplaceModule(m)
    \/ \E f \in FailureModes : TakeRuntime(f)
    \/ \E i \in 1 .. 2, result \in {CodeActions[n] : n \in 1 .. 4}
                                     \cup {"route_override", "shard_override", "error"} :
          Evaluate(i, result)
    \/ \E target, chosen \in Targets \ {"denied"},
         required \in {"replica", "stale", "primary", "wait", "reject"} :
          Apply(target, required, chosen)
    \/ Finish

AnswerNext ==
    \/ /\ answer = NoAnswer
       /\ \/ \E context \in RuleContexts, rules \in RuleSets : EvaluateRuleSet(rules, context)
          \/ \E max \in ContextLimits, fields \in ContextFields :
                \E result \in FitContextFields(fields, max) : BuildContext(fields, max, result)
          \/ \E config \in Configs, sharding \in BOOLEAN : Preview(config, sharding)
    \/ Read

Next == StoreNext \/ AnswerNext

Spec == Init /\ [][Next]_vars

----------------------------------------------------------------------------
TypeOK ==
    /\ current \in [generation : 0 .. MaxGeneration, config : Configs]
    /\ DOMAIN published = 0 .. current.generation
    /\ module \in Modules
    /\ eval.pc \in {"idle", "runtime", "decided", "done"}

(* A generation names one configuration: an evaluation that began under    *)
(* any snapshot, however many reloads ago, runs the configuration that was *)
(* first published under its generation (PolicyStore::reload, snapshot).   *)
GenerationNamesConfig ==
    /\ published[current.generation] = current.config
    /\ eval.pc # "idle" => published[eval.generation] = eval.config

(* Under enforce, an evaluation that fails lets nothing through unless the *)
(* caller asked for it: the target is denied                               *)
(* (PolicyFailureMode::default_for_policy_mode, fallback_action).          *)
FailsClosed ==
    eval.pc = "done" /\ eval.config.mode = "enforce" /\ eval.result = "error"
      /\ eval.failureMode \in {"default", "fail_closed"}
         => eval.target = "denied"

(* A rule acts in enforce mode only: in a dry run and when disabled the    *)
(* target stands as it was, whatever a module answered                     *)
(* (apply_policy_action_to_routing_target_with_mode).                      *)
OnlyEnforceActs ==
    eval.pc = "done" /\ eval.config.mode # "enforce" => eval.target = eval.before

(* No policy action keeps, or picks, a replica that is not safe: routing   *)
(* itself must have chosen it (ensure_policy_action_target_is_safe).       *)
UnsafeReplicaGivenUp ==
    eval.pc = "done" /\ eval.config.mode = "enforce" /\ eval.target = "stale"
       => eval.chosen = "stale"

(* What a module answered was answered by a module that passes the checks  *)
(* of reload, though the file was replaced since (WasmPolicyEvaluator::load). *)
ModuleCheckedAgain ==
    eval.pc \in {"decided", "done"} /\ eval.rule.action = "wasm" /\ eval.result # "error"
       => eval.sound

(* A rule set applies the first terminal match, or the last match of all,  *)
(* and reports the matches up to it (PolicyRuleSet::evaluate).             *)
FirstTerminalDecides ==
    answer.kind = "rules" =>
       LET hits      == {i \in DOMAIN answer.rules : RuleMatches(answer.rules[i], answer.context)}
           terminal  == {i \in hits : answer.rules[i].terminal}
           decisive  == IF terminal # {}
                          THEN CHOOSE i \in terminal : \A j \in terminal : i <= j
                          ELSE IF hits # {} THEN CHOOSE i \in hits : \A j \in hits : j <= i ELSE 0
       IN  /\ answer.result.applied = IF decisive = 0 THEN "none" ELSE answer.rules[decisive].action
           /\ ToSet(answer.result.matched) = {answer.rules[i].id : i \in {j \in hits : j <= decisive}}

(* Every rule of a validated set is selective: there is a context it does  *)
(* not match (PolicyRuleValidator::validate_rule).                         *)
RulesSelective ==
    answer.kind = "rules" =>
       \A i \in DOMAIN answer.rules : \E context \in RuleContexts : ~RuleMatches(answer.rules[i], context)

(* A context never exceeds its limit, and is what was asked for but for    *)
(* fields at its end and the end of its first value (fit_context_fields).  *)
ContextFits ==
    answer.kind = "context" =>
       LET r == answer.result
       IN  /\ r # <<>> => FoldLeft(LAMBDA n, f : n + f.name + 1 + f.value, 2 * (Len(r) - 1), r) <= answer.max
           /\ Len(r) <= Len(answer.fields)
           /\ \A i \in DOMAIN r : r[i] = answer.fields[i]
                                    \/ (Len(r) = 1 /\ r[i].value < answer.fields[i].value)

(* What some reload would accept, the preview does not call invalid        *)
(* (preview_policy, synthetic_routes, synthetic_shards).                   *)
PreviewAcceptsReloadable ==
    answer.kind = "preview" /\ answer.reloads => answer.result # "invalid"
=============================================================================
