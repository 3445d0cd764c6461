---------------------------- MODULE Configuration ----------------------------
(***************************************************************************)
(* The path of a configuration file from disk to a serving proxy (main.rs, *)
(* ops/reload.rs, config.rs, proxy.rs) and the preflight command that is   *)
(* run on it beforehand (ops/preflight.rs).  main loads the file onto the  *)
(* command line, validates the result, checks the engine and builds the    *)
(* Proxy; initialize_runtime_state then loads the file a second time,      *)
(* validates again, loads the assets and builds the pools.  The operator   *)
(* may rewrite the file between the two.                                   *)
(*                                                                         *)
(* A configuration is a record of sections; a section is a record of the   *)
(* fields that a check reads.  Assets (keys, user files, the password      *)
(* variable) are "absent", "good" or "bad".                                *)
(***************************************************************************)
EXTENDS Integers, Sequences, FiniteSets

CONSTANTS
    Cli,        \* the configuration of the command line and environment
    Default,    \* Config::default()
    Documents,  \* what the file may hold at first
    Edits,      \* what the operator may replace it with
    HasIoUring  \* whether this build runs on Linux with the io-uring feature

VARIABLES
    file,       \* the configuration file
    config,     \* what main loaded, later Proxy::config
    effective,  \* what initialize_runtime_state loaded
    slots,      \* permits of Proxy::backend_slots
    stage,      \* how far the start has come
    report      \* the last preflight report on the present file

vars == <<file, config, effective, slots, stage, report>>

NotSet == -1

(* validate_pool_configs: a pool's own limit is not zero, and a database   *)
(* and user pair is named once.                                            *)
validate_pool_configs(pools) ==
    /\ \A i \in DOMAIN pools : pools[i].max_backends # 0
    /\ \A i, j \in DOMAIN pools : pools[i].id = pools[j].id => i = j

(* RuntimeEngineConfig::validate: no engine is experimental. *)
RuntimeEngineValid(c) == c.engine.runtime_shards # 0

(* toml::from_str: deserialising a Config runs these two checks. *)
Parses(d) == d.toml.well_formed /\ RuntimeEngineValid(d) /\ validate_pool_configs(d.pool.pools)

CapacityValid(c) == c.pool.max_backends # 0

AuthValid(c) ==
    LET a == c.auth IN
    /\ a.backend_user <=> a.password_env
    /\ (a.backend_user /\ a.password_env) => a.auth_mode # "pass_through"
    /\ a.auth_query_enabled => (a.backend_user /\ a.placeholders = 1)

PressureValid(c) == c.pressure.floor # 0 /\ c.pressure.window # 0 /\ c.pressure.cpu \in 0..100

(* effective_routes: without a route the backend address makes one. *)
effective_routes(c) ==
    IF c.routes.list = << >> THEN <<[weight |-> 1, max_in_flight |-> NotSet]>> ELSE c.routes.list

(* Config::validate. *)
validate(c) ==
    /\ CapacityValid(c)
    /\ AuthValid(c)
    /\ PressureValid(c)
    /\ c.resilience.breaker_failure_threshold # 0
    /\ c.resilience.failover_enabled => c.resilience.failover_max_reconnect_ms # 0
    /\ \A i \in DOMAIN effective_routes(c) :
          LET r == effective_routes(c)[i] IN r.weight # 0 /\ r.max_in_flight # 0
    /\ validate_pool_configs(c.pool.pools)

(* PoolLifecycleConfig::validate, which the constructor of a pool asserts. *)
LifecycleValid(max_size, min_idle) == max_size # 0 /\ min_idle <= max_size

(* merge_file_config: a field of the base that differs from the default    *)
(* overrides the file.                                                     *)
merge_file_config(base, f) ==
    [s \in DOMAIN f |-> [x \in DOMAIN f[s] |->
        IF base[s][x] # Default[s][x] THEN base[s][x] ELSE f[s][x]]]

(* RuntimeEngineCapabilities::validate. *)
EngineSelectable(c) == c.engine.runtime_engine = "io_uring" => HasIoUring

(* load_server_config. *)
ServerTlsLoads(t) ==
    /\ t.client_cert = "good" /\ t.client_key = "good"
    /\ t.client_tls_mode = "verify_client" => t.client_ca = "good"

(* load_backend_credentials: the pair is complete and the variable is set. *)
CredentialsLoad(a) ==
    /\ a.backend_user <=> a.password_env
    /\ a.backend_user => a.auth_mode # "pass_through" /\ a.password_set

(* validate_runtime_assets, and BackendCredentialCache::from_config.       *)
AssetsLoad(c) ==
    /\ c.tls.client_tls_mode # "disable" => ServerTlsLoads(c.tls)
    /\ c.auth.users_file # "bad"
    /\ CredentialsLoad(c.auth)

-----------------------------------------------------------------------------
(* PreflightRunner::run.  Only ConfigLoad ends the run early; warnings do  *)
(* not count as errors.                                                    *)
validate_tls(t) ==
    /\ "bad" \notin {t.client_cert, t.client_key, t.client_ca, t.backend_ca}
    /\ ( \/ t.client_tls_mode # "disable"
         \/ {t.client_cert, t.client_key, t.client_ca} # {"absent"} ) => ServerTlsLoads(t)
    /\ t.backend_tls_mode \in {"verify_ca", "verify_full"} => t.backend_ca = "good"
    /\ t.backend_tls_mode = "verify_full" => t.server_name

validate_auth(a) == a.users_file # "bad" /\ CredentialsLoad(a)

(* ShardingConfig::validate runs when the section is deserialised. *)
validate_route_maps(s) ==
    /\ \A i \in DOMAIN s.route_maps :
          LET ids == s.route_maps[i].targets
          IN ids # << >> /\ \A m, n \in DOMAIN ids : ids[m] = ids[n] => m = n
    /\ \A i, j \in DOMAIN s.route_maps :
          (i < j /\ s.route_maps[i].scope = s.route_maps[j].scope)
              => s.route_maps[i].priority \/ s.route_maps[j].priority
    /\ s.sharding_enabled => s.route_maps # << >>

(* MirrorConfig::validate and MirrorTargetConfig::validate_against. *)
validate_mirror(m) ==
    /\ m.enabled => m.target # "absent"
    /\ (m.target = "production" /\ m.require_isolated) => m.isolated

validate_lifecycle(l) ==
    /\ l.startup_grace # 0 /\ l.shutdown_grace # 0 /\ l.termination_grace # 0
    /\ l.shutdown_grace <= l.termination_grace
    /\ l.pre_stop_drain => l.pre_stop_endpoint

(* AdaptiveConfig::validate and the validators of its two sections. *)
validate_adaptive(a) ==
    /\ a.min_confidence \in 0..100 /\ a.window # 0
    /\ a.max_change_percent \in 1..100
    /\ \A i, j \in DOMAIN a.allowlist : a.allowlist[i] = a.allowlist[j] => i = j
    /\ a.mode = "apply" => (a.apply_enabled /\ a.allowlist # << >>)

validate_policies(p) == p.rules_valid /\ p.files # "bad"

preflight(d) ==
    /\ Parses(d)
    /\ EngineSelectable(d)
    /\ validate_tls(d.tls)
    /\ validate_auth(d.auth)
    /\ validate_route_maps(d.sharding)
    /\ validate_policies(d.policy)
    /\ validate_mirror(d.mirror)
    /\ validate_lifecycle(d.lifecycle)
    /\ validate_adaptive(d.adaptive)

-----------------------------------------------------------------------------
Init ==
    /\ file \in Documents
    /\ config = Cli
    /\ effective = Default
    /\ slots = 0
    /\ stage = "load"
    /\ report = "none"

Preflight ==
    /\ stage = "load" /\ report = "none"
    /\ report' = IF preflight(file) THEN "clean" ELSE "errors"
    /\ UNCHANGED <<file, config, effective, slots, stage>>

(* The operator rewrites the file; a report was about the old one. *)
Edit(d) ==
    /\ stage \notin {"serving", "failed", "panicked"}
    /\ d # file
    /\ file' = d
    /\ report' = "none"
    /\ UNCHANGED <<config, effective, slots, stage>>

Fails == stage' = "failed"

(* main: load_effective_config. *)
Load ==
    LET merged == merge_file_config(config, file) IN
    /\ stage = "load"
    /\ IF Parses(file) /\ Parses(merged)
       THEN config' = merged /\ stage' = "validate"
       ELSE Fails /\ UNCHANGED config
    /\ UNCHANGED <<file, effective, slots, report>>

(* main: Config::validate, the engine selector, then Proxy::new takes the  *)
(* permits of the backend semaphore from what main loaded.                 *)
Validate ==
    /\ stage = "validate"
    /\ IF validate(config) /\ EngineSelectable(config)
       THEN slots' = config.pool.max_backends /\ stage' = "initialize"
       ELSE Fails /\ UNCHANGED slots
    /\ UNCHANGED <<file, config, effective, report>>

(* initialize_runtime_state up to the pools: the file is read again. *)
Initialize ==
    LET merged == merge_file_config(config, file) IN
    /\ stage = "initialize"
    /\ IF Parses(file) /\ Parses(merged) /\ validate(merged) /\ AssetsLoad(merged)
       THEN effective' = merged /\ stage' = "pools"
       ELSE Fails /\ UNCHANGED effective
    /\ UNCHANGED <<file, config, slots, report>>

Least(a, b) == IF a <= b THEN a ELSE b

(* build_route_pools and build_route_pools_for_pool: the sizes the pools   *)
(* are built with.  The floor of idle backends is not lowered with them.   *)
PoolSizes(c) ==
    LET shared == Least(c.pool.pool_max_size, c.pool.max_backends) IN
    IF c.pool.pools = << >> THEN {shared}
    ELSE {IF p.max_backends = NotSet THEN shared ELSE Least(shared, p.max_backends) :
             p \in {c.pool.pools[i] : i \in DOMAIN c.pool.pools}}

(* build_route_pool_selector: a pool asserts its lifecycle section. *)
BuildPools ==
    /\ stage = "pools"
    /\ stage' = IF \A size \in PoolSizes(effective) :
                      LifecycleValid(size, effective.pool.pool_min_idle)
                THEN "serving" ELSE "panicked"
    /\ UNCHANGED <<file, config, effective, slots, report>>

Next ==
    \/ Preflight
    \/ \E d \in Edits : Edit(d)
    \/ Load \/ Validate \/ Initialize \/ BuildPools

Spec == Init /\ [][Next]_vars

-----------------------------------------------------------------------------
(* A proxy that serves does so within the assumptions its parts make,      *)
(* whatever the file held at each of the two reads: every pool has room    *)
(* for a backend and for its idle floor, the global semaphore has permits, *)
(* service credentials come as a pair that no pass-through mode            *)
(* contradicts, a lookup has credentials to run with, a route can be       *)
(* chosen and a breaker can close.                                         *)
ServesValid ==
    stage = "serving" =>
        /\ slots > 0
        /\ \A size \in PoolSizes(effective) : size > 0 /\ effective.pool.pool_min_idle <= size
        /\ effective.auth.backend_user => effective.auth.password_set
        /\ effective.auth.auth_query_enabled =>
              effective.auth.backend_user /\ effective.auth.auth_mode # "pass_through"
        /\ effective.resilience.breaker_failure_threshold > 0
        /\ \A i \in DOMAIN effective.routes.list : effective.routes.list[i].weight > 0

(* "Validate deployable config and runtime assets": a start from a file    *)
(* that preflight has reported clean does not end in an error.             *)
PreflightSound == report = "clean" => stage \notin {"failed", "panicked"}

(* "each pool is capped by the lower of this value and                     *)
(* capacity.max_backends": no accepted configuration makes the pools'      *)
(* constructor panic.                                                      *)
StartDoesNotPanic == stage # "panicked"
=============================================================================
