---------------------------- MODULE MCOperations ----------------------------
(***************************************************************************)
(* The parts of the proxy around its sessions, on small instances.  They   *)
(* share no state that a property is about: a behaviour is one of a single *)
(* part, so TLC visits the sum of their states and not the product.  The   *)
(* other parts rest in one of their initial states.                        *)
(***************************************************************************)
EXTENDS Pressure, Sequences, FiniteSets, TLC

CONSTANTS
    Unreadable,  \* a configuration file that cannot be read
    Invalid,     \* an allowlist file that does not validate
    Session, Evaluator,
    Parts        \* the parts to run, of those below

VARIABLES part,
          rFile, rBase, rActive, rLock, rCache, rSettings, rReloader, rSession, rIdle, rUsed,
          gConfig, gFile, gAllowlist, gLoaded, gObservations, gEval, gUsed,
          aConfig, aSignals, aRecommendations, aOutcomes, aPending, aTicks,
          lDrain, lState, lTask, lPublished,
          hDrain, hReachable, hStatus, hAttempt, hRequest,
          cCounter, cSent, cView, cObserver, cSink,
          nDraining, nActive, nSlots, nPaused, nConsole,
          fFile, fConfig, fEffective, fSlots, fStage, fReport,
          mConfig, mInFlight, mTask, mRecorded

pVars == <<limit, reading, cached, shown>>
rVars == <<rFile, rBase, rActive, rLock, rCache, rSettings, rReloader, rSession, rIdle, rUsed>>
gVars == <<gConfig, gFile, gAllowlist, gLoaded, gObservations, gEval, gUsed>>
aVars == <<aConfig, aSignals, aRecommendations, aOutcomes, aPending, aTicks>>
lVars == <<lDrain, lState, lTask, lPublished>>
hVars == <<hDrain, hReachable, hStatus, hAttempt, hRequest>>
cVars == <<cCounter, cSent, cView, cObserver, cSink>>
nVars == <<nDraining, nActive, nSlots, nPaused, nConsole>>
fVars == <<fFile, fConfig, fEffective, fSlots, fStage, fReport>>
mVars == <<mConfig, mInFlight, mTask, mRecorded>>

(* Configurations of Reload: one field that may not change, the service    *)
(* role that may, the state of the assets, and a field set by a flag.      *)
ReloadDefault == [pinned |-> 0, assets |-> TRUE, role |-> "none", flag |-> 0]
ReloadCli == [ReloadDefault EXCEPT !.flag = 1]
ReloadVersions ==
    {[ReloadDefault EXCEPT !.role = r] : r \in {"none", "a", "b", "unset"}}
    \cup {[ReloadDefault EXCEPT !.pinned = 1, !.role = "a"],
          [ReloadDefault EXCEPT !.assets = FALSE, !.role = "b"], Unreadable}

GuardrailFiles == {{"f1"}, {"f1", "f2"}, Invalid}
GuardrailStatements ==
    {[kind |-> "dml", fingerprint |-> "f1"], [kind |-> "ddl", fingerprint |-> "f2"],
     [kind |-> "other", fingerprint |-> "f2"], [kind |-> "other", fingerprint |-> ""]}
GuardrailsOff == [mode |-> "off", block_unqualified_dml |-> FALSE, block_ddl |-> FALSE]

(* Documents of Configuration: the default with one section rewritten. *)
ConfigDefault ==
    [toml |-> [well_formed |-> TRUE],
     engine |-> [runtime_engine |-> "thread_per_core", runtime_shards |-> -1],
     pool |-> [max_backends |-> 2, pool_max_size |-> 2, pool_min_idle |-> 0, pools |-> << >>],
     auth |-> [auth_mode |-> "pass_through", backend_user |-> FALSE, password_env |-> FALSE,
               password_set |-> FALSE, users_file |-> "absent", auth_query_enabled |-> FALSE,
               placeholders |-> 1],
     tls |-> [client_tls_mode |-> "disable", client_cert |-> "absent", client_key |-> "absent",
              client_ca |-> "absent", backend_tls_mode |-> "disable", backend_ca |-> "absent",
              server_name |-> FALSE],
     pressure |-> [floor |-> 1, window |-> 1, cpu |-> 80],
     resilience |-> [breaker_failure_threshold |-> 1, failover_enabled |-> FALSE,
                     failover_max_reconnect_ms |-> 1],
     routes |-> [list |-> << >>],
     sharding |-> [sharding_enabled |-> FALSE, route_maps |-> << >>],
     mirror |-> [enabled |-> FALSE, target |-> "absent", isolated |-> FALSE,
                 require_isolated |-> TRUE],
     lifecycle |-> [startup_grace |-> 1, shutdown_grace |-> 1, termination_grace |-> 1,
                    pre_stop_drain |-> FALSE, pre_stop_endpoint |-> TRUE],
     adaptive |-> [mode |-> "off", apply_enabled |-> FALSE, allowlist |-> << >>,
                   min_confidence |-> 80, window |-> 1, max_change_percent |-> 10],
     policy |-> [rules_valid |-> TRUE, files |-> "absent"]]

ConfigCli == [ConfigDefault EXCEPT !.pressure.cpu = 90]

Asset == {"absent", "good", "bad"}
Rewritten(section, values) == {[ConfigDefault EXCEPT ![section] = v] : v \in values}

PoolEntry(id, max) == [id |-> id, max_backends |-> max]
RouteMapEntry(targets, priority) == [targets |-> targets, scope |-> "all", priority |-> priority]

ConfigDocuments ==
    Rewritten("toml", [well_formed : BOOLEAN])
    \cup Rewritten("engine", [runtime_engine : {"thread_per_core", "io_uring"},
                              runtime_shards : {-1, 0, 1}])
    \cup Rewritten("pool",
             [max_backends : 0..2, pool_max_size : 0..2, pool_min_idle : 0..2,
              pools : {<< >>, <<PoolEntry("a", 1), PoolEntry("b", -1)>>, <<PoolEntry("a", 0)>>,
                       <<PoolEntry("a", 1), PoolEntry("a", 2)>>}])
    \cup Rewritten("auth",
             [auth_mode : {"pass_through", "scram"}, backend_user : BOOLEAN,
              password_env : BOOLEAN, password_set : BOOLEAN, users_file : {"absent", "bad"},
              auth_query_enabled : BOOLEAN, placeholders : 1..2])
    \cup Rewritten("tls",
             [client_tls_mode : {"disable", "require", "verify_client"}, client_cert : Asset,
              client_key : {"good"}, client_ca : Asset,
              backend_tls_mode : {"disable", "prefer", "verify_full"}, backend_ca : Asset,
              server_name : BOOLEAN])
    \cup Rewritten("pressure", [floor : 0..1, window : 0..1, cpu : {80, 101}])
    \cup Rewritten("resilience", [breaker_failure_threshold : 0..1, failover_enabled : BOOLEAN,
                                  failover_max_reconnect_ms : 0..1])
    \cup Rewritten("routes", [list : {<<[weight |-> w, max_in_flight |-> m]>> :
                                         w \in 0..1, m \in {-1, 0, 1}}])
    \cup Rewritten("sharding",
             [sharding_enabled : BOOLEAN,
              route_maps : {<< >>, <<RouteMapEntry(<<1, 2>>, FALSE)>>, <<RouteMapEntry(<<1, 1>>, FALSE)>>,
                            <<RouteMapEntry(<<1>>, FALSE), RouteMapEntry(<<2>>, FALSE)>>,
                            <<RouteMapEntry(<<1>>, TRUE), RouteMapEntry(<<2>>, FALSE)>>}])
    \cup Rewritten("mirror", [enabled : BOOLEAN, target : {"absent", "production", "other"},
                              isolated : BOOLEAN, require_isolated : BOOLEAN])
    \cup Rewritten("lifecycle", [startup_grace : 0..1, shutdown_grace : 0..2,
                                 termination_grace : 0..1, pre_stop_drain : BOOLEAN,
                                 pre_stop_endpoint : BOOLEAN])
    \cup Rewritten("adaptive", [mode : {"off", "apply"}, apply_enabled : BOOLEAN,
                                allowlist : {<< >>, <<"timeout">>, <<"timeout", "timeout">>},
                                min_confidence : {80, 101}, window : 0..1,
                                max_change_percent : {0, 10, 101}])
    \cup Rewritten("policy", [rules_valid : BOOLEAN, files : Asset])

(* Settings and cycles of Mirror: no target, the production server or      *)
(* another, and statements whose route class may not tell what they do.    *)
NoMirror == [class |-> "read", command |-> "query", pin |-> "none", route |-> "routed",
             supported |-> TRUE, replays |-> FALSE, writes |-> FALSE]
MirrorOff == [mode |-> "off", target |-> "absent", require_isolated |-> TRUE,
              isolated |-> FALSE, gates |-> {}, rate |-> 1]
MirrorSettings ==
    {MirrorOff} \cup
    [mode : {"read_only", "explicit"}, target : {"absent", "production", "other"},
     require_isolated : BOOLEAN, isolated : BOOLEAN,
     gates : {{}, {"writes", "transactions", "session"}}, rate : {1}]
MirrorCycles ==
    [class : {"read", "write"}, command : {"query", "transaction"}, pin : {"none", "transaction"},
     route : {"routed"}, supported : {TRUE}, replays : {FALSE}, writes : {FALSE}]
    \cup {[NoMirror EXCEPT !.route = "denied"], [NoMirror EXCEPT !.route = "not routed"],
          [NoMirror EXCEPT !.supported = FALSE], [NoMirror EXCEPT !.writes = TRUE], [NoMirror EXCEPT !.replays = TRUE]}

ConfigEdits ==
    {ConfigDefault, [ConfigDefault EXCEPT !.resilience.breaker_failure_threshold = 0],
     [ConfigDefault EXCEPT !.pool.max_backends = 1],
     [ConfigDefault EXCEPT !.auth.auth_query_enabled = TRUE]}

-----------------------------------------------------------------------------
R == INSTANCE Reload WITH
       Cli <- ReloadCli, Default <- ReloadDefault, Versions <- ReloadVersions, Unset <- "unset",
       MaxEdits <- 2, MaxCommands <- 1, MaxBackends <- 1,
       file <- rFile, base <- rBase, active <- rActive, lock <- rLock,
       cache <- rCache, settings <- rSettings, reloader <- rReloader,
       session <- rSession, idle <- rIdle, used <- rUsed

G == INSTANCE Guardrails WITH
       Fingerprints <- {"f1", "f2"}, Empty <- "", Files <- GuardrailFiles,
       Statements <- GuardrailStatements, Modes <- {"off", "observe", "enforce"},
       MAX_OBSERVATIONS <- 1, MaxEdits <- 2,
       MaxStatements <- 2,
       config <- gConfig, file <- gFile, allowlist <- gAllowlist,
       loaded_mtime <- gLoaded, observations <- gObservations, eval <-
       gEval, used <- gUsed

A == INSTANCE Adaptive WITH
       PoolSizes <- {8}, Waiters <- {1, 15}, MinConfidences <- {0, 980}, MaxChanges <- {10, 100},
       Capacity <- 3, MaxTicks <- 2,
       config <- aConfig, signals <- aSignals, recommendations <- aRecommendations,
       outcomes <- aOutcomes, pending <- aPending, ticks <- aTicks

L == INSTANCE Lifecycle WITH
       Drainer <- {"d1", "d2"}, FailDuringDrain <- FALSE, BackendChecks <- TRUE,
       drain <- lDrain, state <- lState, task <- lTask, published <-
       lPublished

H == INSTANCE HealthServer WITH
       Scraper <- {"q1", "q2"},
       drain <- hDrain, reachable <- hReachable, status <- hStatus,
       attempt <- hAttempt, request <- hRequest

C == INSTANCE ControlPlane WITH
       Peer <- {"p1", "p2"}, Observer <- {"o1", "o2"}, Static <- {"p1"}, MaxHeartbeats <- 2,
       MaxChanges <- 2,
       counter <- cCounter, sent <- cSent, view <- cView, observer <-
       cObserver, sink <- cSink

N == INSTANCE AdminConsole WITH
       Console <- {"a1", "a2", "a3"}, Slots <- 1, RequireTls <- TRUE, Restricted <- TRUE,
       MaxCommands <- 2,
       draining <- nDraining, active <- nActive, slots <- nSlots,
       paused <- nPaused, console <- nConsole

F == INSTANCE Configuration WITH
       Cli <- ConfigCli, Default <- ConfigDefault, Documents <- ConfigDocuments, Edits <- ConfigEdits,
       HasIoUring <- FALSE,
       file <- fFile, config <- fConfig, effective <- fEffective,
       slots <- fSlots, stage <- fStage, report <- fReport

M == INSTANCE Mirror WITH
       Task <- {"m1", "m2"}, Cycles <- MirrorCycles, Settings <- MirrorSettings,
       max_in_flight <- 1,
       config <- mConfig, in_flight <- mInFlight, task <- mTask,
       recorded <- mRecorded

-----------------------------------------------------------------------------
AdaptiveResting ==
    [mode |-> "recommend", apply_enabled |-> FALSE, allowlist |-> {}, min_confidence |-> 0,
     max_change |-> 10, pool_size |-> 8, route_waiters |-> 1, timeout |-> 1000]

MCInit ==
    /\ part \in Parts
    /\ Init /\ (part # "pressure" => reading = "calm" /\ cached)
    /\ R!Init /\ (part # "reload" => rFile = ReloadDefault)
    /\ G!Init /\ (part = "guardrails" => gConfig.block_ddl /\ gConfig.block_unqualified_dml)
       /\ (part # "guardrails" => (gConfig = GuardrailsOff /\ gFile.content = {"f1"}))
    /\ A!Init /\ (part # "adaptive" => aConfig = AdaptiveResting)
    /\ L!Init
    /\ H!Init /\ (part # "health" => hReachable)
    /\ C!Init
    /\ N!Init
    /\ F!Init /\ (part # "config" => fFile = ConfigDefault)
    /\ M!Init /\ (part # "mirror" => mConfig = MirrorOff)

(* Bound: the counters change between ticks; a tick reads them once.       *)
OnceATick == aPending # << >> => UNCHANGED aSignals

MCNext ==
    \/ part = "pressure" /\ Next /\ UNCHANGED <<part, rVars, gVars, aVars, lVars, hVars, cVars, nVars, fVars, mVars>>
    \/ part = "reload" /\ R!Next /\ UNCHANGED <<part, pVars, gVars, aVars, lVars, hVars, cVars, nVars, fVars, mVars>>
    \/ part = "guardrails" /\ G!Next /\ UNCHANGED <<part, pVars, rVars, aVars, lVars, hVars, cVars, nVars, fVars, mVars>>
    \/ part = "adaptive" /\ A!Next /\ OnceATick /\ UNCHANGED <<part, pVars, rVars, gVars, lVars, hVars, cVars, nVars, fVars, mVars>>
    \/ part = "lifecycle" /\ L!Next /\ UNCHANGED <<part, pVars, rVars, gVars, aVars, hVars, cVars, nVars, fVars, mVars>>
    \/ part = "health" /\ H!Next /\ UNCHANGED <<part, pVars, rVars, gVars, aVars, lVars, cVars, nVars, fVars, mVars>>
    \/ part = "peers" /\ C!Next /\ UNCHANGED <<part, pVars, rVars, gVars, aVars, lVars, hVars, nVars, fVars, mVars>>
    \/ part = "console" /\ N!Next /\ UNCHANGED <<part, pVars, rVars, gVars, aVars, lVars, hVars, cVars, fVars, mVars>>
    \/ part = "config" /\ F!Next /\ UNCHANGED <<part, pVars, rVars, gVars, aVars, lVars, hVars, cVars, nVars, mVars>>
    \/ part = "mirror" /\ M!Next /\ UNCHANGED <<part, pVars, rVars, gVars, aVars, lVars, hVars, cVars, nVars, fVars>>

MCvars == <<part, pVars, rVars, gVars, aVars, lVars, hVars, cVars, nVars, fVars, mVars>>

(* The fairness of each part, while it is the part that runs. *)
MCSpec ==
    /\ MCInit /\ [][MCNext]_MCvars
    /\ WF_pVars(part = "pressure" /\ tick)
    /\ WF_rVars(part = "reload" /\ R!ReloadStep("ticker"))
    /\ WF_rVars(part = "reload" /\ R!ReloadStep("console") /\ rReloader["console"].at # "idle")
    /\ WF_hVars(part = "health" /\ H!Probes)
    /\ \A a \in {"a1", "a2", "a3"} :
          /\ SF_nVars(part = "console" /\ N!TakeSlot(a))
          /\ WF_nVars(part = "console" /\ N!Proceeds(a))
          /\ WF_nVars(part = "console" /\ N!Answered(a))

-----------------------------------------------------------------------------
(* What is in force is what the operator put in force: with the lock free  *)
(* the cached credentials are those of the active configuration, and no    *)
(* reload changes a restart-only field, drops a flag or adopts an asset    *)
(* that does not load (Reload); a proxy that serves does so within the     *)
(* assumptions its parts make (Configuration); the allowlist is that of    *)
(* one valid file and its observations stay within their limit             *)
(* (Guardrails); an adaptive change is applied only if it was asked for,   *)
(* and its outcome is kept with it (Adaptive); commands are taken from the *)
(* permitted user only, over TLS where it is required (AdminConsole).      *)
OperatorDecides ==
    /\ R!CredentialsOfActive /\ R!ActiveIsSafe
    /\ F!ServesValid
    /\ G!AllowlistIsWhole /\ G!ObservationsBounded
    /\ A!AppliedOnlyIfAllowed /\ A!HistoriesAligned
    /\ N!OnlyAdministrators

(* What the proxy says of itself is true: it accepts work while it says    *)
(* ready (Lifecycle), /readyz is not 200 for a request that came after a   *)
(* drain began (HealthServer), a peer is shown in a state it published     *)
(* (ControlPlane), and a console request gets one whole answer             *)
(* (AdminConsole).                                                         *)
StateHonest ==
    L!ReadyAccepts /\ H!ReadyzHonest /\ C!ViewHonest /\ N!EveryRequestAnswered

(* The mirror takes nothing from production: its permits are what its      *)
(* running tasks leave, every cycle handed to it is recorded once, when it *)
(* is over, one that must be isolated spares the production server, and in *)
(* read_only mode only plain queries of unpinned sessions are mirrored     *)
(* (Mirror).                                                               *)
MirrorContained ==
    M!PermitsExact /\ M!RecordedOnce /\ M!ProductionSpared /\ M!ReadOnlyIsPlain

(* What lasts is answered: when the pressure is over for good the          *)
(* configured limit comes back, and lasting pressure takes it to the floor *)
(* (Pressure); a file that stays acceptable is in force from some point on *)
(* (Reload); the probe's status follows a backend that stays up or down    *)
(* (HealthServer); a console that waits for a slot gets one, unless a      *)
(* silent client is waited for without a timeout (AdminConsole); and the   *)
(* lifecycle moves only along can_transition_to (Lifecycle).               *)
OperationsSettle ==
    /\ (part = "pressure") => CalmRestores /\ PressureReachesFloor
    /\ (part = "reload") => R!FileTakesEffect
    /\ (part = "health") => H!ProbeFollows
    /\ (part = "console") => N!SlotsComeBack
    /\ L!LifecycleMoves

-----------------------------------------------------------------------------
(* What the documents say and these models do not do (README, section 6).  *)

(* The same of every edit, whatever the file held when the process started *)
(* (Reload).                                                               *)
EditTakesEffect == (part = "reload") => R!EditTakesEffect

(* A start from a file that preflight reported clean succeeds              *)
(* (Configuration).                                                        *)
PreflightSound == F!PreflightSound

(* No accepted configuration makes the pools' constructor panic            *)
(* (Configuration).                                                        *)
StartDoesNotPanic == F!StartDoesNotPanic

(* Outside a reload, a backend that is opened gets the credentials now in  *)
(* the cache (Reload).                                                     *)
NewBackendsCurrent == R!NewBackendsCurrent

(* Outside a reload, SHOW SETTINGS shows the active configuration          *)
(* (Reload).                                                               *)
SettingsShowActive == R!SettingsShowActive

(* An allowlist that counts as loaded from the present file has its        *)
(* entries (Guardrails).                                                   *)
LoadedIsCurrent == G!LoadedIsCurrent

(* An applied change stays within adaptive_max_change_percent (Adaptive).  *)
ChangeWithinBound == A!ChangeWithinBound

(* SHOW ADAPTIVE pairs a recommendation with its own outcome (Adaptive).   *)
RowsPaired == A!RowsPaired

(* What subscribers were sent last is the state (Lifecycle).               *)
PublishedIsCurrent == L!PublishedIsCurrent

(* In read_only mode no statement that writes is mirrored (Mirror).        *)
ReadOnlyWritesNothing == M!ReadOnlyWritesNothing

(* A mirrored cycle recorded as completed was answered (Mirror).           *)
CompletedIsAnswered == M!CompletedIsAnswered

(* A console that waits for a slot gets one, whoever falls silent          *)
(* (AdminConsole).                                                         *)
SilenceBounded == (part = "console") => N!SilenceBounded

(* The view of a peer never goes back to an older heartbeat                *)
(* (ControlPlane).                                                         *)
PeerMovesForward == C!PeerMovesForward
=============================================================================
