------------------------------- MODULE Reload -------------------------------
(***************************************************************************)
(* Configuration reload (ops/reload.rs) run by the ticker of               *)
(* spawn_reload_loop and by the console's RELOAD (AdminState::reload_now), *)
(* against the sessions that use what it changes.  A reload reads the file *)
(* and the credentials first, then compares and swaps active_config under  *)
(* its write lock, stores the credentials while it still holds the lock,   *)
(* and retires the idle backends after dropping it.  A session takes its   *)
(* configuration at accept and its credentials once it has a client slot,  *)
(* and opens backends with them for as long as it lives.                   *)
(*                                                                         *)
(* main hands the proxy the configuration it has already merged with the   *)
(* file, so the base of every later merge is that first result and not the *)
(* command line alone.                                                     *)
(***************************************************************************)
EXTENDS Naturals, Sequences, FiniteSets

CONSTANTS
    Session,      \* client sessions
    Cli,          \* the configuration of the command line and environment
    Default,      \* Config::default()
    Versions,     \* what the file may hold: configurations, or Unreadable
    Unreadable,   \* a file that cannot be read or parsed
    Unset,        \* a role whose password variable is not set
    MaxEdits,     \* bound: edits of the file
    MaxCommands,  \* bound: RELOAD commands
    MaxBackends   \* bound: backends open at once

VARIABLES
    file,      \* the configuration file
    base,      \* Proxy::config: what main loaded, the base of every merge
    active,    \* active_config
    lock,      \* the reloader holding its write lock, or "free"
    cache,     \* BackendCredentialCache
    settings,  \* the settings snapshot of SHOW SETTINGS
    reloader,  \* the ticker and the console: where each is and what it read
    session,   \* each session's credentials and backend
    idle,      \* the roles of the idle backends, oldest first
    used       \* edits and commands so far

vars == <<file, base, active, lock, cache, settings, reloader, session, idle, used>>

Reloader == {"ticker", "console"}
None == "no backend"

(* merge_file_config: a field of the base that differs from the default    *)
(* overrides the file.                                                     *)
apply_base_overrides(target, over, default) ==
    [f \in DOMAIN target |-> IF over[f] # default[f] THEN over[f] ELSE target[f]]

merge_file_config(f) == apply_base_overrides(f, base, Default)

(* load_effective_config and load_backend_credentials succeed. *)
Loads(f) == f # Unreadable /\ merge_file_config(f).role # Unset

(* is_reload_compatible_with: "pinned" stands for every field it compares; *)
(* the query timeout, the audit and socket sections and the service        *)
(* credentials are not compared.                                           *)
is_reload_compatible_with(current, next) == current.pinned = next.pinned

(* validate_runtime_assets: the TLS files, the user file and the provider. *)
validate_runtime_assets(config) == config.assets

(* main and then initialize_runtime_state load the file before anything    *)
(* else runs; a file that does not load ends the process.                  *)
Init ==
    /\ file \in Versions \ {Unreadable}
    /\ base = apply_base_overrides(file, Cli, Default)
    /\ Loads(file) /\ validate_runtime_assets(merge_file_config(file))
    /\ active = merge_file_config(file)
    /\ lock = "free"
    /\ cache = active.role
    /\ settings = active
    /\ reloader = [r \in Reloader |-> [at |-> "idle", next |-> << >>]]
    /\ session = [s \in Session |-> [at |-> "new", role |-> None,
                                     held |-> None]]
    /\ idle = << >>
    /\ used = [edits |-> 0, commands |-> 0]

(* An operator writes the file. *)
Edit(v) ==
    /\ used.edits < MaxEdits
    /\ v # file
    /\ file' = v
    /\ used' = [used EXCEPT !.edits = @ + 1]
    /\ UNCHANGED <<base, active, lock, cache, settings, reloader, session, idle>>

-----------------------------------------------------------------------------
Moves(r, at) == reloader' = [reloader EXCEPT ![r].at = at]
Returns(r) == reloader' = [reloader EXCEPT ![r] = [at |-> "idle", next |-> << >>]]

(* A tick or a RELOAD command: the file and the credentials are read       *)
(* before the lock is asked for; an error ends the reload.                 *)
Starts(r) ==
    /\ reloader[r].at = "idle"
    /\ r = "console" => used.commands < MaxCommands
    /\ used' = IF r = "console" THEN [used EXCEPT !.commands = @ + 1] ELSE used
    /\ IF Loads(file)
       THEN reloader' = [reloader EXCEPT ![r] = [at |-> "waits",
                                                 next |-> <<merge_file_config(file)>>]]
       ELSE UNCHANGED reloader
    /\ UNCHANGED <<file, base, active, lock, cache, settings, session, idle>>

Applies(next) ==
    /\ next # active
    /\ is_reload_compatible_with(active, next)
    /\ validate_runtime_assets(next)

SwapsUnlocked(r) ==
    LET next == reloader[r].next[1] IN
    /\ reloader[r].at = "waits"
    /\ lock = "free"
    /\ \/ /\ Applies(next)
          /\ active' = next
          /\ Moves(r, "stores")
       \/ /\ ~Applies(next)
          /\ Returns(r)
          /\ UNCHANGED active
    /\ UNCHANGED <<file, base, lock, cache, settings, session, idle, used>>

(* The write lock is taken: Unchanged, Rejected and an asset that does not *)
(* load drop it at once, otherwise the configuration is swapped.           *)
Swaps(r) ==
    LET next == reloader[r].next[1] IN
    /\ reloader[r].at = "waits"
    /\ lock = "free"
    /\ \/ /\ Applies(next)
          /\ active' = next
          /\ lock' = r
          /\ Moves(r, "stores")
       \/ /\ ~Applies(next)
          /\ Returns(r)
          /\ UNCHANGED <<active, lock>>
    /\ UNCHANGED <<file, base, cache, settings, session, idle, used>>

(* The credentials are stored and the lock is dropped. *)
Stores(r) ==
    /\ reloader[r].at = "stores"
    /\ cache' = reloader[r].next[1].role
    /\ lock' = "free"
    /\ Moves(r, "retires")
    /\ UNCHANGED <<file, base, active, settings, session, idle, used>>

(* The idle backends of the registry, then of the retirement targets, are  *)
(* discarded.  The ticker is then done; the console refreshes the          *)
(* snapshots.                                                              *)
Retires(r) ==
    /\ reloader[r].at \in {"retires", "retires again"}
    /\ idle' = << >>
    /\ IF reloader[r].at = "retires" THEN Moves(r, "retires again")
       ELSE IF r = "console" THEN Moves(r, "shows") ELSE Returns(r)
    /\ UNCHANGED <<file, base, active, lock, cache, settings, session, used>>

(* reload_now reads active_config again for SHOW SETTINGS and SHOW LIMITS. *)
Shows(r) ==
    /\ reloader[r].at = "shows"
    /\ lock = "free"
    /\ settings' = active
    /\ Returns(r)
    /\ UNCHANGED <<file, base, active, lock, cache, session, idle, used>>

-----------------------------------------------------------------------------
Held == {s \in Session : session[s].held # None}
Becomes(s, r) == session' = [session EXCEPT ![s] = r]
Elsewhere == UNCHANGED <<file, base, active, lock, cache, settings, reloader, used>>

(* run_shard reads the configuration, which takes the read lock, when a    *)
(* connection is accepted ...                                              *)
Accept(s) ==
    /\ session[s].at = "new"
    /\ lock = "free"
    /\ Becomes(s, [session[s] EXCEPT !.at = "accepted"])
    /\ UNCHANGED idle
    /\ Elsewhere

(* ... and the credentials after it has waited for a client slot.          *)
Admit(s) ==
    /\ session[s].at = "accepted"
    /\ Becomes(s, [session[s] EXCEPT !.at = "open", !.role = cache])
    /\ UNCHANGED idle
    /\ Elsewhere

Reuse(s) ==
    /\ session[s].at = "open" /\ session[s].held = None
    /\ idle # << >>
    /\ Becomes(s, [session[s] EXCEPT !.held = Head(idle)])
    /\ idle' = Tail(idle)
    /\ Elsewhere

(* A new backend is authenticated with the session's own credentials. *)
Connect(s) ==
    /\ session[s].at = "open" /\ session[s].held = None
    /\ idle = << >>
    /\ Cardinality(Held) < MaxBackends
    /\ Becomes(s, [session[s] EXCEPT !.held = session[s].role])
    /\ UNCHANGED idle
    /\ Elsewhere

(* A clean backend returns to the idle queue with the role it has. *)
Release(s) ==
    /\ session[s].held # None
    /\ Becomes(s, [session[s] EXCEPT !.held = None])
    /\ idle' = Append(idle, session[s].held)
    /\ Elsewhere

Close(s) ==
    /\ session[s].at \in {"accepted", "open"}
    /\ session[s].held = None
    /\ Becomes(s, [at |-> "new", role |-> None, held |-> None])
    /\ UNCHANGED idle
    /\ Elsewhere

ReloadStep(r) == Starts(r) \/ Swaps(r) \/ Stores(r) \/ Retires(r) \/ Shows(r)
SessionStep(s) == Accept(s) \/ Admit(s) \/ Reuse(s) \/ Connect(s) \/ Release(s) \/ Close(s)

Next ==
    \/ \E v \in Versions : Edit(v)
    \/ \E r \in Reloader : ReloadStep(r)
    \/ \E s \in Session : SessionStep(s)

(* The ticker fires for ever, and a console reload that has started is a   *)
(* task the runtime keeps polling.                                         *)
Fairness ==
    /\ WF_vars(ReloadStep("ticker"))
    /\ WF_vars(ReloadStep("console") /\ reloader["console"].at # "idle")

Spec == Init /\ [][Next]_vars /\ Fairness

-----------------------------------------------------------------------------
Configs == {merge_file_config(v) : v \in Versions \ {Unreadable}}
Roles == {c.role : c \in Configs} \cup {None}

(* The shapes of the configuration, of the reloads and of the sessions. *)
TypeOK ==
    /\ file \in Versions /\ active \in Configs /\ settings \in Configs
    /\ lock \in Reloader \cup {"free"}
    /\ cache \in Roles
    /\ \A r \in Reloader :
          reloader[r].at \in {"idle", "waits", "stores", "retires", "retires again", "shows"}
    /\ \A s \in Session : session[s].at \in {"new", "accepted", "open"}

(* Whoever reads active_config and then the credentials finds a matching   *)
(* pair unless a reload lies between the two reads: with the lock free the *)
(* cache holds the credentials of the active configuration, however the    *)
(* ticker and the console overlap.                                         *)
CredentialsOfActive == lock = "free" => cache = active.role

(* No reload, however files and commands interleave, leaves active a       *)
(* configuration whose restart-only fields differ from those the process   *)
(* started with, that drops a field set on the command line, or whose      *)
(* assets did not load.                                                    *)
ActiveIsSafe ==
    /\ active.assets
    /\ active.role # Unset
    /\ active.pinned = settings.pinned
    /\ \A f \in DOMAIN Cli : Cli[f] # Default[f] => active[f] = Cli[f]

Settled(f) ==
    /\ Loads(f)
    /\ is_reload_compatible_with(active, merge_file_config(f))
    /\ validate_runtime_assets(merge_file_config(f))

(* A file that stays acceptable is in force from some point on, although   *)
(* an overlapping reload may first put an older reading of it back.        *)
FileTakesEffect ==
    <>[]Settled(file) => <>[](Settled(file) => active = merge_file_config(file))

Acceptable(f) ==
    /\ f # Unreadable /\ f.role # Unset
    /\ is_reload_compatible_with(active, f)
    /\ validate_runtime_assets(f)

(* "auth.backend_user ... reload": an edit of a reloadable field that the  *)
(* command line leaves alone is in force from some point on, whatever the  *)
(* file held when the process started.                                     *)
EditTakesEffect ==
    <>[]Acceptable(file) => <>[](Acceptable(file) /\ Cli.role = Default.role => active.role = file.role)

Quiet == \A r \in Reloader : reloader[r].at = "idle"

(* "retires idle pooled backends so new backend connections read the       *)
(* current value": outside a reload, a backend that is opened gets the     *)
(* credentials now in the cache.                                           *)
NewBackendsCurrent ==
    [][\A s \in Session : (Quiet /\ Connect(s)) => session'[s].held = cache]_vars

(* "verify the live configuration after a reload": outside a reload, SHOW  *)
(* SETTINGS shows the active configuration.                                *)
SettingsShowActive == Quiet => settings = active
=============================================================================
