------------------------------ MODULE Startup ------------------------------
(***************************************************************************)
(* How a connection becomes a session (client_session.rs,                  *)
(* complete_client_startup): the startup packet and TLS, the cancel key,   *)
(* the plan, local authentication with the secrets of the user store or of *)
(* the auth query, the pause, the checkout of a backend and the startup    *)
(* exchange with PostgreSQL, whose frames the client sees.  A secret is    *)
(* its kind and the password it was made from; a proof, a salted hash or a *)
(* signature is good when it was made from that password.                  *)
(***************************************************************************)
EXTENDS Integers, Sequences, FiniteSets, SequencesExt

CONSTANTS
    Clients,
    Users,       \* the users a startup packet may name
    Passwords,
    Altered,     \* the secrets ALTER ROLE sets
    Configs,     \* the configurations, see Config
    None,
    MaxClock,    \* bound: the clock of the auth query cache
    MaxReads,    \* bound: reads of a startup packet
    MaxIdle      \* bound: idle backends kept

Kinds == {"trust", "scram", "md5"}
Secret == [kind : Kinds, pw : Passwords \cup {None}]
Trust == [kind |-> "trust", pw |-> None]

VARIABLES
    config,   \* the configuration the connections were accepted with
    store,    \* the user store load_auth_users gave, or the error
    env,      \* the service password in the environment
    shadow,   \* the secret PostgreSQL has for each user
    log,      \* history: the secrets in force at each time
    clock,
    cache,    \* the auth query cache
    keys,     \* clients whose cancel key is registered
    idle,     \* idle backends of the pool
    pause,    \* PauseController: the flag, and a resume that has yet to notify
    cl        \* each client, see Client

vars == <<config, store, env, shadow, log, clock, cache, keys, idle, pause, cl>>
shared == <<config, store, env, shadow, log, clock, cache, keys, idle, pause>>

-----------------------------------------------------------------------------
(***************************************************************************)
(* The user store.                                                         *)
(***************************************************************************)

(* load_user_store: lines are applied in order, blank ones and comments    *)
(* skipped; a line without "=" or with a malformed verifier fails it all.  *)
Skipped(line) == line.kind \in {"blank", "comment"}
Malformed(line) == line.kind = "malformed"

load_user_store(lines) ==
    IF \E i \in DOMAIN lines : Malformed(lines[i]) THEN [ok |-> FALSE]
    ELSE LET insert(line, users) ==
                 IF Skipped(line) THEN users
                 ELSE [users EXCEPT ![line.user] = line.secret]
         IN [ok |-> TRUE,
             users |-> FoldLeft(LAMBDA users, line : insert(line, users),
                                [u \in Users |-> None], lines)]

(* load_auth_users: no file, no store. *)
load_auth_users(c) ==
    IF c.lines = None THEN [ok |-> TRUE, users |-> None] ELSE load_user_store(c.lines)

(* load_backend_credential_provider: the pair is set together, and never   *)
(* with pass_through.                                                      *)
load_backend_credential_provider(user, variable, auth) ==
    CASE ~user /\ ~variable -> "none"
      [] user # variable -> "error"
      [] auth = "pass_through" -> "error"
      [] OTHER -> "service"

Local(c) == c.auth # "pass_through"
TlsRequired(c) == c.tls \in {"require", "verify_client"}
Loads(c) == load_backend_credential_provider(c.service, c.service, c.auth) # "error"

-----------------------------------------------------------------------------
(* A connection: where it is, whether it is encrypted, the packets read    *)
(* and not taken, the user and whether the packet came encrypted, the      *)
(* secret it is checked against and the password it proved, the frames     *)
(* sent to it, whether its wait for a resume is over, its backend, and     *)
(* (history) whether PostgreSQL itself accepted it.                        *)
Accepted == [pc |-> "packet", tls |-> FALSE, buf |-> <<>>, reads |-> 0, user |-> None,
             over |-> FALSE, used |-> None, proved |-> None, sent |-> <<>>, woken |-> FALSE,
             be |-> None, accepted |-> FALSE]

Init ==
    /\ config \in {c \in Configs : Loads(c)}
    /\ store = load_auth_users(config)
    /\ env = config.password
    /\ shadow = config.roles
    /\ clock = 0
    /\ log = [u \in Users |-> [t \in 0..MaxClock |-> IF t = 0 THEN {shadow[u]} ELSE {}]]
    /\ cache = [u \in Users |-> None]
    /\ keys = {}
    /\ idle = <<>>
    /\ pause = [paused |-> FALSE, notifying |-> FALSE]
    /\ cl = [c \in Clients |-> Accepted]

At(c, pc) == cl[c].pc = pc
Put(c, r) == cl' = [cl EXCEPT ![c] = r]
Goes(c, pc) == Put(c, [cl[c] EXCEPT !.pc = pc])
Says(c, frames) == cl[c].sent \o frames

(* The connection ends: CancelSessionGuard removes the key and a lease     *)
(* that was not released closes the backend.  What is kept of it is what   *)
(* it was told last.                                                       *)
Ends(c, frames) ==
    /\ Put(c, [Accepted EXCEPT !.pc = "gone", !.sent = frames])
    /\ keys' = keys \ {c}
    /\ UNCHANGED <<config, store, env, shadow, log, clock, cache, idle, pause>>

(***************************************************************************)
(* The startup packet: read_startup_packet_with_buffer.                    *)
(***************************************************************************)
(* A user store that does not load ends the connection at once. *)
LoadFails(c) ==
    /\ At(c, "packet") /\ ~store.ok
    /\ Ends(c, <<>>)

(* A read brings one packet, or two that the client sent at once.          *)
Packets == {"ssl", "gss", "cancel", "malformed", "oversize"} \cup Users
Deliveries == {<<p>> : p \in Packets} \cup {<<p, u>> : p \in {"ssl", "gss"}, u \in Users}

Read(c, packets) ==
    /\ At(c, "packet") /\ cl[c].buf = <<>> /\ cl[c].reads < MaxReads /\ store.ok
    /\ Put(c, [cl[c] EXCEPT !.reads = @ + 1,
                            !.buf = [i \in DOMAIN packets |->
                                        [packet |-> packets[i], tls |-> cl[c].tls]]])
    /\ UNCHANGED shared

(* The read times out, or the client closes. *)
ReadTimesOut(c) ==
    /\ At(c, "packet") /\ cl[c].buf = <<>> /\ store.ok
    /\ Ends(c, <<"error", "ready">>)

ReadCloses(c) ==
    /\ At(c, "packet") /\ cl[c].buf = <<>> /\ store.ok
    /\ Ends(c, <<>>)

Head1(c, packet) == At(c, "packet") /\ cl[c].buf # <<>> /\ Head(cl[c].buf).packet = packet

(* A cancel request ends the connection once it was forwarded; a packet    *)
(* that cannot be parsed or that is past the buffer limit ends it too.     *)
TakeOther(c) ==
    /\ \E packet \in {"cancel", "malformed", "oversize"} : Head1(c, packet)
    /\ Ends(c, <<>>)

(* GSS encryption is always refused. *)
TakeGss(c) ==
    /\ Head1(c, "gss")
    /\ Put(c, [cl[c] EXCEPT !.buf = Tail(@)])
    /\ UNCHANGED shared

(* SSL is refused, or accepted: the handshake may fail, a second one is an *)
(* error, and what was buffered before it is dropped.                      *)
TakeSsl(c, handshake, certificate) ==
    /\ Head1(c, "ssl")
    /\ CASE config.tls = "disable" ->
                Put(c, [cl[c] EXCEPT !.buf = Tail(@)]) /\ UNCHANGED shared
         [] \/ cl[c].tls \/ ~handshake
            \/ config.tls = "verify_client" /\ ~certificate -> Ends(c, <<>>)
         [] OTHER ->
                Put(c, [cl[c] EXCEPT !.tls = TRUE, !.buf = <<>>]) /\ UNCHANGED shared

(* The startup packet: the key is issued and startup_backend_plan finds    *)
(* the pools of the route, or not.                                         *)
TakeStartup(c, u) ==
    /\ Head1(c, u)
    /\ IF TlsRequired(config) /\ ~cl[c].tls THEN Ends(c, <<>>)
       ELSE IF u \notin config.routes THEN Ends(c, <<"error", "ready">>)
       ELSE /\ Put(c, [cl[c] EXCEPT !.user = u, !.buf = Tail(@),
                                    !.pc = IF Local(config) THEN "auth" ELSE "pausing",
                                    !.over = Head(cl[c].buf).tls])
            /\ keys' = keys \cup {c}
            /\ UNCHANGED <<config, store, env, shadow, log, clock, cache, idle, pause>>

-----------------------------------------------------------------------------
(***************************************************************************)
(* Local authentication: authenticate_client.                              *)
(***************************************************************************)
Rejects(c) == Ends(c, <<"error">>)
Fails(c) == Ends(c, <<>>)

(* authenticate_trust; without a store every local mode is an error. *)
AuthenticateTrust(c) ==
    /\ At(c, "auth") /\ config.auth = "trust"
    /\ IF store.users = None THEN Fails(c)
       ELSE IF store.users[cl[c].user] # Trust THEN Rejects(c)
       ELSE /\ Put(c, [cl[c] EXCEPT !.pc = "pausing", !.sent = Says(c, <<"authOk">>),
                                    !.used = [secret |-> Trust, from |-> "file"]])
            /\ UNCHANGED shared

(* AuthQueryCache::get: an entry younger than the ttl, which zero disables. *)
CacheHit(u) == config.ttl > 0 /\ cache[u] # None /\ clock - cache[u].at < config.ttl

(* The secret was resolved: it must be of the mode's kind, and is          *)
(* challenged.                                                             *)
Challenges(c, used) ==
    IF used.secret = None \/ used.secret.kind # config.auth THEN Rejects(c)
    ELSE /\ Put(c, [cl[c] EXCEPT !.pc = "challenge", !.used = used])
         /\ UNCHANGED shared

(* resolve_user_secret: the store, then the cache, then the query. *)
Resolve(c) ==
    /\ At(c, "auth") /\ config.auth \in {"scram", "md5"}
    /\ LET u == cl[c].user IN
       CASE store.users = None -> Fails(c)
         [] store.users[u] # None ->
                Challenges(c, [secret |-> store.users[u], from |-> "file"])
         [] store.users[u] = None /\ ~config.query ->
                Challenges(c, [secret |-> None, from |-> "file"])
         [] store.users[u] = None /\ config.query /\ CacheHit(u) ->
                Challenges(c, [secret |-> cache[u].secret, from |-> "cache",
                               read |-> cache[u].read, put |-> cache[u].at, when |-> clock])
         [] OTHER -> Goes(c, "lookup") /\ UNCHANGED shared

(* AuthQueryService::lookup: without credentials, or when the connection   *)
(* or the query fails, the client is rejected ...                          *)
LookupFails(c) ==
    /\ At(c, "lookup")
    /\ Rejects(c)

(* ... else the query runs: no row, or the secret of the user.             *)
LookupQuery(c, row) ==
    /\ At(c, "lookup") /\ config.service
    /\ env = config.password
    /\ IF row THEN /\ Put(c, [cl[c] EXCEPT !.pc = "put",
                                 !.used = [secret |-> shadow[cl[c].user], from |-> "query",
                                           read |-> clock]])
                   /\ UNCHANGED shared
       ELSE Rejects(c)

(* Mutant: the entry is stored for whoever asked first. *)
LookupPutFirst(c) ==
    /\ At(c, "put")
    /\ LET used == cl[c].used IN
        /\ cache' = [u \in Users |-> [secret |-> used.secret, read |-> used.read, at |-> clock]]
        /\ IF used.secret.kind # config.auth
           THEN /\ Put(c, [Accepted EXCEPT !.pc = "gone", !.sent = <<"error">>])
                /\ keys' = keys \ {c}
           ELSE Goes(c, "challenge") /\ UNCHANGED keys
    /\ UNCHANGED <<config, store, env, shadow, log, clock, idle, pause>>

(* AuthQueryCache::put, with the time of the put. *)
LookupPut(c) ==
    /\ At(c, "put")
    /\ LET used == cl[c].used IN
        /\ cache' = [cache EXCEPT ![cl[c].user] =
                        [secret |-> used.secret, read |-> used.read, at |-> clock]]
        /\ IF used.secret.kind # config.auth
           THEN /\ Put(c, [Accepted EXCEPT !.pc = "gone", !.sent = <<"error">>])
                /\ keys' = keys \ {c}
           ELSE Goes(c, "challenge") /\ UNCHANGED keys
    /\ UNCHANGED <<config, store, env, shadow, log, clock, idle, pause>>

(* The client answers the challenge.  SCRAM takes two messages, the first  *)
(* of which must name SCRAM-SHA-256 and the startup user; a broken or      *)
(* foreign message, another nonce or channel binding is an error, and no   *)
(* time limit applies.                                                     *)
ScramFirst(c, good) ==
    /\ At(c, "challenge") /\ config.auth = "scram"
    /\ IF good THEN Put(c, [cl[c] EXCEPT !.pc = "proof", !.sent = Says(c, <<"authReq", "authReq">>)])
                    /\ UNCHANGED shared
       ELSE Ends(c, <<"authReq">>)

(* verify_scram_proof, or the comparison of the salted hash: a proof of    *)
(* another password, or a malformed one, is a rejection.                   *)
Answers(c, pw) ==
    IF pw = cl[c].used.secret.pw
    THEN /\ Put(c, [cl[c] EXCEPT !.pc = "pausing", !.proved = pw,
                                 !.sent = Says(c, <<"authReq", "authOk">>)])
         /\ UNCHANGED shared
    ELSE Ends(c, IF config.auth = "scram" THEN <<"error">> ELSE <<"authReq", "error">>)

ScramFinal(c, pw) == At(c, "proof") /\ Answers(c, pw)
Md5Answer(c, pw) == At(c, "challenge") /\ config.auth = "md5" /\ Answers(c, pw)

AuthDisconnects(c) ==
    /\ cl[c].pc \in {"challenge", "proof", "relay"}
    /\ Ends(c, <<>>)

-----------------------------------------------------------------------------
(***************************************************************************)
(* wait_if_paused.  The Notified future is made between two reads of the   *)
(* flag, and is woken by any resume after it was made.                     *)
(***************************************************************************)
PauseCheck(c) ==
    /\ At(c, "pausing")
    /\ Goes(c, IF pause.paused THEN "arming" ELSE "checkout")
    /\ UNCHANGED shared

(* Mutant: the flag is not read again once the future was made. *)
PauseArmBlind(c) ==
    /\ At(c, "arming")
    /\ Put(c, [cl[c] EXCEPT !.pc = "waiting", !.woken = FALSE])
    /\ UNCHANGED shared

PauseArm(c) ==
    /\ At(c, "arming")
    /\ Put(c, [cl[c] EXCEPT !.pc = "armed", !.woken = FALSE])
    /\ UNCHANGED shared

PauseRecheck(c) ==
    /\ At(c, "armed")
    /\ Goes(c, IF pause.paused THEN "waiting" ELSE "checkout")
    /\ UNCHANGED shared

PauseWake(c) ==
    /\ At(c, "waiting") /\ cl[c].woken
    /\ Goes(c, "pausing")
    /\ UNCHANGED shared

Pause ==
    /\ ~pause.paused
    /\ pause' = [pause EXCEPT !.paused = TRUE]
    /\ UNCHANGED <<config, store, env, shadow, log, clock, cache, keys, idle, cl>>

(* resume: the flag is stored, and then the waiters are notified.          *)
ResumeStores ==
    /\ ~pause.notifying                        \* bound: one resume at a time
    /\ pause' = [paused |-> FALSE, notifying |-> TRUE]
    /\ UNCHANGED <<config, store, env, shadow, log, clock, cache, keys, idle, cl>>

ResumeNotifies ==
    /\ pause.notifying
    /\ pause' = [pause EXCEPT !.notifying = FALSE]
    /\ cl' = [c \in Clients |-> [cl[c] EXCEPT !.woken = @ \/ cl[c].pc \in {"armed", "waiting"}]]
    /\ UNCHANGED <<config, store, env, shadow, log, clock, cache, keys, idle>>

-----------------------------------------------------------------------------
(***************************************************************************)
(* PostgreSQL, as far as its startup goes (external).                      *)
(***************************************************************************)
Welcome == {<<"ok", "param", "key", "ready">>, <<"ok", "param", "ready">>}
Refusal == <<"error">>

(* What it sends for a startup packet, and for the answer to a request;    *)
(* the proxy takes AuthenticationOk with or without the SASLFinal before.  *)
PgOpens == Welcome \cup {<<"clear">>, <<"md5">>, <<"sasl">>}
PgReplies(request, good) ==
    CASE request = "sasl" -> {<<"cont">>}
      [] ~good -> {Refusal}
      [] request = "cont" -> Welcome \cup {<<"final">> \o w : w \in Welcome}
      [] OTHER -> Welcome

(***************************************************************************)
(* The backend.                                                            *)
(***************************************************************************)
(* Backend::connect_with_socket and negotiate_backend_tls: the transport,  *)
(* for the server's answer to the SSLRequest.                              *)
negotiate_backend_tls(mode, answer, handshake) ==
    CASE mode = "disable" -> "plain"
      [] mode # "disable" /\ answer = "S" -> IF handshake THEN "tls" ELSE "error"
      [] mode # "disable" /\ answer = "N" -> IF mode = "prefer" THEN "plain" ELSE "error"
      [] OTHER -> "error"

(* A connection: its transport, what PostgreSQL sent and was not read, the *)
(* state of BackendAuthSession (client-first sent, signature expected,     *)
(* signature verified), how the password left, and what was captured.      *)
Connected(transport, out) ==
    [tls |-> transport = "tls", out |-> out, first |-> FALSE, expected |-> FALSE,
     scram |-> FALSE, verified |-> FALSE, clear |-> FALSE, params |-> FALSE, keyed |-> FALSE]

CheckoutFails(c, frames) ==
    /\ At(c, "checkout")
    /\ Ends(c, frames)

(* checkout_backend finds an idle backend, which needs no startup:         *)
(* synthetic_startup_ready, with AuthenticationOk only under pass_through, *)
(* the captured parameters and the client's own key.                       *)
synthetic_startup_ready(auth_ok, b) ==
    (IF auth_ok THEN <<"authOk">> ELSE <<>>)
        \o (IF b.params THEN <<"param">> ELSE <<>>) \o <<"key", "ready">>

CheckoutReuses(c) ==
    /\ At(c, "checkout") /\ idle # <<>>
    /\ Put(c, [cl[c] EXCEPT !.pc = "ready",
                            !.sent = Says(c, synthetic_startup_ready(~Local(config), Last(idle)))])
    /\ UNCHANGED shared

(* ... or connects, and the startup packet is sent. *)
CheckoutConnects(c, transport, out) ==
    /\ At(c, "checkout") /\ transport # "error"
    /\ Put(c, [cl[c] EXCEPT !.pc = "exchange", !.be = Connected(transport, out), !.buf = <<>>])
    /\ UNCHANGED shared

Requests == {"clear", "md5", "sasl", "cont"}

(* BackendAuthSession::respond: whether the request is an error, and the   *)
(* session after it.                                                       *)
Refused(b, frame) ==
    \/ frame = "clear" /\ ~b.tls
    \/ frame = "cont" /\ ~b.first
    \/ frame = "final" /\ ~b.expected

Responded(b, frame) ==
    [b EXCEPT !.first = @ \/ frame = "sasl",
              !.expected = frame = "cont" \/ (@ /\ frame # "final"),
              !.scram = @ \/ frame = "sasl",
              !.verified = @ \/ frame = "final",
              !.clear = @ \/ (frame = "clear" /\ ~b.tls)]

Next1(c) == Head(cl[c].be.out)
Reading(c) == At(c, "exchange") /\ cl[c].be.out # <<>>
Rest(c) == [cl[c].be EXCEPT !.out = Tail(@)]

(* An authentication frame, with service credentials. *)
ServiceAuth(c, replies) ==
    /\ Reading(c) /\ config.service
    /\ Next1(c) \in Requests \cup {"ok", "final"}
    /\ replies \in IF Next1(c) \in Requests
                   THEN PgReplies(Next1(c), env = config.password) ELSE {<<>>}
    /\ IF Refused(Rest(c), Next1(c)) THEN Fails(c)
       ELSE /\ Put(c, [cl[c] EXCEPT !.be = [Responded(Rest(c), Next1(c)) EXCEPT !.out = @ \o replies]])
            /\ UNCHANGED shared

(* ... without: it is forwarded under pass_through and read on, or the     *)
(* client's answer is waited for; after local authentication a request is  *)
(* an error and AuthenticationOk is kept from the client.                  *)
ForwardedAuth(c) ==
    /\ Reading(c) /\ ~config.service
    /\ Next1(c) \in Requests \cup {"ok", "final"}
    /\ IF Local(config) /\ Next1(c) # "ok" THEN Fails(c)
       ELSE /\ Put(c, [cl[c] EXCEPT
                        !.pc = IF Next1(c) \in Requests THEN "relay" ELSE @,
                        !.be = IF Next1(c) \in Requests THEN @ ELSE Rest(c),
                        !.accepted = Next1(c) = "ok",
                        !.sent = IF Local(config) THEN @
                                 ELSE Says(c, <<IF Next1(c) = "ok" THEN "authOk" ELSE "authReq">>)])
            /\ UNCHANGED shared

(* The client's answer is read and forwarded. *)
RelayAnswer(c, pw, replies) ==
    /\ At(c, "relay")
    /\ replies \in PgReplies(Next1(c), pw = shadow[cl[c].user].pw)
    /\ Put(c, [cl[c] EXCEPT !.pc = "exchange", !.be = [Rest(c) EXCEPT !.out = @ \o replies]])
    /\ UNCHANGED shared

HasKey(c) == "key" \in Range(cl[c].sent)

(* Other frames: parameters and key data are captured, the client's own    *)
(* key is sent in place of the backend's, and the rest is forwarded.       *)

OtherFrame(c) ==
    /\ Reading(c) /\ Next1(c) \in {"param", "key", "error"}
    /\ Put(c, [cl[c] EXCEPT !.sent = Says(c, <<Next1(c)>>),
                            !.be = [Rest(c) EXCEPT !.params = @ \/ Next1(c) = "param",
                                                   !.keyed = @ \/ Next1(c) = "key"]])
    /\ UNCHANGED shared

(* Released to the pool, as the next session will find it. *)
Pooled(b) == [params |-> b.params, keyed |-> b.keyed, out |-> b.out,
              unverified |-> b.scram /\ ~b.verified]
Keeps(b) == IF Len(idle) < MaxIdle THEN Append(idle, Pooled(b)) ELSE idle

(* ReadyForQuery ends the exchange and releases the backend; the client's  *)
(* key is sent before it if the backend sent none.                         *)
ReadyFrame(c) ==
    /\ Reading(c) /\ Next1(c) = "ready"
    /\ Put(c, [cl[c] EXCEPT !.pc = "ready", !.be = None,
                            !.sent = Says(c, IF HasKey(c) THEN <<"ready">> ELSE <<"key", "ready">>)])
    /\ idle' = Keeps(Rest(c))
    /\ UNCHANGED <<config, store, env, shadow, log, clock, cache, keys, pause>>

(* A failed read or write, or more than the buffer limit: discarded.       *)
ExchangeFails(c) == Reading(c) /\ Ends(c, <<>>)

(* After a refusal PostgreSQL closes, and reads of nothing go on.          *)
ExchangeSpins(c) ==
    /\ At(c, "exchange") /\ cl[c].be.out = <<>>
    /\ UNCHANGED vars

SessionEnds(c) == At(c, "ready") /\ Ends(c, <<>>)

(* Another connection is accepted. *)
Accept(c) ==
    /\ At(c, "gone")
    /\ Put(c, Accepted)
    /\ UNCHANGED shared

(***************************************************************************)
(* schedule_service_backend_pool_warmup: while fewer than wanted are idle, *)
(* a backend is connected, bootstrapped and released.                      *)
(***************************************************************************)
WarmUp(c, transport, keyed) ==
    /\ At(c, "ready") /\ config.service /\ Len(idle) < config.warm
    /\ transport # "error" /\ env = config.password
    /\ idle' = Keeps([Connected(transport, <<>>) EXCEPT !.params = TRUE, !.keyed = keyed])
    /\ UNCHANGED <<config, store, env, shadow, log, clock, cache, keys, pause, cl>>

(***************************************************************************)
(* What changes around the proxy.                                          *)
(***************************************************************************)
Tick ==
    /\ config.query /\ clock < MaxClock          \* only the cache reads the clock
    /\ clock' = clock + 1
    /\ log' = [u \in Users |-> [log[u] EXCEPT ![clock + 1] = {shadow[u]}]]
    /\ UNCHANGED <<config, store, env, shadow, cache, keys, idle, pause, cl>>

AlterRole(u, secret) ==
    /\ config.query /\ secret # shadow[u]
    /\ store.users[u] = None                    \* others are never looked up
    /\ Cardinality(log[u][clock]) < config.alters
    /\ shadow' = [shadow EXCEPT ![u] = secret]
    /\ log' = [log EXCEPT ![u][clock] = @ \cup {secret}]
    /\ UNCHANGED <<config, store, env, clock, cache, keys, idle, pause, cl>>

RotateService(pw) ==
    /\ config.service /\ pw # env
    /\ env' = pw
    /\ UNCHANGED <<config, store, shadow, log, clock, cache, keys, idle, pause, cl>>

-----------------------------------------------------------------------------
Transports == {negotiate_backend_tls(config.btls, a, h) : a \in {"S", "N", "?"}, h \in BOOLEAN}

(* What the client decides. *)
ClientMoves(c) ==
    \/ \E packets \in Deliveries : Read(c, packets)
    \/ \E good \in BOOLEAN : ScramFirst(c, good)
    \/ \E pw \in Passwords \cup {None} : ScramFinal(c, pw) \/ Md5Answer(c, pw)
    \/ \E pw \in Passwords : \E replies \in PgReplies("sasl", TRUE) \cup PgReplies("cont", TRUE)
                                       \cup PgReplies("md5", TRUE) \cup {Refusal} :
            RelayAnswer(c, pw, replies)
    \/ ReadCloses(c) \/ AuthDisconnects(c) \/ SessionEnds(c)

(* What the proxy and PostgreSQL go on to do. *)
ProxyMoves(c) ==
    \/ LoadFails(c) \/ ReadTimesOut(c) \/ TakeOther(c) \/ TakeGss(c)
    \/ \E h, p \in BOOLEAN : TakeSsl(c, h, p)
    \/ \E u \in Users : TakeStartup(c, u)
    \/ AuthenticateTrust(c) \/ Resolve(c) \/ LookupPut(c)
    \/ LookupFails(c) \/ \E row \in BOOLEAN : LookupQuery(c, row)
    \/ PauseCheck(c) \/ PauseArm(c) \/ PauseRecheck(c) \/ PauseWake(c)
    \/ \E frames \in {<<>>, <<"error", "ready">>} : CheckoutFails(c, frames)
    \/ CheckoutReuses(c)
    \/ \E t \in Transports, out \in PgOpens : CheckoutConnects(c, t, out)
    \/ \E replies \in {<<>>, <<"cont">>, Refusal} \cup Welcome \cup {<<"final">> \o w : w \in Welcome} :
            ServiceAuth(c, replies)
    \/ ForwardedAuth(c) \/ OtherFrame(c) \/ ReadyFrame(c) \/ ExchangeFails(c)

Next ==
    \/ \E c \in Clients :
        \/ ClientMoves(c) \/ ProxyMoves(c) \/ ExchangeSpins(c) \/ Accept(c)
        \/ \E t \in Transports, keyed \in BOOLEAN : WarmUp(c, t, keyed)
    \/ Pause \/ ResumeStores \/ ResumeNotifies \/ Tick
    \/ \E u \in Users, secret \in Altered : AlterRole(u, secret)
    \/ \E p \in Passwords : RotateService(p)

Spec == Init /\ [][Next]_vars

(* Tasks are scheduled, reads of the startup packet time out, and           *)
(* PostgreSQL answers: what a client does is up to it.  A resume that has   *)
(* stored the flag goes on to notify.                                       *)
FairSpec == Spec /\ WF_vars(ResumeNotifies) /\ \A c \in Clients : WF_vars(ProxyMoves(c))
-----------------------------------------------------------------------------
(* Every variable is of its kind. *)
TypeOK ==
    /\ config \in Configs
    /\ env \in Passwords /\ shadow \in [Users -> Secret]
    /\ clock \in 0..MaxClock /\ keys \subseteq Clients
    /\ Len(idle) <= MaxIdle /\ pause \in [paused : BOOLEAN, notifying : BOOLEAN]
    /\ \A c \in Clients :
        /\ cl[c].user \in Users \cup {None}
        /\ (cl[c].be # None) <=> cl[c].pc \in {"exchange", "relay"}

Past(c) == cl[c].pc \notin {"packet", "auth", "lookup", "put", "challenge", "proof", "gone"}

(* Under a local mode no client gets as far as a checkout without having   *)
(* been named in the user store with "trust", or having proved the         *)
(* password of a secret of the mode's kind; and when the store has the     *)
(* user, it is that secret and not one of the auth query.                  *)
LocalAuthFirst ==
    \A c \in Clients : Local(config) /\ Past(c) =>
        LET used == cl[c].used IN
        /\ used # None /\ used.secret.kind = config.auth
        /\ used.secret = Trust \/ cl[c].proved = used.secret.pw
        /\ store.users[cl[c].user] # None =>
               used.from = "file" /\ used.secret = store.users[cl[c].user]

(* A secret of the auth query is one PostgreSQL had for that very user     *)
(* when it was read, and one taken from the cache was put there less than  *)
(* the ttl ago, however lookups, puts and ALTER ROLE interleave.  (It is   *)
(* not always the newest one read: see CacheMovesForward.)                 *)
SecretInForce ==
    \A c \in Clients : cl[c].used # None /\ cl[c].used.from # "file" =>
        LET used == cl[c].used IN
        /\ used.secret \in log[cl[c].user][used.read]
        /\ used.from = "cache" => used.when - used.put < config.ttl

(* A session that is ready has been sent one AuthenticationOk, after every *)
(* authentication request, then the parameters, then one key, its own,     *)
(* and ReadyForQuery last: whoever authenticated it, and whether its       *)
(* backend was new or reused.                                              *)
Position(s, f) == CHOOSE i \in DOMAIN s : s[i] = f
Count(s, f) == Cardinality({i \in DOMAIN s : s[i] = f})
StartupWellFormed ==
    \A c \in Clients : At(c, "ready") =>
        LET s == cl[c].sent IN
        /\ \A f \in {"authOk", "param", "key", "ready"} : Count(s, f) = 1
        /\ "error" \notin Range(s)
        /\ \A i \in DOMAIN s : s[i] = "authReq" => i < Position(s, "authOk")
        /\ Position(s, "authOk") < Position(s, "param")
        /\ Position(s, "param") < Position(s, "key")
        /\ Last(s) = "ready"

(* The service password never leaves in the clear on a connection that is  *)
(* not encrypted, whatever PostgreSQL asks for and however the backend TLS *)
(* mode let the connection fall back.                                      *)
NoClearPassword == \A c \in Clients : cl[c].be # None => ~cl[c].be.clear

(* A pooled backend has nothing left to be read and has its parameters:    *)
(* what a reused backend replays to later clients is complete.             *)
PooledReady == \A i \in DOMAIN idle : idle[i].out = <<>> /\ idle[i].params

(* A startup packet taken on an encrypted connection came encrypted, and   *)
(* where TLS is required every one did: nothing sent before the handshake  *)
(* is taken after it.                                                      *)
EncryptedAsDemanded ==
    \A c \in Clients : cl[c].user # None /\ (cl[c].tls \/ TlsRequired(config)) => cl[c].over

(* A cancel key is registered exactly while its connection is past its     *)
(* startup packet, however the startup ends.                               *)
KeysOfLive == keys = {c \in Clients : cl[c].pc \notin {"packet", "gone"}}

(* A resume that is not followed by another pause lets every waiting       *)
(* startup go on: no wake-up is lost between the flag and the wait.        *)
ResumeReleases ==
    <>[]~pause.paused => \A c \in Clients : At(c, "waiting") ~> ~At(c, "waiting")

(* "PostgreSQL verifies the client directly": a pass_through client that   *)
(* was told it is in was accepted by PostgreSQL, not by a backend that is  *)
(* reused.                                                                 *)
VerifiedDirectly ==
    \A c \in Clients : At(c, "ready") /\ ~Local(config) => cl[c].accepted

(* "pg-kinetic verifies PostgreSQL's server signature": a pooled backend   *)
(* that authenticated with SCRAM had the signature verified, also when the *)
(* server says AuthenticationOk without having sent it.                    *)
SignatureVerified == \A i \in DOMAIN idle : ~idle[i].unverified

(* A lookup does not put a secret in the cache over one that was read      *)
(* later.                                                                  *)
CacheMovesForward ==
    [][\A u \in Users : cache[u] # None => cache'[u].read >= cache[u].read]_vars

(* "Preserve the backend's normal authentication flow": a connection that  *)
(* PostgreSQL refuses is closed, so its startup ends.                      *)
RefusedEnds ==
    \A c \in Clients :
        (At(c, "exchange") /\ "error" \in Range(cl[c].sent)) ~> At(c, "gone")
=============================================================================
