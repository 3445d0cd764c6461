----------------------------- MODULE MCStartup -----------------------------
(* Small instances of Startup. *)
EXTENDS Startup
CONSTANTS c1, c2, u1, u2, p1, p2

Line(u, s) == [kind |-> "user", user |-> u, secret |-> s]
Of(k, p) == [kind |-> k, pw |-> p]
Base == [tls |-> "allow", auth |-> "pass_through", lines |-> None, routes |-> {u1, u2},
         service |-> FALSE, password |-> p1, btls |-> "prefer", query |-> FALSE, ttl |-> 0,
         warm |-> 0, alters |-> 1,
         roles |-> [u \in Users |-> [kind |-> "scram", pw |-> IF u = u1 THEN p1 ELSE p2]]]
Stored == <<Line(u1, Of("scram", p2)), [kind |-> "comment"], Line(u1, Of("scram", p1))>>

(* Pass-through, with and without TLS. *)
PassThrough == {[Base EXCEPT !.tls = m] : m \in {"disable", "allow", "require", "verify_client"}}
(* Pass-through without TLS (README, section 6). *)
Refusing == {[Base EXCEPT !.tls = "disable", !.btls = "disable"]}
(* Local modes, with and without service credentials. *)
Locals ==
    {[Base EXCEPT !.auth = "trust", !.lines = <<Line(u1, Trust), Line(u2, Of("scram", p1))>>,
                  !.routes = {u1}],
     [Base EXCEPT !.auth = "md5", !.lines = <<[kind |-> "malformed"]>>],
     [Base EXCEPT !.auth = "trust"],
     [Base EXCEPT !.auth = "md5", !.lines = <<Line(u1, Of("md5", p1))>>, !.service = TRUE,
                  !.btls = "verify_full", !.warm = 2],
     [Base EXCEPT !.auth = "scram", !.lines = Stored, !.service = TRUE, !.btls = "disable"]}
(* The auth query, which needs a store, perhaps an empty one. *)
Queried ==
    {[Base EXCEPT !.tls = "disable", !.auth = "scram", !.lines = l, !.service = TRUE,
                  !.query = TRUE, !.ttl = t, !.alters = IF l = <<>> THEN 1 ELSE 2] :
        l \in {<<>>, Stored}, t \in 0..1}
Alterations == {Of("scram", p1), Of("scram", p2), Of("md5", p2)}

(* Bound: without the auth query, connections come one after the other.    *)
(* With it they overlap while they are authenticated, startups are         *)
(* followed to the checkout, and nothing is paused or rotated.             *)
OneByOne == config.query \/ cl'[c2] = cl[c2]
(* Bound: a pause or a resume begins while the connection is at the pause. *)
AtThePause ==
    ResumeNotifies \/ UNCHANGED pause \/ cl[c1].pc \in {"pausing", "arming", "armed", "waiting"}
Paced ==
    config.query =>
        /\ ~pause.paused /\ ~pause.notifying /\ env = config.password
        /\ Cardinality({c \in Clients : cl[c].pc \notin {"auth", "lookup", "put", "gone"}
                                        /\ cl[c] # Accepted}) <= 1
        /\ \A c \in Clients :
             cl[c].pc \notin {"exchange", "ready"} /\ cl[c].reads < 2 /\ Len(cl[c].buf) < 2
MCSpec ==
    Init /\ [][Next /\ OneByOne /\ AtThePause]_vars /\ WF_vars(ProxyMoves(c1)) /\ WF_vars(ResumeNotifies)

(* A startup lets in whom it should, and says so as PostgreSQL does: a     *)
(* local mode demands the proof of a secret it may use, a secret of the    *)
(* auth query was in force, the messages of a startup come once and in     *)
(* order, no password leaves in the clear, a pooled backend is complete,   *)
(* TLS is had where it is required, and cancel keys are those of live      *)
(* connections (Startup).                                                  *)
StartupSafe ==
    /\ LocalAuthFirst /\ SecretInForce /\ StartupWellFormed /\ NoClearPassword
    /\ PooledReady /\ EncryptedAsDemanded /\ KeysOfLive

TheConfigs == PassThrough \cup Locals \cup Queried
=============================================================================
