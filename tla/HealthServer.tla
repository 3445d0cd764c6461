---------------------------- MODULE HealthServer ----------------------------
(***************************************************************************)
(* The HTTP health server and the background probe of the backend          *)
(* (observe/health.rs).  A readiness answer is put together from two reads,*)
(* of the drain controller and of the probe's status, between which the    *)
(* process may begin to drain and the backend may fail.                    *)
(***************************************************************************)
CONSTANT Scraper    \* connections to the health listener

VARIABLES
    drain,      \* DrainController.state
    reachable,  \* external: the backend accepts connections
    status,     \* BackendHealthProbe.status
    attempt,    \* the outcome of the probe's connection under way, or "idle"
    request     \* each health request: path, what was read, what was answered

vars == <<drain, reachable, status, attempt, request>>

Paths == {"/healthz", "/readyz", "/state", "other"}
NoRequest == [path |-> "none", late |-> FALSE, open |-> FALSE, code |-> 0]

Init ==
    /\ drain = "accepting"
    /\ reachable \in BOOLEAN /\ status = "not_ready" /\ attempt = "idle"
    /\ request = [q \in Scraper |-> NoRequest]

(* begin_drain, and finish_drain. *)
Drain ==
    /\ drain # "drained"
    /\ drain' = IF drain = "accepting" THEN "draining" ELSE "drained"
    /\ UNCHANGED <<reachable, status, attempt, request>>

(* External: the backend comes and goes. *)
BackendChanges ==
    /\ reachable' = ~reachable
    /\ UNCHANGED <<drain, status, attempt, request>>

(* refresh_once: a connection within readiness_timeout, or an error ... *)
Connects ==
    /\ attempt = "idle"
    /\ attempt' = IF reachable THEN "ready" ELSE "not_ready"
    /\ UNCHANGED <<drain, reachable, status, request>>

(* ... and its outcome stored. *)
StoresStatus ==
    /\ attempt # "idle"
    /\ status' = attempt /\ attempt' = "idle"
    /\ UNCHANGED <<drain, reachable, request>>

(* A request arrives; `late` remembers whether a drain had begun by then. *)
Request(q, path) ==
    /\ request[q].path = "none"
    /\ request' = [request EXCEPT ![q] = [path |-> path, late |-> drain # "accepting",
                                          open |-> FALSE, code |-> 0]]
    /\ UNCHANGED <<drain, reachable, status, attempt>>

Answer(q, code) == request' = [request EXCEPT ![q].code = code]
Waits(q) == request[q].path # "none" /\ request[q].code = 0

(* handle_connection, the paths that depend on nothing. *)
AnswersPlain(q) ==
    /\ Waits(q) /\ request[q].path # "/readyz"
    /\ Answer(q, IF request[q].path = "other" THEN 404 ELSE 200)
    /\ UNCHANGED <<drain, reachable, status, attempt>>

(* is_ready reads the drain state first ... *)
ReadsDrain(q) ==
    /\ Waits(q) /\ request[q].path = "/readyz" /\ ~request[q].open
    /\ \/ drain = "accepting" /\ request' = [request EXCEPT ![q].open = TRUE]
       \/ drain # "accepting" /\ Answer(q, 503)
    /\ UNCHANGED <<drain, reachable, status, attempt>>

(* ... and then the backend's status. *)
ReadsBackend(q) ==
    /\ Waits(q) /\ request[q].open
    /\ Answer(q, IF status = "ready" THEN 200 ELSE 503)
    /\ UNCHANGED <<drain, reachable, status, attempt>>

Closes(q) ==
    /\ request[q].code # 0
    /\ request' = [request EXCEPT ![q] = NoRequest]
    /\ UNCHANGED <<drain, reachable, status, attempt>>

Serves(q) == AnswersPlain(q) \/ ReadsDrain(q) \/ ReadsBackend(q) \/ Closes(q)
Probes == Connects \/ StoresStatus

Next ==
    \/ Drain \/ BackendChanges \/ Probes
    \/ \E q \in Scraper : Serves(q) \/ \E path \in Paths : Request(q, path)

Spec == Init /\ [][Next]_vars

(* The probe's loop never ends: a connection attempt is bounded by its     *)
(* timeout and the loop by its interval.                                   *)
FairSpec == Spec /\ WF_vars(Probes)
-----------------------------------------------------------------------------
TypeOK ==
    /\ drain \in {"accepting", "draining", "drained"} /\ reachable \in BOOLEAN
    /\ status \in {"ready", "not_ready"} /\ attempt \in {"idle", "ready", "not_ready"}
    /\ \A q \in Scraper : request[q].code \in {0, 200, 404, 503}

(* /readyz never answers 200 to a request that arrived after a drain had   *)
(* begun, whatever the two reads behind the answer interleave with.        *)
ReadyzHonest ==
    \A q \in Scraper : request[q].path = "/readyz" /\ request[q].code = 200 => ~request[q].late

(* The background probe follows the backend: once the backend stays up, or *)
(* stays down, its status settles to that.                                 *)
ProbeFollows ==
    /\ <>[]reachable => <>[](status = "ready")
    /\ <>[]~reachable => <>[](status = "not_ready")
=============================================================================
