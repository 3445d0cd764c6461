---------------------------- MODULE AdminConsole ----------------------------
(***************************************************************************)
(* The administrative listener (ops/admin.rs): a connection enters the     *)
(* drain count, waits for one of admin_max_clients slots, sends a startup  *)
(* packet, is checked against the configuration the proxy started with,    *)
(* and then sends commands over the simple query protocol.  Reads are      *)
(* bounded by admin_query_timeout_ms; the TLS handshake and the writes are *)
(* not.  What RELOAD does is in Reload; a view's contents are left out.    *)
(***************************************************************************)
EXTENDS Naturals, FiniteSets

CONSTANTS
    Console,        \* connections
    Slots,          \* admin_max_clients
    RequireTls,     \* admin_require_tls
    Restricted,     \* admin_allowed_user is set
    MaxCommands     \* requests a client sends

VARIABLES
    draining,   \* the drain controller no longer accepts
    active,     \* the console connections in active_clients
    slots,      \* free permits of client_slots
    paused,     \* PauseController
    console     \* each connection

vars == <<draining, active, slots, paused, console>>

(* entered: counted, not yet in a slot.  startup, handshake: in a slot,     *)
(* reading the startup packet or making TLS.  user, tls: about to check    *)
(* them.  write: writing what leads to then.                               *)
At == {"out", "entered", "startup", "handshake", "user", "tls", "loop", "run", "write", "over"}
Holding == At \ {"out", "entered", "over"}
Requests == {"show", "pause", "resume", "reload", "unknown", "not_query"}
Changing == {"pause", "resume", "reload"}

(* silent: the client sends nothing, reads nothing and does not close.     *)
Outside == [pc |-> "out", then |-> "none", allowed |-> FALSE, tls |-> FALSE, req |-> "none",
            sent |-> 0, ready |-> 0, ran |-> {}, silent |-> FALSE]

Init ==
    /\ draining = FALSE /\ active = 0 /\ slots = Slots /\ paused = FALSE
    /\ console = [a \in Console |-> Outside]

Drain == draining' = TRUE /\ ~draining /\ UNCHANGED <<active, slots, paused, console>>

(* handle_connection: refused with an error while the proxy drains.        *)
Connect(a) ==
    /\ console[a].pc = "out"
    /\ \/ /\ ~draining
          /\ active' = active + 1
          /\ console' = [console EXCEPT ![a].pc = "entered"]
       \/ /\ draining
          /\ console' = [console EXCEPT ![a].pc = "over"]
          /\ UNCHANGED active
    /\ UNCHANGED <<draining, slots, paused>>

TakeSlot(a) ==
    /\ console[a].pc = "entered" /\ slots > 0
    /\ slots' = slots - 1
    /\ console' = [console EXCEPT ![a].pc = "startup"]
    /\ UNCHANGED <<draining, active, paused>>

(* The session returns: permit and guard are dropped. *)
Returns(a) ==
    /\ slots' = slots + 1 /\ active' = active - 1
    /\ console' = [console EXCEPT ![a] = [Outside EXCEPT !.pc = "over"]]
    /\ UNCHANGED draining

Over(a) == Returns(a) /\ UNCHANGED paused

(* The client falls silent, at any point of its session. *)
FallSilent(a) ==
    /\ console[a].pc \in Holding /\ ~console[a].silent
    /\ console' = [console EXCEPT ![a].silent = TRUE]
    /\ UNCHANGED <<draining, active, slots, paused>>

Speaks(a, pc) == console[a].pc = pc /\ ~console[a].silent
Goes(a, pc) ==
    /\ console' = [console EXCEPT ![a].pc = pc]
    /\ UNCHANGED <<draining, active, slots, paused>>
Writes(a, then) ==
    /\ console' = [console EXCEPT ![a].pc = "write", ![a].then = then, ![a].req = "none"]
    /\ UNCHANGED <<draining, active, slots, paused>>

(* read_startup_packet: a packet; an SSLRequest, answered by the start of  *)
(* TLS; or the end of the session, by the client, a cancel request or too  *)
(* long a packet.                                                          *)
StartupPacket(a, allowed) ==
    /\ Speaks(a, "startup")
    /\ console' = [console EXCEPT ![a].pc = "user", ![a].allowed = allowed]
    /\ UNCHANGED <<draining, active, slots, paused>>

SslRequest(a) == Speaks(a, "startup") /\ ~console[a].tls /\ Goes(a, "handshake")

StartupEnds(a) == Speaks(a, "startup") /\ Over(a)

(* start_tls, which has no timeout. *)
Handshaken(a) ==
    /\ Speaks(a, "handshake")
    /\ console' = [console EXCEPT ![a].pc = "startup", ![a].tls = TRUE]
    /\ UNCHANGED <<draining, active, slots, paused>>

HandshakeFails(a) == Speaks(a, "handshake") /\ Over(a)

(* Nothing was read in time: an error, then the end. *)
StartupTimesOut(a) == console[a].pc = "startup" /\ Writes(a, "over")

(* The user of the packet must be the one allowed ... *)
CheckUser(a) ==
    /\ console[a].pc = "user"
    /\ IF Restricted /\ ~console[a].allowed THEN Writes(a, "over") ELSE Goes(a, "tls")

(* ... and the connection encrypted; AuthenticationOk and ReadyForQuery. *)
CheckTls(a) ==
    /\ console[a].pc = "tls"
    /\ Writes(a, IF RequireTls /\ ~console[a].tls THEN "over" ELSE "loop")

(* read_request: a frame ... *)
Request(a, req) ==
    /\ Speaks(a, "loop") /\ console[a].sent < MaxCommands
    /\ console' = [console EXCEPT ![a].pc = "run", ![a].req = req, ![a].sent = @ + 1]
    /\ UNCHANGED <<draining, active, slots, paused>>

(* ... Terminate, the end of the stream, a frame too large ... *)
RequestEnds(a) == Speaks(a, "loop") /\ Over(a)

(* ... or nothing in time: an error, then the end. *)
RequestTimesOut(a) == console[a].pc = "loop" /\ Writes(a, "over")

(* The command runs; an unknown one and a message that is no simple query  *)
(* run nothing.  All are answered, with a ReadyForQuery.                   *)
Run(a) ==
    LET req == console[a].req
    IN  /\ console[a].pc = "run"
        /\ paused' = CASE req = "pause" -> TRUE [] req = "resume" -> FALSE [] OTHER -> paused
        /\ console' = [console EXCEPT ![a].pc = "write", ![a].then = "loop", ![a].req = "none",
                                      ![a].ran = @ \cup ({req} \cap Changing)]
        /\ UNCHANGED <<draining, active, slots>>

(* write_all, which has no timeout: all is written, as it may be to a      *)
(* silent client too while its buffers have room ...                       *)
Written(a) ==
    /\ console[a].pc = "write"
    /\ \/ console[a].then = "over" /\ Over(a)
       \/ /\ console[a].then = "loop"
          /\ console' = [console EXCEPT ![a].pc = "loop", ![a].then = "none", ![a].ready = @ + 1]
          /\ UNCHANGED <<draining, active, slots, paused>>

(* ... or the write fails and the session ends with an error. *)
WriteFails(a) == console[a].pc = "write" /\ Over(a)

Proceeds(a) ==
    StartupTimesOut(a) \/ CheckUser(a) \/ CheckTls(a) \/ RequestTimesOut(a) \/ Run(a)

(* What needs the client's part. *)
Answered(a) == ~console[a].silent /\ (Handshaken(a) \/ HandshakeFails(a) \/ Written(a))

Next ==
    \/ Drain
    \/ \E a \in Console :
        \/ Connect(a) \/ TakeSlot(a) \/ FallSilent(a) \/ Proceeds(a)
        \/ SslRequest(a) \/ StartupEnds(a) \/ Handshaken(a) \/ HandshakeFails(a)
        \/ RequestEnds(a) \/ Written(a) \/ WriteFails(a)
        \/ \E allowed \in BOOLEAN : StartupPacket(a, allowed)
        \/ \E req \in Requests : Request(a, req)

Spec == Init /\ [][Next]_vars

(* Tasks are scheduled, reads time out, and the slots' semaphore serves    *)
(* its waiters in order.  A client that is not silent finishes its         *)
(* handshake and reads what it is sent; a silent one need not, since       *)
(* start_tls and write_all have no timeout.                                *)
FairSpec ==
    /\ Spec
    /\ \A a \in Console :
          SF_vars(TakeSlot(a)) /\ WF_vars(Proceeds(a)) /\ WF_vars(Answered(a))
-----------------------------------------------------------------------------
TypeOK ==
    /\ draining \in BOOLEAN /\ paused \in BOOLEAN
    /\ active \in 0..Cardinality(Console) /\ slots \in 0..Slots
    /\ \A a \in Console : console[a].pc \in At /\ console[a].req \in Requests \cup {"none"}
    /\ \A a \in Console : console[a].then # "none" <=> console[a].pc = "write"

(* Whoever pauses, resumes or reloads is the user allowed to, over TLS     *)
(* where that is required.                                                 *)
OnlyAdministrators ==
    \A a \in Console : console[a].ran # {} =>
        (Restricted => console[a].allowed) /\ (RequireTls => console[a].tls)

(* Whenever the console waits for a request it has answered everything:    *)
(* one ReadyForQuery for the startup and one for each request so far.      *)
EveryRequestAnswered ==
    \A a \in Console : console[a].pc = "loop" => console[a].ready = console[a].sent + 1

(* A console that waits for a slot gets one: no session leaks one, and a   *)
(* client keeps one by falling silent only inside the TLS handshake or     *)
(* while it is written to, not where the proxy reads from it.  (A client   *)
(* that goes on sending keeps its slot: MaxCommands bounds it here.)       *)
SlotsComeBack ==
    \A a \in Console :
        console[a].pc = "entered" ~>
            \/ console[a].pc # "entered"
            \/ \E b \in Console : console[b].silent /\ console[b].pc \in {"handshake", "write"}

(* The same without exception.  docs/admin.md:26: "admin_query_timeout_ms  *)
(* bounds admin startup and query handling".                               *)
SilenceBounded == \A a \in Console : console[a].pc = "entered" ~> console[a].pc # "entered"
=============================================================================
