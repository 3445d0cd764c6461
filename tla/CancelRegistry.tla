--------------------------- MODULE CancelRegistry ---------------------------
(***************************************************************************)
(* The cancel registry (cancel.rs) and the sessions and cancel connections *)
(* that share it.  A session binds its key to the backend it has checked   *)
(* out and unbinds it before the backend goes back; a cancel connection    *)
(* looks the key up, claims the right to forward, reads the target and     *)
(* sends.  Each step is one access to shared state.                        *)
(***************************************************************************)
EXTENDS Naturals

CONSTANTS
    Session, Cancel, Server,
    Nobody, Closed,      \* nobody; the owner of a closed connection
    MaxLeases          \* bound: checkouts of a session

ASSUME CancelAssumption ==
    /\ Nobody \notin Session \cup Server
    /\ Closed \notin Session \cup {Nobody}
    /\ MaxLeases \in Nat

VARIABLES
    session,     \* each session: where it is, its lease, leases so far
    cancel,      \* each cancel connection: where it is, its key, its target
    entries,     \* sessions whose key is registered
    target,      \* the target of each session's binding
    forwarding,  \* the forwarding flag of each binding
    woken,       \* sessions whose wait on forwarding_done is over
    owner        \* the session that leases each backend

vars == <<session, cancel, entries, target, forwarding, woken, owner>>

(* check, park, wait: in unbind, after the target was cleared. *)
Unbinding == {"check", "park", "wait"}
Holding == {"leased", "bound", "free"} \cup Unbinding
SessionAt == Holding \cup {"out", "idle", "gone"}
(* claim: has the binding.  read, send, undo: owns the forwarding flag. *)
Forwards == {"read", "send", "undo"}
CancelAt == Forwards \cup {"out", "look", "claim", "notify", "done"}

SessionTask == [pc : SessionAt, lease : Server \cup {Nobody}, leases : 0..MaxLeases]
CancelTask == [pc : CancelAt, key : Session \cup {Nobody}, target : Server \cup {Nobody}]

Init ==
    /\ session = [s \in Session |-> [pc |-> "out", lease |-> Nobody, leases |-> 0]]
    /\ cancel = [k \in Cancel |-> [pc |-> "out", key |-> Nobody, target |-> Nobody]]
    /\ entries = {}
    /\ target = [s \in Session |-> Nobody]
    /\ forwarding = [s \in Session |-> FALSE]
    /\ woken = {}
    /\ owner = [b \in Server |-> Nobody]

(***************************************************************************)
(* A session.                                                              *)
(***************************************************************************)
Sits(s, pc) == session[s].pc = pc
Moves(s, pc) == session' = [session EXCEPT ![s].pc = pc]

(* issue_client_key: a key no other session has. *)
Issue(s) ==
    /\ Sits(s, "out")
    /\ entries' = entries \cup {s}
    /\ Moves(s, "idle")
    /\ UNCHANGED <<cancel, target, forwarding, woken, owner>>

(* The pool leases a backend nobody else has. *)
Checkout(s, b) ==
    /\ Sits(s, "idle") /\ owner[b] = Nobody /\ session[s].leases < MaxLeases
    /\ owner' = [owner EXCEPT ![b] = s]
    /\ session' = [session EXCEPT ![s].pc = "leased", ![s].lease = b, ![s].leases = @ + 1]
    /\ UNCHANGED <<cancel, entries, target, forwarding, woken>>

(* bind_cancel_target: nothing is bound if the backend sent no key data. *)
Bind(s, known) ==
    /\ Sits(s, "leased")
    /\ target' = IF known /\ s \in entries THEN [target EXCEPT ![s] = session[s].lease]
                 ELSE target
    /\ Moves(s, "bound")
    /\ UNCHANGED <<cancel, entries, forwarding, woken, owner>>

(* unbind, bound or not: clear the target ... *)
Unbind(s) ==
    /\ session[s].pc \in {"leased", "bound"}
    /\ target' = [target EXCEPT ![s] = Nobody]
    /\ Moves(s, "check")
    /\ UNCHANGED <<cancel, entries, forwarding, woken, owner>>

(* Mutant: the session does not wait for a cancel being forwarded. *)
CheckUnwaited(s) ==
    /\ Sits(s, "check")
    /\ Moves(s, "free")
    /\ UNCHANGED <<cancel, entries, target, forwarding, woken, owner>>

(* ... then wait while a cancel is being forwarded.  The flag is read ...  *)
Check(s) ==
    /\ Sits(s, "check")
    /\ Moves(s, IF forwarding[s] THEN "park" ELSE "free")
    /\ UNCHANGED <<cancel, entries, target, forwarding, woken, owner>>

(* ... and the Notified future made in two steps. *)
ParkUnbind(s) ==
    /\ Sits(s, "park")
    /\ Moves(s, "wait")
    /\ UNCHANGED <<cancel, entries, target, forwarding, woken, owner>>

WakeUnbind(s) ==
    /\ Sits(s, "wait") /\ s \in woken
    /\ woken' = woken \ {s}
    /\ Moves(s, "check")
    /\ UNCHANGED <<cancel, entries, target, forwarding, owner>>

(* The lease is released, or discarded, once unbind has returned. *)
ReleaseServer(s) ==
    /\ Sits(s, "free")
    /\ \E o \in {Nobody, Closed} : owner' = [owner EXCEPT ![session[s].lease] = o]
    /\ session' = [session EXCEPT ![s].pc = "idle", ![s].lease = Nobody]
    /\ UNCHANGED <<cancel, entries, target, forwarding, woken>>

(* After a query timeout the session may hold on to the backend.           *)
Keep(s) ==
    /\ Sits(s, "free")
    /\ Moves(s, "leased")
    /\ UNCHANGED <<cancel, entries, target, forwarding, woken, owner>>

(* The session ends; its guard removes the key. *)
End(s) ==
    /\ Sits(s, "idle")
    /\ entries' = entries \ {s}
    /\ Moves(s, "gone")
    /\ UNCHANGED <<cancel, target, forwarding, woken, owner>>

(* The session's future is dropped, by an error or by a forced shutdown:   *)
(* the lease's drop closes the backend and nothing is unbound.             *)
Abort(s) ==
    /\ session[s].pc \in Holding
    /\ owner' = [owner EXCEPT ![session[s].lease] = Closed]
    /\ session' = [session EXCEPT ![s].pc = "gone", ![s].lease = Nobody]
    /\ entries' = entries \ {s}
    /\ woken' = woken \ {s}
    /\ UNCHANGED <<cancel, target, forwarding>>

(***************************************************************************)
(* A cancel connection: forward_cancel.                                    *)
(***************************************************************************)
CAt(k, pc) == cancel[k].pc = pc
CGoes(k, pc) == cancel' = [cancel EXCEPT ![k].pc = pc]
Key(k) == cancel[k].key

(* A cancel request arrives, with the key of a session, perhaps a past one. *)
Arrive(k, s) ==
    /\ CAt(k, "out")
    /\ cancel' = [cancel EXCEPT ![k].pc = "look", ![k].key = s]
    /\ UNCHANGED <<session, entries, target, forwarding, woken, owner>>

(* acquire_forwarding: the binding ... *)
Look(k) ==
    /\ CAt(k, "look")
    /\ CGoes(k, IF Key(k) \in entries THEN "claim" ELSE "done")
    /\ UNCHANGED <<session, entries, target, forwarding, woken, owner>>

(* ... the compare-exchange of its flag ... *)
Claim(k) ==
    /\ CAt(k, "claim")
    /\ forwarding' = [forwarding EXCEPT ![Key(k)] = TRUE]
    /\ CGoes(k, IF forwarding[Key(k)] THEN "done" ELSE "read")
    /\ UNCHANGED <<session, entries, target, woken, owner>>

(* ... and its target. *)
Read(k) ==
    /\ CAt(k, "read")
    /\ cancel' = [cancel EXCEPT ![k].target = target[Key(k)],
                                ![k].pc = IF target[Key(k)] = Nobody THEN "undo" ELSE "send"]
    /\ UNCHANGED <<session, entries, target, forwarding, woken, owner>>

(* The connect and the write, successful or not. *)
Send(k) ==
    /\ CAt(k, "send")
    /\ CGoes(k, "undo")
    /\ UNCHANGED <<session, entries, target, forwarding, woken, owner>>

(* The drop of the forwarding lease, or the return without one: the flag,  *)
(* then the notification.                                                  *)
Undo(k) ==
    /\ CAt(k, "undo")
    /\ forwarding' = [forwarding EXCEPT ![Key(k)] = FALSE]
    /\ CGoes(k, "notify")
    /\ UNCHANGED <<session, entries, target, woken, owner>>

Notify(k) ==
    /\ CAt(k, "notify")
    /\ woken' = woken \cup {s \in {Key(k)} : Sits(s, "wait")}
    /\ CGoes(k, "done")
    /\ UNCHANGED <<session, entries, target, forwarding, owner>>

(***************************************************************************)
(* The specification.                                                      *)
(***************************************************************************)
Unbinds(s) == Check(s) \/ ParkUnbind(s) \/ WakeUnbind(s)
Cancels(k) == Look(k) \/ Claim(k) \/ Read(k) \/ Send(k) \/ Undo(k) \/ Notify(k)

AllGone == UNCHANGED vars /\ \A s \in Session : Sits(s, "gone")

Next ==
    \/ \E s \in Session :
        \/ Issue(s) \/ Unbind(s) \/ Unbinds(s) \/ ReleaseServer(s) \/ Keep(s)
        \/ End(s) \/ Abort(s)
        \/ \E b \in Server : Checkout(s, b)
        \/ \E known \in BOOLEAN : Bind(s, known)
    \/ \E k \in Cancel : Cancels(k) \/ \E s \in Session : Arrive(k, s)
    \/ AllGone

Spec == Init /\ [][Next]_vars

(* Tasks are scheduled, and a connect ends: the kernel gives it up. *)
FairSpec ==
    /\ Spec
    /\ \A s \in Session : WF_vars(Unbinds(s))
    /\ \A k \in Cancel : WF_vars(Cancels(k))
-----------------------------------------------------------------------------
(* Keys, targets and owners are of their kinds. *)
TypeOK ==
    /\ session \in [Session -> SessionTask]
    /\ cancel \in [Cancel -> CancelTask]
    /\ entries \subseteq Session
    /\ target \in [Session -> Server \cup {Nobody}]
    /\ forwarding \in [Session -> BOOLEAN]
    /\ woken \subseteq Session
    /\ owner \in [Server -> Session \cup {Nobody, Closed}]

(* A cancel request is sent to a backend only while the session whose key  *)
(* it carries leases that backend, or once the backend is closed: however  *)
(* the send and the release interleave, it is never sent to a backend that *)
(* is idle or serves another session.                                      *)
CancelReachesOwn ==
    \A k \in Cancel : CAt(k, "send") => owner[cancel[k].target] \in {Key(k), Closed}

(* The flag of a binding is up exactly while one cancel connection is      *)
(* forwarding for it: a second cancel of the same key is dropped, not      *)
(* queued, and no flag is left up.                                         *)
OneForwarder ==
    /\ \A s \in Session :
        forwarding[s] <=> \E k \in Cancel : Key(k) = s /\ cancel[k].pc \in Forwards
    /\ \A j, k \in Cancel :
        Key(j) = Key(k) /\ cancel[j].pc \in Forwards /\ cancel[k].pc \in Forwards => j = k

(* What makes CancelReachesOwn inductive: a session leases what it holds,  *)
(* its binding names its lease or a closed backend, and a session whose    *)
(* cancel is being sent has not got past unbind.                           *)
LeaseOwned ==
    \A s \in Session :
        session[s].pc \in Holding => session[s].lease \in Server /\ owner[session[s].lease] = s

TargetBound ==
    \A s \in Session :
        target[s] # Nobody =>
            \/ owner[target[s]] = Closed
            \/ Sits(s, "bound") /\ target[s] = session[s].lease

InReach(k) ==
    /\ cancel[k].target \in Server
    /\ \/ owner[cancel[k].target] = Closed
       \/ /\ session[Key(k)].pc \in {"bound"} \cup Unbinding
          /\ session[Key(k)].lease = cancel[k].target

SendHeld == \A k \in Cancel : CAt(k, "send") => InReach(k)

Keyed == \A k \in Cancel : ~CAt(k, "out") => Key(k) \in Session

(* The inductive invariant of the registry: types, keys, forwarders, and  *)
(* what leases, bindings and senders say of each other.                   *)
Invariant == TypeOK /\ Keyed /\ OneForwarder /\ LeaseOwned /\ TargetBound /\ SendHeld

(* unbind returns: a test says that it "completes after lease drop".       *)
UnbindCompletes == \A s \in Session : Sits(s, "check") ~> session[s].pc \notin Unbinding
=============================================================================
