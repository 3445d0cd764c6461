---------------------------- MODULE ControlPlane ----------------------------
(***************************************************************************)
(* A node's view of its peers (ops/control.rs and core cluster/control.rs):*)
(* peers publish heartbeats numbered by an atomic counter, the node        *)
(* observes them, or gives a peer up as stale, and reports each change to  *)
(* its event sink.  Nothing carries heartbeats yet, so the network here    *)
(* loses, repeats, delays and reorders them.  A status is abstracted to    *)
(* its health.                                                             *)
(***************************************************************************)
EXTENDS Naturals

CONSTANTS
    Peer,
    Observer,       \* threads that share the node's HeartbeatObserver
    Static,         \* peers the store is built with (with_peers)
    MaxHeartbeats,  \* heartbeats a peer publishes
    MaxChanges      \* changes of the view

Healths == {"healthy", "overloaded", "unknown"}
Nobody == [health |-> "unknown", gen |-> 0, unknown |-> TRUE, known |-> FALSE]

VARIABLES
    counter,    \* HeartbeatPublisher.generation of each peer
    sent,       \* every heartbeat published, and so possibly under way
    view,       \* ClusterViewStore: generation, local health, peers
    observer,   \* each thread's event not yet in the sink, if any
    sink        \* the last event about each peer

vars == <<counter, sent, view, observer, sink>>

Quiet == [peer |-> "none", gen |-> 0, kind |-> "none"]

Init ==
    /\ counter = [p \in Peer |-> 0] /\ sent = {}
    /\ view = [gen |-> 0, local |-> "unknown",
               peers |-> [p \in Peer |-> [Nobody EXCEPT !.known = p \in Static]]]
    /\ observer = [o \in Observer |-> Quiet]
    /\ sink = [p \in Peer |-> Quiet]

(* HeartbeatPublisher.publish: the counter first, and from it the          *)
(* heartbeat.  The event it also publishes goes to the peer's own sink,    *)
(* not to the one modelled here.                                           *)
publish(p, health) ==
    /\ counter[p] < MaxHeartbeats
    /\ counter' = [counter EXCEPT ![p] = @ + 1]
    /\ sent' = sent \cup {[peer |-> p, health |-> health, gen |-> counter'[p]]}
    /\ UNCHANGED <<view, observer, sink>>

(* PeerState.from_heartbeat and PeerState.unknown. *)
FromHeartbeat(h) == [health |-> h.health, gen |-> h.gen, unknown |-> FALSE, known |-> TRUE]
Unknown(gen) == [health |-> "unknown", gen |-> gen, unknown |-> TRUE, known |-> TRUE]

(* The store changes a peer under its lock and counts the change. *)
Store(p, state) ==
    view' = [view EXCEPT !.gen = @ + 1, !.peers[p] = state]

Reports(o, p, gen, kind) ==
    observer' = [observer EXCEPT ![o] = [peer |-> p, gen |-> gen, kind |-> kind]]

(* HeartbeatObserver.observe, of a heartbeat that may be stale by now ... *)
observe(o, h, stale) ==
    LET kind == IF stale THEN "marked" ELSE "observed"
    IN  /\ observer[o] = Quiet /\ view.gen < MaxChanges
        /\ Store(h.peer, IF stale THEN Unknown(h.gen) ELSE FromHeartbeat(h))
        /\ Reports(o, h.peer, h.gen, kind)
        /\ UNCHANGED <<counter, sent, sink>>

(* ... and mark_stale, which only touches a peer the view has.             *)
mark_stale(o, p, gen) ==
    /\ observer[o] = Quiet /\ view.gen < MaxChanges
    /\ view.peers[p].known
    /\ Store(p, Unknown(gen))
    /\ Reports(o, p, gen, "marked")
    /\ UNCHANGED <<counter, sent, sink>>

(* The event follows, outside the store's lock. *)
sink_publish(o) ==
    /\ observer[o] # Quiet
    /\ sink' = [sink EXCEPT ![observer[o].peer] = observer[o]]
    /\ observer' = [observer EXCEPT ![o] = Quiet]
    /\ UNCHANGED <<counter, sent, view>>

set_local(health) ==
    /\ view.gen < MaxChanges
    /\ view' = [view EXCEPT !.gen = @ + 1, !.local = health]
    /\ UNCHANGED <<counter, sent, observer, sink>>

Next ==
    \/ \E p \in Peer, health \in Healths : publish(p, health)
    \/ \E o \in Observer :
        \/ \E h \in sent, stale \in BOOLEAN : observe(o, h, stale)
        \/ \E p \in Peer : \E gen \in 0..counter[p] : mark_stale(o, p, gen)
        \/ sink_publish(o)
    \/ \E health \in Healths : set_local(health)

Spec == Init /\ [][Next]_vars
-----------------------------------------------------------------------------
(* A peer the view presents as known was in that very state when it        *)
(* published that generation; one that is not is shown as unknown.         *)
ViewHonest ==
    \A p \in Peer :
        LET s == view.peers[p]
        IN  IF s.unknown THEN s.health = "unknown"
            ELSE [peer |-> p, health |-> s.health, gen |-> s.gen] \in sent

(* An older heartbeat does not replace a newer one.                        *)
PeerMovesForward == [][\A p \in Peer : view'.peers[p].gen >= view.peers[p].gen]_vars
=============================================================================
