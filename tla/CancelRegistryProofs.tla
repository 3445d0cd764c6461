------------------------ MODULE CancelRegistryProofs ------------------------
(***************************************************************************)
(* The cancel registry's safety for any number of sessions, backends and   *)
(* cancel connections.  One lemma per step, one leaf per conjunct of the   *)
(* inductive invariant.                                                    *)
(***************************************************************************)
EXTENDS CancelRegistry, TLAPS

(* A registered key changes nobody's lease, binding or claim.              *)
LEMMA IssueKeeps ==
    ASSUME Invariant, NEW s \in Session, Issue(s)
    PROVE  Invariant'
<1>1. TypeOK'
  <2>1. session' \in [Session -> SessionTask]
    BY CancelAssumption DEF Invariant, TypeOK, Issue, Sits, Moves, SessionTask,
         SessionAt, Holding, Unbinding
  <2>. QED
    BY <2>1 DEF Invariant, TypeOK, Issue, Sits, Moves
<1>2. Keyed'
  BY DEF Invariant, Keyed, Issue, Sits, Moves, CAt, Key
<1>3. OneForwarder'
  BY DEF Invariant, OneForwarder, Issue, Sits, Moves, Key, Forwards
<1>4. LeaseOwned'
  BY CancelAssumption DEF Invariant, TypeOK, LeaseOwned, Issue, Sits, Moves,
       Holding, Unbinding, SessionTask
<1>5. TargetBound'
  BY CancelAssumption DEF Invariant, TypeOK, LeaseOwned, TargetBound, Issue,
       Sits, Moves, Holding, SessionTask
<1>6. SendHeld'
  BY CancelAssumption DEF Invariant, TypeOK, Keyed, OneForwarder,
       LeaseOwned, TargetBound, SendHeld, InReach, Issue, Sits, Moves, CAt, Key,
       Forwards, Holding, Unbinding, SessionTask, SessionAt
<1>. QED  BY <1>1, <1>2, <1>3, <1>4, <1>5, <1>6 DEF Invariant

(* The backend leased had no owner, so no binding and no send names it.    *)
LEMMA CheckoutKeeps ==
    ASSUME Invariant, NEW s \in Session, NEW b \in Server, Checkout(s, b)
    PROVE  Invariant'
<1>1. TypeOK'
  <2>1. session' \in [Session -> SessionTask]
    BY CancelAssumption DEF Invariant, TypeOK, Checkout, Sits, Moves,
         SessionTask, SessionAt, Holding, Unbinding
  <2>. QED
    BY <2>1 DEF Invariant, TypeOK, Checkout, Sits, Moves
<1>2. Keyed'
  BY DEF Invariant, Keyed, Checkout, Sits, Moves, CAt, Key
<1>3. OneForwarder'
  BY DEF Invariant, OneForwarder, Checkout, Sits, Moves, Key, Forwards
<1>4. LeaseOwned'
  BY CancelAssumption DEF Invariant, TypeOK, LeaseOwned, Checkout, Sits, Moves,
       Holding, Unbinding, SessionTask
<1>5. TargetBound'
  BY CancelAssumption DEF Invariant, TypeOK, LeaseOwned, TargetBound,
       Checkout, Sits, Moves, Holding, SessionTask
<1>6. SendHeld'
  BY CancelAssumption DEF Invariant, TypeOK, Keyed, OneForwarder,
       LeaseOwned, TargetBound, SendHeld, InReach, Checkout, Sits, Moves, CAt, Key,
       Forwards, Holding, Unbinding, SessionTask, SessionAt
<1>. QED  BY <1>1, <1>2, <1>3, <1>4, <1>5, <1>6 DEF Invariant

(* A binding names the lease that its session holds.                       *)
LEMMA BindKeeps ==
    ASSUME Invariant, NEW s \in Session, NEW known \in BOOLEAN, Bind(s, known)
    PROVE  Invariant'
<1>1. TypeOK'
  <2>1. session' \in [Session -> SessionTask]
    BY CancelAssumption DEF Invariant, TypeOK, Bind, Sits, Moves, SessionTask,
         SessionAt, Holding, Unbinding
  <2>2. session[s].lease \in Server
    BY DEF Invariant, LeaseOwned, Bind, Sits, Holding
  <2>3. target' \in [Session -> Server \cup {Nobody}]
    BY <2>2 DEF Invariant, TypeOK, Bind
  <2>. QED
    BY <2>1, <2>3 DEF Invariant, TypeOK, Bind
<1>2. Keyed'
  BY DEF Invariant, Keyed, Bind, Sits, Moves, CAt, Key
<1>3. OneForwarder'
  BY DEF Invariant, OneForwarder, Bind, Sits, Moves, Key, Forwards
<1>4. LeaseOwned'
  BY CancelAssumption DEF Invariant, TypeOK, LeaseOwned, Bind, Sits, Moves,
       Holding, Unbinding, SessionTask
<1>5. TargetBound'
  BY CancelAssumption DEF Invariant, TypeOK, LeaseOwned, TargetBound, Bind,
       Sits, Moves, Holding, SessionTask
<1>6. SendHeld'
  BY CancelAssumption DEF Invariant, TypeOK, Keyed, OneForwarder,
       LeaseOwned, TargetBound, SendHeld, InReach, Bind, Sits, Moves, CAt, Key,
       Forwards, Holding, Unbinding, SessionTask, SessionAt
<1>. QED  BY <1>1, <1>2, <1>3, <1>4, <1>5, <1>6 DEF Invariant

(* With the target cleared, a connection in the middle of a send still     *)
(* finds its session inside unbind.                                        *)
LEMMA UnbindKeeps ==
    ASSUME Invariant, NEW s \in Session, Unbind(s)
    PROVE  Invariant'
<1>1. TypeOK'
  <2>1. session' \in [Session -> SessionTask]
    BY CancelAssumption DEF Invariant, TypeOK, Unbind, Sits, Moves,
         SessionTask, SessionAt, Holding, Unbinding
  <2>. QED
    BY <2>1 DEF Invariant, TypeOK, Unbind, Sits, Moves
<1>2. Keyed'
  BY DEF Invariant, Keyed, Unbind, Sits, Moves, CAt, Key
<1>3. OneForwarder'
  BY DEF Invariant, OneForwarder, Unbind, Sits, Moves, Key, Forwards
<1>4. LeaseOwned'
  BY CancelAssumption DEF Invariant, TypeOK, LeaseOwned, Unbind, Sits, Moves,
       Holding, Unbinding, SessionTask
<1>5. TargetBound'
  BY CancelAssumption DEF Invariant, TypeOK, LeaseOwned, TargetBound,
       Unbind, Sits, Moves, Holding, SessionTask
<1>6. SendHeld'
  BY CancelAssumption DEF Invariant, TypeOK, Keyed, OneForwarder,
       LeaseOwned, TargetBound, SendHeld, InReach, Unbind, Sits, Moves, CAt, Key,
       Forwards, Holding, Unbinding, SessionTask, SessionAt
<1>. QED  BY <1>1, <1>2, <1>3, <1>4, <1>5, <1>6 DEF Invariant

(* The flag decides who leaves unbind: OneForwarder says it is down only   *)
(* when nobody is sending.                                                 *)
LEMMA CheckKeeps ==
    ASSUME Invariant, NEW s \in Session, Check(s)
    PROVE  Invariant'
<1>1. TypeOK'
  <2>1. session' \in [Session -> SessionTask]
    BY CancelAssumption DEF Invariant, TypeOK, Check, Sits, Moves, SessionTask,
         SessionAt, Holding, Unbinding
  <2>. QED
    BY <2>1 DEF Invariant, TypeOK, Check, Sits, Moves
<1>2. Keyed'
  BY DEF Invariant, Keyed, Check, Sits, Moves, CAt, Key
<1>3. OneForwarder'
  BY DEF Invariant, OneForwarder, Check, Sits, Moves, Key, Forwards
<1>4. LeaseOwned'
  BY CancelAssumption DEF Invariant, TypeOK, LeaseOwned, Check, Sits, Moves,
       Holding, Unbinding, SessionTask
<1>5. TargetBound'
  BY CancelAssumption DEF Invariant, TypeOK, LeaseOwned, TargetBound, Check,
       Sits, Moves, Holding, SessionTask
<1>6. SendHeld'
  BY CancelAssumption DEF Invariant, TypeOK, Keyed, OneForwarder,
       LeaseOwned, TargetBound, SendHeld, InReach, Check, Sits, Moves, CAt, Key,
       Forwards, Holding, Unbinding, SessionTask, SessionAt
<1>. QED  BY <1>1, <1>2, <1>3, <1>4, <1>5, <1>6 DEF Invariant

(* Making the Notified future leaves leases and claims alone.              *)
LEMMA ParkKeeps ==
    ASSUME Invariant, NEW s \in Session, ParkUnbind(s)
    PROVE  Invariant'
<1>1. TypeOK'
  <2>1. session' \in [Session -> SessionTask]
    BY CancelAssumption DEF Invariant, TypeOK, ParkUnbind, Sits, Moves, SessionTask,
         SessionAt, Holding, Unbinding
  <2>. QED
    BY <2>1 DEF Invariant, TypeOK, ParkUnbind, Sits, Moves
<1>2. Keyed'
  BY DEF Invariant, Keyed, ParkUnbind, Sits, Moves, CAt, Key
<1>3. OneForwarder'
  BY DEF Invariant, OneForwarder, ParkUnbind, Sits, Moves, Key, Forwards
<1>4. LeaseOwned'
  BY CancelAssumption DEF Invariant, TypeOK, LeaseOwned, ParkUnbind, Sits, Moves,
       Holding, Unbinding, SessionTask
<1>5. TargetBound'
  BY CancelAssumption DEF Invariant, TypeOK, LeaseOwned, TargetBound, ParkUnbind,
       Sits, Moves, Holding, SessionTask
<1>6. SendHeld'
  BY CancelAssumption DEF Invariant, TypeOK, Keyed, OneForwarder,
       LeaseOwned, TargetBound, SendHeld, InReach, ParkUnbind, Sits, Moves, CAt, Key,
       Forwards, Holding, Unbinding, SessionTask, SessionAt
<1>. QED  BY <1>1, <1>2, <1>3, <1>4, <1>5, <1>6 DEF Invariant

(* A woken session reads the flag again; it is still inside unbind.        *)
LEMMA WakeKeeps ==
    ASSUME Invariant, NEW s \in Session, WakeUnbind(s)
    PROVE  Invariant'
<1>1. TypeOK'
  <2>1. session' \in [Session -> SessionTask]
    BY CancelAssumption DEF Invariant, TypeOK, WakeUnbind, Sits, Moves, SessionTask,
         SessionAt, Holding, Unbinding
  <2>. QED
    BY <2>1 DEF Invariant, TypeOK, WakeUnbind, Sits, Moves
<1>2. Keyed'
  BY DEF Invariant, Keyed, WakeUnbind, Sits, Moves, CAt, Key
<1>3. OneForwarder'
  BY DEF Invariant, OneForwarder, WakeUnbind, Sits, Moves, Key, Forwards
<1>4. LeaseOwned'
  BY CancelAssumption DEF Invariant, TypeOK, LeaseOwned, WakeUnbind, Sits, Moves,
       Holding, Unbinding, SessionTask
<1>5. TargetBound'
  BY CancelAssumption DEF Invariant, TypeOK, LeaseOwned, TargetBound, WakeUnbind,
       Sits, Moves, Holding, SessionTask
<1>6. SendHeld'
  BY CancelAssumption DEF Invariant, TypeOK, Keyed, OneForwarder,
       LeaseOwned, TargetBound, SendHeld, InReach, WakeUnbind, Sits, Moves, CAt, Key,
       Forwards, Holding, Unbinding, SessionTask, SessionAt
<1>. QED  BY <1>1, <1>2, <1>3, <1>4, <1>5, <1>6 DEF Invariant

(* A session past unbind has no binding and no cancel in flight.           *)
LEMMA ReleaseKeeps ==
    ASSUME Invariant, NEW s \in Session, ReleaseServer(s)
    PROVE  Invariant'
<1>1. TypeOK'
  <2>0. ASSUME NEW t \in Session PROVE session'[t] \in SessionTask
    <3>1. session[t] \in SessionTask
      BY DEF Invariant, TypeOK
    <3>2. CASE t = s
      BY <3>1, <3>2, CancelAssumption DEF Invariant, TypeOK, ReleaseServer, Sits,
         Moves, SessionTask, SessionAt, Holding, Unbinding
    <3>3. CASE t # s
      BY <3>1, <3>3 DEF Invariant, TypeOK, ReleaseServer, Sits, Moves
    <3>. QED  BY <3>2, <3>3
  <2>1. session' \in [Session -> SessionTask]
    BY <2>0 DEF Invariant, TypeOK, ReleaseServer, Sits, Moves
  <2>. QED
    BY <2>1 DEF Invariant, TypeOK, ReleaseServer, Sits, Moves, LeaseOwned, Holding
<1>2. Keyed'
  BY DEF Invariant, Keyed, ReleaseServer, Sits, Moves, CAt, Key
<1>3. OneForwarder'
  BY DEF Invariant, OneForwarder, ReleaseServer, Sits, Moves, Key, Forwards
<1>4. LeaseOwned'
  BY CancelAssumption DEF Invariant, TypeOK, LeaseOwned, ReleaseServer, Sits, Moves,
       Holding, Unbinding, SessionTask
<1>5. TargetBound'
  BY CancelAssumption DEF Invariant, TypeOK, LeaseOwned, TargetBound,
       ReleaseServer, Sits, Moves, Holding, SessionTask
<1>6. SendHeld'
  <2>. SUFFICES ASSUME NEW k \in Cancel, CAt(k, "send")'
                PROVE  InReach(k)'
    BY DEF SendHeld
  <2>1. CAt(k, "send") /\ InReach(k)
    BY DEF Invariant, SendHeld, ReleaseServer, CAt
  <2>2. UNCHANGED cancel
    BY DEF ReleaseServer
  <2>3. CASE owner[cancel[k].target] = Closed
    <3>1. session[s].lease \in Server /\ owner[session[s].lease] = s
      BY DEF Invariant, LeaseOwned, ReleaseServer, Sits, Holding
    <3>2. owner'[cancel[k].target] = Closed
      BY <2>1, <2>3, <3>1, CancelAssumption DEF Invariant, TypeOK, ReleaseServer, InReach
    <3>. QED
      BY <2>1, <2>2, <3>2 DEF InReach
  <2>4. CASE /\ session[Key(k)].pc \in {"bound"} \cup Unbinding
             /\ session[Key(k)].lease = cancel[k].target
    <3>1. Key(k) \in Session /\ Key(k) # s
      BY <2>1, <2>4 DEF Invariant, Keyed, ReleaseServer, Sits, CAt, Unbinding
    <3>2. session'[Key(k)] = session[Key(k)]
      BY <3>1 DEF Invariant, TypeOK, ReleaseServer
    <3>. QED
      BY <2>1, <2>2, <2>4, <3>2 DEF InReach, Key
  <2>. QED  BY <2>1, <2>3, <2>4 DEF InReach
<1>. QED  BY <1>1, <1>2, <1>3, <1>4, <1>5, <1>6 DEF Invariant

(* Held on to after a timeout, the lease is unbound and still owned.       *)
LEMMA KeepKeeps ==
    ASSUME Invariant, NEW s \in Session, Keep(s)
    PROVE  Invariant'
<1>1. TypeOK'
  <2>1. session' \in [Session -> SessionTask]
    BY CancelAssumption DEF Invariant, TypeOK, Keep, Sits, Moves, SessionTask,
         SessionAt, Holding, Unbinding
  <2>. QED
    BY <2>1 DEF Invariant, TypeOK, Keep, Sits, Moves
<1>2. Keyed'
  BY DEF Invariant, Keyed, Keep, Sits, Moves, CAt, Key
<1>3. OneForwarder'
  BY DEF Invariant, OneForwarder, Keep, Sits, Moves, Key, Forwards
<1>4. LeaseOwned'
  BY CancelAssumption DEF Invariant, TypeOK, LeaseOwned, Keep, Sits, Moves,
       Holding, Unbinding, SessionTask
<1>5. TargetBound'
  BY CancelAssumption DEF Invariant, TypeOK, LeaseOwned, TargetBound, Keep,
       Sits, Moves, Holding, SessionTask
<1>6. SendHeld'
  BY CancelAssumption DEF Invariant, TypeOK, Keyed, OneForwarder,
       LeaseOwned, TargetBound, SendHeld, InReach, Keep, Sits, Moves, CAt, Key,
       Forwards, Holding, Unbinding, SessionTask, SessionAt
<1>. QED  BY <1>1, <1>2, <1>3, <1>4, <1>5, <1>6 DEF Invariant

(* An idle session has no lease, so dropping its key frees nothing.        *)
LEMMA EndKeeps ==
    ASSUME Invariant, NEW s \in Session, End(s)
    PROVE  Invariant'
<1>1. TypeOK'
  <2>0. ASSUME NEW t \in Session PROVE session'[t] \in SessionTask
    <3>1. session[t] \in SessionTask
      BY DEF Invariant, TypeOK
    <3>2. CASE t = s
      BY <3>1, <3>2, CancelAssumption DEF Invariant, TypeOK, End, Sits, Moves,
         SessionTask, SessionAt, Holding, Unbinding
    <3>3. CASE t # s
      BY <3>1, <3>3 DEF Invariant, TypeOK, End, Sits, Moves
    <3>. QED  BY <3>2, <3>3
  <2>1. session' \in [Session -> SessionTask]
    BY <2>0 DEF Invariant, TypeOK, End, Sits, Moves
  <2>. QED
    BY <2>1 DEF Invariant, TypeOK, End, Sits, Moves
<1>2. Keyed'
  BY DEF Invariant, Keyed, End, Sits, Moves, CAt, Key
<1>3. OneForwarder'
  BY DEF Invariant, OneForwarder, End, Sits, Moves, Key, Forwards
<1>4. LeaseOwned'
  BY CancelAssumption DEF Invariant, TypeOK, LeaseOwned, End, Sits, Moves,
       Holding, Unbinding, SessionTask
<1>5. TargetBound'
  BY CancelAssumption DEF Invariant, TypeOK, LeaseOwned, TargetBound, End,
       Sits, Moves, Holding, SessionTask
<1>6. SendHeld'
  BY CancelAssumption DEF Invariant, TypeOK, Keyed, OneForwarder,
       LeaseOwned, TargetBound, SendHeld, InReach, End, Sits, Moves, CAt, Key, Forwards,
       Holding, Unbinding, SessionTask, SessionAt
<1>. QED  BY <1>1, <1>2, <1>3, <1>4, <1>5, <1>6 DEF Invariant

(* A dropped session closes its backend: what a send still names is        *)
(* closed.                                                                 *)
LEMMA AbortKeeps ==
    ASSUME Invariant, NEW s \in Session, Abort(s)
    PROVE  Invariant'
<1>1. TypeOK'
  <2>0. ASSUME NEW t \in Session PROVE session'[t] \in SessionTask
    <3>1. session[t] \in SessionTask
      BY DEF Invariant, TypeOK
    <3>2. CASE t = s
      BY <3>1, <3>2, CancelAssumption DEF Invariant, TypeOK, Abort, Sits, Moves,
         SessionTask, SessionAt, Holding, Unbinding
    <3>3. CASE t # s
      BY <3>1, <3>3 DEF Invariant, TypeOK, Abort, Sits, Moves
    <3>. QED  BY <3>2, <3>3
  <2>1. session' \in [Session -> SessionTask]
    BY <2>0 DEF Invariant, TypeOK, Abort, Sits, Moves
  <2>. QED
    BY <2>1 DEF Invariant, TypeOK, Abort, Sits, Moves, LeaseOwned, Holding
<1>2. Keyed'
  BY DEF Invariant, Keyed, Abort, Sits, Moves, CAt, Key
<1>3. OneForwarder'
  BY DEF Invariant, OneForwarder, Abort, Sits, Moves, Key, Forwards
<1>4. LeaseOwned'
  BY CancelAssumption DEF Invariant, TypeOK, LeaseOwned, Abort, Sits, Moves,
       Holding, Unbinding, SessionTask
<1>5. TargetBound'
  BY CancelAssumption DEF Invariant, TypeOK, LeaseOwned, TargetBound, Abort,
       Sits, Moves, Holding, SessionTask
<1>6. SendHeld'
  <2>. SUFFICES ASSUME NEW k \in Cancel, CAt(k, "send")'
                PROVE  InReach(k)'
    BY DEF SendHeld
  <2>1. CAt(k, "send") /\ InReach(k)
    BY DEF Invariant, SendHeld, Abort, CAt
  <2>2. UNCHANGED cancel
    BY DEF Abort
  <2>3. CASE owner[cancel[k].target] = Closed
    <3>1. session[s].lease \in Server /\ owner[session[s].lease] = s
      BY DEF Invariant, LeaseOwned, Abort, Sits, Holding
    <3>2. owner'[cancel[k].target] = Closed
      BY <2>1, <2>3, <3>1, CancelAssumption DEF Invariant, TypeOK, Abort, InReach
    <3>. QED
      BY <2>1, <2>2, <3>2 DEF InReach
  <2>4. CASE /\ session[Key(k)].pc \in {"bound"} \cup Unbinding
             /\ session[Key(k)].lease = cancel[k].target
    <3>1. Key(k) \in Session
      BY <2>1 DEF Invariant, Keyed, CAt
    <3>2. CASE Key(k) = s
      <4>1. owner'[cancel[k].target] = Closed
        BY <2>1, <2>4, <3>2 DEF Invariant, TypeOK, Abort, InReach
      <4>. QED
        BY <2>1, <2>2, <4>1 DEF InReach
    <3>3. CASE Key(k) # s
      <4>1. session'[Key(k)] = session[Key(k)]
        BY <3>1, <3>3 DEF Invariant, TypeOK, Abort
      <4>. QED
        BY <2>1, <2>2, <2>4, <4>1 DEF InReach, Key
    <3>. QED  BY <3>2, <3>3
  <2>. QED  BY <2>1, <2>3, <2>4 DEF InReach
<1>. QED  BY <1>1, <1>2, <1>3, <1>4, <1>5, <1>6 DEF Invariant

(* A new request names a session and claims nothing.                       *)
LEMMA ArriveKeeps ==
    ASSUME Invariant, NEW k \in Cancel, NEW s \in Session, Arrive(k, s)
    PROVE  Invariant'
<1>1. TypeOK'
  <2>0. ASSUME NEW t \in Cancel PROVE cancel'[t] \in CancelTask
    <3>1. cancel[t] \in CancelTask
      BY DEF Invariant, TypeOK
    <3>2. CASE t = k
      BY <3>1, <3>2, CancelAssumption DEF Invariant, TypeOK, Arrive, CAt,
         CGoes, Key, CancelTask, CancelAt, Forwards
    <3>3. CASE t # k
      BY <3>1, <3>3 DEF Invariant, TypeOK, Arrive, CAt, CGoes, Key
    <3>. QED  BY <3>2, <3>3
  <2>1. cancel' \in [Cancel -> CancelTask]
    BY <2>0 DEF Invariant, TypeOK, Arrive, CAt, CGoes, Key
  <2>. QED
    BY <2>1 DEF Invariant, TypeOK, Arrive, CAt, CGoes, Key
<1>2. Keyed'
  BY DEF Invariant, TypeOK, Keyed, Arrive, CAt, CGoes, Key, CancelTask,
       CancelAt, Forwards
<1>3. OneForwarder'
  BY CancelAssumption DEF Invariant, TypeOK, Keyed, OneForwarder, Arrive,
       CAt, CGoes, Key, Forwards, CancelTask, CancelAt
<1>4. LeaseOwned'
  BY CancelAssumption DEF Invariant, LeaseOwned, Arrive, CAt, CGoes, Key,
       Holding, Unbinding
<1>5. TargetBound'
  BY CancelAssumption DEF Invariant, TargetBound, Arrive, CAt, CGoes, Key,
       Sits, Holding
<1>6. SendHeld'
  <2>. SUFFICES ASSUME NEW j \in Cancel, CAt(j, "send")'
                PROVE  InReach(j)'
    BY DEF SendHeld
  <2>1. cancel'[j] = cancel[j]
    BY DEF Invariant, TypeOK, Arrive, CAt, CancelTask
  <2>2. CAt(j, "send") /\ InReach(j)
    BY <2>1 DEF Invariant, SendHeld, CAt
  <2>3. UNCHANGED <<session, owner>>
    BY DEF Arrive
  <2>. QED
    BY <2>1, <2>2, <2>3 DEF InReach, Key
<1>. QED  BY <1>1, <1>2, <1>3, <1>4, <1>5, <1>6 DEF Invariant

(* The lookup only moves the connection on.                                *)
LEMMA LookKeeps ==
    ASSUME Invariant, NEW k \in Cancel, Look(k)
    PROVE  Invariant'
<1>1. TypeOK'
  <2>1. cancel' \in [Cancel -> CancelTask]
    BY CancelAssumption DEF Invariant, TypeOK, Look, CAt, CGoes, Key,
         CancelTask, CancelAt, Forwards
  <2>. QED
    BY <2>1 DEF Invariant, TypeOK, Look, CAt, CGoes, Key
<1>2. Keyed'
  BY DEF Invariant, TypeOK, Keyed, Look, CAt, CGoes, Key, CancelTask,
       CancelAt, Forwards
<1>3. OneForwarder'
  BY CancelAssumption DEF Invariant, TypeOK, Keyed, OneForwarder, Look, CAt,
       CGoes, Key, Forwards, CancelTask, CancelAt
<1>4. LeaseOwned'
  BY CancelAssumption DEF Invariant, LeaseOwned, Look, CAt, CGoes, Key,
       Holding, Unbinding
<1>5. TargetBound'
  BY CancelAssumption DEF Invariant, TargetBound, Look, CAt, CGoes, Key, Sits,
       Holding
<1>6. SendHeld'
  BY CancelAssumption DEF Invariant, TypeOK, Keyed, OneForwarder,
       LeaseOwned, TargetBound, SendHeld, InReach, Look, CAt, CGoes, Key, Sits,
       Forwards, Holding, Unbinding, CancelTask, CancelAt
<1>. QED  BY <1>1, <1>2, <1>3, <1>4, <1>5, <1>6 DEF Invariant

(* The compare-exchange succeeds only where no connection forwards.        *)
LEMMA ClaimKeeps ==
    ASSUME Invariant, NEW k \in Cancel, Claim(k)
    PROVE  Invariant'
<1>1. TypeOK'
  <2>1. cancel' \in [Cancel -> CancelTask]
    BY CancelAssumption DEF Invariant, TypeOK, Claim, CAt, CGoes, Key,
         CancelTask, CancelAt, Forwards
  <2>. QED
    BY <2>1 DEF Invariant, TypeOK, Claim, CAt, CGoes, Key
<1>2. Keyed'
  BY DEF Invariant, TypeOK, Keyed, Claim, CAt, CGoes, Key, CancelTask,
       CancelAt, Forwards
<1>3. OneForwarder'
  BY CancelAssumption DEF Invariant, TypeOK, Keyed, OneForwarder, Claim,
       CAt, CGoes, Key, Forwards, CancelTask, CancelAt
<1>4. LeaseOwned'
  BY CancelAssumption DEF Invariant, LeaseOwned, Claim, CAt, CGoes, Key,
       Holding, Unbinding
<1>5. TargetBound'
  BY CancelAssumption DEF Invariant, TargetBound, Claim, CAt, CGoes, Key,
       Sits, Holding
<1>6. SendHeld'
  BY CancelAssumption DEF Invariant, TypeOK, Keyed, OneForwarder,
       LeaseOwned, TargetBound, SendHeld, InReach, Claim, CAt, CGoes, Key, Sits,
       Forwards, Holding, Unbinding, CancelTask, CancelAt
<1>. QED  BY <1>1, <1>2, <1>3, <1>4, <1>5, <1>6 DEF Invariant

(* The target read is the session's lease, or closed.                      *)
LEMMA ReadKeeps ==
    ASSUME Invariant, NEW k \in Cancel, Read(k)
    PROVE  Invariant'
<1>1. TypeOK'
  <2>1. cancel' \in [Cancel -> CancelTask]
    BY CancelAssumption DEF Invariant, TypeOK, Read, CAt, CGoes, Key,
         CancelTask, CancelAt, Forwards
  <2>. QED
    BY <2>1 DEF Invariant, TypeOK, Read, CAt, CGoes, Key
<1>2. Keyed'
  BY DEF Invariant, TypeOK, Keyed, Read, CAt, CGoes, Key, CancelTask,
       CancelAt, Forwards
<1>3. OneForwarder'
  <2>1. \A j \in Cancel : Key(j)' = Key(j)
    BY DEF Invariant, TypeOK, Read, Key, CancelTask
  <2>2. \A j \in Cancel : cancel'[j].pc \in Forwards <=> cancel[j].pc \in Forwards
    BY DEF Invariant, TypeOK, Read, CAt, CancelTask, Forwards
  <2>3. forwarding' = forwarding
    BY DEF Read
  <2>4. OneForwarder
    BY DEF Invariant
  <2>5. ASSUME NEW s \in Session
        PROVE  forwarding'[s] <=>
                 \E j \in Cancel : Key(j)' = s /\ cancel'[j].pc \in Forwards
    BY <2>1, <2>2, <2>3, <2>4 DEF OneForwarder
  <2>6. ASSUME NEW i \in Cancel, NEW j \in Cancel, Key(i)' = Key(j)',
               cancel'[i].pc \in Forwards, cancel'[j].pc \in Forwards
        PROVE  i = j
    BY <2>1, <2>2, <2>4, <2>6 DEF OneForwarder
  <2>. QED
    BY <2>5, <2>6 DEF OneForwarder
<1>4. LeaseOwned'
  BY CancelAssumption DEF Invariant, LeaseOwned, Read, CAt, CGoes, Key,
       Holding, Unbinding
<1>5. TargetBound'
  BY CancelAssumption DEF Invariant, TargetBound, Read, CAt, CGoes, Key, Sits,
       Holding
<1>6. SendHeld'
  <2>1. ASSUME NEW j \in Cancel, CAt(j, "send")', j # k
        PROVE  InReach(j)'
    <3>1. cancel'[j] = cancel[j]
      BY <2>1 DEF Invariant, TypeOK, Read
    <3>. QED
      BY <2>1, <3>1 DEF Invariant, SendHeld, InReach, Read, CAt, Key
  <2>2. ASSUME CAt(k, "send")'
        PROVE  InReach(k)'
    <3>1. /\ cancel'[k].target = target[Key(k)] /\ Key(k)' = Key(k)
          /\ cancel'[k].pc = IF target[Key(k)] = Nobody THEN "undo" ELSE "send"
      BY DEF Invariant, TypeOK, Read, CAt, Key, CancelTask
    <3>2. Key(k) \in Session
      BY DEF Invariant, Keyed, Read, CAt
    <3>3. target[Key(k)] # Nobody /\ target[Key(k)] \in Server
      BY <2>2, <3>1, <3>2 DEF Invariant, TypeOK, CAt
    <3>4. UNCHANGED <<session, owner>>
      BY DEF Read
    <3>. QED
      BY <3>1, <3>2, <3>3, <3>4 DEF Invariant, TargetBound, InReach, Sits
  <2>. QED  BY <2>1, <2>2 DEF SendHeld
<1>. QED  BY <1>1, <1>2, <1>3, <1>4, <1>5, <1>6 DEF Invariant

(* After its send a connection keeps the flag until it drops the lease.    *)
LEMMA SendKeeps ==
    ASSUME Invariant, NEW k \in Cancel, Send(k)
    PROVE  Invariant'
<1>1. TypeOK'
  <2>1. cancel' \in [Cancel -> CancelTask]
    BY CancelAssumption DEF Invariant, TypeOK, Send, CAt, CGoes, Key,
         CancelTask, CancelAt, Forwards
  <2>. QED
    BY <2>1 DEF Invariant, TypeOK, Send, CAt, CGoes, Key
<1>2. Keyed'
  BY DEF Invariant, TypeOK, Keyed, Send, CAt, CGoes, Key, CancelTask,
       CancelAt, Forwards
<1>3. OneForwarder'
  BY CancelAssumption DEF Invariant, TypeOK, Keyed, OneForwarder, Send, CAt,
       CGoes, Key, Forwards, CancelTask, CancelAt
<1>4. LeaseOwned'
  BY CancelAssumption DEF Invariant, LeaseOwned, Send, CAt, CGoes, Key,
       Holding, Unbinding
<1>5. TargetBound'
  BY CancelAssumption DEF Invariant, TargetBound, Send, CAt, CGoes, Key, Sits,
       Holding
<1>6. SendHeld'
  BY CancelAssumption DEF Invariant, TypeOK, Keyed, OneForwarder,
       LeaseOwned, TargetBound, SendHeld, InReach, Send, CAt, CGoes, Key, Sits,
       Forwards, Holding, Unbinding, CancelTask, CancelAt
<1>. QED  BY <1>1, <1>2, <1>3, <1>4, <1>5, <1>6 DEF Invariant

(* The only forwarder of the binding takes the flag down.                  *)
LEMMA UndoKeeps ==
    ASSUME Invariant, NEW k \in Cancel, Undo(k)
    PROVE  Invariant'
<1>1. TypeOK'
  <2>1. cancel' \in [Cancel -> CancelTask]
    BY CancelAssumption DEF Invariant, TypeOK, Undo, CAt, CGoes, Key,
         CancelTask, CancelAt, Forwards
  <2>. QED
    BY <2>1 DEF Invariant, TypeOK, Undo, CAt, CGoes, Key
<1>2. Keyed'
  BY DEF Invariant, TypeOK, Keyed, Undo, CAt, CGoes, Key, CancelTask,
       CancelAt, Forwards
<1>3. OneForwarder'
  BY CancelAssumption DEF Invariant, TypeOK, Keyed, OneForwarder, Undo, CAt,
       CGoes, Key, Forwards, CancelTask, CancelAt
<1>4. LeaseOwned'
  BY CancelAssumption DEF Invariant, LeaseOwned, Undo, CAt, CGoes, Key,
       Holding, Unbinding
<1>5. TargetBound'
  BY CancelAssumption DEF Invariant, TargetBound, Undo, CAt, CGoes, Key, Sits,
       Holding
<1>6. SendHeld'
  BY CancelAssumption DEF Invariant, TypeOK, Keyed, OneForwarder,
       LeaseOwned, TargetBound, SendHeld, InReach, Undo, CAt, CGoes, Key, Sits,
       Forwards, Holding, Unbinding, CancelTask, CancelAt
<1>. QED  BY <1>1, <1>2, <1>3, <1>4, <1>5, <1>6 DEF Invariant

(* The notification wakes the key's session if it is waiting.              *)
LEMMA NotifyKeeps ==
    ASSUME Invariant, NEW k \in Cancel, Notify(k)
    PROVE  Invariant'
<1>1. TypeOK'
  <2>1. cancel' \in [Cancel -> CancelTask]
    BY CancelAssumption DEF Invariant, TypeOK, Notify, CAt, CGoes, Key, Sits,
         CancelTask, CancelAt, Forwards
  <2>. QED
    BY <2>1 DEF Invariant, TypeOK, Notify, CAt, CGoes, Key, Sits, Keyed
<1>2. Keyed'
  BY DEF Invariant, TypeOK, Keyed, Notify, CAt, CGoes, Key, Sits, CancelTask,
       CancelAt, Forwards
<1>3. OneForwarder'
  BY CancelAssumption DEF Invariant, TypeOK, Keyed, OneForwarder, Notify,
       CAt, CGoes, Key, Sits, Forwards, CancelTask, CancelAt
<1>4. LeaseOwned'
  BY CancelAssumption DEF Invariant, LeaseOwned, Notify, CAt, CGoes, Key,
       Sits, Holding, Unbinding
<1>5. TargetBound'
  BY CancelAssumption DEF Invariant, TargetBound, Notify, CAt, CGoes, Key,
       Sits, Holding
<1>6. SendHeld'
  BY CancelAssumption DEF Invariant, TypeOK, Keyed, OneForwarder,
       LeaseOwned, TargetBound, SendHeld, InReach, Notify, CAt, CGoes, Key, Sits,
       Forwards, Holding, Unbinding, CancelTask, CancelAt
<1>. QED  BY <1>1, <1>2, <1>3, <1>4, <1>5, <1>6 DEF Invariant

(* Nothing is leased, bound or claimed at first. *)
LEMMA InitInvariant == Init => Invariant
BY CancelAssumption
DEF Init, Invariant, TypeOK, Keyed, OneForwarder, LeaseOwned, TargetBound, SendHeld, InReach, Sits, CAt,
    Key, Holding, Unbinding, Forwards, SessionAt, CancelAt, SessionTask, CancelTask

(* Steps of the rest of the proxy. *)
LEMMA StutterKeeps ==
    ASSUME Invariant, UNCHANGED vars
    PROVE  Invariant'
BY DEF vars, Invariant, TypeOK, Keyed, OneForwarder, LeaseOwned, TargetBound, SendHeld, InReach, Sits,
       CAt, Key

(* The invariant is inductive: every step of cancel.rs keeps it. *)
LEMMA StepInvariant == Invariant /\ [Next]_vars => Invariant'
<1> SUFFICES ASSUME Invariant, [Next]_vars PROVE Invariant'
  OBVIOUS
<1>1. ASSUME NEW s \in Session, Issue(s) PROVE Invariant'
  BY <1>1, IssueKeeps
<1>2. ASSUME NEW s \in Session, NEW b \in Server, Checkout(s, b) PROVE Invariant'
  BY <1>2, CheckoutKeeps
<1>3. ASSUME NEW s \in Session, NEW known \in BOOLEAN, Bind(s, known) PROVE Invariant'
  BY <1>3, BindKeeps
<1>4. ASSUME NEW s \in Session, Unbind(s) PROVE Invariant'
  BY <1>4, UnbindKeeps
<1>5. ASSUME NEW s \in Session, Check(s) PROVE Invariant'
  BY <1>5, CheckKeeps
<1>6. ASSUME NEW s \in Session, ParkUnbind(s) PROVE Invariant'
  BY <1>6, ParkKeeps
<1>7. ASSUME NEW s \in Session, WakeUnbind(s) PROVE Invariant'
  BY <1>7, WakeKeeps
<1>8. ASSUME NEW s \in Session, ReleaseServer(s) PROVE Invariant'
  BY <1>8, ReleaseKeeps
<1>9. ASSUME NEW s \in Session, Keep(s) PROVE Invariant'
  BY <1>9, KeepKeeps
<1>10. ASSUME NEW s \in Session, End(s) PROVE Invariant'
  BY <1>10, EndKeeps
<1>11. ASSUME NEW s \in Session, Abort(s) PROVE Invariant'
  BY <1>11, AbortKeeps
<1>12. ASSUME NEW k \in Cancel, NEW s \in Session, Arrive(k, s) PROVE Invariant'
  BY <1>12, ArriveKeeps
<1>13. ASSUME NEW k \in Cancel, Look(k) PROVE Invariant'
  BY <1>13, LookKeeps
<1>14. ASSUME NEW k \in Cancel, Claim(k) PROVE Invariant'
  BY <1>14, ClaimKeeps
<1>15. ASSUME NEW k \in Cancel, Read(k) PROVE Invariant'
  BY <1>15, ReadKeeps
<1>16. ASSUME NEW k \in Cancel, Send(k) PROVE Invariant'
  BY <1>16, SendKeeps
<1>17. ASSUME NEW k \in Cancel, Undo(k) PROVE Invariant'
  BY <1>17, UndoKeeps
<1>18. ASSUME NEW k \in Cancel, Notify(k) PROVE Invariant'
  BY <1>18, NotifyKeeps
<1>19. CASE UNCHANGED vars
  BY <1>19, StutterKeeps
<1>. QED
  BY <1>1, <1>2, <1>3, <1>4, <1>5, <1>6, <1>7, <1>8, <1>9, <1>10,
     <1>11, <1>12, <1>13, <1>14, <1>15, <1>16, <1>17, <1>18, <1>19
  DEF Next, Unbinds, Cancels, AllGone

(* The conjuncts of Invariant hold for ever: types, ownership of leases,   *)
(* what a binding may name and who may be sending.                         *)
THEOREM RegistryInvariant == Spec => []Invariant
<1>1. Init => Invariant
  BY InitInvariant
<1>2. Invariant /\ [Next]_vars => Invariant'
  BY StepInvariant
<1>. QED  BY <1>1, <1>2, PTL DEF Spec

(* Every variable of the registry keeps its type. *)
THEOREM RegistryTypes == Spec => []TypeOK
<1>1. Invariant => TypeOK
  BY DEF Invariant
<1>. QED  BY <1>1, RegistryInvariant, PTL

(* The compare-exchange gives a binding at most one forwarding connection, *)
(* and its flag is up exactly while there is one.                          *)
THEOREM ForwarderUnique == Spec => []OneForwarder
<1>1. Invariant => OneForwarder
  BY DEF Invariant
<1>. QED  BY <1>1, RegistryInvariant, PTL

(* A forwarded cancel request reaches the session that owns the key, or a  *)
(* closed connection, and never another session's query.                   *)
THEOREM CancelSafe == Spec => []CancelReachesOwn
<1>1. Invariant => CancelReachesOwn
  BY DEF Invariant, TypeOK, Keyed, LeaseOwned, SendHeld, InReach, CancelReachesOwn, CAt, Key, Holding,
         Unbinding
<1>. QED  BY <1>1, RegistryInvariant, PTL
=============================================================================
