------------------------- MODULE BackendLeaseProofs --------------------------
(***************************************************************************)
(* The steps that give a client a backend or take it back keep the         *)
(* invariant of the pools: a connect that succeeds, a lease from the idle  *)
(* queue, a discard, and the sweeper's eviction.                           *)
(***************************************************************************)
EXTENDS BackendPoolProofs

-----------------------------------------------------------------------------
(* A backend that is registered nowhere is in no place. *)
LEMMA Nowhere ==
  ASSUME IInv, NEW b \in Backend, home[b] = None
  PROVE  /\ \A c \in Client : task[c].lease # b
         /\ \A p \in Pool : ~Queued(p, b)
         /\ b \notin sweep.out
  <1>1. None \notin Pool /\ b # None
    BY PoolSetsAssumption, Zenon
  <1>2. ASSUME NEW c \in Client, task[c].lease = b PROVE FALSE
    <2>1. task[c].pool \in Pool
      BY <1>1, <1>2, Zenon DEF IInv, TaskOK, Held
    <2> QED
      BY <1>1, <1>2, <2>1, Zenon DEF IInv, Places, LeaseHome
  <1>3. \A p \in Pool : ~Queued(p, b)
    BY <1>1, Zenon DEF IInv, Places, QueueOwn
  <1>4. b \notin sweep.out
    BY <1>1, Zenon DEF IInv, Places, SweepOK, SweptOwn
  <1> QED
    BY <1>2, <1>3, <1>4, Zenon

(* connect_backend succeeds: the reservation becomes a backend. *)
LEMMA ConnectedStep ==
  ASSUME IInv, NEW c \in Client, NEW b \in Backend, Connected(c, b)
  PROVE  IInv'
  <1> USE DEF store, wires
  <1> DEFINE p == task[c].pool
             r == [NoTask EXCEPT !.pc = "leased", !.pool = p, !.lease = b, !.needs = (task[c].site # "more")]
  <1>0. /\ task[c].pc = "connect" /\ home[b] = None /\ Registers(b, p) /\ Sets(c, r)
        /\ UNCHANGED <<idle, active, slots, lost, sweep>>
    BY Zenon DEF Connected, Leases, Sets, At, Registers
  <1>1. p \in Pool /\ None \notin Pool /\ b # None /\ None \notin Backend
    BY <1>0, PoolSetsAssumption, Zenon DEF IInv, TaskOK
  <1>2. Formed(r) /\ r.pc = "leased" /\ r.lease = b /\ r.pool = p
    BY <1>1, Zenon DEF Formed, NoTask, Task, Location, Held, Slotted, Reserved
  <1>3. \A d \in Client : task'[d] = IF d = c THEN r ELSE task[d]
    BY <1>0, Zenon DEF IInv, TaskOK, Sets
  <1> HIDE DEF r
  <1>4. TaskOK' /\ SweepOK'
    BY <1>0, <1>2, SetsKeeps, Zenon DEF IInv, SweepOK
  <1>5. StoreOK' /\ \A x \in Backend : home'[x] = IF x = b THEN p ELSE home[x]
    BY <1>0, <1>1, Zenon DEF IInv, StoreOK, Registers
  <1>6. Books'
    <2>1. Counts(p, 1, -1, -1)
      <3>1. /\ Bit(r.pc \in Slotted) - Bit(task[c].pc \in Slotted) = -1
            /\ Bit(r.pc = "connect") - Bit(task[c].pc = "connect") = -1
        BY <1>0, <1>2 DEF Bit, Slotted
      <3>2. /\ \A q : Cardinality(Counted(q)') = Cardinality(Counted(q)) + (IF q = p THEN -1 ELSE 0)
            /\ Cardinality(Connecting') = Cardinality(Connecting) + (-1)
        BY <1>0, <1>2, <3>1, ClientCounts DEF IInv
      <3>3. /\ \A q \in Pool : Cardinality(Homed(q)') = Cardinality(Homed(q)) + (IF q = p THEN 1 ELSE 0)
            /\ Cardinality(Open') = Cardinality(Open) + 1
        BY <1>0, <1>1, BackendCounts, Zenon DEF IInv
      <3> QED
        BY <3>2, <3>3, Zenon DEF Counts
    <2>2. Ledger(p, 0, 0, 0) /\ Books /\ p \in Pool
      BY <1>0, <1>1 DEF IInv, Books, Ledger, Owed, Closing
    <2> QED
      BY <2>1, <2>2, BooksFollow
  <1>7. Places'
    <2>1. /\ \A d \in Client : task[d].lease # b
          /\ \A q \in Pool : ~Queued(q, b)
          /\ b \notin sweep.out
      BY <1>0, Nowhere, Zenon
    <2>2. \A q, x : Queued(q, x)' <=> Queued(q, x)
      BY <1>0, Zenon DEF Queued
    <2>3. task[c].lease = None
      BY <1>0, Zenon DEF IInv, TaskOK, Held
    <2>4. \A d \in Client : task[d].lease # None => task[d].lease \in Backend
      BY Zenon DEF IInv, TaskOK, Task
    <2>5. sweep.out \subseteq Backend
      BY Zenon DEF IInv, SweepOK, Sweep
    <2>6. LeaseHome'
      BY <1>2, <1>3, <1>5, <2>1, <2>4 DEF IInv, Places, LeaseHome
    <2>7. LeaseAlone'
      BY <1>2, <1>3, <2>1 DEF IInv, Places, LeaseAlone
    <2>8. QueueOwn'
      BY <1>0, <1>2, <1>3, <1>5, <2>1, <2>2 DEF IInv, Places, QueueOwn
    <2>9. QueueOnce'
      BY <1>0, Zenon DEF IInv, Places, QueueOnce
    <2>10. SweptOwn'
      BY <1>0, <1>2, <1>3, <1>5, <2>1, <2>5 DEF IInv, Places, SweptOwn
    <2>11. Somewhere'
      <3> SUFFICES ASSUME NEW x \in Backend, home'[x] # None
                   PROVE  (\E d \in Client : task'[d].lease = x) \/ Queued(home[x], x)' \/ x \in sweep'.out
        BY Zenon DEF Somewhere
      <3>1. CASE x = b
        BY <1>2, <1>3, <3>1, Zenon
      <3>2. CASE x # b
        <4>1. home'[x] = home[x] /\ home[x] # None
          BY <1>5, <3>2, Zenon
        <4>2. CASE \E d \in Client : task[d].lease = x
          <5>1. PICK d \in Client : task[d].lease = x
            BY <4>2, Zenon
          <5>2. d # c
            BY <1>1, <2>3, <5>1, Zenon
          <5> QED
            BY <1>3, <5>1, <5>2, Zenon
        <4>3. CASE Queued(home[x], x)
          BY <1>0, <4>1, <4>3, Zenon DEF Queued
        <4>4. CASE x \in sweep.out
          BY <1>0, <4>4, Zenon
        <4> QED
          BY <4>1, <4>2, <4>3, <4>4, Zenon DEF IInv, Places, Somewhere
      <3> QED
        BY <3>1, <3>2, Zenon
    <2> QED
      BY <2>6, <2>7, <2>8, <2>9, <2>10, <2>11, Zenon DEF Places
  <1> QED
    BY <1>4, <1>5, <1>6, <1>7, Zenon DEF IInv

(* discard_backend: the lease, the registration and the permit go, and the *)
(* backend's count becomes one of the client's own.                        *)
LEMMA DiscardStep ==
  ASSUME IInv, NEW c \in Client, Discard(c)
  PROVE  IInv'
  <1> USE DEF store, wires
  <1> DEFINE p == task[c].pool
             b == task[c].lease
             r == [task[c] EXCEPT !.pc = "uncount", !.lease = None]
  <1>0. /\ task[c].pc = "discard" /\ Registers(b, None)
        /\ slots' = slots + 1
        /\ UNCHANGED <<idle, active, lost, sweep>>
    BY Zenon DEF Discard, At, Registers
  <1>1. task[c] \in Task /\ Formed(task[c])
    BY TaskOKForm, Zenon DEF IInv, TaskOK
  <1>2. /\ p \in Pool /\ b \in Backend /\ b # None /\ None \notin Pool
        /\ home[b] = p
    <2>1. b # None /\ p \in Pool
      BY <1>0, Zenon DEF IInv, TaskOK, Held
    <2>2. b \in Backend
      BY <1>1, <2>1, Zenon DEF Task
    <2> QED
      BY <2>1, <2>2, PoolSetsAssumption, Zenon DEF IInv, Places, LeaseHome
  <1>3. Sets(c, r) /\ Formed(r) /\ r.lease = None /\ r.pc = "uncount" /\ r.pool = p
    BY <1>0, <1>1, Zenon DEF Discard, Sets, IInv, TaskOK, Formed, Task, Location, Held, Slotted, Reserved
  <1> HIDE DEF r
  <1>4. \A d \in Client : task'[d] = IF d = c THEN r ELSE task[d]
    BY <1>3, Zenon DEF IInv, TaskOK, Sets
  <1>5. TaskOK' /\ SweepOK'
    BY <1>0, <1>3, SetsKeeps, Zenon DEF IInv, SweepOK
  <1>6. StoreOK' /\ \A x \in Backend : home'[x] = IF x = b THEN None ELSE home[x]
    BY <1>0, <1>2, Zenon DEF IInv, StoreOK, Registers
  <1>7. Books'
    <2>1. Counts(p, -1, 1, 0)
      <3>1. /\ Bit(r.pc \in Slotted) - Bit(task[c].pc \in Slotted) = 1
            /\ Bit(r.pc = "connect") - Bit(task[c].pc = "connect") = 0
        BY <1>0, <1>3 DEF Bit, Slotted
      <3>2. /\ \A q : Cardinality(Counted(q)') = Cardinality(Counted(q)) + (IF q = p THEN 1 ELSE 0)
            /\ Cardinality(Connecting') = Cardinality(Connecting) + 0
        BY <1>3, <3>1, ClientCounts DEF IInv, Slotted
      <3>3. /\ \A q \in Pool : Cardinality(Homed(q)') = Cardinality(Homed(q)) + (IF q = p THEN -1 ELSE 0)
            /\ Cardinality(Open') = Cardinality(Open) + (-1)
        BY <1>0, <1>2, BackendCounts, Zenon DEF IInv
      <3> QED
        BY <3>2, <3>3, Zenon DEF Counts
    <2>2. Ledger(p, 0, 0, 1) /\ Books /\ p \in Pool
      BY <1>0, <1>2, PoolSizesAssumption DEF IInv, Books, Ledger, Owed, Closing
    <2> QED
      BY <2>1, <2>2, BooksFollow
  <1>8. Places'
    <2>1. /\ \A d \in Client \ {c} : task[d].lease # b
          /\ \A q \in Pool : ~Queued(q, b)
          /\ b \notin sweep.out
      BY <1>2 DEF IInv, Places, LeaseAlone, QueueOwn, SweptOwn
    <2>2. \A q, x : Queued(q, x)' <=> Queued(q, x)
      BY <1>0, Zenon DEF Queued
    <2>4. \A d \in Client : task[d].lease # None => task[d].lease \in Backend
      BY Zenon DEF IInv, TaskOK, Task
    <2>5. sweep.out \subseteq Backend
      BY Zenon DEF IInv, SweepOK, Sweep
    <2>6. LeaseHome'
      BY <1>3, <1>4, <1>6, <2>1, <2>4 DEF IInv, Places, LeaseHome
    <2>7. LeaseAlone'
      BY <1>3, <1>4, <2>1 DEF IInv, Places, LeaseAlone
    <2>8. QueueOwn'
      <3> SUFFICES ASSUME NEW q \in Pool, NEW x \in Backend, Queued(q, x)
                   PROVE  home'[x] = q /\ x \notin sweep'.out /\ \A d \in Client : task'[d].lease # x
        BY <2>2, Zenon DEF QueueOwn
      <3>1. x # b /\ x # None
        BY <2>1, PoolSetsAssumption, Zenon
      <3> QED
        BY <1>0, <1>3, <1>4, <1>6, <3>1 DEF IInv, Places, QueueOwn
    <2>9. QueueOnce'
      BY <1>0, Zenon DEF IInv, Places, QueueOnce
    <2>10. SweptOwn'
      <3> SUFFICES ASSUME NEW x \in sweep.out
                   PROVE  home'[x] = sweep.pool /\ \A d \in Client : task'[d].lease # x
        BY <1>0, Zenon DEF SweptOwn
      <3>1. x # b /\ x # None /\ x \in Backend
        BY <2>1, <2>5, PoolSetsAssumption, Zenon
      <3> QED
        BY <1>3, <1>4, <1>6, <3>1, Zenon DEF IInv, Places, SweptOwn
    <2>11. Somewhere'
      <3> SUFFICES ASSUME NEW x \in Backend, home'[x] # None
                   PROVE  (\E d \in Client : task'[d].lease = x) \/ Queued(home[x], x)' \/ x \in sweep'.out
        BY Zenon DEF Somewhere
      <3>1. x # b /\ home'[x] = home[x] /\ home[x] # None
        BY <1>6, Zenon
      <3>2. CASE \E d \in Client : task[d].lease = x
        <4>1. PICK d \in Client : task[d].lease = x
          BY <3>2, Zenon
        <4> QED
          BY <1>4, <3>1, <4>1, Zenon
      <3>3. CASE Queued(home[x], x)
        BY <1>0, <3>1, <3>3, Zenon DEF Queued
      <3>4. CASE x \in sweep.out
        BY <1>0, <3>4, Zenon
      <3> QED
        BY <3>1, <3>2, <3>3, <3>4, Zenon DEF IInv, Places, Somewhere
    <2> QED
      BY <2>6, <2>7, <2>8, <2>9, <2>10, <2>11, Zenon DEF Places
  <1> QED
    BY <1>5, <1>6, <1>7, <1>8, Zenon DEF IInv

(* The sweeper closes one of the backends it took. *)
LEMMA EvictStep ==
  ASSUME IInv, NEW b \in Backend, Evict(b)
  PROVE  IInv'
  <1> USE DEF store, wires
  <1> DEFINE p == sweep.pool
  <1>0. /\ sweep.pc = "evict" /\ b \in sweep.out /\ Registers(b, None)
        /\ slots' = slots + 1
        /\ sweep' = [sweep EXCEPT !.pc = "uncount", !.out = @ \ {b}]
        /\ UNCHANGED <<task, idle, active, lost>>
    BY Zenon DEF Evict, Registers
  <1>1. sweep \in Sweep
    BY Zenon DEF IInv, SweepOK
  <1>2. /\ p \in Pool /\ None \notin Pool /\ home[b] = p /\ p # None
    BY <1>0, PoolSetsAssumption, Zenon DEF IInv, Places, SweepOK, SweptOwn
  <1>3. sweep'.out = sweep.out \ {b} /\ sweep'.pool = p /\ sweep' \in Sweep /\ sweep'.pc = "uncount"
    BY <1>0, <1>1, Zenon DEF Sweep
  <1>4. TaskOK' /\ SweepOK'
    <2>1. TaskOK'
      BY <1>0, Zenon DEF IInv, TaskOK
    <2> QED
      BY <1>2, <1>3, <2>1, Zenon DEF SweepOK
  <1>5. StoreOK' /\ \A x \in Backend : home'[x] = IF x = b THEN None ELSE home[x]
    BY <1>0, <1>2, Zenon DEF IInv, StoreOK, Registers
  <1> HIDE DEF p
  <1>6. Books'
    <2>1. Counts(p, -1, 0, 0)
      <3>1. /\ \A q : Counted(q)' = Counted(q) /\ Cardinality(Counted(q)) \in Nat
            /\ Connecting' = Connecting /\ Cardinality(Connecting) \in Nat
        BY <1>0, SetsFinite, Zenon DEF Counted, In, Connecting, At
      <3>2. /\ \A q \in Pool : Cardinality(Homed(q)') = Cardinality(Homed(q)) + (IF q = p THEN -1 ELSE 0)
            /\ Cardinality(Open') = Cardinality(Open) + (-1)
        BY <1>0, <1>2, BackendCounts, Zenon DEF IInv
      <3> QED
        BY <3>1, <3>2 DEF Counts
    <2>2. Ledger(p, 0, 1, 1) /\ Books /\ p \in Pool
      <3>1. \A q \in Pool : Closing(q) = 0 /\ Closing(q)' = IF q = p THEN 1 ELSE 0
        BY <1>0, <1>3, Zenon DEF Closing, p
      <3> QED
        BY <1>0, <1>2, <3>1, PoolSizesAssumption DEF IInv, Books, Ledger, Owed
    <2> QED
      BY <2>1, <2>2, BooksFollow
  <1>7. Places'
    <2>1. /\ \A d \in Client : task[d].lease # b
          /\ \A q \in Pool : ~Queued(q, b)
      BY <1>0, Zenon DEF IInv, Places, QueueOwn, SweptOwn
    <2>2. \A q, x : Queued(q, x)' <=> Queued(q, x)
      BY <1>0, Zenon DEF Queued
    <2>4. \A d \in Client : task[d].lease # None => task[d].lease \in Backend
      BY Zenon DEF IInv, TaskOK, Task
    <2>5. sweep.out \subseteq Backend
      BY <1>1, Zenon DEF Sweep
    <2>6. LeaseHome'
      BY <1>0, <1>5, <2>1, <2>4, Zenon DEF IInv, Places, LeaseHome
    <2>7. LeaseAlone'
      BY <1>0, Zenon DEF IInv, Places, LeaseAlone
    <2>8. QueueOwn'
      BY <1>0, <1>3, <1>5, <2>1, <2>2 DEF IInv, Places, QueueOwn
    <2>9. QueueOnce'
      BY <1>0, Zenon DEF IInv, Places, QueueOnce
    <2>10. SweptOwn'
      <3> SUFFICES ASSUME NEW x \in sweep'.out
                   PROVE  home'[x] = sweep'.pool /\ \A d \in Client : task'[d].lease # x
        BY Zenon DEF SweptOwn
      <3>1. x \in sweep.out /\ x # b /\ x \in Backend /\ home'[x] = home[x]
        BY <1>3, <1>5, <2>5, Zenon
      <3> QED
        BY <1>0, <1>3, <3>1, Zenon DEF IInv, Places, p, SweptOwn
    <2>11. Somewhere'
      <3> SUFFICES ASSUME NEW x \in Backend, home'[x] # None
                   PROVE  (\E d \in Client : task'[d].lease = x) \/ Queued(home[x], x)' \/ x \in sweep'.out
        BY Zenon DEF Somewhere
      <3>1. x # b /\ home'[x] = home[x] /\ home[x] # None
        BY <1>5, Zenon
      <3>2. CASE \E d \in Client : task[d].lease = x
        BY <1>0, <3>2, Zenon
      <3>3. CASE Queued(home[x], x)
        BY <1>0, <3>1, <3>3, Zenon DEF Queued
      <3>4. CASE x \in sweep.out
        BY <1>3, <3>1, <3>4, Zenon
      <3> QED
        BY <3>1, <3>2, <3>3, <3>4, Zenon DEF IInv, Places, Somewhere
    <2> QED
      BY <2>6, <2>7, <2>8, <2>9, <2>10, <2>11, Zenon DEF Places
  <1> QED
    BY <1>4, <1>5, <1>6, <1>7, Zenon DEF IInv

(* The eviction is complete once the backend is no longer counted. *)
LEMMA EvictUncountStep ==
  ASSUME IInv, EvictUncount
  PROVE  IInv'
  <1> USE DEF store, wires
  <1>p. PICK p : p = sweep.pool
    BY Zenon
  <1>0. /\ sweep.pc = "uncount" /\ active' = [active EXCEPT ![p] = @ - 1]
        /\ sweep' = [sweep EXCEPT !.pc = "evict"]
        /\ UNCHANGED <<task, idle, home, slots, lost>>
    BY <1>p, Zenon DEF EvictUncount
  <1>1. sweep \in Sweep /\ p \in Pool
    BY <1>p, <1>0, Zenon DEF IInv, SweepOK
  <1>2. sweep'.out = sweep.out /\ sweep'.pool = p /\ sweep' \in Sweep /\ sweep'.pc = "evict"
    BY <1>p, <1>0, <1>1, Zenon DEF Sweep
  <1>3. TaskOK' /\ StoreOK' /\ SweepOK'
    BY <1>0, <1>1, <1>2, Zenon DEF IInv, TaskOK, StoreOK, SweepOK
  <1>4. Books'
    <2>1. Counts(p, 0, 0, 0)
      <3>1. /\ \A q : Counted(q)' = Counted(q) /\ Homed(q)' = Homed(q)
            /\ Connecting' = Connecting /\ Open' = Open
        BY <1>0, Zenon DEF Counted, In, Homed, Connecting, Open, At
      <3> QED
        BY <3>1, SetsFinite DEF Counts
    <2>2. Ledger(p, -1, -1, 0) /\ Books
      <3>1. \A q \in Pool : Closing(q)' = 0 /\ Closing(q) = IF q = p THEN 1 ELSE 0
        BY <1>p, <1>0, <1>2, Zenon DEF Closing
      <3> QED
        BY <1>0, <1>1, <3>1, PoolSizesAssumption DEF IInv, Books, Ledger, Owed
    <2> QED
      BY <1>1, <2>1, <2>2, BooksFollow
  <1>5. Places'
    <2>1. \A q, b : Queued(q, b)' <=> Queued(q, b)
      BY <1>0, Zenon DEF Queued
    <2> QED
      BY <1>p, <1>0, <1>2, <2>1 DEF IInv, Places, LeaseHome, LeaseAlone, QueueOwn, QueueOnce, SweptOwn, Somewhere
  <1> QED
    BY <1>3, <1>4, <1>5, Zenon DEF IInv

-----------------------------------------------------------------------------
(* The idle queue of one pool is another one. *)
Requeues(p, q) == idle' = [idle EXCEPT ![p] = q]

LEMMA QueueOf ==
  ASSUME StoreOK, NEW p \in Pool, NEW q \in Seq(Backend), Requeues(p, q), home' = home
  PROVE  /\ StoreOK' /\ idle'[p] = q
         /\ \A s \in Pool \ {p} : idle'[s] = idle[s]
         /\ \A s \in Pool \ {p} : \A b : Queued(s, b)' <=> Queued(s, b)
         /\ \A b : Queued(p, b)' <=> \E i \in 1..Len(q) : q[i] = b
  <1>1. StoreOK' /\ idle'[p] = q /\ \A s \in Pool \ {p} : idle'[s] = idle[s]
    BY Zenon DEF StoreOK, Requeues
  <1> QED
    BY <1>1, Zenon DEF Queued

(* try_take_idle: the first of the queue becomes the client's lease. *)
LEMMA TakeIdleStep ==
  ASSUME IInv, NEW c \in Client, TakeIdle(c)
  PROVE  IInv'
  <1> USE DEF store, wires
  <1>p. PICK p : p = task[c].pool
    BY Zenon
  <1> DEFINE b == Head(idle[p])
             r == [NoTask EXCEPT !.pc = "leased", !.pool = p, !.lease = b, !.needs = FALSE]
  <1>0. /\ task[c].pc \in Taking
        /\ UNCHANGED <<active, home, slots, sweep, lost>>
    BY Zenon DEF TakeIdle
  <1>1. CASE idle[p] = <<>>
    <2>1. Goes(c, Missed(c)) /\ idle' = idle
      BY <1>p, <1>1, Zenon DEF TakeIdle
    <2>2. task[c].pc \in Free /\ task[c].pc # "out"
      BY <1>0, Zenon DEF Taking, Free, Location, Held, Slotted
    <2> QED
      BY <1>0, <2>1, <2>2, MissedFree, GoesFree, Zenon
  <1>2. CASE idle[p] # <<>>
    <2>0. Sets(c, r) /\ Requeues(p, Tail(idle[p]))
      BY <1>p, <1>2, Zenon DEF TakeIdle, Sets, Leases, Requeues
    <2>1. p \in Pool /\ task[c].lease = None /\ task[c].pc \notin Slotted
      BY <1>p, <1>0, Zenon DEF IInv, TaskOK, Taking, Held, Slotted
    <2>2. idle[p] \in Seq(Backend) /\ Len(idle[p]) \in Nat \ {0}
      BY <1>2, <2>1 DEF IInv, StoreOK
    <2>3. b \in Backend /\ b = idle[p][1] /\ b # None /\ Queued(p, b)
      <3>1. b \in Backend /\ b = idle[p][1] /\ 1 \in 1..Len(idle[p])
        BY <1>2, <2>2
      <3> QED
        BY <3>1, PoolSetsAssumption, Zenon DEF Queued
    <2>4. Formed(r) /\ r.pc = "leased" /\ r.pool = p /\ r.lease = b
      BY <2>1, <2>3, Zenon DEF Formed, NoTask, Task, Location, Held, Slotted, Reserved
    <2> DEFINE t == Tail(idle[p])
    <2>5. /\ t \in Seq(Backend) /\ Len(t) = Len(idle[p]) - 1
          /\ \A i \in 1..Len(t) : t[i] = idle[p][i + 1]
      BY <1>2, <2>2
    <2>6. \A i \in 1..Len(t) : i + 1 \in 2..Len(idle[p]) /\ i + 1 \in 1..Len(idle[p])
      BY <2>2, <2>5
    <2> HIDE DEF t, r, b
    <2>7. /\ StoreOK' /\ idle'[p] = t
          /\ \A s \in Pool \ {p} : idle'[s] = idle[s]
          /\ \A s \in Pool \ {p} : \A x : Queued(s, x)' <=> Queued(s, x)
          /\ \A x : Queued(p, x)' <=> \E i \in 1..Len(t) : t[i] = x
      <3>1. StoreOK /\ Requeues(p, t) /\ home' = home
        BY <1>0, <2>0, Zenon DEF IInv, t
      <3> QED
        BY <2>1, <2>5, <3>1, QueueOf
    <2>8. \A i, j \in 1..Len(idle[p]) : idle[p][i] = idle[p][j] => i = j
      BY <2>1, Zenon DEF IInv, Places, QueueOnce
    <2>9. \A x : Queued(p, x)' <=> Queued(p, x) /\ x # b
      <3>1. ASSUME NEW x, Queued(p, x)' PROVE Queued(p, x) /\ x # b
        <4>1. PICK i \in 1..Len(t) : t[i] = x
          BY <2>7, <3>1, Zenon
        <4>2. i + 1 \in 1..Len(idle[p]) /\ idle[p][i + 1] = x /\ i + 1 # 1
          BY <2>2, <2>5, <2>6, <4>1
        <4>3. 1 \in 1..Len(idle[p])
          BY <2>2
        <4>4. Queued(p, x)
          BY <4>2, Zenon DEF Queued
        <4> QED
          BY <2>3, <2>8, <4>2, <4>3, <4>4, Zenon
      <3>2. ASSUME NEW x, Queued(p, x), x # b PROVE Queued(p, x)'
        <4>1. PICK i \in 1..Len(idle[p]) : idle[p][i] = x
          BY <3>2, Zenon DEF Queued
        <4>2. i # 1
          BY <2>3, <3>2, <4>1, Zenon
        <4>3. i - 1 \in 1..Len(t) /\ (i - 1) + 1 = i
          BY <2>2, <2>5, <4>2
        <4>4. t[i - 1] = x
          BY <2>5, <4>1, <4>3, Zenon
        <4> QED
          BY <2>7, <4>3, <4>4, Zenon
      <3> QED
        BY <3>1, <3>2, Zenon
    <2>10. \A d \in Client : task'[d] = IF d = c THEN r ELSE task[d]
      BY <2>0, Zenon DEF IInv, TaskOK, Sets
    <2>11. TaskOK' /\ SweepOK'
      BY <1>0, <2>0, <2>4, SetsKeeps, Zenon DEF IInv, SweepOK
    <2>12. Books'
      <3>1. r.pc \notin Slotted
        BY <2>4, Zenon DEF Slotted
      <3> QED
        BY <1>0, <2>0, <2>1, <3>1, BooksKept, Zenon DEF IInv
    <2>13. Places'
      <3>0. home[b] = p /\ b \notin sweep.out /\ \A d \in Client : task[d].lease # b
        BY <2>1, <2>3, Zenon DEF IInv, Places, QueueOwn
      <3>1. LeaseHome'
        BY <1>0, <2>4, <2>10, <3>0, Zenon DEF IInv, Places, LeaseHome
      <3>2. LeaseAlone'
        BY <2>4, <2>10, <3>0 DEF IInv, Places, LeaseAlone
      <3>3. QueueOwn'
        <4> SUFFICES ASSUME NEW s \in Pool, NEW x \in Backend, Queued(s, x)'
                     PROVE  home'[x] = s /\ x \notin sweep'.out /\ \A d \in Client : task'[d].lease # x
          BY Zenon DEF QueueOwn
        <4>1. Queued(s, x)
          <5>1. CASE s = p
            BY <2>9, <5>1, Zenon
          <5>2. CASE s # p
            BY <2>7, <5>2, Zenon
          <5> QED
            BY <5>1, <5>2, Zenon
        <4>2. home[x] = s /\ x \notin sweep.out /\ \A d \in Client : task[d].lease # x
          BY <4>1, Zenon DEF IInv, Places, QueueOwn
        <4>3. x # b
          <5>1. ASSUME x = b PROVE FALSE
            <6>1. s = p
              BY <3>0, <4>2, <5>1, Zenon
            <6>2. Queued(p, x)'
              BY <6>1, Zenon
            <6> QED
              BY <2>9, <5>1, <6>2, Zenon
          <5> QED
            BY <5>1, Zenon
        <4> QED
          BY <1>0, <2>4, <2>10, <4>2, <4>3, Zenon
      <3>4. QueueOnce'
        <4>1. \A i, j \in 1..Len(t) : t[i] = t[j] => i = j
          <5> SUFFICES ASSUME NEW i \in 1..Len(t), NEW j \in 1..Len(t), t[i] = t[j] PROVE i = j
            BY Zenon
          <5>1. idle[p][i + 1] = idle[p][j + 1] /\ i + 1 \in 1..Len(idle[p]) /\ j + 1 \in 1..Len(idle[p])
            BY <2>5, <2>6, Zenon
          <5>2. i + 1 = j + 1
            BY <2>8, <5>1, Zenon
          <5> QED
            BY <5>2
        <4>2. \A s \in Pool \ {p} : \A i, j \in 1..Len(idle'[s]) : idle'[s][i] = idle'[s][j] => i = j
          BY <2>7 DEF IInv, Places, QueueOnce
        <4> QED
          BY <2>7, <4>1, <4>2 DEF QueueOnce
      <3>5. SweptOwn'
        BY <1>0, <2>4, <2>10, <3>0, Zenon DEF IInv, Places, SweptOwn
      <3>6. Somewhere'
        <4> SUFFICES ASSUME NEW x \in Backend, home[x] # None
                     PROVE  (\E d \in Client : task'[d].lease = x) \/ Queued(home[x], x)' \/ x \in sweep.out
          BY <1>0, Zenon DEF Somewhere
        <4>1. CASE \E d \in Client : task[d].lease = x
          <5>1. PICK d \in Client : task[d].lease = x
            BY <4>1, Zenon
          <5>2. d # c
            BY <2>1, <5>1, PoolSetsAssumption, Zenon
          <5> QED
            BY <2>10, <5>1, <5>2, Zenon
        <4>2. CASE Queued(home[x], x) /\ x # b
          <5>1. home[x] \in Pool /\ home'[x] = home[x]
            BY <1>0, Zenon DEF IInv, StoreOK
          <5>2. CASE home[x] = p
            <6>1. \E i \in 1..Len(t) : t[i] = x
              BY <2>7, <2>9, <4>2, <5>2, Zenon
            <6> QED
              BY <2>7, <5>1, <5>2, <6>1, Zenon DEF Queued
          <5>3. CASE home[x] # p
            BY <2>7, <4>2, <5>1, <5>3 DEF Queued
          <5> QED
            BY <5>2, <5>3, Zenon
        <4>3. CASE x = b
          BY <2>4, <2>10, <4>3, Zenon
        <4> QED
          BY <4>1, <4>2, <4>3, Zenon DEF IInv, Places, Somewhere
      <3> QED
        BY <3>1, <3>2, <3>3, <3>4, <3>5, <3>6, Zenon DEF Places
    <2> QED
      BY <2>7, <2>11, <2>12, <2>13, Zenon DEF IInv
  <1> QED
    BY <1>1, <1>2, Zenon

=============================================================================
