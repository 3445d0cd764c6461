------------------------- MODULE BackendQueueProofs --------------------------
(***************************************************************************)
(* A return and the sweeper's steps keep the invariant of the pools, the   *)
(* theorems about the books that follow from all steps, and the floor of   *)
(* min_idle.                                                               *)
(***************************************************************************)
EXTENDS BackendLeaseProofs

-----------------------------------------------------------------------------
(* return_backend: the lease joins the end of its pool's queue. *)
LEMMA PushStep ==
  ASSUME IInv, NEW c \in Client, Push(c)
  PROVE  IInv'
  <1> USE DEF store, wires
  <1>p. PICK p : p = task[c].pool
    BY Zenon
  <1>b. PICK b : b = task[c].lease
    BY Zenon
  <1> DEFINE q == idle[p]
             t == Append(idle[p], b)
             r == [task[c] EXCEPT !.pc = "count", !.lease = None]
  <1>0. /\ task[c].pc = "return" /\ Requeues(p, t)
        /\ UNCHANGED <<active, home, slots, sweep, lost>>
    BY <1>p, <1>b, Zenon DEF Push, At, Requeues
  <1>1. task[c] \in Task /\ Formed(task[c])
    BY TaskOKForm, Zenon DEF IInv, TaskOK
  <1>2. p \in Pool /\ b \in Backend /\ b # None /\ task[c].pc \notin Slotted
    BY <1>p, <1>b, <1>0, <1>1, Zenon DEF Formed, Task, Held, Slotted, Reserved
  <1>3. Sets(c, r) /\ Formed(r) /\ r.lease = None /\ r.pc \notin Slotted
    BY <1>0, <1>1, Zenon DEF Push, Sets, IInv, TaskOK, Formed, Task, Location, Held, Slotted, Reserved
  <1>4. q \in Seq(Backend) /\ Len(q) \in Nat
    BY <1>2 DEF IInv, StoreOK
  <1>5. /\ t \in Seq(Backend) /\ Len(t) = Len(q) + 1 /\ t[Len(q) + 1] = b
        /\ \A i \in 1..Len(q) : t[i] = q[i]
    BY <1>2, <1>4
  <1> HIDE DEF r, t, q
  <1>6. \A d \in Client : task'[d] = IF d = c THEN r ELSE task[d]
    BY <1>3, Zenon DEF IInv, TaskOK, Sets
  <1>7. TaskOK' /\ SweepOK' /\ Books'
    <2>1. TaskOK' /\ SweepOK'
      BY <1>0, <1>3, SetsKeeps, Zenon DEF IInv, SweepOK
    <2> QED
      BY <1>0, <1>2, <1>3, <2>1, BooksKept, Zenon DEF IInv
  <1>8. /\ StoreOK' /\ idle'[p] = t
        /\ \A s \in Pool \ {p} : idle'[s] = idle[s]
        /\ \A s \in Pool \ {p} : \A x : Queued(s, x)' <=> Queued(s, x)
        /\ \A x : Queued(p, x)' <=> \E i \in 1..Len(t) : t[i] = x
    <2>1. StoreOK /\ home' = home
      BY <1>0, Zenon DEF IInv
    <2> QED
      BY <1>0, <1>2, <1>5, <2>1, QueueOf
  <1>9. \A i \in 1..Len(t) : i \in 1..Len(q) \/ i = Len(q) + 1
    BY <1>4, <1>5
  <1>10. \A x : Queued(p, x)' <=> Queued(p, x) \/ x = b
    <2>1. \A x : Queued(p, x) <=> \E i \in 1..Len(q) : q[i] = x
      BY Zenon DEF Queued, q
    <2>2. ASSUME NEW x, Queued(p, x)' PROVE Queued(p, x) \/ x = b
      <3>1. PICK i \in 1..Len(t) : t[i] = x
        BY <1>8, <2>2, Zenon
      <3> QED
        BY <1>5, <1>9, <2>1, <3>1, Zenon
    <2>3. ASSUME NEW x, Queued(p, x) PROVE Queued(p, x)'
      <3>1. PICK i \in 1..Len(q) : q[i] = x
        BY <2>1, <2>3, Zenon
      <3>2. i \in 1..Len(t) /\ t[i] = x
        BY <1>4, <1>5, <3>1
      <3> QED
        BY <1>8, <3>2, Zenon
    <2>4. Queued(p, b)'
      <3>1. Len(q) + 1 \in 1..Len(t)
        BY <1>4, <1>5
      <3> QED
        BY <1>5, <1>8, <3>1, Zenon
    <2> QED
      BY <2>2, <2>3, <2>4, Zenon
  <1>11. Places'
    <2>0. /\ home[b] = p /\ b \notin sweep.out
          /\ \A d \in Client \ {c} : task[d].lease # b
          /\ ~Queued(p, b)
      BY <1>p, <1>b, <1>2 DEF IInv, Places, LeaseHome, LeaseAlone, QueueOwn, SweptOwn
    <2>a. None \notin Backend
      BY PoolSetsAssumption, Zenon
    <2>1. LeaseHome'
      BY <1>0, <1>3, <1>6, Zenon DEF IInv, Places, LeaseHome
    <2>2. LeaseAlone'
      BY <1>3, <1>6, Zenon DEF IInv, Places, LeaseAlone
    <2>3. QueueOwn'
      <3> SUFFICES ASSUME NEW s \in Pool, NEW x \in Backend, Queued(s, x)'
                   PROVE  home[x] = s /\ x \notin sweep.out /\ \A d \in Client : task'[d].lease # x
        BY <1>0, Zenon DEF QueueOwn
      <3>0. x # None
        BY <2>a, Zenon
      <3>1. CASE Queued(s, x)
        <4>1. home[x] = s /\ x \notin sweep.out /\ \A d \in Client : task[d].lease # x
          BY <3>1, Zenon DEF IInv, Places, QueueOwn
        <4> QED
          BY <1>3, <1>6, <3>0, <4>1, Zenon
      <3>2. CASE ~Queued(s, x)
        <4>1. s = p
          BY <1>8, <3>2, Zenon
        <4>2. x = b
          BY <1>10, <3>2, <4>1, Zenon
        <4> QED
          BY <1>3, <1>6, <2>0, <3>0, <4>1, <4>2, Zenon
      <3> QED
        BY <3>1, <3>2, Zenon
    <2>4. QueueOnce'
      <3>1. \A i, j \in 1..Len(t) : t[i] = t[j] => i = j
        <4>1. \A i, j \in 1..Len(q) : q[i] = q[j] => i = j
          BY <1>2, Zenon DEF IInv, Places, q, QueueOnce
        <4>2. \A i \in 1..Len(q) : q[i] # b
          BY <2>0, Zenon DEF Queued, q
        <4> QED
          BY <1>5, <1>9, <4>1, <4>2, Zenon
      <3>2. \A s \in Pool \ {p} : \A i, j \in 1..Len(idle'[s]) : idle'[s][i] = idle'[s][j] => i = j
        BY <1>8, Zenon DEF IInv, Places, QueueOnce
      <3> QED
        BY <1>8, <3>1, <3>2 DEF QueueOnce
    <2>5. SweptOwn'
      <3> SUFFICES ASSUME NEW x \in sweep.out
                   PROVE  home[x] = sweep.pool /\ \A d \in Client : task'[d].lease # x
        BY <1>0, Zenon DEF SweptOwn
      <3>1. x # None
        BY <2>a, Zenon DEF IInv, SweepOK, Sweep
      <3> QED
        BY <1>3, <1>6, <3>1, Zenon DEF IInv, Places, SweptOwn
    <2>6. Somewhere'
      <3> SUFFICES ASSUME NEW x \in Backend, home[x] # None
                   PROVE  (\E d \in Client : task'[d].lease = x) \/ Queued(home[x], x)' \/ x \in sweep.out
        BY <1>0, Zenon DEF Somewhere
      <3>0. home[x] \in Pool /\ home'[x] = home[x]
        BY <1>0, Zenon DEF IInv, StoreOK
      <3>1. CASE \E d \in Client : task[d].lease = x /\ x # b
        <4>1. PICK d \in Client : task[d].lease = x
          BY <3>1, Zenon
        <4>2. d # c
          BY <1>b, <3>1, <4>1, Zenon
        <4> QED
          BY <1>6, <4>1, <4>2, Zenon
      <3>2. CASE Queued(home[x], x) \/ x = b
        <4>1. CASE home[x] = p
          <5>1. \E i \in 1..Len(t) : t[i] = x
            BY <1>8, <1>10, <3>2, <4>1, Zenon
          <5> QED
            BY <1>8, <3>0, <4>1, <5>1, Zenon DEF Queued
        <4>2. CASE home[x] # p
          BY <1>8, <2>0, <3>0, <3>2, <4>2 DEF Queued
        <4> QED
          BY <4>1, <4>2, Zenon
      <3> QED
        BY <3>1, <3>2, Zenon DEF IInv, Places, Somewhere
    <2> QED
      BY <2>1, <2>2, <2>3, <2>4, <2>5, <2>6, Zenon DEF Places
  <1> QED
    BY <1>7, <1>8, <1>11, Zenon DEF IInv

(* The sweeper takes those it does not keep off the queue. *)
LEMMA DrainStep ==
  ASSUME IInv, NEW old \in SUBSET Backend, Drain(old)
  PROVE  IInv'
  <1> USE DEF store, wires
  <1>p. PICK p : p = sweep.pool
    BY Zenon
  <1> DEFINE q == idle[p]
             at == IF sweep.kind = "reap" THEN Retained(q, old) ELSE {}
  <1>0. /\ sweep.pc = "drain" /\ UNCHANGED <<task, active, home, slots, lost>>
        /\ sweep' = [sweep EXCEPT !.pc = "evict", !.out = Range(q) \ {q[i] : i \in at}]
    BY <1>p DEF Drain
  <1>1. sweep \in Sweep /\ p \in Pool /\ sweep.out = {}
    BY <1>p, <1>0, Zenon DEF IInv, SweepOK
  <1>2. q \in Seq(Backend) /\ Len(q) \in Nat /\ at \subseteq 1..Len(q)
    BY <1>1 DEF IInv, StoreOK, Retained
  <1>3. PICK f \in InOrder(at) : Requeues(p, [i \in 1..Cardinality(at) |-> q[f[i]]])
    <2> DEFINE A == IF sweep.kind = "reap" THEN Retained(idle[sweep.pool], old) ELSE {}
    <2>1. \E f \in InOrder(A) : Requeues(sweep.pool, [i \in 1..Cardinality(A) |-> idle[sweep.pool][f[i]]])
      BY Zenon DEF Drain, Requeues
    <2> QED
      BY <1>p, <2>1, Zenon
  <1> HIDE DEF at
  <1> DEFINE n == Cardinality(at)
             t == [i \in 1..n |-> q[f[i]]]
  <1>4. /\ IsFiniteSet(at) /\ n \in Nat /\ f \in [1..n -> at]
        /\ \A i, j \in 1..n : i < j => f[i] < f[j]
    <2>1. IsFiniteSet(1..Len(q))
      BY <1>2, FS_Interval
    <2>2. IsFiniteSet(at)
      BY <1>2, <2>1, FS_Subset, Zenon
    <2> QED
      BY <2>2, FS_CardinalityType, Zenon DEF InOrder
  <1>5. \A i \in 1..n : f[i] \in at /\ f[i] \in 1..Len(q)
    BY <1>2, <1>4, Zenon
  <1>6. t \in Seq(Backend) /\ Len(t) = n /\ \A i \in 1..n : t[i] = q[f[i]]
    <2>1. \A i \in 1..n : q[f[i]] \in Backend
      BY <1>2, <1>5
    <2>2. t \in [1..n -> Backend]
      BY <2>1, Zenon
    <2> QED
      BY <1>4, <2>2
  <1>7. \A k \in at : \E i \in 1..n : f[i] = k
    <2>1. IsFiniteSet(1..n) /\ Cardinality(1..n) = n
      BY <1>4, FS_Interval
    <2>2. \A i, j \in 1..n : f[i] = f[j] => i = j
      <3> SUFFICES ASSUME NEW i \in 1..n, NEW j \in 1..n, i # j PROVE f[i] # f[j]
        BY Zenon
      <3>1. i < j \/ j < i
        BY <1>4
      <3>2. f[i] \in Int /\ f[j] \in Int
        BY <1>2, <1>5
      <3> QED
        BY <1>4, <3>1, <3>2
    <2>3. f \in Injection(1..n, at)
      BY <1>4, <2>2, Zenon DEF Injection, IsInjective
    <2>4. f \in Surjection(1..n, at)
      BY <1>4, <2>1, <2>3, FS_Injection, Zenon
    <2> QED
      BY <2>4, Zenon DEF Surjection
  <1> HIDE DEF n, t
  <1>8. /\ StoreOK' /\ idle'[p] = t
        /\ \A s \in Pool \ {p} : idle'[s] = idle[s]
        /\ \A s \in Pool \ {p} : \A x : Queued(s, x)' <=> Queued(s, x)
        /\ \A x : Queued(p, x)' <=> \E i \in 1..Len(t) : t[i] = x
    <2>1. StoreOK /\ home' = home /\ Requeues(p, t)
      BY <1>0, <1>3, Zenon DEF IInv, n, t
    <2> QED
      BY <1>1, <1>6, <2>1, QueueOf
  <1>9. /\ sweep'.out = Range(q) \ {q[i] : i \in at} /\ sweep'.pool = p /\ sweep'.pc = "evict"
        /\ sweep' \in Sweep
    <2>1. Range(q) \subseteq Backend
      BY <1>2 DEF Range
    <2> QED
      BY <1>p, <1>0, <1>1, <2>1, Zenon DEF Sweep
  <1>10. TaskOK' /\ SweepOK' /\ Books'
    <2>1. TaskOK'
      BY <1>0, Zenon DEF IInv, TaskOK
    <2>2. SweepOK'
      BY <1>1, <1>9, Zenon DEF SweepOK
    <2>3. /\ Open' = Open /\ Connecting' = Connecting
          /\ \A s : Homed(s)' = Homed(s) /\ Counted(s)' = Counted(s) /\ Closing(s)' = Closing(s)
      BY <1>0, <1>9, Zenon DEF Open, Connecting, Homed, Counted, Closing, In, At
    <2>4. Books'
      BY <1>0, <2>3, Zenon DEF IInv, Books, SlotsAccounted
    <2> QED
      BY <2>1, <2>2, <2>4, Zenon
  <1>11. \A x : x \in Range(q) <=> Queued(p, x)
    <2>1. DOMAIN q = 1..Len(q)
      BY <1>2
    <2> QED
      BY <2>1, Zenon DEF Range, Queued
  <1>12. \A x : Queued(p, x)' <=> x \in {q[i] : i \in at}
    <2>1. ASSUME NEW x, Queued(p, x)' PROVE x \in {q[i] : i \in at}
      <3>1. PICK i \in 1..n : t[i] = x
        BY <1>6, <1>8, <2>1, Zenon
      <3> QED
        BY <1>5, <1>6, <3>1, Zenon
    <2>2. ASSUME NEW k \in at, NEW x, x = q[k] PROVE Queued(p, x)'
      <3>1. PICK i \in 1..n : f[i] = k
        BY <1>7, Zenon
      <3>2. t[i] = x
        BY <1>6, <2>2, <3>1, Zenon
      <3> QED
        BY <1>6, <1>8, <3>2, Zenon
    <2> QED
      BY <2>1, <2>2, Zenon
  <1>13. \A x \in {q[i] : i \in at} : x \in Range(q)
    <2>1. DOMAIN q = 1..Len(q)
      BY <1>2
    <2> QED
      BY <1>2, <2>1, Zenon DEF Range
  <1>14. Places'
    <2>1. LeaseHome'
      BY <1>0, Zenon DEF IInv, Places, LeaseHome
    <2>2. LeaseAlone'
      BY <1>0, Zenon DEF IInv, Places, LeaseAlone
    <2>3. QueueOwn'
      <3> SUFFICES ASSUME NEW s \in Pool, NEW x \in Backend, Queued(s, x)'
                   PROVE  home[x] = s /\ x \notin sweep'.out /\ \A d \in Client : task[d].lease # x
        BY <1>0, Zenon DEF QueueOwn
      <3>1. Queued(s, x)
        <4>1. CASE s = p
          BY <1>11, <1>12, <1>13, <4>1, Zenon
        <4>2. CASE s # p
          BY <1>8, <4>2, Zenon
        <4> QED
          BY <4>1, <4>2, Zenon
      <3>2. home[x] = s /\ \A d \in Client : task[d].lease # x
        BY <3>1, Zenon DEF IInv, Places, QueueOwn
      <3>3. x \notin sweep'.out
        <4>1. CASE s = p
          BY <1>9, <1>12, <4>1, Zenon
        <4>2. CASE s # p
          <5>1. ~Queued(p, x)
            BY <1>1, <3>2, <4>2, Zenon DEF IInv, Places, QueueOwn
          <5> QED
            BY <1>9, <1>11, <5>1, Zenon
        <4> QED
          BY <4>1, <4>2, Zenon
      <3> QED
        BY <3>2, <3>3, Zenon
    <2>4. QueueOnce'
      <3>1. \A i, j \in 1..n : t[i] = t[j] => i = j
        <4> SUFFICES ASSUME NEW i \in 1..n, NEW j \in 1..n, i # j PROVE t[i] # t[j]
          BY Zenon
        <4>1. i < j \/ j < i
          BY <1>4 DEF n
        <4>2. f[i] \in 1..Len(q) /\ f[j] \in 1..Len(q)
          BY <1>5, Zenon DEF n
        <4>3. f[i] # f[j]
          BY <1>4, <4>1, <4>2 DEF n
        <4>4. \A k, l \in 1..Len(q) : q[k] = q[l] => k = l
          BY <1>1, Zenon DEF IInv, Places, QueueOnce
        <4> QED
          BY <1>6, <4>2, <4>3, <4>4, Zenon
      <3>2. \A s \in Pool \ {p} : \A i, j \in 1..Len(idle'[s]) : idle'[s][i] = idle'[s][j] => i = j
        BY <1>8 DEF IInv, Places, QueueOnce
      <3> QED
        BY <1>6, <1>8, <3>1, <3>2 DEF QueueOnce
    <2>5. SweptOwn'
      <3> SUFFICES ASSUME NEW x \in sweep'.out
                   PROVE  home[x] = p /\ \A d \in Client : task[d].lease # x
        BY <1>0, <1>9, Zenon DEF SweptOwn
      <3>1. Queued(p, x) /\ x \in Backend
        BY <1>9, <1>11, Zenon DEF Sweep
      <3> QED
        BY <1>1, <3>1, Zenon DEF IInv, Places, QueueOwn
    <2>6. Somewhere'
      <3> SUFFICES ASSUME NEW x \in Backend, home[x] # None, \A d \in Client : task[d].lease # x,
                          x \notin sweep'.out
                   PROVE  Queued(home[x], x)'
        BY <1>0, Zenon DEF Somewhere
      <3>0. home[x] \in Pool /\ home'[x] = home[x]
        BY <1>0, Zenon DEF IInv, StoreOK
      <3>1. Queued(home[x], x)
        BY <1>1, Zenon DEF IInv, Places, Somewhere
      <3>2. CASE home[x] = p
        <4>1. Queued(p, x)
          BY <3>1, <3>2, Zenon
        <4>2. \E i \in 1..Len(t) : t[i] = x
          BY <1>8, <1>9, <1>11, <1>12, <4>1, Zenon
        <4> QED
          BY <1>8, <3>0, <3>2, <4>2, Zenon DEF Queued
      <3>3. CASE home[x] # p
        BY <1>8, <3>0, <3>1, <3>3 DEF Queued
      <3> QED
        BY <3>2, <3>3, Zenon
    <2> QED
      BY <2>1, <2>2, <2>3, <2>4, <2>5, <2>6, Zenon DEF Places
  <1> QED
    BY <1>8, <1>10, <1>14, Zenon DEF IInv

-----------------------------------------------------------------------------
LEMMA SweeperSteps ==
  ASSUME IInv,
         \/ \E p \in Pool, kind \in {"reap", "retire"} : SweepLock(p, kind)
         \/ SizeUp \/ Store
  PROVE  IInv'
  <1> USE DEF store, wires
  <1>0. sweep \in Sweep
    BY Zenon DEF IInv, SweepOK
  <1>1. ASSUME NEW p \in Pool, NEW kind \in {"reap", "retire"}, SweepLock(p, kind) PROVE IInv'
    <2>1. /\ sweep.pc = "rest" /\ sweep' = [sweep EXCEPT !.pc = "drain", !.pool = p, !.kind = kind]
          /\ UNCHANGED <<task, idle, home, active, slots, lost>>
      BY <1>1, Zenon DEF SweepLock
    <2>2. sweep.out = {}
      BY <2>1, Zenon DEF IInv, SweepOK
    <2>3. sweep'.out = sweep.out /\ sweep' \in Sweep /\ sweep'.pool = p /\ sweep'.pc = "drain"
      BY <1>0, <2>1, Zenon DEF Sweep
    <2> QED
      BY <2>1, <2>2, <2>3, StillStep, Zenon DEF SweepOK
  <1>2. CASE SizeUp
    <2>1. /\ sweep.pc = "evict" /\ sweep.out = {}
          /\ UNCHANGED <<task, idle, home, active, slots, lost>>
      BY <1>2, Zenon DEF SizeUp
    <2>2. sweep.pool \in Pool
      BY <2>1, Zenon DEF IInv, SweepOK
    <2>3. Len(idle[sweep.pool]) \in Nat
      BY <2>2 DEF IInv, StoreOK
    <2>4. sweep'.out = sweep.out /\ sweep' \in Sweep /\ sweep'.pool = sweep.pool /\ sweep'.pc = "store"
      BY <1>0, <1>2, <2>3, Zenon DEF SizeUp, Sweep
    <2> QED
      BY <2>1, <2>2, <2>4, StillStep, Zenon DEF SweepOK
  <1>3. CASE Store
    <2>1. /\ sweep.pc = "store"
          /\ sweep' = [pc |-> "rest", pool |-> None, kind |-> None, out |-> {}, len |-> 0]
          /\ UNCHANGED <<task, idle, home, active, slots, lost>>
      BY <1>3, Zenon DEF Store
    <2>2. sweep.out = {}
      BY <2>1, Zenon DEF IInv, SweepOK
    <2>3. SweepOK' /\ sweep'.out = {} /\ sweep'.pc = "rest"
      BY <2>1, Zenon DEF SweepOK, Sweep
    <2> QED
      BY <2>1, <2>2, <2>3, StillStep, Zenon
  <1> QED
    BY <1>1, <1>2, <1>3, Zenon

LEMMA NextKeeps ==
  ASSUME IInv, [PoolNext]_poolVars
  PROVE  IInv'
  <1> USE DEF store, wires
  <1>1. ASSUME NEW c \in Client, NEW p \in Pool, NEW m \in Modes, Select(c, p, m) PROVE IInv'
    BY <1>1, SelectStep, Zenon
  <1>2. ASSUME NEW c \in Client, Timers(c) PROVE IInv'
    BY <1>2, GateSteps, ReservedSteps, WaitSteps, Zenon DEF Timers
  <1>3. ASSUME NEW c \in Client, Runs(c) PROVE IInv'
    <2>1. CASE Ask(c) \/ RouteAdmits(c) \/ PoolAdmits(c) \/ PoolFull(c) \/ Peek(c)
      BY <2>1, GateSteps, Zenon
    <2>2. CASE Reserve(c) \/ TakeSlot(c) \/ NoSlot(c) \/ Uncount(c)
      BY <2>2, ReservedSteps, Zenon
    <2>3. CASE TryLock(c) \/ Park(c) \/ Wake(c) \/ Count(c) \/ Leave(c)
      BY <2>3, WaitSteps, Zenon
    <2>4. CASE ReturnLock(c)
      BY <2>4, LeaseSteps, Zenon
    <2>5. CASE TakeIdle(c)
      BY <2>5, TakeIdleStep, Zenon
    <2>6. CASE Push(c)
      BY <2>6, PushStep, Zenon
    <2>7. CASE Discard(c)
      BY <2>7, DiscardStep, Zenon
    <2> QED
      BY <1>3, <2>1, <2>2, <2>3, <2>4, <2>5, <2>6, <2>7, Zenon DEF Runs
  <1>4. ASSUME NEW c \in Client, Uses(c) PROVE IInv'
    BY <1>4, LeaseSteps, Zenon
  <1>5. ASSUME NEW c \in Client, ConnectFails(c) PROVE IInv'
    BY <1>5, ReservedSteps, Zenon
  <1>6. ASSUME NEW c \in Client, NEW b \in Backend, Connected(c, b) PROVE IInv'
    BY <1>6, ConnectedStep, Zenon
  <1>7. ASSUME NEW p \in Pool, Cool(p) PROVE IInv'
    BY <1>7, UnchangedStep, Zenon DEF Cool
  <1>8. ASSUME NEW p \in Pool, NEW kind \in {"reap", "retire"}, SweepLock(p, kind) PROVE IInv'
    BY <1>8, SweeperSteps, Zenon
  <1>9. CASE Sweeps
    BY <1>9, DrainStep, EvictStep, EvictUncountStep, SweeperSteps, Zenon DEF Sweeps
  <1>10. CASE Done \/ UNCHANGED poolVars
    BY <1>10, UnchangedStep, Zenon DEF Done, poolVars
  <1> QED
    BY <1>1, <1>2, <1>3, <1>4, <1>5, <1>6, <1>7, <1>8, <1>9, <1>10, Zenon DEF PoolNext

(* The inductive invariant holds throughout: every client's record, the    *)
(* sweeper's and the queues are well-formed, the counters are exact, and   *)
(* every registered backend is leased, queued or in the sweeper's hands.   *)
THEOREM PoolSafe == PoolSpec => []IInv
  <1>1. PoolInit => IInv
    BY StartKeeps, Zenon
  <1>2. IInv /\ [PoolNext]_poolVars => IInv'
    BY NextKeeps, Zenon
  <1> QED
    BY <1>1, <1>2, PTL DEF PoolSpec

(* However many clients check out, time out, fail, return and discard      *)
(* while the sweeper reaps: active_backends and the permits of the global  *)
(* semaphore are exactly accounted for, no cap is passed, and a connected  *)
(* backend is in one place at a time, so never leased to two clients.      *)
THEOREM PoolBooksHold == PoolSpec => []PoolBooks
  BY PoolSafe, BooksGive, PTL

-----------------------------------------------------------------------------
(* The floor of min_idle. *)
LEMMA FirstOf ==
  ASSUME NEW n \in Nat, NEW T, T \subseteq 1..n, T # {}
  PROVE  \E i \in T : \A j \in T : i <= j
  <1>1. T \subseteq Nat
    OBVIOUS
  <1>2. PICK i \in T : \A j \in T : ~(<<j, i>> \in OpToRel(<, Nat))
    BY <1>1, NatLessThanWellFounded, WFMin, Zenon
  <1>3. \A j \in T : ~(j < i)
    BY <1>1, <1>2, Zenon DEF OpToRel
  <1> QED
    BY <1>1, <1>3

LEMMA LastOf ==
  ASSUME NEW n \in Nat, NEW T, T \subseteq 1..n, T # {}
  PROVE  \E i \in T : \A j \in T : j <= i
  <1> DEFINE U == {k \in 1..n : (n + 1) - k \in T}
  <1>1. \A j \in T : j \in 1..n /\ (n + 1) - j \in 1..n /\ (n + 1) - ((n + 1) - j) = j
    OBVIOUS
  <1>2. \A j \in T : (n + 1) - j \in U
    BY <1>1, Zenon
  <1>3. U \subseteq 1..n /\ U # {}
    BY <1>2, Zenon
  <1>4. PICK k \in U : \A l \in U : k <= l
    <2> HIDE DEF U
    <2> QED
      BY <1>3, FirstOf, Zenon
  <1>5. (n + 1) - k \in T /\ k \in 1..n
    BY Zenon
  <1>6. ASSUME NEW j \in T PROVE j <= (n + 1) - k
    <2>1. k <= (n + 1) - j
      BY <1>2, <1>4, Zenon
    <2> QED
      BY <1>1, <1>5, <2>1
  <1> QED
    BY <1>5, <1>6, Zenon

(* 1..n in its own order. *)
LEMMA OrderOfAll ==
  ASSUME NEW n \in Nat, NEW f \in [1..n -> 1..n], \A i, j \in 1..n : i < j => f[i] < f[j]
  PROVE  \A i \in 1..n : f[i] = i
  <1>1. \A i, j \in 1..n : f[i] = f[j] => i = j
    <2> SUFFICES ASSUME NEW i \in 1..n, NEW j \in 1..n, i # j PROVE f[i] # f[j]
      BY Zenon
    <2>1. i < j \/ j < i
      OBVIOUS
    <2>2. f[i] \in 1..n /\ f[j] \in 1..n
      BY Zenon
    <2> QED
      BY <2>1, <2>2
  <1>2. \A k \in 1..n : \E i \in 1..n : f[i] = k
    <2>1. IsFiniteSet(1..n)
      BY FS_Interval
    <2>2. f \in Injection(1..n, 1..n)
      BY <1>1, Zenon DEF Injection, IsInjective
    <2>3. f \in Surjection(1..n, 1..n)
      BY <2>1, <2>2, FS_Injection, Zenon
    <2> QED
      BY <2>3, Zenon DEF Surjection
  <1> DEFINE D == {i \in 1..n : f[i] # i}
  <1>3. ASSUME D # {} PROVE FALSE
    <2>1. PICK i \in D : \A j \in D : i <= j
      <3>1. D \subseteq 1..n
        BY Zenon
      <3> HIDE DEF D
      <3> QED
        BY <1>3, <3>1, FirstOf, Zenon
    <2>2. i \in 1..n /\ f[i] # i /\ f[i] \in 1..n
      BY Zenon
    <2>3. \A j \in 1..n : j < i => f[j] = j
      BY <2>1, <2>2
    <2>4. PICK k \in 1..n : f[k] = i
      BY <1>2, <2>2, Zenon
    <2>5. i < k
      <3>1. k # i
        BY <2>2, <2>4, Zenon
      <3>2. ~(k < i)
        BY <2>3, <2>4, <3>1, Zenon
      <3> QED
        BY <2>2, <3>1, <3>2
    <2>6. f[i] < i
      BY <2>2, <2>4, <2>5, Zenon
    <2>7. f[f[i]] = f[i]
      BY <2>2, <2>3, <2>6, Zenon
    <2> QED
      BY <1>1, <2>2, <2>7, Zenon
  <1> QED
    BY <1>3, Zenon

(* What stays of a queue of length n is min_idle at least, or all of it. *)
LEMMA FloorOf ==
  ASSUME NEW q \in Seq(Backend), NEW old, NEW f \in InOrder(Retained(q, old))
  PROVE  LET n == Cardinality(Retained(q, old))
             t == [i \in 1..n |-> q[f[i]]]
         IN  n \in Nat /\ Len(t) = n /\ (t = q \/ n >= MinIdle)
  <1> DEFINE len == Len(q)
             at == Retained(q, old)
             n == Cardinality(at)
             t == [i \in 1..n |-> q[f[i]]]
             R == (1..len) \ at
  <1>1. len \in Nat /\ MinIdle \in Nat /\ at \subseteq 1..len
    BY PoolSizesAssumption DEF Retained
  <1>2. IsFiniteSet(1..len) /\ Cardinality(1..len) = len
    <2> HIDE DEF len
    <2>1. 1 \in Int /\ len \in Int
      BY <1>1
    <2>2. IsFiniteSet(1..len) /\ Cardinality(1..len) = IF 1 > len THEN 0 ELSE len - 1 + 1
      BY <2>1, FS_Interval, Zenon
    <2> QED
      BY <1>1, <2>2
  <1>3. IsFiniteSet(at) /\ n \in Nat /\ IsFiniteSet(R)
    <2>1. R \subseteq 1..len
      BY Zenon
    <2> QED
      BY <1>1, <1>2, <2>1, FS_Subset, FS_CardinalityType, Zenon
  <1>4. n + Cardinality(R) = len /\ Cardinality(R) \in Nat
    <2>1. at \cap R = {} /\ at \cup R = 1..len
      BY <1>1, Zenon
    <2>2. Cardinality(at \cup R) = Cardinality(at) + Cardinality(R) - Cardinality(at \cap R)
      <3> HIDE DEF at, R
      <3> QED
        BY <1>3, FS_Union, Zenon
    <2>3. Cardinality({}) = 0 /\ Cardinality(R) \in Nat
      BY <1>3, FS_EmptySet, FS_CardinalityType, Zenon
    <2>4. Cardinality(at \cup R) = len /\ Cardinality(at \cap R) = 0
      BY <1>2, <2>1, <2>3, Zenon
    <2> HIDE DEF at, R, len
    <2> QED
      BY <1>1, <1>3, <2>2, <2>3, <2>4
  <1>5. Len(t) = n
    <2> HIDE DEF at, n
    <2>1. DOMAIN t = 1..n
      BY Zenon
    <2>2. t \in [1..n -> {q[f[i]] : i \in 1..n}]
      BY Zenon
    <2>3. t \in Seq({q[f[i]] : i \in 1..n})
      BY <1>3, <2>2
    <2> QED
      BY <1>3, <2>1, <2>3
  <1>6. CASE R = {}
    <2>1. at = 1..len /\ n = len
      BY <1>1, <1>2, <1>6, Zenon
    <2>2. f \in [1..len -> 1..len] /\ \A i, j \in 1..len : i < j => f[i] < f[j]
      BY <2>1, Zenon DEF InOrder
    <2>3. \A i \in 1..len : f[i] = i
      <3> HIDE DEF len
      <3> QED
        BY <1>1, <2>2, OrderOfAll, Zenon
    <2>4. q \in [1..len -> Backend]
      OBVIOUS
    <2>5. t = [i \in 1..len |-> q[i]]
      BY <2>1, <2>3, Zenon
    <2>6. t = q
      BY <2>4, <2>5, Zenon
    <2> QED
      BY <1>3, <1>5, <2>6, Zenon
  <1>7. CASE R # {}
    <2>1. PICK m \in R : \A j \in R : j <= m
      <3>1. R \subseteq 1..len
        BY Zenon
      <3> HIDE DEF R, len
      <3> QED
        BY <1>1, <1>7, <3>1, LastOf, Zenon
    <2>2. m \in 1..len /\ q[m] \in old /\ ~(OldUpTo(q, old, m) > len - MinIdle)
      BY Zenon DEF Retained
    <2> DEFINE O == {j \in 1..m : q[j] \in old}
    <2>3. IsFiniteSet(O) /\ Cardinality(O) \in Nat
      <3>1. IsFiniteSet(1..m) /\ O \subseteq 1..m
        BY <2>2, FS_Interval
      <3> QED
        BY <3>1, FS_Subset, FS_CardinalityType, Zenon
    <2>4. R \subseteq O
      BY <2>1, <2>2 DEF Retained
    <2>5. Cardinality(R) <= Cardinality(O)
      <3> HIDE DEF R, O
      <3> QED
        BY <2>3, <2>4, FS_Subset, Zenon
    <2>6. OldUpTo(q, old, m) = Cardinality(O)
      BY Zenon DEF OldUpTo
    <2>7. Cardinality(O) <= len - MinIdle
      <3> HIDE DEF O, len
      <3> QED
        BY <1>1, <2>2, <2>3, <2>6
    <2>8. n >= MinIdle
      <3> HIDE DEF O, len, n, R
      <3> QED
        BY <1>1, <1>3, <1>4, <2>3, <2>5, <2>7
    <2> QED
      BY <1>3, <1>5, <2>8, Zenon
  <1> QED
    BY <1>6, <1>7, Zenon

LEMMA FloorStep ==
  ASSUME IInv, [PoolNext]_poolVars, sweep.kind = "reap", sweep.pc = "drain", sweep'.pc = "evict"
  PROVE  idle'[sweep.pool] # idle[sweep.pool] => Len(idle'[sweep.pool]) >= MinIdle
  <1> USE DEF store, wires, state
  <1>0. sweep' # sweep
    BY Zenon
  <1>1. ~ \E c \in Client : \E p \in Pool, m \in Modes : Select(c, p, m)
    BY <1>0, Zenon DEF Select
  <1>2. ~ \E c \in Client : Timers(c) \/ Uses(c) \/ ConnectFails(c) \/ \E b \in Backend : Connected(c, b)
    BY <1>0, Zenon DEF Timers, GateRefuses, ConnectDropped, WaitTimeout, Uses, Bootstrap, Release, Fail, Abandon,
                ConnectFails, Connected
  <1>3. ~ \E c \in Client : Runs(c)
    BY <1>0, Zenon DEF Runs, Ask, RouteAdmits, PoolAdmits, Reserve, PoolFull, TakeSlot, NoSlot, Uncount, TryLock, TakeIdle,
                Peek, Park, Wake, ReturnLock, Push, Count, Discard, Leave
  <1>4. ~ \E p \in Pool : Cool(p) \/ \E kind \in {"reap", "retire"} : SweepLock(p, kind)
    BY <1>0, Zenon DEF Cool, SweepLock
  <1>5. /\ ~Done /\ ~UNCHANGED poolVars /\ ~EvictUncount /\ ~SizeUp /\ ~Store
        /\ ~ \E b \in Backend : Evict(b)
    BY <1>0, Zenon DEF Done, poolVars, EvictUncount, SizeUp, Store, Evict
  <1>6. PICK old \in SUBSET Backend : Drain(old)
    BY <1>1, <1>2, <1>3, <1>4, <1>5, Zenon DEF PoolNext, Sweeps
  <1> DEFINE p == sweep.pool
             q == idle[p]
             at == Retained(q, old)
  <1>7. PICK f \in InOrder(at) : Requeues(p, [i \in 1..Cardinality(at) |-> q[f[i]]])
    BY <1>6, Zenon DEF Drain, Requeues
  <1> DEFINE t == [i \in 1..Cardinality(at) |-> q[f[i]]]
  <1>8. p \in Pool
    BY Zenon DEF IInv, SweepOK
  <1>9. q \in Seq(Backend) /\ idle'[p] = t
    BY <1>7, <1>8, Zenon DEF IInv, StoreOK, Requeues
  <1>10. Cardinality(at) \in Nat /\ Len(t) = Cardinality(at) /\ (t = q \/ Cardinality(at) >= MinIdle)
    BY <1>9, FloorOf, Zenon
  <1> QED
    BY <1>9, <1>10, Zenon

(* Reaping never takes a pool's idle queue below min_idle: a sweep that    *)
(* removes anything leaves at least min_idle, whatever has expired.        *)
THEOREM FloorIsKept == PoolSpec => FloorKept
  <1>1. IInv /\ [PoolNext]_poolVars
          => [sweep.kind = "reap" /\ sweep.pc = "drain" /\ sweep'.pc = "evict"
                => LET p == sweep.pool
                   IN  idle'[p] # idle[p] => Len(idle'[p]) >= MinIdle]_poolVars
    BY FloorStep, Zenon
  <1> QED
    BY <1>1, PoolSafe, PTL DEF PoolSpec, FloorKept
=============================================================================
