-------------------------- MODULE BackendPoolProofs --------------------------
(***************************************************************************)
(* The books of the backend pools, for any number of clients, pools and    *)
(* backends and any sizes.  Here: the inductive invariant IInv, what one   *)
(* client or one backend that moves does to the counts, the steps of a     *)
(* checkout up to its connect, and the breaker with its theorem.  The      *)
(* steps that give or take a backend are in BackendLeaseProofs, the        *)
(* sweeper's and the theorems about the books in BackendQueueProofs.       *)
(***************************************************************************)
EXTENDS BackendPool, FiniteSetTheorems, TLAPS

Reserved == {"slot", "connect", "undo"}
Slotted == {"slot", "connect", "undo", "uncount"}
Held == {"leased", "return", "discard"}

Sweep == [pc : {"rest", "drain", "evict", "uncount", "store"}, pool : Pool \cup {None},
          kind : {"reap", "retire", None}, out : SUBSET Backend, len : Nat]

(* The types of what the books are about, and what a client's place in     *)
(* checkout_with_mode says of its pool, its lease and its reservation.     *)
TaskOK ==
  /\ task \in [Client -> Task]
  /\ \A c \in Client : task[c].pc # "out" => task[c].pool \in Pool
  /\ \A c \in Client : task[c].lease # None <=> task[c].pc \in Held
  /\ \A c \in Client : task[c].pc \in Reserved => task[c].site \in Reserving

SweepOK ==
  /\ sweep \in Sweep
  /\ sweep.pc # "rest" => sweep.pool \in Pool
  /\ sweep.pc \notin {"evict", "uncount"} => sweep.out = {}

StoreOK ==
  /\ idle \in [Pool -> Seq(Backend)]
  /\ home \in [Backend -> Pool \cup {None}]

-----------------------------------------------------------------------------
(* A record after one client's step: only that client's is another one.    *)
Sets(c, r) == task' = [task EXCEPT ![c] = r]

(* The client's record is well-formed. *)
Formed(r) ==
  /\ r \in Task
  /\ r.pc # "out" => r.pool \in Pool
  /\ r.lease # None <=> r.pc \in Held
  /\ r.pc \in Reserved => r.site \in Reserving

LEMMA TaskOKForm == TaskOK <=> task \in [Client -> Task] /\ \A c \in Client : Formed(task[c])
  BY Zenon DEF TaskOK, Formed

LEMMA SetsKeeps ==
  ASSUME TaskOK, NEW c \in Client, NEW r, Formed(r), Sets(c, r)
  PROVE  TaskOK'
  <1>1. task' \in [Client -> Task]
    BY Zenon DEF TaskOK, Sets, Formed
  <1>2. \A d \in Client : task'[d] = IF d = c THEN r ELSE task[d]
    BY Zenon DEF TaskOK, Sets
  <1> QED
    BY <1>1, <1>2, Zenon DEF TaskOK, Formed

LEMMA NoTaskFormed == Formed(NoTask)
  BY PoolSetsAssumption, Zenon DEF Formed, NoTask, Task, Location, Outside, Held, Slotted, Reserved

-----------------------------------------------------------------------------
(* The books: counters that are exact, and the caps. *)
Connecting == {c \in Client : At(c, "connect")}
Open == {b \in Backend : home[b] # None}

Books ==
  /\ active \in [Pool -> Nat] /\ lost \in [Pool -> Nat] /\ slots \in Nat
  /\ SlotsAccounted
  /\ slots + Cardinality(Open) + Cardinality(Connecting) = GlobalSlots
  /\ \A p \in Pool : active[p] <= MaxSize

Bit(b) == IF b THEN 1 ELSE 0

(* Two finite sets that differ in one element at most. *)
LEMMA OneElement ==
  ASSUME NEW A, NEW B, NEW x, IsFiniteSet(A), IsFiniteSet(B), A \ {x} = B \ {x}
  PROVE  /\ Cardinality(A) \in Nat /\ Cardinality(B) \in Nat
         /\ Cardinality(B) = Cardinality(A) + Bit(x \in B) - Bit(x \in A)
  <1>1. Cardinality(A) \in Nat /\ Cardinality(B) \in Nat
    BY FS_CardinalityType, Zenon
  <1>2. Cardinality(A \ {x}) = Cardinality(A) - Bit(x \in A)
    BY <1>1, FS_RemoveElement DEF Bit
  <1>3. Cardinality(B \ {x}) = Cardinality(B) - Bit(x \in B)
    BY <1>1, FS_RemoveElement DEF Bit
  <1>4. Bit(x \in A) \in {0, 1} /\ Bit(x \in B) \in {0, 1}
    BY Zenon DEF Bit
  <1>5. Cardinality(A \ {x}) = Cardinality(B \ {x})
    BY Zenon
  <1>6. Cardinality(B) - Bit(x \in B) = Cardinality(A) - Bit(x \in A)
    BY <1>2, <1>3, <1>5, Zenon
  <1> HIDE DEF Bit
  <1> QED
    BY <1>1, <1>4, <1>6

LEMMA SetsFinite ==
  /\ \A p : IsFiniteSet(Counted(p)) /\ IsFiniteSet(Homed(p))
  /\ \A p : Cardinality(Counted(p)) \in Nat /\ Cardinality(Homed(p)) \in Nat
  /\ IsFiniteSet(Connecting) /\ IsFiniteSet(Open)
  /\ Cardinality(Connecting) \in Nat /\ Cardinality(Open) \in Nat
  <1>1. IsFiniteSet(Client) /\ IsFiniteSet(Backend)
    BY PoolSetsAssumption, Zenon
  <1>2. ASSUME NEW p
        PROVE  IsFiniteSet(Counted(p)) /\ IsFiniteSet(Homed(p))
    <2>1. Counted(p) \subseteq Client
      BY Zenon DEF Counted, In
    <2>2. Homed(p) \subseteq Backend
      BY Zenon DEF Homed
    <2> QED
      BY <1>1, <2>1, <2>2, FS_Subset, Zenon
  <1>3. IsFiniteSet(Connecting) /\ IsFiniteSet(Open)
    <2>1. Connecting \subseteq Client
      BY Zenon DEF Connecting
    <2>2. Open \subseteq Backend
      BY Zenon DEF Open
    <2> QED
      BY <1>1, <2>1, <2>2, FS_Subset, Zenon
  <1> QED
    BY <1>2, <1>3, FS_CardinalityType, Zenon

LEMMA SetsFiniteNext ==
  /\ \A p : IsFiniteSet(Counted(p)') /\ IsFiniteSet(Homed(p)')
  /\ IsFiniteSet(Connecting') /\ IsFiniteSet(Open')
  <1>1. IsFiniteSet(Client) /\ IsFiniteSet(Backend)
    BY PoolSetsAssumption, Zenon
  <1>2. ASSUME NEW p
        PROVE  IsFiniteSet(Counted(p)') /\ IsFiniteSet(Homed(p)')
    <2>1. Counted(p)' \subseteq Client
      BY Zenon DEF Counted, In
    <2>2. Homed(p)' \subseteq Backend
      BY Zenon DEF Homed
    <2> QED
      BY <1>1, <2>1, <2>2, FS_Subset, Zenon
  <1>3. IsFiniteSet(Connecting') /\ IsFiniteSet(Open')
    <2>1. Connecting' \subseteq Client
      BY Zenon DEF Connecting
    <2>2. Open' \subseteq Backend
      BY Zenon DEF Open
    <2> QED
      BY <1>1, <2>1, <2>2, FS_Subset, Zenon
  <1> QED
    BY <1>2, <1>3, Zenon

(* One client's record becomes r: the sets of clients the books count. *)
LEMMA ClientCounts ==
  ASSUME TaskOK, NEW c \in Client, NEW r, Sets(c, r), r.pc \in Slotted => r.pool = task[c].pool
  PROVE  /\ \A p : Cardinality(Counted(p)') = Cardinality(Counted(p))
                     + (IF p = task[c].pool THEN Bit(r.pc \in Slotted) - Bit(task[c].pc \in Slotted) ELSE 0)
         /\ Cardinality(Connecting') = Cardinality(Connecting)
                     + (Bit(r.pc = "connect") - Bit(task[c].pc = "connect"))
  <1>0. \A d \in Client : task'[d] = IF d = c THEN r ELSE task[d]
    BY Zenon DEF TaskOK, Sets
  <1>1. ASSUME NEW p
        PROVE  Cardinality(Counted(p)') = Cardinality(Counted(p))
                     + (IF p = task[c].pool THEN Bit(r.pc \in Slotted) - Bit(task[c].pc \in Slotted) ELSE 0)
    <2>1. Counted(p) \ {c} = Counted(p)' \ {c}
      BY <1>0, Zenon DEF Counted, In
    <2>2. /\ c \in Counted(p) <=> task[c].pool = p /\ task[c].pc \in Slotted
          /\ c \in Counted(p)' <=> r.pool = p /\ r.pc \in Slotted
      BY <1>0, Zenon DEF Counted, In, Slotted
    <2>3. /\ Cardinality(Counted(p)) \in Nat
          /\ Cardinality(Counted(p)') = Cardinality(Counted(p))
               + Bit(c \in Counted(p)') - Bit(c \in Counted(p))
      BY <2>1, OneElement, SetsFinite, SetsFiniteNext, Zenon
    <2> QED
      BY <2>2, <2>3 DEF Bit
  <1>2. Connecting \ {c} = Connecting' \ {c}
    BY <1>0, Zenon DEF Connecting, At
  <1>3. (c \in Connecting <=> task[c].pc = "connect") /\ (c \in Connecting' <=> r.pc = "connect")
    BY <1>0, Zenon DEF Connecting, At
  <1>4. /\ Cardinality(Connecting) \in Nat
        /\ Cardinality(Connecting') = Cardinality(Connecting)
             + Bit(c \in Connecting') - Bit(c \in Connecting)
    BY <1>2, OneElement, SetsFinite, SetsFiniteNext, Zenon
  <1>5. Cardinality(Connecting') = Cardinality(Connecting)
          + (Bit(r.pc = "connect") - Bit(task[c].pc = "connect"))
    BY <1>3, <1>4, Zenon DEF Bit
  <1> QED
    BY <1>1, <1>5, Zenon

(* One backend is registered with q, or with none. *)
Registers(b, q) == home' = [home EXCEPT ![b] = q]

(* A backend joins the pool q, or leaves it. *)
LEMMA BackendCounts ==
  ASSUME StoreOK, NEW b \in Backend, NEW q \in Pool, None \notin Pool
  PROVE  /\ Registers(b, q) /\ home[b] = None =>
              /\ \A p \in Pool : Cardinality(Homed(p)') = Cardinality(Homed(p)) + (IF p = q THEN 1 ELSE 0)
              /\ Cardinality(Open') = Cardinality(Open) + 1
         /\ Registers(b, None) /\ home[b] = q =>
              /\ \A p \in Pool : Cardinality(Homed(p)') = Cardinality(Homed(p)) + (IF p = q THEN -1 ELSE 0)
              /\ Cardinality(Open') = Cardinality(Open) + (-1)
  <1>1. ASSUME NEW h \in {q, None}, Registers(b, h)
        PROVE  /\ \A p : /\ Cardinality(Homed(p)) \in Nat
                          /\ Cardinality(Homed(p)') = Cardinality(Homed(p)) + Bit(h = p) - Bit(home[b] = p)
               /\ Cardinality(Open) \in Nat
               /\ Cardinality(Open') = Cardinality(Open) + Bit(h # None) - Bit(home[b] # None)
    <2>0. \A x \in Backend : home'[x] = IF x = b THEN h ELSE home[x]
      BY <1>1, Zenon DEF StoreOK, Registers
    <2>1. ASSUME NEW p
          PROVE  /\ Cardinality(Homed(p)) \in Nat
                 /\ Cardinality(Homed(p)') = Cardinality(Homed(p)) + Bit(h = p) - Bit(home[b] = p)
      <3>1. Homed(p) \ {b} = Homed(p)' \ {b}
        BY <2>0, Zenon DEF Homed
      <3>2. (b \in Homed(p) <=> home[b] = p) /\ (b \in Homed(p)' <=> h = p)
        BY <2>0, Zenon DEF Homed
      <3>3. /\ Cardinality(Homed(p)) \in Nat
            /\ Cardinality(Homed(p)') = Cardinality(Homed(p)) + Bit(b \in Homed(p)') - Bit(b \in Homed(p))
        BY <3>1, OneElement, SetsFinite, SetsFiniteNext, Zenon
      <3> QED
        BY <3>2, <3>3, Zenon DEF Bit
    <2>2. Open \ {b} = Open' \ {b}
      BY <2>0, Zenon DEF Open
    <2>3. (b \in Open <=> home[b] # None) /\ (b \in Open' <=> h # None)
      BY <2>0, Zenon DEF Open
    <2>4. /\ Cardinality(Open) \in Nat
          /\ Cardinality(Open') = Cardinality(Open) + Bit(b \in Open') - Bit(b \in Open)
      BY <2>2, OneElement, SetsFinite, SetsFiniteNext, Zenon
    <2>5. Cardinality(Open') = Cardinality(Open) + Bit(h # None) - Bit(home[b] # None)
      BY <2>3, <2>4, Zenon DEF Bit
    <2> QED
      BY <2>1, <2>4, <2>5, Zenon
  <1>2. ASSUME Registers(b, q), home[b] = None
        PROVE  /\ \A p \in Pool : Cardinality(Homed(p)') = Cardinality(Homed(p)) + (IF p = q THEN 1 ELSE 0)
               /\ Cardinality(Open') = Cardinality(Open) + 1
    BY <1>1, <1>2 DEF Bit
  <1>3. ASSUME Registers(b, None), home[b] = q
        PROVE  /\ \A p \in Pool : Cardinality(Homed(p)') = Cardinality(Homed(p)) + (IF p = q THEN -1 ELSE 0)
               /\ Cardinality(Open') = Cardinality(Open) + (-1)
    BY <1>1, <1>3 DEF Bit
  <1> QED
    BY <1>2, <1>3, Zenon

(* By how much the sets the books count change: the backends of pool q by  *)
(* h, its reservations by n, the connects by k.                            *)
Counts(q, h, n, k) ==
  /\ \A p \in Pool : Cardinality(Homed(p)') = Cardinality(Homed(p)) + (IF p = q THEN h ELSE 0)
  /\ \A p \in Pool : Cardinality(Counted(p)') = Cardinality(Counted(p)) + (IF p = q THEN n ELSE 0)
  /\ Cardinality(Open') = Cardinality(Open) + h
  /\ Cardinality(Connecting') = Cardinality(Connecting) + k

(* What active counts besides backends and reservations: the one being     *)
(* evicted, and what was lost.                                             *)
Owed(p) == Closing(p) + lost[p]

LEMMA OwedType == \A p : Closing(p) \in {0, 1} /\ Closing(p)' \in {0, 1}
  BY Zenon DEF Closing

(* By how much the counters change: active of pool q by a, what it counts  *)
(* besides by l, the permits by s.                                         *)
Ledger(q, a, l, s) ==
  /\ active' \in [Pool -> Int] /\ lost' \in [Pool -> Nat] /\ slots' \in Nat
  /\ \A p \in Pool \ {q} : active'[p] = active[p]
  /\ active'[q] = active[q] + a /\ active'[q] <= MaxSize
  /\ \A p \in Pool : Owed(p)' = Owed(p) + (IF p = q THEN l ELSE 0)
  /\ slots' = slots + s

(* The counters that follow the sets stay exact. *)
LEMMA BooksFollow ==
  ASSUME Books, NEW q \in Pool, NEW h \in Int, NEW n \in Int, NEW k \in Int, Counts(q, h, n, k),
         NEW a \in Int, NEW l \in Int, NEW s \in Int, Ledger(q, a, l, s),
         a = h + n + l, s + h + k = 0
  PROVE  Books'
  <1>1. /\ \A p : Cardinality(Counted(p)) \in Nat /\ Cardinality(Homed(p)) \in Nat
        /\ Cardinality(Connecting) \in Nat /\ Cardinality(Open) \in Nat
    BY SetsFinite, Zenon
  <1>2. \A p : Cardinality(Counted(p)') \in Nat /\ Cardinality(Homed(p)') \in Nat
    BY SetsFiniteNext, FS_CardinalityType, Zenon
  <1>3. ASSUME NEW p \in Pool
        PROVE  /\ active'[p] = Cardinality(Homed(p)') + Cardinality(Counted(p)') + Closing(p)' + lost'[p]
               /\ active'[p] \in Nat /\ active'[p] <= MaxSize
    <2>1. /\ active[p] = Cardinality(Homed(p)) + Cardinality(Counted(p)) + Closing(p) + lost[p]
          /\ active[p] <= MaxSize /\ active[p] \in Nat /\ lost[p] \in Nat /\ lost'[p] \in Nat
      BY Zenon DEF Books, SlotsAccounted, Ledger
    <2>4. Closing(p) \in Nat /\ Closing(p)' \in Nat
      BY OwedType
    <2>5. Owed(p) = Closing(p) + lost[p] /\ Owed(p)' = Closing(p)' + lost'[p]
      BY Zenon DEF Owed
    <2>2. CASE p = q
      BY <1>1, <1>2, <2>1, <2>2, <2>4, <2>5 DEF Counts, Ledger
    <2>3. CASE p # q
      BY <1>1, <1>2, <2>1, <2>3, <2>4, <2>5 DEF Counts, Ledger
    <2> QED
      BY <2>2, <2>3, Zenon
  <1>4. slots' + Cardinality(Open') + Cardinality(Connecting') = GlobalSlots
    <2>1. slots \in Nat /\ slots + Cardinality(Open) + Cardinality(Connecting) = GlobalSlots
      BY Zenon DEF Books
    <2>2. /\ Cardinality(Open') = Cardinality(Open) + h /\ slots' = slots + s
          /\ Cardinality(Connecting') = Cardinality(Connecting) + k
      BY Zenon DEF Counts, Ledger
    <2> QED
      BY <1>1, <2>1, <2>2
  <1>5. active' \in [Pool -> Nat] /\ lost' \in [Pool -> Nat] /\ slots' \in Nat
    BY <1>3, Zenon DEF Ledger
  <1> QED
    BY <1>3, <1>4, <1>5, Zenon DEF Books, SlotsAccounted

-----------------------------------------------------------------------------
(* Where the connected backends are. *)
Queued(p, b) == \E i \in 1..Len(idle[p]) : idle[p][i] = b

LeaseHome == \A c \in Client : task[c].lease # None => home[task[c].lease] = task[c].pool

LeaseAlone ==
  \A c, d \in Client : task[c].lease # None /\ task[c].lease = task[d].lease => c = d

QueueOwn ==
  \A p \in Pool, b \in Backend : Queued(p, b) =>
      home[b] = p /\ b \notin sweep.out /\ \A c \in Client : task[c].lease # b

QueueOnce ==
  \A p \in Pool : \A i, j \in 1..Len(idle[p]) : idle[p][i] = idle[p][j] => i = j

SweptOwn ==
  \A b \in sweep.out : home[b] = sweep.pool /\ \A c \in Client : task[c].lease # b

Somewhere ==
  \A b \in Backend : home[b] # None =>
      (\E c \in Client : task[c].lease = b) \/ Queued(home[b], b) \/ b \in sweep.out

Places == LeaseHome /\ LeaseAlone /\ QueueOwn /\ QueueOnce /\ SweptOwn /\ Somewhere

IInv == TaskOK /\ SweepOK /\ StoreOK /\ Books /\ Places

(* No lease changes hands, no backend changes place. *)
LEMMA PlacesKept ==
  ASSUME TaskOK, SweepOK, Places, NEW c \in Client, NEW r, Sets(c, r),
         r.lease = task[c].lease, r.lease # None => r.pool = task[c].pool,
         idle' = idle, home' = home, sweep' = sweep
  PROVE  Places'
  <1>1. \A d \in Client : /\ task'[d].lease = task[d].lease
                          /\ task[d].lease # None => task'[d].pool = task[d].pool
    BY Zenon DEF TaskOK, Sets
  <1>2. \A p, b : Queued(p, b)' <=> Queued(p, b)
    BY Zenon DEF Queued
  <1> QED
    BY <1>1, <1>2 DEF Places, LeaseHome, LeaseAlone, QueueOwn, QueueOnce, SweptOwn, Somewhere

(* Nobody's count changes. *)
LEMMA BooksKept ==
  ASSUME TaskOK, StoreOK, Books, NEW c \in Client, NEW r, Sets(c, r),
         r.pc \notin Slotted, task[c].pc \notin Slotted,
         UNCHANGED <<home, active, slots, lost, sweep>>
  PROVE  Books'
  <1>0. \A d \in Client : task'[d] = IF d = c THEN r ELSE task[d]
    BY Zenon DEF TaskOK, Sets
  <1>1. \A p : Counted(p)' = Counted(p)
    BY <1>0, Zenon DEF Counted, In, Slotted
  <1>2. Connecting' = Connecting
    BY <1>0, Zenon DEF Connecting, At, Slotted
  <1>3. Open' = Open /\ \A p : Homed(p)' = Homed(p) /\ Closing(p)' = Closing(p)
    BY Zenon DEF Open, Homed, Closing
  <1> QED
    BY <1>1, <1>2, <1>3, Zenon DEF Books, SlotsAccounted

(* A step of one client that neither books nor places notice. *)
LEMMA PlainStep ==
  ASSUME IInv, NEW c \in Client, NEW r, Formed(r), Sets(c, r),
         r.lease = task[c].lease, r.lease # None => r.pool = task[c].pool,
         r.pc \notin Slotted, task[c].pc \notin Slotted,
         UNCHANGED <<idle, home, active, slots, lost, sweep>>
  PROVE  IInv'
  <1>1. TaskOK'
    BY SetsKeeps, Zenon DEF IInv
  <1>2. SweepOK' /\ StoreOK'
    BY Zenon DEF IInv, SweepOK, StoreOK
  <1>3. Books'
    BY BooksKept, Zenon DEF IInv
  <1>4. Places'
    BY PlacesKept, Zenon DEF IInv
  <1> QED
    BY <1>1, <1>2, <1>3, <1>4, Zenon DEF IInv

(* The task goes on. *)
LEMMA GoesStep ==
  ASSUME IInv, NEW c \in Client, NEW l \in Location, Goes(c, l),
         task[c].pc # "out", l \in Held <=> task[c].pc \in Held,
         l \notin Slotted, task[c].pc \notin Slotted,
         UNCHANGED <<idle, home, active, slots, lost, sweep>>
  PROVE  IInv'
  <1> DEFINE r == [task[c] EXCEPT !.pc = l]
  <1>0. task[c] \in Task /\ Formed(task[c])
    BY TaskOKForm, Zenon DEF IInv, TaskOK
  <1>1. Formed(r) /\ r.lease = task[c].lease /\ r.pool = task[c].pool /\ r.pc = l
    BY <1>0, Zenon DEF Formed, Task, Slotted, Reserved
  <1>2. Sets(c, r)
    BY Zenon DEF Goes, Sets, IInv, TaskOK
  <1> HIDE DEF r
  <1> QED
    BY <1>1, <1>2, PlainStep, Zenon

(* The task ends, holding nothing. *)
LEMMA EndsStep ==
  ASSUME IInv, NEW c \in Client, Ends(c), task[c].pc \notin Held \cup Slotted,
         UNCHANGED <<idle, home, active, slots, lost, sweep>>
  PROVE  IInv'
  <1>1. Formed(NoTask) /\ NoTask.lease = None /\ NoTask.pc \notin Slotted
    BY NoTaskFormed, Zenon DEF NoTask, Slotted, Reserved
  <1>2. task[c].lease = None
    BY Zenon DEF IInv, TaskOK
  <1>3. Sets(c, NoTask)
    BY Zenon DEF Ends, Sets
  <1> QED
    BY <1>1, <1>2, <1>3, PlainStep, Zenon

(* Nobody moves, and the sweeper holds no backend or keeps what it holds. *)
LEMMA StillStep ==
  ASSUME IInv, SweepOK', sweep'.out = sweep.out, sweep.out # {} => sweep'.pool = sweep.pool,
         sweep' = sweep \/ "uncount" \notin {sweep.pc, sweep'.pc},
         UNCHANGED <<task, idle, home, active, slots, lost>>
  PROVE  IInv'
  <1>1. TaskOK' /\ StoreOK'
    BY Zenon DEF IInv, TaskOK, StoreOK
  <1>2. Books'
    <2>1. /\ \A p : Counted(p)' = Counted(p) /\ Homed(p)' = Homed(p) /\ Closing(p)' = Closing(p)
          /\ Connecting' = Connecting /\ Open' = Open
      BY Zenon DEF Counted, In, Homed, Closing, Connecting, Open, At
    <2> QED
      BY <2>1, Zenon DEF IInv, Books, SlotsAccounted
  <1>3. Places'
    <2>1. \A p, b : Queued(p, b)' <=> Queued(p, b)
      BY Zenon DEF Queued
    <2> QED
      BY <2>1 DEF IInv, Places, LeaseHome, LeaseAlone, QueueOwn, QueueOnce, SweptOwn, Somewhere
  <1> QED
    BY <1>1, <1>2, <1>3, Zenon DEF IInv

-----------------------------------------------------------------------------
(* Places of checkout_with_mode where nothing is held or reserved. *)
Free == Location \ (Held \cup Slotted)

LEMMA MissedFree ==
  ASSUME NEW c \in Client, task[c].pc \in Taking
  PROVE  Missed(c) \in Free /\ Missed(c) # "out"
  BY Zenon DEF Missed, At, Taking, Free, Location, Reserving, Held, Slotted, Outside

LEMMA UnreservedFree ==
  ASSUME NEW s \in Reserving
  PROVE  Unreserved(s) \in Free /\ Unreserved(s) # "out"
  BY Zenon DEF Unreserved, Reserving, Taking, Free, Location, Held, Slotted, Outside

LEMMA GoesFree ==
  ASSUME IInv, NEW c \in Client, NEW l \in Free, Goes(c, l),
         task[c].pc # "out", task[c].pc \in Free,
         UNCHANGED <<idle, home, active, slots, lost, sweep>>
  PROVE  IInv'
  BY GoesStep, Zenon DEF Free

LEMMA UnchangedStep ==
  ASSUME IInv, UNCHANGED <<task, idle, home, active, slots, lost, sweep>>
  PROVE  IInv'
  <1>1. SweepOK'
    BY Zenon DEF IInv, SweepOK
  <1> QED
    BY <1>1, StillStep, Zenon

LEMMA SelectStep ==
  ASSUME IInv, NEW c \in Client, NEW p \in Pool, NEW m \in Modes, Select(c, p, m)
  PROVE  IInv'
  <1> USE DEF store, wires
  <1>1. CASE task' = task
    BY <1>1, UnchangedStep, Zenon DEF Select
  <1>2. CASE task' # task
    <2> DEFINE r == [NoTask EXCEPT !.pc = "ask", !.pool = p, !.mode = m]
    <2>1. Sets(c, r) /\ At(c, "out")
      BY <1>2, Zenon DEF Select, Sets
    <2>2. Formed(r) /\ r.lease = None /\ r.pc = "ask"
      BY PoolSetsAssumption, Zenon DEF Formed, NoTask, Task, Location, Outside, Held, Slotted, Reserved
    <2>3. task[c].lease = None /\ task[c].pc \notin Slotted
      BY <2>1, Zenon DEF IInv, TaskOK, At, Held, Slotted
    <2> HIDE DEF r
    <2> QED
      BY <2>1, <2>2, <2>3, PlainStep, Zenon DEF Select, Slotted
  <1> QED
    BY <1>1, <1>2, Zenon

LEMMA GateSteps ==
  ASSUME IInv, NEW c \in Client,
         Ask(c) \/ RouteAdmits(c) \/ PoolAdmits(c) \/ GateRefuses(c) \/ PoolFull(c) \/ Peek(c)
  PROVE  IInv'
  <1> USE DEF store, wires
  <1>1. CASE Ask(c)
    <2>1. task[c].pc = "ask" /\ (Goes(c, "route") \/ Ends(c))
      BY <1>1, Zenon DEF Ask, At
    <2>2. UNCHANGED <<idle, home, active, slots, lost, sweep>>
      BY <1>1, Zenon DEF Ask
    <2> QED
      BY <2>1, <2>2, GoesFree, EndsStep, Zenon DEF Free, Location, Outside, Held, Slotted
  <1>2. CASE RouteAdmits(c)
    BY <1>2, GoesFree, Zenon DEF RouteAdmits, At, Free, Location, Outside, Held, Slotted
  <1>3. CASE PoolAdmits(c)
    <2>1. /\ task[c].pc = "gate"
          /\ Goes(c, IF task[c].mode = "prefer" THEN "prefer" ELSE "first")
          /\ UNCHANGED <<idle, home, active, slots, lost, sweep>>
      BY <1>3, Zenon DEF PoolAdmits, At
    <2> QED
      BY <2>1, GoesFree, Zenon DEF Free, Location, Outside, Held, Slotted, Taking, Reserving
  <1>4. CASE GateRefuses(c)
    BY <1>4, EndsStep, Zenon DEF GateRefuses, At, Held, Slotted
  <1>5. CASE PoolFull(c)
    BY <1>5, GoesFree, UnreservedFree, Zenon DEF PoolFull, Reserving, Free, Location, Held, Slotted, Outside
  <1>6. CASE Peek(c)
    <2>1. /\ task[c].pc = "peek"
          /\ Goes(c, IF count[task[c].pool] > 0 THEN "second"
                     ELSE IF task[c].mode = "allow" THEN "open" ELSE "again")
          /\ UNCHANGED <<idle, home, active, slots, lost, sweep>>
      BY <1>6, Zenon DEF Peek, At
    <2> QED
      BY <2>1, GoesFree, Zenon DEF Free, Location, Outside, Held, Slotted, Taking, Reserving
  <1> QED
    BY <1>1, <1>2, <1>3, <1>4, <1>5, <1>6, Zenon

LEMMA WaitSteps ==
  ASSUME IInv, NEW c \in Client,
         TryLock(c) \/ Park(c) \/ Wake(c) \/ WaitTimeout(c) \/ Leave(c) \/ Count(c)
  PROVE  IInv'
  <1> USE DEF store, wires
  <1>1. CASE TryLock(c)
    <2>1. /\ task[c].pc \in Taking
          /\ task' = task \/ Goes(c, Missed(c))
          /\ UNCHANGED <<idle, home, active, slots, lost, sweep>>
      BY <1>1, Zenon DEF TryLock
    <2>2. task[c].pc # "out" /\ task[c].pc \in Free
      BY <2>1, Zenon DEF Taking, Free, Location, Held, Slotted
    <2> QED
      BY <2>1, <2>2, GoesFree, MissedFree, UnchangedStep, Zenon
  <1>2. CASE Park(c) \/ Wake(c)
    <2>1. /\ task[c].pc \in {"park", "wait"}
          /\ Goes(c, "watch") \/ Goes(c, "wait") \/ Goes(c, "again")
          /\ UNCHANGED <<idle, home, active, slots, lost, sweep>>
      BY <1>2, Zenon DEF Park, Wake, At
    <2> QED
      BY <2>1, GoesFree, Zenon DEF Free, Location, Outside, Held, Slotted, Taking
  <1>3. CASE WaitTimeout(c) \/ Leave(c)
    <2>1. /\ task[c].pc \in {"wait", "leave"} /\ Ends(c)
          /\ UNCHANGED <<idle, home, active, slots, lost, sweep>>
      BY <1>3, Zenon DEF WaitTimeout, Leave, At
    <2> QED
      BY <2>1, EndsStep, Zenon DEF Held, Slotted
  <1>4. CASE Count(c)
    <2>1. /\ task[c].pc = "count" /\ Goes(c, "leave")
          /\ UNCHANGED <<idle, home, active, slots, lost, sweep>>
      BY <1>4, Zenon DEF Count, At
    <2> QED
      BY <2>1, GoesFree, Zenon DEF Free, Location, Outside, Held, Slotted
  <1> QED
    BY <1>1, <1>2, <1>3, <1>4, Zenon

LEMMA LeaseSteps ==
  ASSUME IInv, NEW c \in Client, Uses(c) \/ ReturnLock(c)
  PROVE  IInv'
  <1> USE DEF store, wires, state
  <1>1. CASE Bootstrap(c) \/ ReturnLock(c)
    BY <1>1, UnchangedStep, Zenon DEF Bootstrap, ReturnLock
  <1>2. CASE Release(c) \/ Fail(c) \/ Abandon(c)
    <2>1. PICK l \in {"return", "discard"} : task' = [task EXCEPT ![c].pc = l, ![c].needs = FALSE]
      BY <1>2, Zenon DEF Release, Fail, Abandon
    <2>2. task[c].pc = "leased" /\ UNCHANGED <<idle, home, active, slots, lost, sweep>>
      BY <1>2, Zenon DEF Release, Fail, Abandon, At
    <2> DEFINE r == [task[c] EXCEPT !.pc = l, !.needs = FALSE]
    <2>3. task[c] \in Task /\ Formed(task[c])
      BY TaskOKForm, Zenon DEF IInv, TaskOK
    <2>4. Formed(r) /\ r.lease = task[c].lease /\ r.pool = task[c].pool /\ r.pc = l
      BY <2>2, <2>3, Zenon DEF Formed, Task, Held, Slotted, Reserved, Location
    <2>5. Sets(c, r)
      BY <2>1, Zenon DEF Sets, IInv, TaskOK
    <2> HIDE DEF r
    <2> QED
      BY <2>2, <2>4, <2>5, PlainStep, Zenon DEF Slotted
  <1> QED
    BY <1>1, <1>2, Zenon DEF Uses

-----------------------------------------------------------------------------
(* A client makes, uses or gives up a reservation: the reservations of its *)
(* pool change by n, the connects by k.                                    *)
Reserves(c, r, n, k) ==
  /\ Formed(r) /\ Sets(c, r) /\ task[c].pc # "out" /\ task[c].lease = None /\ r.lease = None
  /\ r.pc \in Slotted => r.pool = task[c].pool
  /\ n = Bit(r.pc \in Slotted) - Bit(task[c].pc \in Slotted)
  /\ k = Bit(r.pc = "connect") - Bit(task[c].pc = "connect")
  /\ UNCHANGED <<idle, home, sweep>>

LEMMA ReserveStep ==
  ASSUME IInv, NEW c \in Client, NEW r, NEW n \in Int, NEW k \in Int, Reserves(c, r, n, k),
         NEW a \in Int, NEW l \in Int, NEW s \in Int, Ledger(task[c].pool, a, l, s),
         a = n + l, s + k = 0
  PROVE  IInv'
  <1>1. TaskOK' /\ SweepOK' /\ StoreOK'
    BY SetsKeeps, Zenon DEF IInv, Reserves, SweepOK, StoreOK
  <1>2. Places'
    BY PlacesKept, Zenon DEF IInv, Reserves
  <1>3. Books'
    <2>1. /\ \A p : Cardinality(Homed(p)) \in Nat /\ Homed(p)' = Homed(p)
          /\ Cardinality(Open) \in Nat /\ Open' = Open
      BY SetsFinite, Zenon DEF Reserves, Homed, Open
    <2>2. /\ \A p : Cardinality(Counted(p)') = Cardinality(Counted(p)) + (IF p = task[c].pool THEN n ELSE 0)
          /\ Cardinality(Connecting') = Cardinality(Connecting) + k
      BY ClientCounts DEF IInv, Reserves
    <2>3. Counts(task[c].pool, 0, n, k)
      BY <2>1, <2>2 DEF Counts
    <2>4. task[c].pool \in Pool /\ Books
      BY Zenon DEF IInv, TaskOK, Reserves
    <2> QED
      BY <2>3, <2>4, BooksFollow
  <1> QED
    BY <1>1, <1>2, <1>3, Zenon DEF IInv

(* The record of a client with another place and reservation. *)
LEMMA SiteFormed ==
  ASSUME TaskOK, NEW c \in Client, task[c].pc \notin Held \cup {"out"},
         NEW l \in Location, l \notin Held, NEW s \in Reserving \cup {None},
         l \in Reserved => s \in Reserving,
         task' = [task EXCEPT ![c].pc = l, ![c].site = s]
  PROVE  LET r == [task[c] EXCEPT !.pc = l, !.site = s]
         IN  /\ Formed(r) /\ Sets(c, r) /\ r.pc = l /\ r.lease = None
             /\ r.pool = task[c].pool /\ task[c].lease = None
  <1>1. task[c] \in Task /\ Formed(task[c]) /\ task[c].lease = None
    BY TaskOKForm, Zenon DEF TaskOK
  <1> QED
    BY <1>1, Zenon DEF Formed, Task, Sets, TaskOK, Held

LEMMA ReservedSteps ==
  ASSUME IInv, NEW c \in Client,
         Reserve(c) \/ TakeSlot(c) \/ NoSlot(c) \/ Uncount(c) \/ ConnectFails(c) \/ ConnectDropped(c)
  PROVE  IInv'
  <1> USE DEF store, wires
  <1> DEFINE p == task[c].pool
  <1>0. /\ TaskOK /\ active \in [Pool -> Nat] /\ lost \in [Pool -> Nat] /\ slots \in Nat
        /\ task[c].pc # "out" => p \in Pool
        /\ \A q \in Pool : active[q] <= MaxSize
        /\ MaxSize \in Nat
    BY PoolSizesAssumption, Zenon DEF IInv, TaskOK, Books
  <1>a. task[c] \in Task /\ Formed(task[c])
    BY TaskOKForm, Zenon DEF IInv, TaskOK
  <1>b. \A q \in Pool : Closing(q) \in Nat /\ lost[q] \in Nat /\ Owed(q) \in Nat
    <2> SUFFICES ASSUME NEW q \in Pool PROVE Closing(q) \in Nat /\ lost[q] \in Nat /\ Owed(q) \in Nat
      BY Zenon
    <2>1. lost[q] \in Nat /\ Closing(q) \in {0, 1} /\ Owed(q) = Closing(q) + lost[q]
      BY <1>0, OwedType, Zenon DEF Owed
    <2> QED
      BY <2>1
  <1>c. ASSUME sweep' = sweep, lost' = lost PROVE \A q : Owed(q)' = Owed(q)
    BY <1>c, Zenon DEF Closing, Owed
  <1>1. CASE Reserve(c)
    <2>1. /\ task[c].pc \in Reserving /\ active[p] < MaxSize
          /\ active' = [active EXCEPT ![p] = @ + 1]
          /\ task' = [task EXCEPT ![c].pc = "slot", ![c].site = task[c].pc]
          /\ UNCHANGED <<idle, home, slots, lost, sweep>>
      BY <1>1, Zenon DEF Reserve
    <2>2. task[c].pc \notin Held \cup {"out"} \cup Slotted
      BY <2>1, Zenon DEF Reserving, Held, Slotted
    <2> DEFINE r == [task[c] EXCEPT !.pc = "slot", !.site = task[c].pc]
    <2>3. /\ Formed(r) /\ Sets(c, r) /\ r.pc = "slot" /\ r.lease = None
          /\ r.pool = p /\ task[c].lease = None
      BY <1>0, <2>1, <2>2, SiteFormed, Zenon DEF Location, Slotted, Reserved, Held
    <2> HIDE DEF r
    <2>4. Reserves(c, r, 1, 0)
      <3>1. /\ Bit(r.pc \in Slotted) = 1 /\ Bit(task[c].pc \in Slotted) = 0
            /\ Bit(r.pc = "connect") = 0 /\ Bit(task[c].pc = "connect") = 0
        BY <2>2, <2>3, Zenon DEF Bit, Slotted
      <3> QED
        BY <2>1, <2>2, <2>3, <3>1 DEF Reserves
    <2>5. Ledger(p, 1, 0, 0)
      <3>1. /\ p \in Pool /\ active[p] \in Nat /\ active[p] <= MaxSize
            /\ \A q \in Pool : active'[q] = IF q = p THEN active[p] + 1 ELSE active[q]
            /\ active' \in [Pool -> Int]
        BY <1>0, <2>1, <2>2 DEF Slotted
      <3>2. \A q : Owed(q)' = Owed(q)
        BY <1>c, <2>1, Zenon
      <3>3. \A q \in Pool : Owed(q) \in Nat
        BY <1>b, Zenon
      <3> HIDE DEF p
      <3> QED
        BY <1>0, <2>1, <3>1, <3>2, <3>3 DEF Ledger
    <2> QED
      BY <2>4, <2>5, ReserveStep
  <1>2. CASE TakeSlot(c)
    <2>1. /\ task[c].pc = "slot" /\ slots > 0 /\ slots' = slots - 1
          /\ task' = [task EXCEPT ![c].pc = "connect"]
          /\ UNCHANGED <<idle, home, active, lost, sweep>>
      BY <1>2, Zenon DEF TakeSlot, At, Goes
    <2> DEFINE r == [task[c] EXCEPT !.pc = "connect"]
    <2>2. /\ Formed(r) /\ Sets(c, r) /\ r.pc = "connect" /\ r.lease = None
          /\ r.pool = p /\ task[c].lease = None
      BY <1>0, <1>a, <2>1, Zenon DEF Formed, Task, Sets, TaskOK, Location, Slotted, Reserved, Held
    <2> HIDE DEF r
    <2>3. Reserves(c, r, 0, 1)
      BY <2>1, <2>2 DEF Reserves, Bit, Slotted
    <2>4. Ledger(p, 0, 0, -1)
      BY <1>0, <1>b, <1>c, <2>1 DEF Ledger
    <2> QED
      BY <2>3, <2>4, ReserveStep
  <1>3. CASE NoSlot(c)
    <2>1. /\ task[c].pc = "slot" /\ task' = [task EXCEPT ![c].pc = "undo"]
          /\ UNCHANGED <<idle, home, active, slots, lost, sweep>>
      BY <1>3, Zenon DEF NoSlot, At, Goes
    <2> DEFINE r == [task[c] EXCEPT !.pc = "undo"]
    <2>2. /\ Formed(r) /\ Sets(c, r) /\ r.pc = "undo" /\ r.lease = None
          /\ r.pool = p /\ task[c].lease = None
      BY <1>0, <1>a, <2>1, Zenon DEF Formed, Task, Sets, TaskOK, Location, Slotted, Reserved, Held
    <2> HIDE DEF r
    <2>3. Reserves(c, r, 0, 0)
      BY <2>1, <2>2 DEF Reserves, Bit, Slotted
    <2>4. Ledger(p, 0, 0, 0)
      BY <1>0, <1>b, <1>c, <2>1 DEF Ledger
    <2> QED
      BY <2>3, <2>4, ReserveStep
  <1>4. CASE ConnectFails(c)
    <2>1. /\ task[c].pc = "connect" /\ slots' = slots + 1
          /\ task' = [task EXCEPT ![c].pc = "uncount"]
          /\ UNCHANGED <<idle, home, active, lost, sweep>>
      BY <1>4, Zenon DEF ConnectFails, At, Goes
    <2> DEFINE r == [task[c] EXCEPT !.pc = "uncount"]
    <2>2. /\ Formed(r) /\ Sets(c, r) /\ r.pc = "uncount" /\ r.lease = None
          /\ r.pool = p /\ task[c].lease = None
      BY <1>0, <1>a, <2>1, Zenon DEF Formed, Task, Sets, TaskOK, Location, Slotted, Reserved, Held
    <2> HIDE DEF r
    <2>3. Reserves(c, r, 0, -1)
      BY <2>1, <2>2 DEF Reserves, Bit, Slotted
    <2>4. Ledger(p, 0, 0, 1)
      BY <1>0, <1>b, <1>c, <2>1 DEF Ledger
    <2> QED
      BY <2>3, <2>4, ReserveStep
  <1>6. CASE Uncount(c)
    <2> DEFINE next == Uncounted(c)
    <2>1. /\ task[c].pc \in {"undo", "uncount"}
          /\ active' = [active EXCEPT ![p] = @ - 1]
          /\ \/ task' = [task EXCEPT ![c].pc = next, ![c].site = None] /\ next # "out"
             \/ Ends(c)
          /\ UNCHANGED <<idle, home, slots, lost, sweep>>
      BY <1>6, Zenon DEF Uncount, At
    <2>2. task[c].lease = None
      BY <1>0, <2>1, Zenon DEF TaskOK, Held
    <2>3. PICK r : Formed(r) /\ Sets(c, r) /\ r.pc \notin Slotted /\ r.lease = None
      <3>1. CASE task' = [task EXCEPT ![c].pc = next, ![c].site = None] /\ next # "out"
        <4> DEFINE r0 == [task[c] EXCEPT !.pc = next, !.site = None]
        <4>1. next \in Location /\ next \notin Held \cup Slotted
          <5>1. CASE task[c].pc = "undo"
            <6>1. task[c].site \in Reserving
              BY <1>0, <5>1, Zenon DEF TaskOK, Reserved
            <6>2. next = Unreserved(task[c].site)
              BY <5>1, Zenon DEF Uncounted, At
            <6> QED
              BY <6>1, <6>2, UnreservedFree, Zenon DEF Free
          <5>2. CASE task[c].pc = "uncount"
            <6>1. next \in {"first", "leave", "out"}
              BY <5>2, Zenon DEF Uncounted, At
            <6> QED
              BY <3>1, <6>1, Zenon DEF Held, Slotted, Location, Taking
          <5> QED
            BY <2>1, <5>1, <5>2, Zenon
        <4> HIDE DEF next
        <4>2. Formed(r0) /\ Sets(c, r0) /\ r0.pc \notin Slotted /\ r0.lease = None
          BY <1>0, <1>a, <2>1, <2>2, <3>1, <4>1, Zenon DEF Formed, Task, Sets, TaskOK, Slotted, Reserved, Held
        <4> HIDE DEF r0
        <4> QED
          BY <4>2, Zenon
      <3>2. CASE Ends(c)
        <4>1. Formed(NoTask) /\ Sets(c, NoTask) /\ NoTask.pc \notin Slotted /\ NoTask.lease = None
          BY <3>2, NoTaskFormed, Zenon DEF Ends, Sets, NoTask, Slotted
        <4> QED
          BY <4>1, Zenon
      <3> QED
        BY <2>1, <3>1, <3>2, Zenon
    <2>4. Reserves(c, r, -1, 0)
      BY <2>1, <2>2, <2>3 DEF Reserves, Bit, Slotted
    <2>5. Ledger(p, -1, 0, 0)
      <3>1. /\ p \in Pool /\ active[p] \in Nat /\ active[p] <= MaxSize
            /\ \A q \in Pool : active'[q] = IF q = p THEN active[p] - 1 ELSE active[q]
            /\ active' \in [Pool -> Int]
        BY <1>0, <2>1 DEF Slotted
      <3>2. \A q : Owed(q)' = Owed(q)
        BY <1>c, <2>1, Zenon
      <3>3. \A q \in Pool : Owed(q) \in Nat
        BY <1>b, Zenon
      <3> HIDE DEF p
      <3> QED
        BY <1>0, <2>1, <3>1, <3>2, <3>3 DEF Ledger
    <2> QED
      BY <2>4, <2>5, ReserveStep
  <1>5. CASE ConnectDropped(c)
    <2>1. /\ task[c].pc = "connect" /\ slots' = slots + 1
          /\ lost' = [lost EXCEPT ![p] = @ + 1] /\ Ends(c)
          /\ UNCHANGED <<idle, home, active, sweep>>
      BY <1>5, Zenon DEF ConnectDropped, At
    <2>2. task[c].lease = None
      BY <1>0, <2>1, Zenon DEF TaskOK, Held
    <2>3. Formed(NoTask) /\ Sets(c, NoTask) /\ NoTask.pc = "out" /\ NoTask.lease = None
      BY <2>1, NoTaskFormed, Zenon DEF Ends, Sets, NoTask
    <2>4. Reserves(c, NoTask, -1, -1)
      <3>1. /\ Bit(NoTask.pc \in Slotted) = 0 /\ Bit(task[c].pc \in Slotted) = 1
            /\ Bit(NoTask.pc = "connect") = 0 /\ Bit(task[c].pc = "connect") = 1
            /\ NoTask.pc \notin Slotted
        BY <2>1, <2>3, Zenon DEF Bit, Slotted
      <3> QED
        BY <2>1, <2>2, <2>3, <3>1 DEF Reserves
    <2>6. \A q \in Pool : Owed(q)' = Owed(q) + (IF q = p THEN 1 ELSE 0)
      <3> SUFFICES ASSUME NEW q \in Pool PROVE Owed(q)' = Owed(q) + (IF q = p THEN 1 ELSE 0)
        BY Zenon
      <3>1. lost'[q] = IF q = p THEN lost[q] + 1 ELSE lost[q]
        BY <1>0, <2>1, Zenon
      <3>2. Closing(q)' = Closing(q)
        BY <2>1, Zenon DEF Closing
      <3>3. Owed(q)' = Closing(q) + lost'[q] /\ Owed(q) = Closing(q) + lost[q]
        BY <3>2, Zenon DEF Owed
      <3>4. Closing(q) \in Nat /\ lost[q] \in Nat
        BY <1>b, Zenon
      <3> QED
        BY <3>1, <3>3, <3>4
    <2>5. Ledger(p, 0, 1, 1)
      BY <1>0, <1>b, <2>1, <2>6 DEF Ledger
    <2> QED
      BY <2>4, <2>5, ReserveStep
  <1> QED
    BY <1>1, <1>2, <1>3, <1>4, <1>5, <1>6, Zenon


-----------------------------------------------------------------------------
(* The pools start so, with nothing connected. *)
LEMMA StartKeeps == PoolInit => IInv
  <1> SUFFICES ASSUME PoolInit PROVE IInv
    BY Zenon
  <1>1. TaskOK
    <2>1. \A c \in Client : task[c] = NoTask
      BY Zenon DEF PoolInit
    <2>2. task \in [Client -> Task]
      BY NoTaskFormed, Zenon DEF PoolInit, Formed
    <2> QED
      BY <2>1, <2>2, NoTaskFormed, TaskOKForm, Zenon
  <1>2. SweepOK /\ StoreOK
    BY DEF PoolInit, SweepOK, Sweep, StoreOK
  <1>3. Books
    <2>1. \A p \in Pool : Homed(p) = {}
      BY PoolSetsAssumption, Zenon DEF Homed, PoolInit
    <2>2. Open = {}
      BY Zenon DEF Open, PoolInit
    <2>3. Connecting = {} /\ \A p \in Pool : Counted(p) = {}
      BY Zenon DEF Connecting, Counted, In, At, PoolInit, NoTask
    <2>4. Cardinality({}) = 0
      BY FS_EmptySet, Zenon
    <2>6. \A p : Closing(p) = 0
      BY Zenon DEF Closing, PoolInit
    <2>5. active = [p \in Pool |-> 0] /\ lost = [p \in Pool |-> 0] /\ slots = GlobalSlots
      BY Zenon DEF PoolInit
    <2> QED
      BY <2>1, <2>2, <2>3, <2>4, <2>5, <2>6, PoolSizesAssumption DEF Books, SlotsAccounted
  <1>4. Places
    <2>1. /\ \A c \in Client : task[c].lease = None
          /\ sweep.out = {}
          /\ \A b \in Backend : home[b] = None
          /\ \A p \in Pool : idle[p] = <<>>
      BY Zenon DEF PoolInit, NoTask
    <2>2. \A p \in Pool, b \in Backend : ~Queued(p, b)
      BY <2>1 DEF Queued
    <2> QED
      BY <2>1, <2>2, PoolSetsAssumption DEF Places, LeaseHome, LeaseAlone, QueueOwn, QueueOnce, SweptOwn, Somewhere
  <1> QED
    BY <1>1, <1>2, <1>3, <1>4, Zenon DEF IInv

(* A set with one element, or none. *)
LEMMA AtMostOne ==
  ASSUME NEW S, \A x, y \in S : x = y
  PROVE  Cardinality(S) = IF S = {} THEN 0 ELSE 1
  <1>1. CASE S = {}
    BY <1>1, FS_EmptySet, Zenon
  <1>2. CASE S # {}
    <2>1. PICK x \in S : TRUE
      BY <1>2, Zenon
    <2>2. S = {x}
      BY <2>1, Zenon
    <2> QED
      BY <1>2, <2>2, FS_Singleton, Zenon
  <1> QED
    BY <1>1, <1>2, Zenon

(* A connected backend is in one place of its own pool. *)
LEMMA PlacesGive == IInv => OnePlace
  <1> SUFFICES ASSUME IInv, NEW b \in Backend, NEW p \in Pool
               PROVE  Cardinality({i \in 1..Len(idle[p]) : idle[p][i] = b})
                        + Cardinality({c \in In(p) : task[c].lease = b})
                        + (IF sweep.pool = p /\ b \in sweep.out THEN 1 ELSE 0)
                      = IF home[b] = p THEN 1 ELSE 0
    BY Zenon DEF OnePlace
  <1> DEFINE Q == {i \in 1..Len(idle[p]) : idle[p][i] = b}
             L == {c \in In(p) : task[c].lease = b}
             W == sweep.pool = p /\ b \in sweep.out
             X == \E c \in Client : task[c].lease = b
  <1>0. b # None /\ p # None
    BY PoolSetsAssumption, Zenon
  <1>1. \A i, j \in Q : i = j
    BY Zenon DEF IInv, Places, QueueOnce
  <1>2. \A c, d \in L : c = d
    BY <1>0, Zenon DEF IInv, Places, In, LeaseAlone
  <1>3. /\ Cardinality(Q) = IF Q = {} THEN 0 ELSE 1
        /\ Cardinality(L) = IF L = {} THEN 0 ELSE 1
    <2> HIDE DEF Q, L
    <2> QED
      BY <1>1, <1>2, AtMostOne, Zenon
  <1>4. Q # {} <=> Queued(p, b)
    BY Zenon DEF Queued
  <1>5. Queued(p, b) => home[b] = p /\ b \notin sweep.out /\ ~X
    BY Zenon DEF IInv, Places, QueueOwn
  <1>6. L # {} <=> home[b] = p /\ X
    <2>1. \A c \in Client : task[c].lease = b => home[b] = task[c].pool
      BY <1>0, Zenon DEF IInv, Places, LeaseHome
    <2> QED
      BY <2>1, Zenon DEF In
  <1>7. (W <=> home[b] = p /\ b \in sweep.out) /\ (b \in sweep.out => ~X)
    BY Zenon DEF IInv, Places, SweptOwn
  <1>8. home[b] = p => X \/ Queued(p, b) \/ b \in sweep.out
    BY <1>0, Zenon DEF IInv, Places, Somewhere
  <1> HIDE DEF Q, L, W, X
  <1>9. /\ Cardinality(Q) = IF Queued(p, b) THEN 1 ELSE 0
        /\ Cardinality(L) = IF home[b] = p /\ X THEN 1 ELSE 0
    BY <1>3, <1>4, <1>6, Zenon
  <1>10. Cardinality(Q) + Cardinality(L) + (IF W THEN 1 ELSE 0) = IF home[b] = p THEN 1 ELSE 0
    BY <1>5, <1>7, <1>8, <1>9
  <1> QED
    BY <1>10, Zenon DEF Q, L, W

(* What the invariant says of the books is what PoolBooks asks. *)
LEMMA BooksGive == IInv => PoolBooks
  <1> SUFFICES ASSUME IInv PROVE PoolBooks
    BY Zenon
  <1>1. SlotsAccounted /\ \A p \in Pool : active[p] <= MaxSize
    BY Zenon DEF IInv, Books
  <1>2. slots + Cardinality(Open) + Cardinality(Connecting) = GlobalSlots /\ slots \in Nat
    BY Zenon DEF IInv, Books
  <1>3. Cardinality(Open) \in Nat /\ Cardinality(Connecting) \in Nat
    BY SetsFinite, Zenon
  <1>4. Cardinality(Open) <= GlobalSlots
    BY <1>2, <1>3
  <1>5. PermitsAccounted /\ WithinCaps
    BY <1>1, <1>2, <1>4, Zenon DEF PermitsAccounted, WithinCaps, Open, Connecting
  <1> QED
    BY <1>1, <1>5, PlacesGive, Zenon DEF PoolBooks

-----------------------------------------------------------------------------
(* The breaker.  A request that was let through since it opened is the     *)
(* probe of the half-open state, and its mark is still set.                *)
Breaker == [state : {"closed", "open", "half_open"}, failures : Nat, cooled : BOOLEAN,
            probe : BOOLEAN, trials : {0, 1}]

Marked(b) == b \in Breaker /\ (b.trials = 1 => b.state = "half_open" /\ b.probe)

BreakerOK == breaker \in [Pool -> Breaker] /\ \A p \in Pool : Marked(breaker[p])

LEMMA BreakerSteps ==
  ASSUME NEW b, Marked(b)
  PROVE  /\ Marked(NewBreaker) /\ Marked(Observe(b)) /\ Marked(RecordFailure(b))
         /\ Allows(b) => Marked(Allowed(b))
         /\ b.state = "open" => Marked([b EXCEPT !.cooled = TRUE])
  <1>1. Marked(NewBreaker)
    BY DEF Marked, Breaker, NewBreaker
  <1>2. Marked(Observe(b))
    BY Zenon DEF Marked, Breaker, Observe
  <1>3. Marked(RecordFailure(b))
    <2>1. CASE b.state = "half_open" \/ (b.state = "closed" /\ b.failures + 1 >= FailureThreshold)
      <3>1. RecordFailure(b) = [state |-> "open", failures |-> FailureThreshold, cooled |-> FALSE,
                                probe |-> FALSE, trials |-> 0]
        BY <2>1, Zenon DEF RecordFailure
      <3> QED
        BY <3>1, PoolSizesAssumption DEF Marked, Breaker
    <2>2. CASE b.state = "closed" /\ ~(b.failures + 1 >= FailureThreshold)
      <3>1. RecordFailure(b) = [b EXCEPT !.failures = @ + 1, !.probe = FALSE]
        BY <2>2, Zenon DEF RecordFailure
      <3>2. b \in Breaker /\ b.failures + 1 \in Nat /\ b.trials # 1
        BY <2>2 DEF Marked, Breaker
      <3> QED
        BY <3>1, <3>2, Zenon DEF Marked, Breaker
    <2>3. CASE b.state \notin {"half_open", "closed"}
      <3>1. RecordFailure(b) = [b EXCEPT !.probe = FALSE]
        BY <2>3, Zenon DEF RecordFailure
      <3>2. b \in Breaker /\ b.trials # 1
        BY <2>3, Zenon DEF Marked, Breaker
      <3> QED
        BY <3>1, <3>2, Zenon DEF Marked, Breaker
    <2> QED
      BY <2>1, <2>2, <2>3, Zenon
  <1>4. Allows(b) => Marked(Allowed(b))
    <2> SUFFICES ASSUME Allows(b) PROVE Marked(Allowed(b))
      BY Zenon
    <2>1. CASE b.state = "half_open"
      <3>1. Allowed(b) = [b EXCEPT !.probe = TRUE, !.trials = @ + 1]
        BY <2>1, Zenon DEF Allowed
      <3>2. b \in Breaker /\ b.trials = 0
        BY <2>1, Zenon DEF Marked, Breaker, Allows
      <3>3. b.trials + 1 = 1
        BY <3>2
      <3> QED
        BY <2>1, <3>1, <3>2, <3>3, Zenon DEF Marked, Breaker
    <2>2. CASE b.state # "half_open"
      BY <2>2, Zenon DEF Allowed
    <2> QED
      BY <2>1, <2>2, Zenon
  <1>5. b.state = "open" => Marked([b EXCEPT !.cooled = TRUE])
    BY Zenon DEF Marked, Breaker
  <1> QED
    BY <1>1, <1>2, <1>3, <1>4, <1>5, Zenon

LEMMA OneBreaker ==
  ASSUME BreakerOK, NEW p, NEW b, p \in Pool => Marked(b), breaker' = [breaker EXCEPT ![p] = b]
  PROVE  BreakerOK'
  <1>1. \A s \in Pool : breaker'[s] = IF s = p THEN b ELSE breaker[s]
    BY Zenon DEF BreakerOK
  <1>2. \A s \in Pool : Marked(breaker'[s])
    BY <1>1, Zenon DEF BreakerOK
  <1>3. breaker' \in [Pool -> Breaker]
    BY <1>2, Zenon DEF BreakerOK, Marked
  <1> QED
    BY <1>2, <1>3, Zenon DEF BreakerOK

LEMMA BreakerNext ==
  ASSUME BreakerOK, [PoolNext]_poolVars
  PROVE  BreakerOK'
  <1> USE DEF state
  <1>0. ASSUME breaker' = breaker PROVE BreakerOK'
    BY <1>0, Zenon DEF BreakerOK
  <1>a. \A p \in Pool : Marked(breaker[p])
    BY Zenon DEF BreakerOK
  <1>1. ASSUME NEW c \in Client, NEW p \in Pool, NEW m \in Modes, Select(c, p, m) PROVE BreakerOK'
    <2>1. breaker' = breaker \/ breaker' = [breaker EXCEPT ![p] = Observe(breaker[p])]
      BY <1>1, Zenon DEF Select
    <2>2. Marked(Observe(breaker[p]))
      BY <1>a, BreakerSteps, Zenon
    <2> QED
      BY <1>0, <2>1, <2>2, OneBreaker, Zenon
  <1>2. ASSUME NEW c \in Client, Ask(c) PROVE BreakerOK'
    <2> DEFINE p == task[c].pool
               b == Observe(breaker[p])
    <2>1. \/ Allows(b) /\ breaker' = [breaker EXCEPT ![p] = Allowed(b)]
          \/ breaker' = [breaker EXCEPT ![p] = b]
      BY <1>2, Zenon DEF Ask
    <2>2. p \in Pool => Marked(b) /\ (Allows(b) => Marked(Allowed(b)))
      <3>1. p \in Pool => Marked(b)
        BY <1>a, BreakerSteps, Zenon
      <3> HIDE DEF b
      <3> QED
        BY <3>1, BreakerSteps, Zenon
    <2> HIDE DEF b, p
    <2> QED
      BY <2>1, <2>2, OneBreaker, Zenon
  <1>3. ASSUME NEW c \in Client, Uses(c) PROVE BreakerOK'
    <2>1. CASE Bootstrap(c) \/ Abandon(c)
      BY <1>0, <2>1, Zenon DEF Bootstrap, Abandon
    <2>2. CASE Release(c)
      <3>1. breaker' = [breaker EXCEPT ![task[c].pool] = NewBreaker] /\ Marked(NewBreaker)
        BY <2>2 DEF Release, Marked, Breaker, NewBreaker
      <3> QED
        BY <3>1, OneBreaker, Zenon
    <2>3. CASE Fail(c)
      <3> DEFINE p == task[c].pool
      <3>1. breaker' = [breaker EXCEPT ![p] = RecordFailure(breaker[p])]
        BY <2>3, Zenon DEF Fail
      <3>2. p \in Pool => Marked(RecordFailure(breaker[p]))
        BY <1>a, BreakerSteps, Zenon
      <3> HIDE DEF p
      <3> QED
        BY <3>1, <3>2, OneBreaker, Zenon
    <2> QED
      BY <1>3, <2>1, <2>2, <2>3, Zenon DEF Uses
  <1>4. ASSUME NEW p \in Pool, Cool(p) PROVE BreakerOK'
    <2>1. breaker[p].state = "open" /\ breaker' = [breaker EXCEPT ![p] = [breaker[p] EXCEPT !.cooled = TRUE]]
      BY <1>4, Zenon DEF Cool, BreakerOK
    <2>2. Marked([breaker[p] EXCEPT !.cooled = TRUE])
      BY <1>a, <2>1, BreakerSteps, Zenon
    <2> QED
      BY <2>1, <2>2, OneBreaker, Zenon
  <1>5. ASSUME NEW c \in Client, Timers(c) \/ ConnectFails(c) \/ \E b \in Backend : Connected(c, b)
        PROVE  BreakerOK'
    BY <1>0, <1>5, Zenon DEF Timers, GateRefuses, ConnectDropped, WaitTimeout, ConnectFails, Connected
  <1>6. ASSUME NEW c \in Client, Runs(c), ~Ask(c) PROVE BreakerOK'
    <2>1. breaker' = breaker
      BY <1>6, Zenon DEF Runs, RouteAdmits, PoolAdmits, Reserve, PoolFull, TakeSlot, NoSlot, Uncount, TryLock, TakeIdle,
                  Peek, Park, Wake, ReturnLock, Push, Count, Discard, Leave
    <2> QED
      BY <1>0, <2>1, Zenon
  <1>7. ASSUME NEW p \in Pool, NEW kind, SweepLock(p, kind) PROVE BreakerOK'
    BY <1>0, <1>7, Zenon DEF SweepLock
  <1>8. CASE Sweeps
    BY <1>0, <1>8, Zenon DEF Sweeps, Drain, Evict, EvictUncount, SizeUp, Store
  <1>9. CASE Done \/ UNCHANGED poolVars
    BY <1>0, <1>9, Zenon DEF Done, poolVars
  <1> QED
    BY <1>1, <1>2, <1>3, <1>4, <1>5, <1>6, <1>7, <1>8, <1>9, Zenon DEF PoolNext

(* Since the breaker of a pool last opened, one request at most was let    *)
(* through: reading the state (a health check, another checkout) never     *)
(* forgets a probe under way.                                              *)
THEOREM ProbesAreSingle == PoolSpec => []OneProbe
  <1>1. PoolInit => BreakerOK
    BY DEF PoolInit, BreakerOK, Marked, NewBreaker, Breaker
  <1>2. BreakerOK /\ [PoolNext]_poolVars => BreakerOK'
    BY BreakerNext, Zenon
  <1>3. BreakerOK => OneProbe
    BY DEF BreakerOK, OneProbe, Marked, Breaker
  <1> QED
    BY <1>1, <1>2, <1>3, PTL DEF PoolSpec
=============================================================================
