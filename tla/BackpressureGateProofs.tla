----------------------- MODULE BackpressureGateProofs -----------------------
(***************************************************************************)
(* The gate's bookkeeping is exact for every set of tasks, capacity,       *)
(* queue bound and sequence of limits.                                     *)
(***************************************************************************)
EXTENDS BackpressureGate, FiniteSetTheorems, TLAPS

(* What one task at location l contributes to the size of S. *)
In(l, S) == IF l \in S THEN 1 ELSE 0

Waiting == CountedWaiting \ {"undo"}

(* The locations g are those of f after task t goes to l. *)
Moves(f, g, t, l) == \A u \in Task : g[u] = IF u = t THEN l ELSE f[u]

-----------------------------------------------------------------------------
(* Any set of tasks is finite and its size is a number. *)
LEMMA AtFinite ==
  ASSUME NEW f, NEW S
  PROVE  IsFiniteSet(At(f, S)) /\ Cardinality(At(f, S)) \in Nat
  <1>1. At(f, S) \subseteq Task
    BY Zenon DEF At
  <1> QED
    BY <1>1, TaskAssumption, FS_Subset, FS_CardinalityType, Zenon

(* One task moves to l: the number of tasks in S changes by what that task *)
(* contributes, and by nothing else.                                       *)
LEMMA MoveOne ==
  ASSUME NEW f, NEW g, NEW S, NEW t \in Task, NEW l, Moves(f, g, t, l)
  PROVE  Cardinality(At(g, S)) = Cardinality(At(f, S)) + In(l, S) - In(f[t], S)
  <1> DEFINE A == At(f, S)
             B == At(g, S)
  <1>1. /\ IsFiniteSet(A) /\ IsFiniteSet(B)
        /\ Cardinality(A) \in Nat /\ Cardinality(B) \in Nat
    BY AtFinite, Zenon
  <1>2. \A u \in Task : g[u] = IF u = t THEN l ELSE f[u]
    BY Zenon DEF Moves
  <1>3. CASE l \in S /\ f[t] \in S
    <2>1. A = B
      BY <1>2, <1>3, Zenon DEF At
    <2> QED
      BY <2>1, <1>1, <1>3 DEF In
  <1>4. CASE l \in S /\ f[t] \notin S
    <2>1. B = A \cup {t} /\ t \notin A
      BY <1>2, <1>4, Zenon DEF At
    <2>2. Cardinality(B) = Cardinality(A) + 1
      BY <2>1, <1>1, FS_AddElement, Zenon
    <2> QED
      BY <2>2, <1>1, <1>4 DEF In
  <1>5. CASE l \notin S /\ f[t] \in S
    <2>1. B = A \ {t} /\ t \in A
      BY <1>2, <1>5, Zenon DEF At
    <2>2. Cardinality(B) = Cardinality(A) - 1
      BY <2>1, <1>1, FS_RemoveElement, Zenon
    <2> QED
      BY <2>2, <1>1, <1>5 DEF In
  <1>6. CASE l \notin S /\ f[t] \notin S
    <2>1. A = B
      BY <1>2, <1>6, Zenon DEF At
    <2> QED
      BY <2>1, <1>1, <1>6 DEF In
  <1> QED
    BY <1>3, <1>4, <1>5, <1>6, Zenon

(* The queue's tasks after each operation of the semaphore. *)
LEMMA TailListed ==
  ASSUME NEW q \in Seq(Task), q # <<>>, Distinct(q)
  PROVE  /\ Head(q) \in Listed(q)
         /\ Tail(q) \in Seq(Task)
         /\ Listed(Tail(q)) = Listed(q) \ {Head(q)}
         /\ Distinct(Tail(q))
  <1>1. /\ Tail(q) \in Seq(Task) /\ Len(Tail(q)) = Len(q) - 1
        /\ \A i \in 1..Len(Tail(q)) : Tail(q)[i] = q[i + 1]
        /\ Len(q) \in Nat \ {0} /\ Head(q) = q[1]
    OBVIOUS
  <1>2. Head(q) \in Listed(q)
    BY <1>1 DEF Listed
  <1>3. Distinct(Tail(q))
    BY <1>1 DEF Distinct
  <1>4. Listed(Tail(q)) \subseteq Listed(q) \ {Head(q)}
    BY <1>1 DEF Listed, Distinct
  <1>5. ASSUME NEW u \in Listed(q) \ {Head(q)}
        PROVE  u \in Listed(Tail(q))
    <2>1. PICK i \in 1..Len(q) : q[i] = u
      BY <1>5, Zenon DEF Listed
    <2>2. i - 1 \in 1..Len(Tail(q)) /\ Tail(q)[i - 1] = u
      BY <2>1, <1>1, <1>5
    <2> QED
      BY <2>2, Zenon DEF Listed
  <1> QED
    BY <1>1, <1>2, <1>3, <1>4, <1>5, Zenon

LEMMA AppendListed ==
  ASSUME NEW q \in Seq(Task), NEW t \in Task, t \notin Listed(q), Distinct(q)
  PROVE  /\ Append(q, t) \in Seq(Task)
         /\ Listed(Append(q, t)) = Listed(q) \cup {t}
         /\ Distinct(Append(q, t))
  <1>1. /\ Append(q, t) \in Seq(Task) /\ Len(Append(q, t)) = Len(q) + 1
        /\ \A i \in 1..Len(q) : Append(q, t)[i] = q[i]
        /\ Append(q, t)[Len(q) + 1] = t
        /\ Len(q) \in Nat
    OBVIOUS
  <1>2. \A i \in 1..Len(Append(q, t)) :
          \/ i \in 1..Len(q) /\ Append(q, t)[i] = q[i]
          \/ i = Len(q) + 1 /\ Append(q, t)[i] = t
    BY <1>1
  <1>3. Distinct(Append(q, t))
    BY <1>1, <1>2 DEF Distinct, Listed
  <1>4. Listed(Append(q, t)) \subseteq Listed(q) \cup {t}
    BY <1>2, Zenon DEF Listed
  <1>5. Listed(q) \cup {t} \subseteq Listed(Append(q, t))
    <2>1. t \in Listed(Append(q, t))
      BY <1>1 DEF Listed
    <2>2. ASSUME NEW i \in 1..Len(q) PROVE q[i] \in Listed(Append(q, t))
      <3>1. i \in 1..Len(Append(q, t)) /\ Append(q, t)[i] = q[i]
        BY <1>1
      <3> QED
        BY <3>1, Zenon DEF Listed
    <2> QED
      BY <2>1, <2>2, Zenon DEF Listed
  <1> QED
    BY <1>1, <1>3, <1>4, <1>5, Zenon

LEMMA WithoutListed ==
  ASSUME NEW q \in Seq(Task), NEW k \in 1..Len(q), Distinct(q)
  PROVE  /\ Without(q, k) \in Seq(Task)
         /\ Listed(Without(q, k)) = Listed(q) \ {q[k]}
         /\ Distinct(Without(q, k))
         /\ Without(q, k) # <<>> => q # <<>>
  <1> DEFINE w == Without(q, k)
  <1>1. Len(q) \in Nat \ {0} /\ \A i \in 1..Len(q) : q[i] \in Task
    OBVIOUS
  <1>2. \A i \in 1..(Len(q) - 1) : w[i] = IF i < k THEN q[i] ELSE q[i + 1]
    BY <1>1, Zenon DEF Without
  <1>3. w \in Seq(Task)
    <2>1. \A i \in 1..(Len(q) - 1) : (IF i < k THEN q[i] ELSE q[i + 1]) \in Task
      BY <1>1
    <2>2. Len(q) - 1 \in Nat
      BY <1>1
    <2> QED
      BY <2>1, <2>2 DEF Without
  <1>4. Len(w) = Len(q) - 1
    <2>1. DOMAIN w = 1..(Len(q) - 1)
      BY Zenon DEF Without
    <2> HIDE DEF w
    <2>2. DOMAIN w = 1..Len(w) /\ Len(w) \in Nat
      BY <1>3
    <2> QED
      BY <2>1, <2>2, <1>1
  <1>5. Distinct(w)
    BY <1>1, <1>2, <1>4 DEF Distinct
  <1>6. Listed(w) \subseteq Listed(q) \ {q[k]}
    BY <1>1, <1>2, <1>4 DEF Listed, Distinct
  <1>7. ASSUME NEW u \in Listed(q) \ {q[k]} PROVE u \in Listed(w)
    <2>1. PICK i \in 1..Len(q) : q[i] = u
      BY <1>7, Zenon DEF Listed
    <2>2. \/ i < k /\ i \in 1..Len(w) /\ w[i] = u
          \/ i > k /\ i - 1 \in 1..Len(w) /\ w[i - 1] = u
      BY <2>1, <1>1, <1>2, <1>4, <1>7
    <2> QED
      BY <2>2, Zenon DEF Listed
  <1>8. q # <<>>
    BY <1>1
  <1> QED
    BY <1>3, <1>5, <1>6, <1>7, <1>8, Zenon

-----------------------------------------------------------------------------
(* The inductive invariant: each count needs the type of its summands, and *)
(* a hand-over needs to know that the head of the queue is a queued task.  *)
IInv ==
  /\ TypeOK
  /\ PermitsConserved
  /\ InFlightExact
  /\ WaitersAccounted
  /\ NoStrandedWaiter
  /\ WaitersBounded

(* The sizes the invariant speaks of, after one task moves to l. *)
LEMMA Moved ==
  ASSUME TypeOK, NEW t \in Task, NEW l \in Locations, pc' = [pc EXCEPT ![t] = l]
  PROVE  /\ pc' \in [Task -> Locations]
         /\ \A S : /\ Cardinality(At(pc, S)) \in Nat
                   /\ Cardinality(At(pc', S)) \in Nat
                   /\ Cardinality(At(pc', S)) =
                        Cardinality(At(pc, S)) + In(l, S) - In(pc[t], S)
         /\ l # "queued" => At(pc', {"queued"}) = At(pc, {"queued"}) \ {t}
         /\ l = "queued" => At(pc', {"queued"}) = At(pc, {"queued"}) \cup {t}
  <1>1. pc \in [Task -> Locations] /\ pc' \in [Task -> Locations]
    BY Zenon DEF TypeOK
  <1>2. ASSUME NEW S
        PROVE  /\ Cardinality(At(pc, S)) \in Nat
               /\ Cardinality(At(pc', S)) \in Nat
               /\ Cardinality(At(pc', S)) =
                    Cardinality(At(pc, S)) + In(l, S) - In(pc[t], S)
    <2>1. Moves(pc, pc', t, l)
      BY <1>1, Zenon DEF Moves
    <2>2. Cardinality(At(pc, S)) \in Nat /\ Cardinality(At(pc', S)) \in Nat
      BY AtFinite, Zenon
    <2> QED
      BY <2>1, <2>2, MoveOne
  <1>3. /\ l # "queued" => At(pc', {"queued"}) = At(pc, {"queued"}) \ {t}
        /\ l = "queued" => At(pc', {"queued"}) = At(pc, {"queued"}) \cup {t}
    BY <1>1, Zenon DEF At
  <1> QED
    BY <1>1, <1>2, <1>3, Zenon

LEMMA CapacityPositive == Capacity \in Nat \ {0} /\ \A l \in Nat : Clamp(l) \in Nat
  BY MaxInFlightAssumption DEF Capacity, Clamp

(* Giving a permit back: to the head of the queue if there is one. *)
LEMMA PermitReturned ==
  ASSUME TypeOK, PermitsConserved, NoStrandedWaiter, NEW t \in Task,
         NEW l \in {"idle", "capadd"},
         pc[t] \in {"putback", "returning", "assigned"}, ReturnPermit(t, l)
  PROVE  /\ pc' \in [Task -> Locations]
         /\ free' \in 0..Capacity
         /\ queue' \in Seq(Task)
         /\ PermitsConserved'
         /\ NoStrandedWaiter'
         /\ Cardinality(At(pc', Counted)) = Cardinality(At(pc, Counted))
         /\ Cardinality(At(pc', CountedWaiting)) =
              Cardinality(At(pc, CountedWaiting)) - In(pc[t], CountedWaiting)
         /\ Cardinality(At(pc', Waiting)) =
              Cardinality(At(pc, Waiting)) - In(pc[t], Waiting)
  <1> USE CapacityPositive
  <1>0. /\ l \in Locations /\ "assigned" \in Locations
        /\ pc \in [Task -> Locations] /\ queue \in Seq(Task) /\ free \in 0..Capacity
    BY Zenon DEF TypeOK, Locations, HoldsPermit, CountedWaiting
  <1>1. CASE queue = <<>>
    <2>1. pc' = [pc EXCEPT ![t] = l] /\ free' = free + 1 /\ queue' = queue
      BY <1>1, Zenon DEF ReturnPermit
    <2>2. /\ pc' \in [Task -> Locations]
          /\ \A S : /\ Cardinality(At(pc, S)) \in Nat
                    /\ Cardinality(At(pc', S)) \in Nat
                    /\ Cardinality(At(pc', S)) =
                         Cardinality(At(pc, S)) + In(l, S) - In(pc[t], S)
          /\ At(pc', {"queued"}) = At(pc, {"queued"}) \ {t}
      BY <2>1, <1>0, Moved, Zenon
    <2>3. /\ Cardinality(At(pc', HoldsPermit)) = Cardinality(At(pc, HoldsPermit)) - 1
          /\ Cardinality(At(pc', Counted)) = Cardinality(At(pc, Counted))
          /\ Cardinality(At(pc', CountedWaiting)) =
               Cardinality(At(pc, CountedWaiting)) - In(pc[t], CountedWaiting)
          /\ Cardinality(At(pc', Waiting)) =
               Cardinality(At(pc, Waiting)) - In(pc[t], Waiting)
      <3>1. /\ In(l, HoldsPermit) = 0 /\ In(pc[t], HoldsPermit) = 1
            /\ In(l, Counted) = 0 /\ In(pc[t], Counted) = 0
            /\ In(l, CountedWaiting) = 0 /\ In(pc[t], CountedWaiting) \in {0, 1}
            /\ In(l, Waiting) = 0 /\ In(pc[t], Waiting) \in {0, 1}
        BY Zenon DEF In, HoldsPermit, Counted, CountedWaiting, Waiting
      <3> QED
        BY <3>1, <2>2
    <2>4. PermitsConserved' /\ free' \in 0..Capacity
      <3>1. /\ Capacity' = Capacity
            /\ free + Cardinality(At(pc, HoldsPermit)) = Capacity
            /\ Cardinality(At(pc, HoldsPermit)) \in Nat
            /\ Cardinality(At(pc', HoldsPermit)) \in Nat
        BY <2>2, Zenon DEF PermitsConserved, Capacity
      <3>2. free + 1 + Cardinality(At(pc', HoldsPermit)) = Capacity
        BY <3>1, <2>3, <1>0
      <3>3. free + 1 \in 0..Capacity
        BY <3>2, <3>1, <1>0
      <3> QED
        BY <2>1, <3>2, <3>3, Zenon DEF PermitsConserved
    <2>5. At(pc', {"queued"}) = At(pc, {"queued"})
      BY <2>2, Zenon DEF At
    <2>6. NoStrandedWaiter'
      BY <2>1, <2>5, <1>1, Zenon DEF NoStrandedWaiter
    <2> QED
      BY <2>1, <2>2, <2>3, <2>4, <2>6, <1>0, Zenon
  <1>2. CASE queue # <<>>
    <2> DEFINE h == Head(queue)
               mid == [pc EXCEPT ![t] = l]
    <2>1. pc' = [pc EXCEPT ![t] = l, ![h] = "assigned"] /\ free' = free /\ queue' = Tail(queue)
      BY <1>2, Zenon DEF ReturnPermit
    <2>2. /\ h \in Listed(queue) /\ Tail(queue) \in Seq(Task)
          /\ Listed(Tail(queue)) = Listed(queue) \ {h} /\ Distinct(Tail(queue))
      BY <1>0, <1>2, TailListed, Zenon DEF NoStrandedWaiter
    <2>3. h \in Task /\ pc[h] = "queued" /\ h # t
      BY <2>2, Zenon DEF NoStrandedWaiter, At
    <2>4. /\ mid \in [Task -> Locations] /\ pc' = [mid EXCEPT ![h] = "assigned"]
          /\ mid[h] = "queued" /\ pc' \in [Task -> Locations]
      BY <2>1, <2>3, <1>0, Zenon
    <2>5. ASSUME NEW S
          PROVE  Cardinality(At(pc', S)) =
                   Cardinality(At(pc, S)) + In(l, S) - In(pc[t], S)
                     + In("assigned", S) - In("queued", S)
      <3>1. Cardinality(At(mid, S)) = Cardinality(At(pc, S)) + In(l, S) - In(pc[t], S)
        <4>1. Moves(pc, mid, t, l)
          BY <1>0, Zenon DEF Moves
        <4> HIDE DEF mid
        <4> QED
          BY <4>1, MoveOne
      <3>2. Cardinality(At(pc', S)) =
              Cardinality(At(mid, S)) + In("assigned", S) - In("queued", S)
        <4>1. Moves(mid, pc', h, "assigned")
          BY <2>4, Zenon DEF Moves
        <4>2. h \in Task
          BY <2>3, Zenon
        <4>3. mid[h] = "queued"
          BY <2>4, Zenon
        <4> HIDE DEF mid, h
        <4>4. Cardinality(At(pc', S)) =
                Cardinality(At(mid, S)) + In("assigned", S) - In(mid[h], S)
          BY <4>1, <4>2, MoveOne
        <4> QED
          BY <4>3, <4>4, Zenon
      <3> QED
        BY <3>1, <3>2, Zenon
    <2>6. /\ Cardinality(At(pc', HoldsPermit)) = Cardinality(At(pc, HoldsPermit))
          /\ Cardinality(At(pc', Counted)) = Cardinality(At(pc, Counted))
          /\ Cardinality(At(pc', CountedWaiting)) =
               Cardinality(At(pc, CountedWaiting)) - In(pc[t], CountedWaiting)
          /\ Cardinality(At(pc', Waiting)) =
               Cardinality(At(pc, Waiting)) - In(pc[t], Waiting)
      <3>1. /\ In(l, HoldsPermit) = 0 /\ In(pc[t], HoldsPermit) = 1
            /\ In("assigned", HoldsPermit) = 1 /\ In("queued", HoldsPermit) = 0
            /\ In(l, Counted) = 0 /\ In(pc[t], Counted) = 0
            /\ In("assigned", Counted) = 0 /\ In("queued", Counted) = 0
            /\ In(l, CountedWaiting) = 0 /\ In(pc[t], CountedWaiting) \in {0, 1}
            /\ In("assigned", CountedWaiting) = 1 /\ In("queued", CountedWaiting) = 1
            /\ In(l, Waiting) = 0 /\ In(pc[t], Waiting) \in {0, 1}
            /\ In("assigned", Waiting) = 1 /\ In("queued", Waiting) = 1
        BY Zenon DEF In, HoldsPermit, Counted, CountedWaiting, Waiting
      <3>2. \A S : Cardinality(At(pc, S)) \in Nat
        BY AtFinite, Zenon
      <3> QED
        BY <3>1, <3>2, <2>5
    <2>7. PermitsConserved'
      BY <2>6, <2>1, Zenon DEF PermitsConserved
    <2>8. At(pc', {"queued"}) = At(pc, {"queued"}) \ {h}
      BY <2>1, <2>3, <1>0, Zenon DEF At
    <2>9. NoStrandedWaiter'
      BY <2>1, <2>2, <2>8, <1>2, Zenon DEF NoStrandedWaiter
    <2> QED
      BY <2>1, <2>2, <2>4, <2>6, <2>7, <2>9, <1>0, Zenon
  <1> QED
    BY <1>1, <1>2, Zenon

-----------------------------------------------------------------------------
(* One task goes to l and every counter follows it. *)
Booked(t, l) ==
  /\ pc' \in [Task -> Locations]
  /\ Moves(pc, pc', t, l)
  /\ free' = free + In(pc[t], HoldsPermit) - In(l, HoldsPermit)
  /\ free' \in Nat
  /\ in_flight' = in_flight + In(l, Counted) - In(pc[t], Counted)
  /\ leaked' \in Nat
  /\ waiters' = waiters + In(l, CountedWaiting) - In(pc[t], CountedWaiting)
                  + leaked' - leaked
  /\ In(l, Waiting) <= In(pc[t], Waiting) \/ waiters < MaxWaiters

(* The part of the type invariant that no count depends on. *)
OthersOK ==
  /\ previous \in [Task -> Nat]
  /\ dynamic_limit \in Nat
  /\ notified \subseteq Task
  /\ rounds \in [Task -> Nat]
  /\ changes \in Nat
  /\ due \subseteq Task
  /\ peak \in [Task -> Nat]

CountsOK ==
  /\ pc \in [Task -> Locations]
  /\ free \in 0..Capacity
  /\ in_flight \in Nat
  /\ waiters \in Nat
  /\ leaked \in Nat
  /\ PermitsConserved
  /\ InFlightExact
  /\ WaitersAccounted
  /\ WaitersBounded

QueueOK == queue \in Seq(Task) /\ NoStrandedWaiter

LEMMA Parts == IInv <=> OthersOK /\ CountsOK /\ QueueOK
  BY Zenon DEF IInv, OthersOK, CountsOK, QueueOK, TypeOK

LEMMA PartsNext == OthersOK' /\ CountsOK' /\ QueueOK' => IInv'
  BY Zenon DEF IInv, OthersOK, CountsOK, QueueOK, TypeOK

LEMMA WaitingCounted ==
  ASSUME NEW f
  PROVE  /\ Cardinality(At(f, Waiting)) \in Nat
         /\ Cardinality(At(f, Waiting)) <= Cardinality(At(f, CountedWaiting))
  <1>1. At(f, Waiting) \subseteq At(f, CountedWaiting)
    BY Zenon DEF At, Waiting
  <1> QED
    BY <1>1, AtFinite, FS_Subset, Zenon

LEMMA InBit == \A l, S : In(l, S) \in {0, 1}
  BY Zenon DEF In

LEMMA BookedCounts ==
  ASSUME CountsOK, NEW t \in Task, NEW l, Booked(t, l)
  PROVE  CountsOK'
  <1> USE CapacityPositive
  <1>1. \A S : Cardinality(At(pc', S)) =
                 Cardinality(At(pc, S)) + In(l, S) - In(pc[t], S)
    BY MoveOne DEF Booked
  <1>2. \A S : Cardinality(At(pc, S)) \in Nat /\ Cardinality(At(pc', S)) \in Nat
    BY AtFinite, Zenon
  <1>3. /\ free' + Cardinality(At(pc', HoldsPermit)) = Capacity
        /\ free' \in 0..Capacity
    <2>1. free + Cardinality(At(pc, HoldsPermit)) = Capacity /\ free \in Nat
      BY DEF CountsOK, PermitsConserved
    <2> QED
      BY <1>1, <1>2, <2>1, InBit DEF Booked
  <1>4. in_flight' = Cardinality(At(pc', Counted))
    BY <1>1, <1>2, InBit, Zenon DEF Booked, CountsOK, InFlightExact
  <1>5. waiters' = Cardinality(At(pc', CountedWaiting)) + leaked' /\ leaked' \in Nat
    BY <1>1, <1>2, InBit DEF Booked, CountsOK, WaitersAccounted
  <1>6. Cardinality(At(pc', Waiting)) <= MaxWaiters
    <2>1. Cardinality(At(pc, Waiting)) <= MaxWaiters
      BY Zenon DEF CountsOK, WaitersBounded, Waiting
    <2>2. CASE In(l, Waiting) <= In(pc[t], Waiting)
      BY <1>1, <1>2, <2>1, <2>2, InBit, MaxWaitersAssumption
    <2>3. CASE waiters < MaxWaiters
      <3>1. Cardinality(At(pc, Waiting)) <= waiters /\ waiters \in Nat
        BY <1>2, WaitingCounted DEF CountsOK, WaitersAccounted
      <3> QED
        BY <1>1, <1>2, <2>3, <3>1, InBit, MaxWaitersAssumption
    <2> QED
      BY <2>2, <2>3, Zenon DEF Booked
  <1>7. in_flight' \in Nat /\ waiters' \in Nat
    BY <1>2, <1>4, <1>5
  <1> QED
    BY <1>3, <1>4, <1>5, <1>6, <1>7, Zenon DEF Booked, CountsOK, PermitsConserved,
       InFlightExact, WaitersAccounted, WaitersBounded, Waiting

(* A step that neither enters nor leaves the semaphore's queue, and puts   *)
(* no permit into the semaphore.                                           *)
LEMMA QueueUntouched ==
  ASSUME CountsOK, QueueOK, NEW t \in Task, NEW l, Booked(t, l), queue' = queue,
         l # "queued", pc[t] # "queued", free' <= free
  PROVE  QueueOK'
  <1>1. At(pc', {"queued"}) = At(pc, {"queued"})
    BY Zenon DEF Booked, Moves, At
  <1>2. free \in Nat /\ free' \in Nat
    BY CapacityPositive DEF CountsOK, Booked
  <1> QED
    BY <1>1, <1>2 DEF QueueOK, NoStrandedWaiter

(* A task leaves the queue from the middle. *)
LEMMA QueueLeft ==
  ASSUME QueueOK, NEW t \in Task, NEW l, Booked(t, l), pc[t] = "queued",
         l # "queued", free' = free,
         \E i \in 1..Len(queue) : queue[i] = t /\ queue' = Without(queue, i)
  PROVE  QueueOK'
  <1>1. PICK i \in 1..Len(queue) : queue[i] = t /\ queue' = Without(queue, i)
    BY Zenon
  <1>2. /\ queue' \in Seq(Task) /\ Listed(queue') = Listed(queue) \ {t}
        /\ Distinct(queue') /\ (queue' # <<>> => queue # <<>>)
    BY <1>1, WithoutListed, Zenon DEF QueueOK, NoStrandedWaiter
  <1>3. At(pc', {"queued"}) = At(pc, {"queued"}) \ {t}
    BY Zenon DEF Booked, Moves, At
  <1> QED
    BY <1>2, <1>3, Zenon DEF QueueOK, NoStrandedWaiter

LEMMA InitInv == Init => IInv
  <1> SUFFICES ASSUME Init PROVE IInv
    BY Zenon
  <1> USE CapacityPositive
  <1>1. OthersOK
    BY LimitsAssumption, Zenon DEF Init, OthersOK
  <1>2. \A S : "idle" \notin S => Cardinality(At(pc, S)) = 0
    <2>1. \A S : "idle" \notin S => At(pc, S) = {}
      BY Zenon DEF Init, At
    <2> QED
      BY <2>1, FS_EmptySet, Zenon
  <1>3. /\ Cardinality(At(pc, HoldsPermit)) = 0 /\ Cardinality(At(pc, Counted)) = 0
        /\ Cardinality(At(pc, CountedWaiting)) = 0
        /\ Cardinality(At(pc, CountedWaiting \ {"undo"})) = 0
    BY <1>2, Zenon DEF HoldsPermit, Counted, CountedWaiting
  <1>4. pc \in [Task -> Locations]
    BY Zenon DEF Init, Locations
  <1>5. CountsOK
    BY <1>3, <1>4, MaxWaitersAssumption DEF Init, CountsOK, PermitsConserved,
       InFlightExact, WaitersAccounted, WaitersBounded
  <1>6. QueueOK
    <2>1. queue = <<>> /\ queue \in Seq(Task) /\ Len(queue) = 0
      BY DEF Init
    <2>2. At(pc, {"queued"}) = {} /\ Listed(queue) = {} /\ Distinct(queue)
      BY <2>1 DEF Init, At, Listed, Distinct
    <2> QED
      BY <2>1, <2>2, Zenon DEF QueueOK, NoStrandedWaiter
  <1> QED
    BY <1>1, <1>5, <1>6, Parts, Zenon

-----------------------------------------------------------------------------
(* A booked step past the queue preserves the invariant. *)
LEMMA PlainStep ==
  ASSUME IInv, NEW t \in Task, NEW l, Booked(t, l), queue' = queue,
         l # "queued", pc[t] # "queued", free' <= free, OthersOK'
  PROVE  IInv'
  <1>0. CountsOK /\ QueueOK
    BY Parts, Zenon
  <1>1. CountsOK'
    BY <1>0, BookedCounts, Zenon
  <1>2. QueueOK'
    BY <1>0, QueueUntouched, Zenon
  <1> QED
    BY <1>1, <1>2, PartsNext, Zenon

(* The steps of checkout_until that move one task past the queue: the      *)
(* counters they touch are exactly the ones the two locations differ by.   *)
LEMMA PlainSteps ==
  ASSUME IInv, NEW t \in Task,
         \/ Checkout(t) \/ CheckLimit(t) \/ TryAcquire(t) \/ QueueJoin(t)
         \/ CapacityJoin(t) \/ AcquireDone(t) \/ Count(t) \/ Grant(t)
         \/ Refuse(t) \/ Uncount(t) \/ CapacityWake(t) \/ CapacityTimeout(t)
         \/ LeaveWaiters(t) \/ Release(t)
  PROVE  IInv'
  <1> DEFINE Plain(l) == Booked(t, l) /\ queue' = queue /\ l # "queued"
                           /\ pc[t] # "queued" /\ free' <= free
  <1>0. /\ pc \in [Task -> Locations] /\ free \in Nat /\ waiters \in Nat
        /\ leaked \in Nat /\ in_flight \in Nat /\ OthersOK
    BY Parts, CapacityPositive DEF CountsOK
  <1> USE DEF Goto, counters, settings, history
  <1>1. CASE Checkout(t)
    <2>1. Plain("check")
      BY <1>0, <1>1, MaxWaitersAssumption DEF Checkout, At, Booked, Moves, In,
         HoldsPermit, Counted, CountedWaiting, Waiting, Locations
    <2>2. OthersOK'
      BY <1>0, <1>1, CapacityPositive DEF Checkout, At, OthersOK
    <2> QED
      BY <2>1, <2>2, PlainStep, Zenon
  <1>2. CASE CheckLimit(t)
    <2>1. Plain(IF in_flight >= limit THEN "capadd" ELSE "try")
      BY <1>0, <1>2, MaxWaitersAssumption DEF CheckLimit, Booked, Moves, In,
         HoldsPermit, Counted, CountedWaiting, Waiting, Locations
    <2>2. OthersOK'
      BY <1>0, <1>2, CapacityPositive, Zenon DEF CheckLimit, OthersOK
    <2> QED
      BY <2>1, <2>2, PlainStep, Zenon
  <1>3. CASE TryAcquire(t)
    <2>1. Plain(IF free > 0 THEN "count" ELSE "qadd")
      BY <1>0, <1>3, MaxWaitersAssumption DEF TryAcquire, Booked, Moves, In,
         HoldsPermit, Counted, CountedWaiting, Waiting, Locations
    <2>2. OthersOK'
      BY <1>0, <1>3, CapacityPositive, Zenon DEF TryAcquire, OthersOK
    <2> QED
      BY <2>1, <2>2, PlainStep, Zenon
  <1>4. CASE QueueJoin(t)
    <2>1. Plain(IF waiters >= MaxWaiters THEN "undo" ELSE "acquire")
      BY <1>0, <1>4, MaxWaitersAssumption DEF QueueJoin, JoinWaiters, Booked, Moves, In,
         HoldsPermit, Counted, CountedWaiting, Waiting, Locations
    <2>2. OthersOK'
      BY <1>0, <1>4, CapacityPositive, Zenon DEF QueueJoin, JoinWaiters, OthersOK
    <2> QED
      BY <2>1, <2>2, PlainStep, Zenon
  <1>5. CASE CapacityJoin(t)
    <2>1. Plain(IF waiters >= MaxWaiters THEN "undo" ELSE "capwait")
      BY <1>0, <1>5, MaxWaitersAssumption DEF CapacityJoin, JoinWaiters, Booked, Moves, In,
         HoldsPermit, Counted, CountedWaiting, Waiting, Locations
    <2>2. OthersOK'
      BY <1>0, <1>5, CapacityPositive, Zenon DEF CapacityJoin, JoinWaiters, OthersOK
    <2> QED
      BY <2>1, <2>2, PlainStep, Zenon
  <1>6. CASE AcquireDone(t)
    <2>1. Plain("count")
      BY <1>0, <1>6, MaxWaitersAssumption DEF AcquireDone, Booked, Moves, In,
         HoldsPermit, Counted, CountedWaiting, Waiting, Locations
    <2>2. OthersOK'
      BY <1>0, <1>6, CapacityPositive, Zenon DEF AcquireDone, OthersOK
    <2> QED
      BY <2>1, <2>2, PlainStep, Zenon
  <1>7. CASE Count(t)
    <2>1. Plain("decide")
      BY <1>0, <1>7, MaxWaitersAssumption DEF Count, limit, Clamp, Booked, Moves, In,
         HoldsPermit, Counted, CountedWaiting, Waiting, Locations
    <2>2. OthersOK'
      BY <1>0, <1>7, CapacityPositive, Zenon DEF Count, limit, Clamp, OthersOK
    <2> QED
      BY <2>1, <2>2, PlainStep, Zenon
  <1>8. CASE Grant(t)
    <2>1. Plain("granted")
      BY <1>0, <1>8, MaxWaitersAssumption DEF Grant, Booked, Moves, In,
         HoldsPermit, Counted, CountedWaiting, Waiting, Locations
    <2>2. OthersOK'
      BY <1>0, <1>8, CapacityPositive, Zenon DEF Grant, OthersOK
    <2> QED
      BY <2>1, <2>2, PlainStep, Zenon
  <1>9. CASE Refuse(t)
    <2>1. Plain("uncount")
      BY <1>0, <1>9, MaxWaitersAssumption DEF Refuse, Booked, Moves, In,
         HoldsPermit, Counted, CountedWaiting, Waiting, Locations
    <2>2. OthersOK'
      BY <1>0, <1>9, CapacityPositive, Zenon DEF Refuse, OthersOK
    <2> QED
      BY <2>1, <2>2, PlainStep, Zenon
  <1>10. CASE Uncount(t)
    <2>1. Plain("putback")
      BY <1>0, <1>10, MaxWaitersAssumption DEF Uncount, Booked, Moves, In,
         HoldsPermit, Counted, CountedWaiting, Waiting, Locations
    <2>2. OthersOK'
      BY <1>0, <1>10, CapacityPositive, Zenon DEF Uncount, OthersOK
    <2> QED
      BY <2>1, <2>2, PlainStep, Zenon
  <1>11. CASE CapacityWake(t)
    <2>1. Plain("capleave")
      BY <1>0, <1>11, MaxWaitersAssumption DEF CapacityWake, Booked, Moves, In,
         HoldsPermit, Counted, CountedWaiting, Waiting, Locations
    <2>2. OthersOK'
      BY <1>0, <1>11, CapacityPositive, Zenon DEF CapacityWake, OthersOK
    <2> QED
      BY <2>1, <2>2, PlainStep, Zenon
  <1>12. CASE CapacityTimeout(t)
    <2>1. Plain("undo")
      BY <1>0, <1>12, MaxWaitersAssumption DEF CapacityTimeout, Booked, Moves, In,
         HoldsPermit, Counted, CountedWaiting, Waiting, Locations
    <2>2. OthersOK'
      BY <1>0, <1>12, CapacityPositive, Zenon DEF CapacityTimeout, OthersOK
    <2> QED
      BY <2>1, <2>2, PlainStep, Zenon
  <1>13. CASE LeaveWaiters(t)
    <2>1. Plain(IF pc[t] = "undo" THEN "idle" ELSE "check")
      BY <1>0, <1>13, MaxWaitersAssumption DEF LeaveWaiters, Booked, Moves, In,
         HoldsPermit, Counted, CountedWaiting, Waiting, Locations
    <2>2. OthersOK'
      BY <1>0, <1>13, CapacityPositive, Zenon DEF LeaveWaiters, OthersOK
    <2> QED
      BY <2>1, <2>2, PlainStep, Zenon
  <1>14. CASE Release(t)
    <2>1. Plain("returning")
      BY <1>0, <1>14, MaxWaitersAssumption DEF Release, NotifyWaiters, At, Booked, Moves, In,
         HoldsPermit, Counted, CountedWaiting, Waiting, Locations
    <2>2. OthersOK'
      BY <1>0, <1>14, CapacityPositive, Zenon DEF Release, NotifyWaiters, At, OthersOK
    <2> QED
      BY <2>1, <2>2, PlainStep, Zenon
  <1> QED
    BY <1>1, <1>2, <1>3, <1>4, <1>5, <1>6, <1>7, <1>8, <1>9, <1>10, <1>11, <1>12, <1>13, <1>14, Zenon

(* The first poll of acquire_owned: at once, or at the queue's tail. *)
LEMMA AcquireStep ==
  ASSUME IInv, NEW t \in Task, Acquire(t)
  PROVE  IInv'
  <1>0. /\ pc \in [Task -> Locations] /\ free \in Nat /\ waiters \in Nat
        /\ leaked \in Nat /\ in_flight \in Nat /\ OthersOK /\ CountsOK /\ QueueOK
    BY Parts, CapacityPositive DEF CountsOK
  <1>1. OthersOK'
    BY <1>0, Zenon DEF Acquire, OthersOK, settings, history
  <1>2. CASE free > 0
    <2>1. Booked(t, "acquired") /\ queue' = queue /\ pc[t] # "queued" /\ free' <= free
      BY <1>0, <1>2, MaxWaitersAssumption DEF Acquire, Goto, Booked, Moves, In, history,
         HoldsPermit, Counted, CountedWaiting, Waiting, Locations
    <2> QED
      BY <1>1, <2>1, PlainStep, Zenon
  <1>3. CASE ~ (free > 0)
    <2>1. /\ Booked(t, "queued") /\ queue' = Append(queue, t)
          /\ pc[t] = "acquire" /\ free' = 0
      BY <1>0, <1>3, MaxWaitersAssumption DEF Acquire, Goto, Booked, Moves, In, history,
         HoldsPermit, Counted, CountedWaiting, Waiting, Locations
    <2>2. CountsOK'
      BY <1>0, <2>1, BookedCounts, Zenon
    <2>3. t \notin Listed(queue) /\ queue \in Seq(Task) /\ Distinct(queue)
      BY <1>0, <2>1, Zenon DEF QueueOK, NoStrandedWaiter, At
    <2>4. At(pc', {"queued"}) = At(pc, {"queued"}) \cup {t}
      BY <2>1, Zenon DEF Booked, Moves, At
    <2>5. /\ queue' \in Seq(Task) /\ Listed(queue') = Listed(queue) \cup {t}
          /\ Distinct(queue')
      BY <2>1, <2>3, AppendListed, Zenon
    <2>6. QueueOK'
      BY <1>0, <2>1, <2>4, <2>5, Zenon DEF QueueOK, NoStrandedWaiter
    <2> QED
      BY <1>1, <2>2, <2>6, PartsNext, Zenon
  <1> QED
    BY <1>2, <1>3, Zenon

(* A queued task gives up, or its future is dropped. *)
LEMMA LeaveStep ==
  ASSUME IInv, NEW t \in Task, NEW l \in {"undo", "idle"}, Booked(t, l), OthersOK',
         pc[t] = "queued", free' = free,
         \E i \in 1..Len(queue) : queue[i] = t /\ queue' = Without(queue, i)
  PROVE  IInv'
  <1>1. CountsOK /\ QueueOK
    BY Parts, Zenon
  <1>2. CountsOK'
    BY <1>1, BookedCounts, Zenon
  <1>3. QueueOK'
    BY <1>1, QueueLeft, Zenon
  <1> QED
    BY <1>2, <1>3, PartsNext, Zenon

(* A permit goes back, after a refusal, a release or a dropped future. *)
LEMMA ReturnStep ==
  ASSUME IInv, NEW t \in Task, NEW l \in {"idle", "capadd"}, ReturnPermit(t, l),
         OthersOK', in_flight' = in_flight, waiters' = waiters,
         \/ pc[t] \in {"putback", "returning"} /\ leaked' = leaked
         \/ pc[t] = "assigned" /\ leaked' = leaked + 1
  PROVE  IInv'
  <1>0. /\ TypeOK /\ PermitsConserved /\ NoStrandedWaiter
        /\ CountsOK /\ leaked \in Nat /\ waiters \in Nat /\ in_flight \in Nat
        /\ pc[t] \in {"putback", "returning", "assigned"}
    BY Parts, Zenon DEF IInv, CountsOK
  <1>1. /\ pc' \in [Task -> Locations] /\ free' \in 0..Capacity
        /\ queue' \in Seq(Task) /\ PermitsConserved' /\ NoStrandedWaiter'
        /\ Cardinality(At(pc', Counted)) = Cardinality(At(pc, Counted))
        /\ Cardinality(At(pc', CountedWaiting)) =
              Cardinality(At(pc, CountedWaiting)) - In(pc[t], CountedWaiting)
        /\ Cardinality(At(pc', Waiting)) =
              Cardinality(At(pc, Waiting)) - In(pc[t], Waiting)
    BY <1>0, PermitReturned, Zenon
  <1>2. \A S : Cardinality(At(pc, S)) \in Nat
    BY AtFinite, Zenon
  <1>3. leaked' = leaked + In(pc[t], CountedWaiting)
    BY <1>0 DEF In, CountedWaiting
  <1>4. InFlightExact' /\ WaitersAccounted' /\ leaked' \in Nat
    <2>1. InFlightExact'
      BY <1>0, <1>1, Zenon DEF CountsOK, InFlightExact
    <2>2. In(pc[t], CountedWaiting) \in {0, 1}
      BY InBit, Zenon
    <2>3. waiters' = waiters /\ waiters = Cardinality(At(pc, CountedWaiting)) + leaked
      BY <1>0, Zenon DEF CountsOK, WaitersAccounted
    <2>4. Cardinality(At(pc', CountedWaiting)) =
             Cardinality(At(pc, CountedWaiting)) - In(pc[t], CountedWaiting)
      BY <1>1, Zenon
    <2>5. WaitersAccounted' /\ leaked' \in Nat
      BY <1>0, <1>2, <1>3, <2>2, <2>3, <2>4 DEF WaitersAccounted
    <2> QED
      BY <2>1, <2>5, Zenon
  <1>5. Cardinality(At(pc', Waiting)) <= MaxWaiters
    <2>1. Cardinality(At(pc, Waiting)) <= MaxWaiters
      BY <1>0, Zenon DEF CountsOK, WaitersBounded, Waiting
    <2> QED
      BY <2>1, <1>1, <1>2, InBit, MaxWaitersAssumption
  <1>6. CountsOK'
    BY <1>0, <1>1, <1>4, <1>5, Zenon DEF CountsOK, WaitersBounded, Waiting
  <1> QED
    BY <1>1, <1>6, PartsNext, Zenon DEF QueueOK

(* A step that leaves the tasks, the counters and the queue alone. *)
LEMMA IdleStep ==
  ASSUME IInv, OthersOK',
         UNCHANGED <<pc, queue, free, in_flight, waiters, leaked>>
  PROVE  IInv'
  BY Parts, PartsNext, Zenon DEF CountsOK, QueueOK, PermitsConserved, InFlightExact,
     WaitersAccounted, WaitersBounded, NoStrandedWaiter

LEMMA NextInv == IInv /\ [Next]_vars => IInv'
  <1> SUFFICES ASSUME IInv, [Next]_vars PROVE IInv'
    BY Zenon
  <1>0. /\ pc \in [Task -> Locations] /\ free \in Nat /\ waiters \in Nat
        /\ leaked \in Nat /\ in_flight \in Nat /\ OthersOK
    BY Parts, CapacityPositive DEF CountsOK
  <1> USE DEF counters, settings, history
  <1>1. ASSUME NEW t \in Task, Checkout(t) \/ Release(t) PROVE IInv'
    BY <1>1, PlainSteps, Zenon
  <1>2. ASSUME NEW t \in Task, TaskStep(t) PROVE IInv'
    <2>1. CASE Acquire(t)
      BY <2>1, AcquireStep, Zenon
    <2>2. CASE AcquireTimeout(t)
      <3>1. OthersOK'
        BY <1>0, <2>2, Zenon DEF AcquireTimeout, OthersOK
      <3>2. Booked(t, "undo") /\ pc[t] = "queued" /\ free' = free
        BY <1>0, <2>2, MaxWaitersAssumption DEF AcquireTimeout, Goto, Booked, Moves, In,
           HoldsPermit, Counted, CountedWaiting, Waiting, Locations
      <3>3. \E i \in 1..Len(queue) : queue[i] = t /\ queue' = Without(queue, i)
        BY <2>2, Zenon DEF AcquireTimeout
      <3> QED
        BY <3>1, <3>2, <3>3, LeaveStep, Zenon
    <2>3. CASE PutBack(t)
      <3>1. OthersOK'
        BY <1>0, <2>3, Zenon DEF PutBack, OthersOK
      <3> QED
        BY <3>1, <2>3, ReturnStep, Zenon DEF PutBack
    <2>4. CASE Returned(t)
      <3>1. OthersOK'
        BY <1>0, <2>4, Zenon DEF Returned, OthersOK
      <3> QED
        BY <3>1, <2>4, ReturnStep, Zenon DEF Returned
    <2> QED
      BY <1>2, <2>1, <2>2, <2>3, <2>4, PlainSteps, Zenon DEF TaskStep
  <1>3. ASSUME NEW t \in Task, DropWait(t) PROVE IInv'
    <2>1. OthersOK' /\ leaked' = leaked + 1
      BY <1>0, <1>3, Zenon DEF DropWait, OthersOK
    <2>2. CASE pc[t] = "capwait"
      <3>1. /\ Booked(t, "idle") /\ queue' = queue /\ pc[t] # "queued"
            /\ free' <= free
        BY <1>0, <1>3, <2>2, MaxWaitersAssumption DEF DropWait, Booked, Moves, In,
           HoldsPermit, Counted, CountedWaiting, Waiting, Locations
      <3> QED
        BY <2>1, <3>1, PlainStep, Zenon
    <2>3. CASE pc[t] = "queued"
      <3>1. Booked(t, "idle") /\ free' = free
        BY <1>0, <1>3, <2>3, MaxWaitersAssumption DEF DropWait, Booked, Moves, In,
           HoldsPermit, Counted, CountedWaiting, Waiting, Locations
      <3>2. \E i \in 1..Len(queue) : queue[i] = t /\ queue' = Without(queue, i)
        BY <1>3, <2>3, Zenon DEF DropWait
      <3> QED
        BY <2>1, <2>3, <3>1, <3>2, LeaveStep, Zenon
    <2>4. CASE pc[t] = "assigned"
      BY <1>3, <2>1, <2>4, ReturnStep, Zenon DEF DropWait
    <2> QED
      BY <1>3, <2>2, <2>3, <2>4, Zenon DEF DropWait
  <1>4. ASSUME NEW t \in Task, DeadlinePasses(t) PROVE IInv'
    <2>1. OthersOK'
      BY <1>0, <1>4, Zenon DEF DeadlinePasses, OthersOK
    <2> QED
      BY <1>4, <2>1, IdleStep, Zenon DEF DeadlinePasses
  <1>5. ASSUME NEW l \in Limits, SetLimit(l) \/ PressureStore(l) PROVE IInv'
    <2>1. dynamic_limit' \in Nat /\ limit' \in Nat
      BY <1>5, LimitsAssumption, CapacityPositive, Zenon DEF SetLimit, PressureStore, limit, Clamp
    <2>2. peak' \in [Task -> Nat]
      BY <1>0, <1>5, <2>1, Zenon DEF SetLimit, PressureStore, RaisePeak, OthersOK
    <2>3. OthersOK'
      BY <1>0, <1>5, <2>1, <2>2 DEF SetLimit, PressureStore, NotifyWaiters, At, OthersOK
    <2> QED
      BY <1>5, <2>3, IdleStep, Zenon DEF SetLimit, PressureStore
  <1>6. CASE UNCHANGED vars
    <2>1. OthersOK'
      BY <1>0, <1>6, Zenon DEF vars, OthersOK
    <2> QED
      BY <1>6, <2>1, IdleStep, Zenon DEF vars
  <1> QED
    BY <1>1, <1>2, <1>3, <1>4, <1>5, <1>6, Zenon DEF Next, Done

-----------------------------------------------------------------------------
(* The bookkeeping of checkout_until and of the permit's drop is exact in  *)
(* every reachable state: the counters have their types, no permit of the  *)
(* semaphore is lost or duplicated, in_flight and waiters count what they  *)
(* name (up to dropped futures), the semaphore's queue never holds a task  *)
(* while a permit is free, and max_waiters bounds the tasks that wait.     *)
THEOREM GateBookkeeping == Spec => []IInv
  BY InitInv, NextInv, PTL DEF Spec

(* The gate's capacity never shrinks or grows. *)
THEOREM PermitsAreConserved == Spec => []PermitsConserved
  <1>1. IInv => PermitsConserved
    BY Zenon DEF IInv
  <1> QED
    BY <1>1, GateBookkeeping, PTL

(* The state of the gate keeps its types. *)
THEOREM TypeCorrect == Spec => []TypeOK
  <1>1. IInv => TypeOK
    BY Zenon DEF IInv
  <1> QED
    BY <1>1, GateBookkeeping, PTL

(* in_flight, which limit() is compared with, never drifts. *)
THEOREM InFlightIsExact == Spec => []InFlightExact
  <1>1. IInv => InFlightExact
    BY Zenon DEF IInv
  <1> QED
    BY <1>1, GateBookkeeping, PTL

(* waiters overcounts by exactly the waits whose future was dropped. *)
THEOREM WaitersAreAccounted == Spec => []WaitersAccounted
  <1>1. IInv => WaitersAccounted
    BY Zenon DEF IInv
  <1> QED
    BY <1>1, GateBookkeeping, PTL

(* Nobody is queued in the semaphore while it has a permit. *)
THEOREM NobodyStranded == Spec => []NoStrandedWaiter
  <1>1. IInv => NoStrandedWaiter
    BY Zenon DEF IInv
  <1> QED
    BY <1>1, GateBookkeeping, PTL

(* max_waiters bounds the two waits together. *)
THEOREM WaitersAreBounded == Spec => []WaitersBounded
  <1>1. IInv => WaitersBounded
    BY Zenon DEF IInv
  <1> QED
    BY <1>1, GateBookkeeping, PTL

-----------------------------------------------------------------------------
(***************************************************************************)
(* GrantedWithinLimit is about the granted task whose fetch_add came last, *)
(* and the state does not say which one that is.  The strengthening speaks *)
(* of every set of tasks that are counted and not refused: one of them     *)
(* found, when it was counted, at least all the others, and what it found  *)
(* is either still in previous or, once granted, below its peak.           *)
(***************************************************************************)
Admissible == {"decide", "granted"}
Reach(w) == IF pc[w] = "decide" THEN previous[w] + 1 ELSE peak[w]
LastCounted ==
  \A S \in SUBSET At(pc, Admissible) :
     S # {} => \E w \in S : Cardinality(S) <= Reach(w)
PeakCovers == \A t \in At(pc, Counted) : limit <= peak[t]
LimitInv == LastCounted /\ PeakCovers

(* A step that lets no task in and lowers no task's reach. *)
LEMMA ReachKept ==
  ASSUME IInv, IInv', LastCounted,
         \A w \in At(pc', Admissible) : w \in At(pc, Admissible) /\ Reach(w) <= Reach(w)'
  PROVE  LastCounted'
  <1> SUFFICES ASSUME NEW S \in SUBSET At(pc', Admissible), S # {}
               PROVE  \E w \in S : Cardinality(S) <= Reach(w)'
    BY Zenon DEF LastCounted
  <1>1. S \in SUBSET At(pc, Admissible)
    BY Zenon
  <1>2. PICK w \in S : Cardinality(S) <= Reach(w)
    BY <1>1, Zenon DEF LastCounted
  <1>3. Cardinality(S) \in Nat
    <2>1. S \subseteq Task
      BY <1>1, Zenon DEF At
    <2> QED
      BY <2>1, TaskAssumption, FS_Subset, FS_CardinalityType, Zenon
  <1>4. w \in Task
    BY <1>1, Zenon DEF At
  <1>5. Reach(w) \in Nat /\ Reach(w)' \in Nat
    <2>1. previous[w] \in Nat /\ peak[w] \in Nat
      BY <1>4, Zenon DEF IInv, TypeOK
    <2>2. previous'[w] \in Nat /\ peak'[w] \in Nat
      BY <1>4, Zenon DEF IInv, TypeOK
    <2> QED
      BY <2>1, <2>2 DEF Reach
  <1>6. Reach(w) <= Reach(w)'
    BY Zenon
  <1> QED
    BY <1>2, <1>3, <1>5, <1>6

(* Neither an admissible task nor what it found is touched. *)
LEMMA AdmissibleUntouched ==
  ASSUME IInv, IInv', LimitInv, UNCHANGED <<previous, peak, dynamic_limit>>,
         \A w \in Task : pc'[w] \in Counted => pc'[w] = pc[w]
  PROVE  LimitInv'
  <1>1. \A w \in At(pc', Admissible) : w \in At(pc, Admissible) /\ Reach(w) = Reach(w)'
    BY Zenon DEF At, Admissible, Counted, Reach
  <1>2. \A w \in At(pc, Admissible) : Reach(w) \in Nat
    BY DEF At, Reach, IInv, TypeOK
  <1>3. LastCounted'
    BY <1>1, <1>2, ReachKept DEF LimitInv
  <1>4. PeakCovers'
    BY Zenon DEF LimitInv, PeakCovers, At, limit
  <1> QED
    BY <1>3, <1>4, Zenon DEF LimitInv

LEMMA LimitNat == IInv => limit \in Nat
  BY CapacityPositive, Zenon DEF IInv, TypeOK, limit, Clamp

(* fetch_add finds every task counted before it. *)
LEMMA CountLimit ==
  ASSUME IInv, IInv', LimitInv, NEW t \in Task, Count(t)
  PROVE  LimitInv'
  <1>0. /\ pc \in [Task -> Locations] /\ previous \in [Task -> Nat]
        /\ peak \in [Task -> Nat] /\ in_flight \in Nat /\ limit \in Nat
        /\ pc[t] = "count" /\ pc' = [pc EXCEPT ![t] = "decide"]
        /\ previous' = [previous EXCEPT ![t] = in_flight]
        /\ peak' = [peak EXCEPT ![t] = limit] /\ dynamic_limit' = dynamic_limit
        /\ in_flight' = in_flight + 1
    BY LimitNat, Zenon DEF IInv, TypeOK, Count, Goto, settings
  <1>1. PeakCovers'
    <2>1. limit' = limit
      BY <1>0, Zenon DEF limit
    <2> QED
      BY <1>0, <2>1 DEF LimitInv, PeakCovers, At, Counted
  <1>2. ASSUME NEW S \in SUBSET At(pc', Admissible), S # {}
        PROVE  \E w \in S : Cardinality(S) <= Reach(w)'
    <2>1. CASE t \in S
      <3>1. Reach(t)' = in_flight + 1
        BY <1>0, Zenon DEF Reach
      <3>2. in_flight + 1 = Cardinality(At(pc', Counted))
        BY <1>0, Zenon DEF IInv, InFlightExact
      <3>3. S \subseteq At(pc', Counted)
        BY Zenon DEF At, Admissible, Counted
      <3>4. Cardinality(S) <= Cardinality(At(pc', Counted))
        BY <3>3, AtFinite, FS_Subset, Zenon
      <3> QED
        BY <2>1, <3>1, <3>2, <3>4, Zenon
    <2>2. CASE t \notin S
      <3>1. S \in SUBSET At(pc, Admissible)
        BY <1>0, <2>2, Zenon DEF At
      <3>2. PICK w \in S : Cardinality(S) <= Reach(w)
        BY <3>1, <1>2, Zenon DEF LimitInv, LastCounted
      <3>3. w \in Task /\ w # t
        BY <3>1, <2>2, Zenon DEF At
      <3>4. Reach(w)' = Reach(w)
        BY <1>0, <3>3, Zenon DEF Reach
      <3> QED
        BY <3>2, <3>4, Zenon
    <2> QED
      BY <2>1, <2>2, Zenon
  <1> QED
    BY <1>1, <1>2, Zenon DEF LimitInv, LastCounted

(* A task is granted only when it found fewer than the limit. *)
LEMMA GrantLimit ==
  ASSUME IInv, IInv', LimitInv, NEW t \in Task, Grant(t)
  PROVE  LimitInv'
  <1>0. /\ pc \in [Task -> Locations] /\ previous \in [Task -> Nat]
        /\ peak \in [Task -> Nat] /\ limit \in Nat
        /\ pc[t] = "decide" /\ pc' = [pc EXCEPT ![t] = "granted"]
        /\ previous' = [previous EXCEPT ![t] = 0] /\ previous[t] < limit
        /\ peak' = peak /\ dynamic_limit' = dynamic_limit
    BY LimitNat, Zenon DEF IInv, TypeOK, Grant, Goto, settings, history
  <1>1. limit <= peak[t]
    BY <1>0, Zenon DEF LimitInv, PeakCovers, At, Counted
  <1>2. ASSUME NEW w \in At(pc', Admissible)
        PROVE  w \in At(pc, Admissible) /\ Reach(w) <= Reach(w)'
    <2>1. CASE w = t
      BY <1>0, <1>1, <2>1 DEF At, Admissible, Reach
    <2>2. CASE w # t
      <3>1. w \in Task /\ Reach(w) = Reach(w)' /\ w \in At(pc, Admissible)
        BY <1>0, <2>2, Zenon DEF At, Reach
      <3>2. Reach(w) \in Nat
        BY <1>0, <3>1 DEF Reach
      <3> QED
        BY <3>1, <3>2
    <2> QED
      BY <2>1, <2>2, Zenon
  <1>3. PeakCovers'
    BY <1>0, Zenon DEF LimitInv, PeakCovers, At, Counted, limit
  <1> QED
    BY <1>2, <1>3, ReachKept, Zenon DEF LimitInv

(* A refused or released task leaves the set, and nothing else changes. *)
LEMMA LeavesLimit ==
  ASSUME IInv, IInv', LimitInv, NEW t \in Task,
         Refuse(t) \/ Uncount(t) \/ Release(t)
  PROVE  LimitInv'
  <1>0. /\ pc \in [Task -> Locations] /\ previous \in [Task -> Nat]
        /\ peak \in [Task -> Nat] /\ limit \in Nat /\ limit' = limit
    BY LimitNat, Zenon DEF IInv, TypeOK, Refuse, Uncount, Release, settings, limit
  <1>1. /\ pc'[t] \notin Admissible
        /\ pc'[t] \in Counted => pc[t] \in Counted /\ peak'[t] = peak[t]
        /\ \A w \in Task \ {t} : /\ pc'[w] = pc[w] /\ previous'[w] = previous[w]
                                 /\ peak'[w] = peak[w]
    BY <1>0, Zenon DEF Refuse, Uncount, Release, Goto, Admissible, Counted, history
  <1>2. ASSUME NEW w \in At(pc', Admissible)
        PROVE  w \in At(pc, Admissible) /\ Reach(w) <= Reach(w)'
    <2>1. w \in Task /\ w # t
      BY <1>1, Zenon DEF At
    <2>2. Reach(w) = Reach(w)' /\ w \in At(pc, Admissible)
      BY <1>1, <2>1, Zenon DEF At, Reach
    <2>3. Reach(w) \in Nat
      BY <1>0, <2>1 DEF Reach
    <2> QED
      BY <2>2, <2>3
  <1>3. PeakCovers'
    BY <1>0, <1>1, Zenon DEF LimitInv, PeakCovers, At
  <1> QED
    BY <1>2, <1>3, ReachKept, Zenon DEF LimitInv

(* A store into dynamic_limit raises the peaks it has to. *)
LEMMA StoreLimit ==
  ASSUME IInv, IInv', LimitInv, NEW l \in Limits, SetLimit(l) \/ PressureStore(l)
  PROVE  LimitInv'
  <1>0. /\ previous \in [Task -> Nat] /\ peak \in [Task -> Nat] /\ limit' \in Nat
        /\ pc' = pc /\ previous' = previous /\ RaisePeak
    <2>1. limit' \in Nat
      BY CapacityPositive, Zenon DEF IInv, TypeOK, limit, Clamp
    <2> QED
      BY <2>1, Zenon DEF IInv, TypeOK, SetLimit, PressureStore, counters
  <1>1. \A w \in Task : /\ peak[w] <= peak'[w]
                        /\ pc[w] \in Counted => limit' <= peak'[w]
    BY <1>0 DEF RaisePeak
  <1>2. \A w \in At(pc', Admissible) : w \in At(pc, Admissible) /\ Reach(w) <= Reach(w)'
    BY <1>0, <1>1 DEF At, Reach
  <1>3. PeakCovers'
    BY <1>0, <1>1, Zenon DEF PeakCovers, At
  <1> QED
    BY <1>2, <1>3, ReachKept, Zenon DEF LimitInv

LEMMA LimitNext == IInv /\ IInv' /\ LimitInv /\ [Next]_vars => LimitInv'
  <1> SUFFICES ASSUME IInv, IInv', LimitInv, [Next]_vars PROVE LimitInv'
    BY Zenon
  <1>0. pc \in [Task -> Locations]
    BY Zenon DEF IInv, TypeOK
  <1> USE DEF settings, history, counters
  <1>1. ASSUME NEW t \in Task, NEW from, NEW to, Goto(t, from, to), to \notin Counted,
               UNCHANGED <<previous, peak, dynamic_limit>>
        PROVE  LimitInv'
    <2>1. \A w \in Task : pc'[w] \in Counted => pc'[w] = pc[w]
      BY <1>0, <1>1, Zenon DEF Goto
    <2> QED
      BY <1>1, <2>1, AdmissibleUntouched, Zenon
  <1>2. ASSUME NEW t \in Task, NEW to, ReturnPermit(t, to), to \notin Counted,
               UNCHANGED <<previous, peak, dynamic_limit>>
        PROVE  LimitInv'
    <2>1. \A w \in Task : pc'[w] \in Counted => pc'[w] = pc[w]
      BY <1>0, <1>2, Zenon DEF ReturnPermit, Counted
    <2> QED
      BY <1>2, <2>1, AdmissibleUntouched, Zenon
  <1>3. ASSUME NEW t \in Task, TaskStep(t) PROVE LimitInv'
    <2>1. CASE Count(t) \/ Grant(t) \/ Refuse(t) \/ Uncount(t)
      BY <2>1, CountLimit, GrantLimit, LeavesLimit, Zenon
    <2>2. CASE CheckLimit(t) \/ TryAcquire(t) \/ Acquire(t) \/ AcquireTimeout(t)
      BY <2>2, <1>1, Zenon DEF CheckLimit, TryAcquire, Acquire, AcquireTimeout, Counted
    <2>3. CASE QueueJoin(t) \/ CapacityJoin(t)
      BY <2>3, <1>1, Zenon DEF QueueJoin, CapacityJoin, JoinWaiters, Counted
    <2>4. CASE CapacityWake(t) \/ CapacityTimeout(t)
      BY <2>4, <1>1, Zenon DEF CapacityWake, CapacityTimeout, Counted
    <2>5. CASE AcquireDone(t) \/ LeaveWaiters(t)
      <3>1. \A w \in Task : pc'[w] \in Counted => pc'[w] = pc[w]
        BY <1>0, <2>5, Zenon DEF AcquireDone, LeaveWaiters, Counted
      <3> QED
        BY <2>5, <3>1, AdmissibleUntouched, Zenon DEF AcquireDone, LeaveWaiters
    <2>6. CASE PutBack(t) \/ Returned(t)
      BY <2>6, <1>2, Zenon DEF PutBack, Returned, Counted
    <2> QED
      BY <1>3, <2>1, <2>2, <2>3, <2>4, <2>5, <2>6, Zenon DEF TaskStep
  <1>4. ASSUME NEW t \in Task, Checkout(t) PROVE LimitInv'
    BY <1>4, <1>1, Zenon DEF Checkout, Counted
  <1>5. ASSUME NEW t \in Task, DropWait(t) PROVE LimitInv'
    <2>1. \A w \in Task : pc'[w] \in Counted => pc'[w] = pc[w]
      BY <1>0, <1>5, Zenon DEF DropWait, ReturnPermit, Counted
    <2> QED
      BY <1>5, <2>1, AdmissibleUntouched, Zenon DEF DropWait
  <1>6. ASSUME NEW t \in Task, DeadlinePasses(t) PROVE LimitInv'
    BY <1>6, AdmissibleUntouched, Zenon DEF DeadlinePasses
  <1>7. CASE UNCHANGED vars
    BY <1>7, AdmissibleUntouched, Zenon DEF vars
  <1> QED
    BY <1>3, <1>4, <1>5, <1>6, <1>7, LeavesLimit, StoreLimit, Zenon DEF Next, Done

LEMMA LimitInit == Init => LimitInv
  <1> SUFFICES ASSUME Init PROVE LimitInv
    BY Zenon
  <1>1. At(pc, Counted) = {} /\ At(pc, Admissible) = {}
    BY Zenon DEF Init, At, Counted, Admissible
  <1> QED
    BY <1>1, Zenon DEF LimitInv, LastCounted, PeakCovers

(* No more permits are out than a limit in force since the last of them    *)
(* was counted, whatever limits the operator and the controller store.     *)
THEOREM LimitIsKept == Spec => []GrantedWithinLimit
  <1>1. LimitInv => GrantedWithinLimit
    <2> SUFFICES ASSUME LimitInv, At(pc, {"granted"}) # {}
                 PROVE  \E t \in At(pc, {"granted"}) :
                           Cardinality(At(pc, {"granted"})) <= peak[t]
      BY Zenon DEF GrantedWithinLimit
    <2>1. At(pc, {"granted"}) \in SUBSET At(pc, Admissible)
      BY Zenon DEF At, Admissible
    <2>2. PICK w \in At(pc, {"granted"}) : Cardinality(At(pc, {"granted"})) <= Reach(w)
      BY <2>1, Zenon DEF LimitInv, LastCounted
    <2> QED
      BY <2>2, Zenon DEF At, Reach
  <1>2. Spec => [](IInv /\ LimitInv)
    BY InitInv, NextInv, LimitInit, LimitNext, PTL DEF Spec
  <1> QED
    BY <1>1, <1>2, PTL

(* Everything the run checks about the gate's numbers, at once: permits,   *)
(* in_flight and waiters count what they name, and what is granted or      *)
(* queued stays within the capacity, the limit and max_waiters.            *)
THEOREM GateCountsHold == Spec => []GateCounts
  <1>1. IInv /\ GrantedWithinLimit => GateCounts
    BY Zenon DEF IInv, GateCounts
  <1> QED
    BY <1>1, GateBookkeeping, LimitIsKept, PTL

-----------------------------------------------------------------------------
(* The stage a caller sees for a task at location l. *)
StageOf(l) == IF l = "idle" THEN "out"
              ELSE IF l \in {"granted", "returning"} THEN "in" ELSE "asking"

(* A step in which only t may change stage, from a to b. *)
LEMMA OneStage ==
  ASSUME NEW t \in Task, \A u \in Task \ {t} : StageOf(pc'[u]) = StageOf(pc[u])
  PROVE  /\ Stage \in [Task -> {"out", "asking", "in"}]
         /\ Stage' = [Stage EXCEPT ![t] = StageOf(pc'[t])]
         /\ Stage[t] = StageOf(pc[t])
  <1>1. Stage = [u \in Task |-> StageOf(pc[u])]
    BY Zenon DEF Stage, StageOf
  <1>2. Stage' = [u \in Task |-> StageOf(pc'[u])]
    BY Zenon DEF Stage, StageOf
  <1>3. \A l : StageOf(l) \in {"out", "asking", "in"}
    BY Zenon DEF StageOf
  <1> QED
    BY <1>1, <1>2, <1>3, Zenon

LEMMA SameCardinality == \A S : Admission!Cardinality(S) = Cardinality(S)
  BY Zenon DEF Admission!Cardinality, Cardinality

(* While a task decides, the tasks inside hold the other permits. *)
LEMMA RoomToAdmit ==
  ASSUME IInv, NEW t \in Task, pc[t] = "decide"
  PROVE  Cardinality(Admission!Inside) < Capacity
  <1> DEFINE H == At(pc, HoldsPermit)
             I == Admission!Inside
  <1>1. I \subseteq H \ {t} /\ t \in H
    BY Zenon DEF Admission!Inside, Stage, At, HoldsPermit
  <1>2. IsFiniteSet(H) /\ Cardinality(H) \in Nat
    BY AtFinite, Zenon
  <1>3. IsFiniteSet(H \ {t}) /\ Cardinality(H \ {t}) = Cardinality(H) - 1
    BY <1>1, <1>2, FS_RemoveElement, Zenon
  <1>4. Cardinality(I) <= Cardinality(H \ {t}) /\ Cardinality(I) \in Nat
    BY <1>1, <1>3, FS_Subset, FS_CardinalityType, Zenon
  <1>5. free + Cardinality(H) = Capacity /\ free \in Nat
    BY CapacityPositive DEF IInv, TypeOK, PermitsConserved
  <1> QED
    BY <1>2, <1>3, <1>4, <1>5, CapacityPositive

(* What a return of a permit does to the locations. *)
LEMMA ReturnMoves ==
  ASSUME IInv, NEW t \in Task, NEW l, ReturnPermit(t, l), pc[t] # "queued"
  PROVE  /\ pc'[t] = l
         /\ \A u \in Task \ {t} : StageOf(pc'[u]) = StageOf(pc[u])
  <1>1. pc \in [Task -> Locations] /\ queue \in Seq(Task)
        /\ At(pc, {"queued"}) = Listed(queue)
    BY Zenon DEF IInv, TypeOK, NoStrandedWaiter
  <1>2. CASE queue = <<>>
    BY <1>1, <1>2, Zenon DEF ReturnPermit
  <1>3. CASE queue # <<>>
    <2>1. Head(queue) = queue[1] /\ 1 \in 1..Len(queue)
      BY <1>1, <1>3
    <2>2. Head(queue) \in Task /\ pc[Head(queue)] = "queued"
      BY <1>1, <2>1, Zenon DEF Listed, At
    <2>3. pc' = [pc EXCEPT ![t] = l, ![Head(queue)] = "assigned"]
      BY <1>3, Zenon DEF ReturnPermit
    <2> QED
      BY <1>1, <2>2, <2>3, Zenon DEF StageOf
  <1> QED
    BY <1>2, <1>3, Zenon

(* Every step of the gate is a step of the abstract gate or none. *)
LEMMA StepAdmission == IInv /\ [Next]_vars => [Admission!Next]_Stage
  <1> SUFFICES ASSUME IInv, [Next]_vars PROVE Admission!Next \/ Stage' = Stage
    BY Zenon
  <1>0. pc \in [Task -> Locations]
    BY Zenon DEF IInv, TypeOK
  <1> DEFINE Kept(t) == \A u \in Task \ {t} : StageOf(pc'[u]) = StageOf(pc[u])
  <1>1. ASSUME NEW t \in Task, Kept(t), StageOf(pc'[t]) = StageOf(pc[t])
        PROVE  Stage' = Stage
    BY <1>1, OneStage
  <1>2. ASSUME NEW t \in Task, Kept(t), pc[t] = "idle", StageOf(pc'[t]) = "asking"
        PROVE  Admission!Next
    <2>1. Admission!Ask(t)
      BY <1>2, OneStage, Zenon DEF Admission!Ask, Admission!Move, StageOf
    <2> QED
      BY <2>1, Zenon DEF Admission!Next
  <1>3. ASSUME NEW t \in Task, Kept(t), StageOf(pc[t]) = "asking", pc'[t] = "idle"
        PROVE  Admission!Next
    <2>1. Admission!Refuse(t)
      BY <1>3, OneStage, Zenon DEF Admission!Refuse, Admission!Move, StageOf
    <2> QED
      BY <2>1, Zenon DEF Admission!Next
  <1>4. ASSUME NEW t \in Task, Grant(t) PROVE Admission!Next
    <2>1. Kept(t) /\ pc[t] = "decide" /\ pc'[t] = "granted"
      BY <1>0, <1>4, Zenon DEF Grant, Goto
    <2>2. Admission!Admit(t)
      BY <2>1, OneStage, RoomToAdmit, SameCardinality, Zenon DEF Admission!Admit, Admission!Move, StageOf
    <2> QED
      BY <2>2, Zenon DEF Admission!Next
  <1>5. ASSUME NEW t \in Task, Returned(t) PROVE Admission!Next
    <2>1. pc[t] = "returning" /\ pc'[t] = "idle" /\ Kept(t)
      BY <1>5, ReturnMoves, Zenon DEF Returned
    <2>2. Admission!Leave(t)
      BY <2>1, OneStage, Zenon DEF Admission!Leave, Admission!Move, StageOf
    <2> QED
      BY <2>2, Zenon DEF Admission!Next
  <1>6. ASSUME NEW t \in Task, DropWait(t) PROVE Admission!Next
    <2>1. pc[t] \in {"capwait", "queued", "assigned"} /\ pc'[t] = "idle" /\ Kept(t)
      <3>1. CASE pc[t] = "assigned"
        BY <1>6, <3>1, ReturnMoves, Zenon DEF DropWait
      <3>2. CASE pc[t] # "assigned"
        BY <1>0, <1>6, <3>2, Zenon DEF DropWait
      <3> QED
        BY <3>1, <3>2, Zenon
    <2> QED
      BY <1>3, <2>1, Zenon DEF StageOf
  <1>7. ASSUME NEW t \in Task, PutBack(t) PROVE Stage' = Stage
    <2>1. pc[t] = "putback" /\ pc'[t] = "capadd" /\ Kept(t)
      BY <1>7, ReturnMoves, Zenon DEF PutBack
    <2> QED
      BY <1>1, <2>1, Zenon DEF StageOf
  <1>8. ASSUME NEW t \in Task, Checkout(t) PROVE Admission!Next
    <2>1. pc[t] = "idle" /\ pc'[t] = "check" /\ Kept(t)
      BY <1>0, <1>8, Zenon DEF Checkout, Goto
    <2> QED
      BY <1>2, <2>1, Zenon DEF StageOf
  <1>9. ASSUME NEW t \in Task, LeaveWaiters(t) PROVE Admission!Next \/ Stage' = Stage
    <2>1. Kept(t) /\ \/ pc[t] = "undo" /\ pc'[t] = "idle"
                     \/ pc[t] = "capleave" /\ pc'[t] = "check"
      BY <1>0, <1>9, Zenon DEF LeaveWaiters
    <2> QED
      BY <1>1, <1>3, <2>1, Zenon DEF StageOf
  <1>10. ASSUME NEW t \in Task,
                CheckLimit(t) \/ TryAcquire(t) \/ QueueJoin(t) \/ CapacityJoin(t)
                  \/ Acquire(t) \/ AcquireTimeout(t) \/ AcquireDone(t) \/ Count(t)
                  \/ Refuse(t) \/ Uncount(t) \/ CapacityWake(t) \/ CapacityTimeout(t)
                  \/ Release(t)
         PROVE  Stage' = Stage
    <2>1. Kept(t) /\ StageOf(pc'[t]) = StageOf(pc[t])
      BY <1>0, <1>10, Zenon DEF CheckLimit, TryAcquire, QueueJoin, CapacityJoin, JoinWaiters,
         Acquire, AcquireTimeout, AcquireDone, Count, Refuse, Uncount, CapacityWake,
         CapacityTimeout, Release, Goto, StageOf
    <2> QED
      BY <1>1, <2>1, Zenon
  <1>11. ASSUME UNCHANGED pc PROVE Stage' = Stage
    BY <1>11, Zenon DEF Stage
  <1> QED
    <2>1. CASE UNCHANGED vars
      BY <1>11, <2>1, Zenon DEF vars
    <2>2. ASSUME NEW t \in Task, DeadlinePasses(t) PROVE UNCHANGED pc
      BY <2>2, Zenon DEF DeadlinePasses
    <2>3. ASSUME NEW l \in Limits, SetLimit(l) \/ PressureStore(l) PROVE UNCHANGED pc
      BY <2>3, Zenon DEF SetLimit, PressureStore
    <2> QED
      BY <1>4, <1>5, <1>6, <1>7, <1>8, <1>9, <1>10, <1>11, <2>1, <2>2, <2>3, Zenon
         DEF Next, TaskStep, Done

(* checkout_until, with its waits, hand-overs, changing limit and dropped  *)
(* futures, implements the abstract gate: never are more than              *)
(* max_in_flight callers let in at once, and none is let in twice.         *)
THEOREM GateImplementsAdmission == Spec => ImplementsAdmission
  <1>1. Init => Admission!Init
    BY Zenon DEF Init, Admission!Init, Stage
  <1> QED
    BY <1>1, GateBookkeeping, StepAdmission, PTL
       DEF Spec, ImplementsAdmission, Admission!Spec
=============================================================================
