------------------------------ MODULE BufferPool ------------------------------
(***************************************************************************)
(* The pool of session buffers (net/buffers.rs).  A session leases a set   *)
(* of buffers, which grow as it reads and writes; when the lease is        *)
(* dropped the set is cleared, trimmed and cached, within a number of sets *)
(* and a number of bytes, or freed.  The pressure task trims the cache.    *)
(*                                                                         *)
(* The sets and the count of their bytes have a lock each.  acquire takes  *)
(* one and then the other; recycle and trim_cached hold the first while    *)
(* they take the second, so each of them is one step.                      *)
(***************************************************************************)
EXTENDS Integers, Sequences, FiniteSetsExt, SequencesExt

CONSTANTS
    User,         \* sessions, one after another on each
    Buf,          \* the buffers of a set: client_read, backend_read, ...
    Sizes,        \* capacities a buffer may grow to
    Policies      \* BufferReusePolicy and OversizedBufferPolicy, as configured

VARIABLES
    policy,  \* as normalised by ProxyBufferPool::new
    cached,  \* available
    bytes,   \* cached_session_bytes
    lease    \* each session's lease: none, a set popped but not yet counted out, a set in use

bufferVars == <<policy, cached, bytes, lease>>

AtLeast(m, n) == IF m > n THEN m ELSE n

(* ProxyBufferPool::new. *)
Normalised(p) ==
    LET initial == AtLeast(p.initial, 1) IN
    [p EXCEPT !.initial = initial, !.max_retained = AtLeast(p.max_retained, initial)]

(* buffer_cache_budget: at most one percent of the memory limit, but room  *)
(* for a buffer.                                                           *)
Budget(p) ==
    IF p.memory = 0 THEN p.max_bytes
    ELSE LET share == AtLeast(p.memory \div 100, p.initial) IN
         IF share < p.max_bytes THEN share ELSE p.max_bytes

NoLease == [at |-> "none", set |-> << >>]

(* SessionBufferSet::new allocates nothing. *)
NewSet == [b \in Buf |-> [cap |-> 0, len |-> 0]]

(* SessionBufferSet::retained_capacity. *)
Retained(set) == MapThenSumSet(LAMBDA b : set[b].cap, Buf)
CachedBytes == MapThenSumSet(LAMBDA i : Retained(cached[i]), DOMAIN cached)

(* trim_buffer: an empty buffer that outgrew the policy is replaced. *)
Trimmed(set) ==
    [b \in Buf |-> IF set[b].len = 0 /\ set[b].cap > policy.max_retained
                   THEN [cap |-> policy.initial, len |-> 0] ELSE set[b]]
Cleared(set) == [b \in Buf |-> [set[b] EXCEPT !.len = 0]]

(* prepare_for_reuse. *)
Readied(set) == Trimmed(Cleared(set))

BufferInit ==
    /\ policy \in {Normalised([p EXCEPT !.max_bytes = Budget(p)]) : p \in Policies}
    /\ cached = << >>
    /\ bytes = 0
    /\ lease = [u \in User |-> NoLease]

(* acquire pops a set under the lock of the sets, or makes a new one. *)
Acquire(u) ==
    /\ lease[u].at = "none"
    /\ IF cached = << >>
       THEN lease' = [lease EXCEPT ![u] = [at |-> "used", set |-> NewSet]] /\ UNCHANGED cached
       ELSE /\ lease' = [lease EXCEPT ![u] = [at |-> "popped", set |-> Last(cached)]]
            /\ cached' = Front(cached)
    /\ UNCHANGED <<policy, bytes>>

(* What acquire leaves counted: bytes.saturating_sub(retained_bytes). *)
CountOut(u) == AtLeast(bytes - Retained(lease[u].set), 0)

(* It then takes the set's bytes off the count, under the other lock. *)
CountPopped(u) ==
    /\ lease[u].at = "popped"
    /\ bytes' = CountOut(u)
    /\ lease' = [lease EXCEPT ![u].at = "used"]
    /\ UNCHANGED <<policy, cached>>

(* The session reads into a buffer or appends a frame to it. *)
Fill(u, b, size) ==
    /\ lease[u].at = "used" /\ lease[u].set[b].len = 0
    /\ lease' = [lease EXCEPT ![u].set[b] = [cap |-> AtLeast(@.cap, size), len |-> size]]
    /\ UNCHANGED <<policy, cached, bytes>>

(* It has parsed or written the bytes, and trims its empty buffers. *)
Consume(u, b) ==
    /\ lease[u].at = "used" /\ lease[u].set[b].len > 0
    /\ lease' = [lease EXCEPT ![u].set = Trimmed([@ EXCEPT ![b].len = 0])]
    /\ UNCHANGED <<policy, cached, bytes>>

(* The lease is dropped: recycle caches the set if it fits, or frees it. *)
Recycle(u) ==
    LET set == Readied(lease[u].set) IN
    /\ lease[u].at = "used"
    /\ lease' = [lease EXCEPT ![u] = NoLease]
    /\ IF Len(cached) < policy.max_sessions /\ bytes + Retained(set) <= policy.max_bytes
       THEN cached' = Append(cached, set) /\ bytes' = bytes + Retained(set)
       ELSE UNCHANGED <<cached, bytes>>
    /\ UNCHANGED policy

(* trim_cached, when the pressure task finds memory short. *)
TrimCached ==
    /\ cached' = [i \in DOMAIN cached |-> Trimmed(cached[i])]
    /\ bytes' = MapThenSumSet(LAMBDA i : Retained(cached'[i]), DOMAIN cached)
    /\ UNCHANGED <<policy, lease>>

BufferNext ==
    \/ \E u \in User : Acquire(u) \/ CountPopped(u) \/ Recycle(u)
    \/ \E u \in User, b \in Buf : Consume(u, b) \/ \E size \in Sizes : Fill(u, b, size)
    \/ TrimCached

BufferSpec == BufferInit /\ [][BufferNext]_bufferVars

-----------------------------------------------------------------------------
BufferTypeOK ==
    /\ bytes \in Nat
    /\ \A u \in User : lease[u].at \in {"none", "popped", "used"}
    /\ policy.initial >= 1 /\ policy.max_retained >= policy.initial

Uncounted == {u \in User : lease[u].at = "popped"}

(* The count of cached bytes never stays too high: what it has over the    *)
(* sets in the cache is in the hands of sessions that are about to take it *)
(* off.  (A count that stuck would in time keep every set from the cache.) *)
CountNotStuck ==
    bytes <= CachedBytes + MapThenSumSet(LAMBDA u : Retained(lease[u].set), Uncounted)

(* A set in the cache holds none of its last session's bytes and no buffer *)
(* over max_retained_capacity, however the session left it; and there are  *)
(* no more sets than the policy allows.                                    *)
CachedReady ==
    /\ Len(cached) <= policy.max_sessions
    /\ \A i \in DOMAIN cached, b \in Buf :
         cached[i][b].len = 0 /\ cached[i][b].cap <= policy.max_retained

(* The cache keeps to max_cached_bytes.                                    *)
CachedWithinBudget == CachedBytes <= policy.max_bytes
=============================================================================
