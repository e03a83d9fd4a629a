---------------------------- MODULE RateLimiter ----------------------------
(***************************************************************************)
(* PerUserSlidingWindow of src/auth/rate_limiter.py, the burst limiter     *)
(* ask_database calls before it spends quota.  Each user has a deque of    *)
(* the instants of recent grants; acquire drops the stale ones from the    *)
(* left, refuses when Capacity are left, and otherwise appends the present *)
(* instant.  acquire runs under one asyncio.Lock and awaits nothing while  *)
(* it holds it, so it is one action.  time.monotonic() never goes back,    *)
(* and several calls may read the same instant: the clock is a natural     *)
(* number that a Tick may advance by any amount, up to the bound MaxTime.  *)
(***************************************************************************)
EXTENDS Integers, Sequences

CONSTANTS
  Users,     \* the user ids that key the buckets
  Capacity,  \* capacity: grants a window holds
  Window,    \* window_seconds, in ticks of the clock
  MaxTime    \* bound: the last instant of the clock

\* __init__ raises ValueError unless both parameters are positive.
ASSUME CapacityAssumption == Capacity \in Nat \ {0}
ASSUME WindowAssumption == Window \in Nat \ {0}
ASSUME MaxTimeAssumption == MaxTime \in Nat

VARIABLES
  now,      \* time.monotonic()
  bucket,   \* self._buckets[u]; an absent key is the empty deque
  granted,  \* history: the instants of all the grants of u, for the properties
  reply,    \* history: kind of the answer to u's last call
  notBefore \* history: for a refused call, its instant plus retry_after

vars == <<now, bucket, granted, reply, notBefore>>

Init ==
  /\ now = 0
  /\ bucket = [u \in Users |-> <<>>]
  /\ granted = [u \in Users |-> <<>>]
  /\ reply = [u \in Users |-> "none"]
  /\ notBefore = [u \in Users |-> 0]

Tick ==
  /\ now' \in (now + 1) .. MaxTime
  /\ UNCHANGED <<bucket, granted, reply, notBefore>>

----------------------------------------------------------------------------

\* Exit of the loop `while bucket and bucket[0] < cutoff: bucket.popleft()`:
\* k elements went, each older than the cutoff, and the next one is not.
Popped(b, cutoff, k) ==
  /\ \A i \in 1 .. k : b[i] < cutoff
  /\ k < Len(b) => b[k + 1] >= cutoff

StaleCount(b, cutoff) == CHOOSE k \in 0 .. Len(b) : Popped(b, cutoff, k)

\* Mutant: the purge also drops a grant exactly one window old (<= for <).
StaleCountInclusive(b, cutoff) ==
  CHOOSE k \in 0 .. Len(b) : Popped(b, cutoff + 1, k)

\* Mutant: the purge boundary is inclusive.
PurgeInclusive(b, cutoff) ==
  SubSeq(b, StaleCountInclusive(b, cutoff) + 1, Len(b))

Purge(b, cutoff) == SubSeq(b, StaleCount(b, cutoff) + 1, Len(b))

\* Mutant: one grant too many.
FullOffByOne(b) == Len(b) > Capacity

Full(b) == Len(b) >= Capacity

\* Mutant: retry_after is taken from the newest grant instead of the oldest.
RetryAfterNewest(b) == Window - (now - b[Len(b)])

\* Mutant: the elapsed time and the window are swapped.
RetryAfterReversed(b) == (now - b[1]) - Window

\* max(window - (now - bucket[0]), 0.0), on the purged bucket.
RetryAfter(b) ==
  LET left == Window - (now - b[1]) IN IF left >= 0 THEN left ELSE 0

\* Mutant: a refused call leaves its instant in the bucket too.
AcquireCountsRefusals(u) ==
  LET live == Purge(bucket[u], now - Window) IN
    /\ bucket' = [bucket EXCEPT ![u] = Append(live, now)]
    /\ IF Full(live)
         THEN /\ reply' = [reply EXCEPT ![u] = "refused"]
              /\ notBefore' = [notBefore EXCEPT ![u] = now + RetryAfter(live)]
              /\ UNCHANGED granted
         ELSE /\ granted' = [granted EXCEPT ![u] = Append(@, now)]
              /\ reply' = [reply EXCEPT ![u] = "granted"]
              /\ UNCHANGED notBefore
    /\ UNCHANGED now

AcquireGranted(u) ==
  LET live == Purge(bucket[u], now - Window) IN
    /\ ~Full(live)
    /\ bucket' = [bucket EXCEPT ![u] = Append(live, now)]
    /\ granted' = [granted EXCEPT ![u] = Append(@, now)]
    /\ reply' = [reply EXCEPT ![u] = "granted"]
    /\ UNCHANGED <<now, notBefore>>

AcquireRefused(u) ==
  LET live == Purge(bucket[u], now - Window) IN
    /\ Full(live)
    /\ bucket' = [bucket EXCEPT ![u] = live]
    /\ reply' = [reply EXCEPT ![u] = "refused"]
    /\ notBefore' = [notBefore EXCEPT ![u] = now + RetryAfter(live)]
    /\ UNCHANGED <<now, granted>>

Acquire(u) == AcquireGranted(u) \/ AcquireRefused(u)

Next == Tick \/ \E u \in Users : Acquire(u)

Spec == Init /\ [][Next]_vars

----------------------------------------------------------------------------

\* Type invariant: the deques hold past instants, and the clock stays in range.
TypeOK ==
  /\ now \in 0 .. MaxTime
  /\ bucket \in [Users -> Seq(0 .. now)]
  /\ granted \in [Users -> Seq(0 .. now)]
  /\ reply \in [Users -> {"none", "granted", "refused"}]
  /\ notBefore \in [Users -> Nat]

(* The burst limit itself: however calls, refusals and purges interleave,  *)
(* no closed window of Window seconds, wherever it starts, contains more   *)
(* than Capacity grants of one user.  acquire only ever looks at the       *)
(* purged deque, so this relates what it forgot to what it granted.        *)
WindowBound ==
  \A u \in Users : \A i \in DOMAIN granted[u] :
    i + Capacity \in DOMAIN granted[u] =>
      granted[u][i + Capacity] - granted[u][i] > Window

(* retry_after is exact: as long as the user has not called again, a call  *)
(* up to now + retry_after is still refused, and any later one is granted. *)
RetryAfterExact ==
  \A u \in Users : reply[u] = "refused" =>
    (Full(Purge(bucket[u], now - Window)) <=> now <= notBefore[u])

(* The deque is a faithful memory: it is the tail of the grants, and what  *)
(* it dropped can never again lie in a window.                             *)
BucketIsRecentGrants ==
  \A u \in Users :
    LET gone == Len(granted[u]) - Len(bucket[u]) IN
      /\ gone >= 0
      /\ \A i \in DOMAIN bucket[u] : bucket[u][i] = granted[u][gone + i]
      /\ \A i \in 1 .. gone : granted[u][i] < now - Window

(* The bookkeeping the other properties rest on: a full bucket holds       *)
(* exactly Capacity grants, grants are recorded in order, and a refusal    *)
(* leaves the bucket full, with retry_after computed from its oldest one.  *)
Bookkeeping ==
  \A u \in Users :
    /\ Len(bucket[u]) <= Capacity
    /\ \A i, j \in DOMAIN granted[u] : i <= j => granted[u][i] <= granted[u][j]
    /\ reply[u] = "refused" =>
         /\ Len(bucket[u]) = Capacity
         /\ notBefore[u] = bucket[u][1] + Window

\* The inductive invariant of RateLimiterProofs.
IInv == TypeOK /\ BucketIsRecentGrants /\ Bookkeeping /\ WindowBound

\* The refinement mapping forgets bucket and notBefore.
Abstract == INSTANCE SlidingWindow
  WITH Users <- Users, Capacity <- Capacity, Window <- Window, MaxTime <- MaxTime,
       now <- now, granted <- granted, reply <- reply

(* The limiter implements SlidingWindow: it grants if and only if fewer    *)
(* than Capacity grants lie in the window that ends now.                   *)
ImplementsSlidingWindow == Abstract!AbsSpec
=============================================================================
