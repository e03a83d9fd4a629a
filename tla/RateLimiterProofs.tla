------------------------- MODULE RateLimiterProofs -------------------------
(***************************************************************************)
(* Proofs about RateLimiter, for every set of users, capacity, window and  *)
(* length of the clock.                                                    *)
(***************************************************************************)
EXTENDS RateLimiter, FiniteSetTheorems, SequenceTheorems, WellFoundedInduction, TLAPS

(* Every non-empty set of naturals has a least element.                    *)
LEMMA LeastNatural ==
  ASSUME NEW T \in SUBSET Nat, T # {}
  PROVE  \E x \in T : \A y \in T : x <= y
<1> DEFINE R == {p \in Nat \X Nat : p[1] < p[2]}
<1>1. IsWellFoundedOn(R, Nat)
  <2>1. R = OpToRel(<, Nat)
    BY DEF OpToRel
  <2> QED BY <2>1, NatLessThanWellFounded
<1>2. PICK x \in T : \A y \in T : ~ (<<y, x>> \in R)
  BY <1>1, WFMin
<1>3. ASSUME NEW y \in T
      PROVE  x <= y
  <2>1. ~ (y < x)
    <3>1. <<y, x>> \in Nat \X Nat
      OBVIOUS
    <3>2. <<y, x>>[1] = y /\ <<y, x>>[2] = x
      OBVIOUS
    <3> QED BY <1>2, <3>1, <3>2
  <2>2. x \in Nat /\ y \in Nat
    OBVIOUS
  <2> QED BY <2>1, <2>2
<1> QED BY <1>3

(* The purge loop always ends at the first element that is young enough.   *)
LEMMA StaleCountWorks ==
  ASSUME NEW b \in Seq(Int), NEW cutoff \in Int
  PROVE  /\ StaleCount(b, cutoff) \in 0 .. Len(b)
         /\ Popped(b, cutoff, StaleCount(b, cutoff))
<1> DEFINE T == {k \in 0 .. Len(b) : k < Len(b) => b[k + 1] >= cutoff}
<1>1. Len(b) \in Nat /\ \A i \in 1 .. Len(b) : b[i] \in Int
  OBVIOUS
<1>2. T \in SUBSET Nat /\ Len(b) \in T
  BY <1>1
<1>3. PICK k \in T : \A j \in T : k <= j
  <2>1. T # {}
    BY <1>2
  <2> HIDE DEF T
  <2> QED BY <1>2, <2>1, LeastNatural
<1>4. ASSUME NEW i \in 1 .. k
      PROVE  b[i] < cutoff
  <2>1. i - 1 \in 0 .. Len(b) /\ i - 1 < k
    BY <1>1
  <2>2. i - 1 \notin T
    <3> SUFFICES ASSUME i - 1 \in T
                 PROVE  FALSE
      OBVIOUS
    <3>1. k <= i - 1
      BY <1>3
    <3> QED BY <3>1, <2>1
  <2>3. i - 1 < Len(b) /\ ~ (b[i - 1 + 1] >= cutoff)
    BY <2>1, <2>2
  <2>4. i - 1 + 1 = i /\ i \in 1 .. Len(b)
    BY <2>1, <1>1
  <2> QED BY <2>3, <2>4, <1>1
<1>5. k \in 0 .. Len(b) /\ Popped(b, cutoff, k)
  BY <1>4 DEF Popped
<1> QED BY <1>5 DEF StaleCount

(* What is left after a purge: the tail of the deque.                      *)
LEMMA PurgeWorks ==
  ASSUME NEW S \in SUBSET Int, NEW b \in Seq(S), NEW cutoff \in Int
  PROVE  LET k == StaleCount(b, cutoff)
             live == Purge(b, cutoff)
         IN /\ k \in 0 .. Len(b)
            /\ live \in Seq(S)
            /\ Len(live) = Len(b) - k
            /\ \A i \in 1 .. Len(live) : live[i] = b[k + i]
            /\ \A i \in 1 .. k : b[i] < cutoff
            /\ Len(live) > 0 => live[1] >= cutoff
<1> DEFINE k == StaleCount(b, cutoff)
<1>0. b \in Seq(Int) /\ Len(b) \in Nat
  <2>1. S \subseteq Int
    OBVIOUS
  <2>2. \A i \in 1 .. Len(b) : b[i] \in Int
    BY <2>1, ElementOfSeq
  <2> QED BY <2>2
<1>1. k \in 0 .. Len(b) /\ Popped(b, cutoff, k)
  BY <1>0, StaleCountWorks
<1> HIDE DEF k
<1>2. \A i \in k + 1 .. Len(b) : b[i] \in S
  BY <1>1, <1>0, ElementOfSeq
<1> DEFINE live == SubSeq(b, k + 1, Len(b))
<1>3. /\ live \in Seq(S)
      /\ Len(live) = IF k + 1 <= Len(b) THEN Len(b) - (k + 1) + 1 ELSE 0
      /\ \A i \in 1 .. Len(b) - (k + 1) + 1 : live[i] = b[k + 1 + i - 1]
  <2>1. k + 1 \in Int /\ Len(b) \in Int
    BY <1>1, <1>0
  <2> QED BY <1>2, <2>1, SubSeqProperties
<1>4. Len(live) = Len(b) - k
  BY <1>3, <1>1, <1>0
<1>5. \A i \in 1 .. Len(live) : live[i] = b[k + i]
  BY <1>3, <1>4, <1>1, <1>0
<1>6. Len(live) > 0 => live[1] >= cutoff
  BY <1>1, <1>4, <1>5, <1>0 DEF Popped
<1>7. Purge(b, cutoff) = live
  BY DEF Purge, k
<1> QED BY <1>1, <1>3, <1>4, <1>5, <1>6, <1>7 DEF Popped, k

----------------------------------------------------------------------------

LEMMA InitIInv == Init => IInv
<1> SUFFICES ASSUME Init PROVE IInv
  OBVIOUS
<1> USE DEF Init
<1>1. TypeOK
  BY MaxTimeAssumption DEF TypeOK
<1>2. \A u \in Users : Len(bucket[u]) = 0 /\ Len(granted[u]) = 0 /\ reply[u] = "none"
  OBVIOUS
<1>3. BucketIsRecentGrants /\ Bookkeeping /\ WindowBound
  BY <1>2, CapacityAssumption DEF BucketIsRecentGrants, Bookkeeping, WindowBound
<1> QED BY <1>1, <1>3 DEF IInv

(* What TypeOK says of one user, in the form the provers use best.         *)
LEMMA UserTypes ==
  ASSUME TypeOK, NEW u \in Users
  PROVE  /\ now \in Nat
         /\ bucket[u] \in Seq(0 .. now) /\ granted[u] \in Seq(0 .. now)
         /\ Len(bucket[u]) \in Nat /\ Len(granted[u]) \in Nat
         /\ DOMAIN bucket[u] = 1 .. Len(bucket[u])
         /\ DOMAIN granted[u] = 1 .. Len(granted[u])
         /\ \A i \in 1 .. Len(bucket[u]) : bucket[u][i] \in 0 .. now
         /\ \A i \in 1 .. Len(granted[u]) : granted[u][i] \in 0 .. now
<1>1. now \in Nat /\ bucket[u] \in Seq(0 .. now) /\ granted[u] \in Seq(0 .. now)
  BY MaxTimeAssumption DEF TypeOK
<1> QED BY <1>1

(* A step of the clock: what is already forgotten only gets older.         *)
LEMMA TickIInv == IInv /\ Tick => IInv'
<1> SUFFICES ASSUME IInv, Tick PROVE IInv'
  OBVIOUS
<1>0. TypeOK /\ now' \in (now + 1) .. MaxTime /\ now \in Nat
  BY MaxTimeAssumption DEF IInv, Tick, TypeOK
<1>1. UNCHANGED <<bucket, granted, reply, notBefore>>
  BY DEF Tick
<1>2. TypeOK'
  <2>1. now' \in 0 .. MaxTime
    BY <1>0, MaxTimeAssumption
  <2>2. ASSUME NEW u \in Users
        PROVE  bucket[u] \in Seq(0 .. now') /\ granted[u] \in Seq(0 .. now')
    <3>1. 0 .. now \subseteq 0 .. now'
      BY <1>0, MaxTimeAssumption
    <3>2. /\ \A i \in 1 .. Len(bucket[u]) : bucket[u][i] \in 0 .. now'
          /\ \A i \in 1 .. Len(granted[u]) : granted[u][i] \in 0 .. now'
      BY <3>1, <1>0, UserTypes
    <3> QED BY <3>2, <1>0, UserTypes
  <2>3. bucket \in [Users -> Seq(0 .. now')] /\ granted \in [Users -> Seq(0 .. now')]
    BY <2>2, <1>0 DEF TypeOK
  <2> QED BY <1>0, <1>1, <2>1, <2>3 DEF TypeOK
<1>3. BucketIsRecentGrants'
  <2> SUFFICES ASSUME NEW u \in Users
               PROVE  (LET gone == Len(granted[u]) - Len(bucket[u]) IN
                         /\ gone >= 0
                         /\ \A i \in DOMAIN bucket[u] :
                              bucket[u][i] = granted[u][gone + i]
                         /\ \A i \in 1 .. gone : granted[u][i] < now' - Window)
    BY <1>1 DEF BucketIsRecentGrants
  <2> DEFINE gone == Len(granted[u]) - Len(bucket[u])
  <2>1. /\ gone >= 0
        /\ \A i \in DOMAIN bucket[u] : bucket[u][i] = granted[u][gone + i]
        /\ \A i \in 1 .. gone : granted[u][i] < now - Window
    BY DEF IInv, BucketIsRecentGrants
  <2>0. Len(granted[u]) \in Nat /\ Len(bucket[u]) \in Nat
    BY <1>0, UserTypes
  <2>2. gone \in Int /\ gone <= Len(granted[u])
    <3>1. \A m, n \in Nat : m - n \in Int /\ m - n <= m
      OBVIOUS
    <3> QED BY <2>0, <3>1
  <2>3. \A i \in 1 .. gone : granted[u][i] \in Int
    BY <2>2, <1>0, UserTypes
  <2>4. \A i \in 1 .. gone : granted[u][i] < now' - Window
    BY <2>1, <2>3, <1>0, WindowAssumption, MaxTimeAssumption
  <2> QED BY <2>1, <2>4
<1>4. Bookkeeping' /\ WindowBound'
  BY <1>1 DEF IInv, Bookkeeping, WindowBound
<1> QED BY <1>2, <1>3, <1>4 DEF IInv

(* What an acquire finds after its purge: exactly the grants of the user   *)
(* that lie in the window, in order.                                       *)
LEMMA LiveFacts ==
  ASSUME IInv, NEW u \in Users
  PROVE  LET live == Purge(bucket[u], now - Window)
             gone == Len(granted[u]) - Len(live)
         IN /\ live \in Seq(0 .. now)
            /\ Len(live) \in Nat
            /\ gone \in 0 .. Len(granted[u])
            /\ Len(live) <= Capacity
            /\ \A i \in 1 .. Len(live) : live[i] = granted[u][gone + i]
            /\ \A i \in 1 .. gone : granted[u][i] < now - Window
            /\ \A i \in gone + 1 .. Len(granted[u]) : granted[u][i] >= now - Window
            /\ Len(live) = Len(bucket[u]) => live = bucket[u]
<1> DEFINE cutoff == now - Window
           k == StaleCount(bucket[u], cutoff)
           live == Purge(bucket[u], cutoff)
           was == Len(granted[u]) - Len(bucket[u])
           gone == Len(granted[u]) - Len(live)
<1>0. /\ TypeOK /\ now \in Nat /\ cutoff \in Int
      /\ bucket[u] \in Seq(0 .. now) /\ granted[u] \in Seq(0 .. now)
      /\ Len(bucket[u]) \in Nat /\ Len(granted[u]) \in Nat
      /\ DOMAIN bucket[u] = 1 .. Len(bucket[u])
      /\ DOMAIN granted[u] = 1 .. Len(granted[u])
      /\ \A i \in 1 .. Len(granted[u]) : granted[u][i] \in 0 .. now
  <2>1. TypeOK
    BY DEF IInv
  <2>2. now \in Nat /\ now - Window \in Int
    BY <2>1, UserTypes, WindowAssumption
  <2> QED BY <2>1, <2>2, UserTypes
<1>1. /\ k \in 0 .. Len(bucket[u])
      /\ live \in Seq(0 .. now)
      /\ Len(live) = Len(bucket[u]) - k
      /\ \A i \in 1 .. Len(live) : live[i] = bucket[u][k + i]
      /\ \A i \in 1 .. k : bucket[u][i] < cutoff
      /\ Len(live) > 0 => live[1] >= cutoff
  <2>1. 0 .. now \in SUBSET Int
    OBVIOUS
  <2> HIDE DEF cutoff
  <2> QED BY <1>0, <2>1, PurgeWorks DEF k
<1>2. /\ was >= 0
      /\ \A i \in 1 .. Len(bucket[u]) : bucket[u][i] = granted[u][was + i]
      /\ \A i \in 1 .. was : granted[u][i] < now - Window
      /\ Len(bucket[u]) <= Capacity
      /\ \A i, j \in 1 .. Len(granted[u]) : i <= j => granted[u][i] <= granted[u][j]
  BY <1>0 DEF IInv, BucketIsRecentGrants, Bookkeeping
<1> HIDE DEF k, live, cutoff
\* Plain numbers for the lengths: the provers reason about them better.
<1>a. PICK B \in Nat, G \in Nat : B = Len(bucket[u]) /\ G = Len(granted[u])
  BY <1>0
<1>b. PICK L \in Nat : L = Len(live)
  <2>1. Len(live) \in Nat
    BY <1>1, LenProperties
  <2> QED BY <2>1
<1>3. /\ k \in 0 .. B /\ L = B - k /\ G - B >= 0
      /\ was = G - B /\ gone = G - L
      /\ G - L = (G - B) + k /\ G - L \in 0 .. G
  <2>1. k \in 0 .. B /\ L = B - k /\ G - B >= 0 /\ was = G - B /\ gone = G - L
    BY <1>1, <1>2, <1>a, <1>b
  <2> QED BY <2>1
<1>4. ASSUME NEW i \in 1 .. L
      PROVE  live[i] = granted[u][(G - L) + i]
  <2>1. k + i \in 1 .. B /\ (G - B) + (k + i) = (G - L) + i
    BY <1>3
  <2>2. live[i] = bucket[u][k + i]
    BY <1>1, <1>b
  <2>3. bucket[u][k + i] = granted[u][(G - B) + (k + i)]
    BY <1>2, <1>3, <1>a, <2>1
  <2> QED BY <2>1, <2>2, <2>3
<1>5. ASSUME NEW i \in 1 .. (G - L)
      PROVE  granted[u][i] < cutoff
  <2>1. CASE i <= G - B
    BY <1>2, <1>3, <2>1 DEF cutoff
  <2>2. CASE i > G - B
    <3>1. i - (G - B) \in 1 .. k /\ i - (G - B) \in 1 .. B /\ (G - B) + (i - (G - B)) = i
      BY <2>2, <1>3
    <3>2. bucket[u][i - (G - B)] < cutoff
      BY <3>1, <1>1
    <3>3. bucket[u][i - (G - B)] = granted[u][(G - B) + (i - (G - B))]
      BY <3>1, <1>2, <1>3, <1>a
    <3> QED BY <3>1, <3>2, <3>3
  <2> QED BY <2>1, <2>2, <1>3
<1>6. ASSUME NEW i \in (G - L) + 1 .. G
      PROVE  granted[u][i] >= cutoff
  <2>1. /\ 1 \in 1 .. L /\ L > 0 /\ (G - L) + 1 \in 1 .. G
        /\ i \in 1 .. G /\ (G - L) + 1 <= i
    BY <1>3
  <2>2. live[1] = granted[u][(G - L) + 1] /\ live[1] >= cutoff
    BY <2>1, <1>4, <1>1, <1>b
  <2>3. granted[u][(G - L) + 1] <= granted[u][i]
    BY <2>1, <1>2, <1>a
  <2>4. granted[u][(G - L) + 1] \in Int /\ granted[u][i] \in Int
    BY <2>1, <1>0, <1>a
  <2> QED BY <2>2, <2>3, <2>4, <1>0
<1>7. L = B => live = bucket[u]
  <2> SUFFICES ASSUME L = B PROVE live = bucket[u]
    OBVIOUS
  <2>1. k = 0
    BY <1>3
  <2>2. \A i \in 1 .. Len(live) : live[i] = bucket[u][i]
    BY <2>1, <1>1
  <2>3. Len(live) = Len(bucket[u])
    BY <1>a, <1>b
  <2> QED BY <2>2, <2>3, <1>0, <1>1, SeqEqual
<1>8. L <= Capacity
  BY <1>2, <1>3, <1>a, CapacityAssumption
<1> QED BY <1>1, <1>3, <1>4, <1>5, <1>6, <1>7, <1>8, <1>a, <1>b DEF live, cutoff

(* A granted call: the new grant has at most Capacity - 1 others in its    *)
(* window, so the one Capacity places before it is older than the window.  *)
LEMMA GrantedIInv ==
  ASSUME IInv, NEW u \in Users, AcquireGranted(u)
  PROVE  IInv'
<1> DEFINE live == Purge(bucket[u], now - Window)
<1>0. /\ TypeOK /\ now \in Nat
      /\ bucket' = [bucket EXCEPT ![u] = Append(live, now)]
      /\ granted' = [granted EXCEPT ![u] = Append(granted[u], now)]
      /\ reply' = [reply EXCEPT ![u] = "granted"]
      /\ UNCHANGED <<now, notBefore>>
      /\ ~ (Len(live) >= Capacity)
  BY MaxTimeAssumption DEF IInv, AcquireGranted, Full, TypeOK
<1>a. PICK G \in Nat : G = Len(granted[u])
  BY <1>0, UserTypes
<1>b. PICK L \in Nat : L = Len(live)
  BY LiveFacts
<1>1. /\ live \in Seq(0 .. now)
      /\ G - L \in 0 .. G /\ L < Capacity
      /\ \A i \in 1 .. L : live[i] = granted[u][(G - L) + i]
      /\ \A i \in 1 .. (G - L) : granted[u][i] < now - Window
  <2> HIDE DEF live
  <2>1. L < Capacity
    BY <1>0, <1>b, CapacityAssumption
  <2> QED BY LiveFacts, <1>a, <1>b, <2>1 DEF live
<1> HIDE DEF live
<1>2. /\ granted[u] \in Seq(0 .. now)
      /\ \A i \in 1 .. G : granted[u][i] \in 0 .. now
      /\ \A i, j \in 1 .. G : i <= j => granted[u][i] <= granted[u][j]
      /\ \A i \in 1 .. G : i + Capacity \in 1 .. G =>
           granted[u][i + Capacity] - granted[u][i] > Window
  BY <1>0, <1>a, UserTypes DEF IInv, Bookkeeping, WindowBound
<1>3. /\ granted'[u] = Append(granted[u], now) /\ granted'[u] \in Seq(0 .. now)
      /\ Len(granted'[u]) = G + 1 /\ DOMAIN granted'[u] = 1 .. G + 1
      /\ \A i \in 1 .. G : granted'[u][i] = granted[u][i]
      /\ granted'[u][G + 1] = now
  <2>1. granted'[u] = Append(granted[u], now)
    BY <1>0 DEF TypeOK
  <2>2. now \in 0 .. now
    BY <1>0
  <2> QED BY <2>1, <2>2, <1>2, <1>a, AppendProperties
<1>4. /\ bucket'[u] = Append(live, now) /\ bucket'[u] \in Seq(0 .. now)
      /\ Len(bucket'[u]) = L + 1 /\ DOMAIN bucket'[u] = 1 .. L + 1
      /\ \A i \in 1 .. L : bucket'[u][i] = live[i]
      /\ bucket'[u][L + 1] = now
  <2>1. bucket'[u] = Append(live, now)
    BY <1>0 DEF TypeOK
  <2>2. now \in 0 .. now
    BY <1>0
  <2> QED BY <2>1, <2>2, <1>1, <1>b, AppendProperties
<1>5. \A v \in Users \ {u} : /\ bucket'[v] = bucket[v]
                             /\ granted'[v] = granted[v]
                             /\ reply'[v] = reply[v]
  BY <1>0 DEF TypeOK
<1>6. TypeOK'
  BY <1>0, <1>3, <1>4 DEF TypeOK
<1>7. BucketIsRecentGrants'
  <2> SUFFICES ASSUME NEW v \in Users
               PROVE  (LET gone == Len(granted[v]) - Len(bucket[v]) IN
                         /\ gone >= 0
                         /\ \A i \in DOMAIN bucket[v] :
                              bucket[v][i] = granted[v][gone + i]
                         /\ \A i \in 1 .. gone : granted[v][i] < now - Window)'
    BY DEF BucketIsRecentGrants
  <2>1. CASE v # u
    BY <1>0, <1>5, <2>1 DEF IInv, BucketIsRecentGrants
  <2>2. CASE v = u
    <3>1. (G + 1) - (L + 1) = G - L /\ G - L >= 0
      BY <1>1
    <3>2. ASSUME NEW i \in 1 .. L + 1
          PROVE  bucket'[u][i] = granted'[u][(G - L) + i]
      <4>1. CASE i <= L
        <5>1. i \in 1 .. L /\ (G - L) + i \in 1 .. G
          BY <4>1, <1>1
        <5>2. bucket'[u][i] = live[i]
          BY <5>1, <1>4
        <5>3. live[i] = granted[u][(G - L) + i]
          BY <5>1, <1>1
        <5>4. granted'[u][(G - L) + i] = granted[u][(G - L) + i]
          BY <5>1, <1>3
        <5> QED BY <5>2, <5>3, <5>4
      <4>2. CASE i = L + 1
        <5>1. (G - L) + i = G + 1
          BY <4>2, <1>1
        <5> QED BY <5>1, <4>2, <1>3, <1>4
      <4> QED BY <4>1, <4>2
    <3>3. \A i \in 1 .. (G - L) : granted'[u][i] < now - Window
      BY <1>1, <1>3
    <3>4. Len(granted'[u]) - Len(bucket'[u]) = G - L
      BY <3>1, <1>3, <1>4
    <3>5. /\ Len(granted'[u]) - Len(bucket'[u]) >= 0
          /\ \A i \in DOMAIN bucket'[u] :
               bucket'[u][i] = granted'[u][(Len(granted'[u]) - Len(bucket'[u])) + i]
          /\ \A i \in 1 .. (Len(granted'[u]) - Len(bucket'[u])) :
               granted'[u][i] < now' - Window
      BY <3>1, <3>2, <3>3, <3>4, <1>0, <1>4
    <3> QED BY <2>2, <3>5
  <2> QED BY <2>1, <2>2
<1>8. Bookkeeping'
  <2> SUFFICES ASSUME NEW v \in Users
               PROVE  (/\ Len(bucket[v]) <= Capacity
                       /\ \A i, j \in DOMAIN granted[v] :
                            i <= j => granted[v][i] <= granted[v][j]
                       /\ reply[v] = "refused" =>
                            /\ Len(bucket[v]) = Capacity
                            /\ notBefore[v] = bucket[v][1] + Window)'
    BY DEF Bookkeeping
  <2>1. CASE v # u
    BY <1>0, <1>5, <2>1 DEF IInv, Bookkeeping
  <2>2. CASE v = u
    <3>1. L + 1 <= Capacity
      BY <1>1, CapacityAssumption
    <3>2. ASSUME NEW i \in 1 .. G + 1, NEW j \in 1 .. G + 1, i <= j
          PROVE  granted'[u][i] <= granted'[u][j]
      <4>1. CASE j <= G
        BY <4>1, <3>2, <1>2, <1>3
      <4>2. CASE j = G + 1 /\ i <= G
        BY <4>2, <1>2, <1>3, <1>0
      <4>3. CASE j = G + 1 /\ i = G + 1
        BY <4>3, <1>3, <1>0
      <4> QED BY <4>1, <4>2, <4>3, <3>2
    <3>3. reply'[u] = "granted"
      BY <1>0 DEF TypeOK
    <3> QED BY <2>2, <3>1, <3>2, <3>3, <1>3, <1>4
  <2> QED BY <2>1, <2>2
<1>9. WindowBound'
  <2> SUFFICES ASSUME NEW v \in Users
               PROVE  (\A i \in DOMAIN granted[v] :
                         i + Capacity \in DOMAIN granted[v] =>
                           granted[v][i + Capacity] - granted[v][i] > Window)'
    BY DEF WindowBound
  <2>1. CASE v # u
    BY <1>5, <2>1 DEF IInv, WindowBound
  <2>2. CASE v = u
    <3> SUFFICES ASSUME NEW i \in 1 .. G + 1, i + Capacity \in 1 .. G + 1
                 PROVE  granted'[u][i + Capacity] - granted'[u][i] > Window
      BY <2>2, <1>3
    <3>1. CASE i + Capacity <= G
      <4>1. i \in 1 .. G /\ i + Capacity \in 1 .. G
        BY <3>1, CapacityAssumption
      <4> QED BY <4>1, <1>2, <1>3
    <3>2. CASE i + Capacity = G + 1
      <4>1. i \in 1 .. (G - L) /\ i \in 1 .. G
        BY <3>2, <1>1, CapacityAssumption
      <4>2. granted[u][i] < now - Window /\ granted'[u][i] = granted[u][i]
        BY <4>1, <1>1, <1>3
      <4>3. granted'[u][i + Capacity] = now
        BY <3>2, <1>3
      <4> QED BY <4>1, <4>2, <4>3, <1>2, <1>0, WindowAssumption
    <3> QED BY <3>1, <3>2, CapacityAssumption
  <2> QED BY <2>1, <2>2
<1> QED BY <1>6, <1>7, <1>8, <1>9 DEF IInv

(* A refused call: the bucket is full with the grants of the window, and   *)
(* the oldest of them tells when the next call can succeed.                *)
LEMMA RefusedIInv ==
  ASSUME IInv, NEW u \in Users, AcquireRefused(u)
  PROVE  IInv'
<1> DEFINE live == Purge(bucket[u], now - Window)
<1>0. /\ TypeOK /\ now \in Nat
      /\ bucket' = [bucket EXCEPT ![u] = live]
      /\ reply' = [reply EXCEPT ![u] = "refused"]
      /\ notBefore' = [notBefore EXCEPT ![u] = now + RetryAfter(live)]
      /\ UNCHANGED <<now, granted>>
      /\ Len(live) >= Capacity
  BY MaxTimeAssumption DEF IInv, AcquireRefused, Full, TypeOK
<1>a. PICK G \in Nat : G = Len(granted[u])
  BY <1>0, UserTypes
<1>b. PICK L \in Nat : L = Len(live)
  BY LiveFacts
<1>c. L = Capacity
  <2>1. Len(live) <= Capacity
    BY LiveFacts
  <2> HIDE DEF live
  <2> QED BY <1>0, <1>b, <2>1, CapacityAssumption
<1>1. /\ live \in Seq(0 .. now)
      /\ G - L \in 0 .. G
      /\ \A i \in 1 .. L : live[i] = granted[u][(G - L) + i]
      /\ \A i \in 1 .. (G - L) : granted[u][i] < now - Window
      /\ \A i \in (G - L) + 1 .. G : granted[u][i] >= now - Window
  <2> HIDE DEF live
  <2> QED BY LiveFacts, <1>a, <1>b DEF live
<1> HIDE DEF live
<1>2. live[1] \in 0 .. now /\ live[1] >= now - Window
  <2>1. 1 \in 1 .. L /\ (G - L) + 1 \in (G - L) + 1 .. G
    BY <1>1, <1>c, CapacityAssumption
  <2>2. live[1] \in 0 .. now
    BY <2>1, <1>1, <1>b, ElementOfSeq
  <2> QED BY <2>1, <2>2, <1>1
<1>3. RetryAfter(live) = Window - (now - live[1]) /\ now + RetryAfter(live) = live[1] + Window
  BY <1>0, <1>2, WindowAssumption DEF RetryAfter
<1>4. /\ bucket'[u] = live /\ reply'[u] = "refused"
      /\ notBefore'[u] = live[1] + Window
  BY <1>0, <1>3 DEF TypeOK
<1>5. \A v \in Users \ {u} : /\ bucket'[v] = bucket[v] /\ reply'[v] = reply[v]
                             /\ notBefore'[v] = notBefore[v]
  BY <1>0 DEF TypeOK
<1>6. TypeOK'
  <2>1. now + RetryAfter(live) \in Nat
    BY <1>2, <1>3, WindowAssumption
  <2> QED BY <2>1, <1>0, <1>1 DEF TypeOK
<1>7. BucketIsRecentGrants'
  <2> SUFFICES ASSUME NEW v \in Users
               PROVE  (LET gone == Len(granted[v]) - Len(bucket[v]) IN
                         /\ gone >= 0
                         /\ \A i \in DOMAIN bucket[v] :
                              bucket[v][i] = granted[v][gone + i]
                         /\ \A i \in 1 .. gone : granted[v][i] < now - Window)'
    BY DEF BucketIsRecentGrants
  <2>1. CASE v # u
    BY <1>0, <1>5, <2>1 DEF IInv, BucketIsRecentGrants
  <2>2. CASE v = u
    <3>1. Len(granted'[u]) - Len(bucket'[u]) = G - L /\ DOMAIN bucket'[u] = 1 .. L
      <4>1. granted'[u] = granted[u] /\ bucket'[u] = live
        BY <1>0, <1>4
      <4>2. DOMAIN live = 1 .. L
        BY <1>1, <1>b, LenProperties
      <4> QED BY <4>1, <4>2, <1>a, <1>b
    <3>2. /\ Len(granted'[u]) - Len(bucket'[u]) >= 0
          /\ \A i \in DOMAIN bucket'[u] :
               bucket'[u][i] = granted'[u][(Len(granted'[u]) - Len(bucket'[u])) + i]
          /\ \A i \in 1 .. (Len(granted'[u]) - Len(bucket'[u])) :
               granted'[u][i] < now' - Window
      <4> DEFINE d == Len(granted'[u]) - Len(bucket'[u])
      <4>1. d = G - L
        BY <3>1
      <4> HIDE DEF d
      <4>2. d >= 0
        BY <4>1, <1>1
      <4>3. \A i \in DOMAIN bucket'[u] : bucket'[u][i] = granted'[u][d + i]
        BY <3>1, <4>1, <1>0, <1>1, <1>4
      <4>4. \A i \in 1 .. d : granted'[u][i] < now' - Window
        BY <4>1, <1>0, <1>1
      <4> QED BY <4>2, <4>3, <4>4 DEF d
    <3> QED BY <2>2, <3>2
  <2> QED BY <2>1, <2>2
<1>8. Bookkeeping'
  <2> SUFFICES ASSUME NEW v \in Users
               PROVE  (/\ Len(bucket[v]) <= Capacity
                       /\ \A i, j \in DOMAIN granted[v] :
                            i <= j => granted[v][i] <= granted[v][j]
                       /\ reply[v] = "refused" =>
                            /\ Len(bucket[v]) = Capacity
                            /\ notBefore[v] = bucket[v][1] + Window)'
    BY DEF Bookkeeping
  <2>1. CASE v # u
    BY <1>0, <1>5, <2>1 DEF IInv, Bookkeeping
  <2>2. CASE v = u
    BY <2>2, <1>0, <1>c, <1>4, <1>b, CapacityAssumption DEF IInv, Bookkeeping
  <2> QED BY <2>1, <2>2
<1>9. WindowBound'
  BY <1>0 DEF IInv, WindowBound
<1> QED BY <1>6, <1>7, <1>8, <1>9 DEF IInv

----------------------------------------------------------------------------

LEMMA StepIInv == IInv /\ [Next]_vars => IInv'
<1> SUFFICES ASSUME IInv, [Next]_vars PROVE IInv'
  OBVIOUS
<1>1. CASE Tick
  BY <1>1, TickIInv
<1>2. ASSUME NEW u \in Users, Acquire(u)
      PROVE  IInv'
  BY <1>2, GrantedIInv, RefusedIInv DEF Acquire
<1>3. CASE UNCHANGED vars
  BY <1>3 DEF vars, IInv, TypeOK, BucketIsRecentGrants, Bookkeeping, WindowBound
<1> QED BY <1>1, <1>2, <1>3 DEF Next

(* The inductive invariant: the deque is the tail of the grants, so what   *)
(* acquire decides on it is decided on the whole history.                  *)
THEOREM Invariance == Spec => []IInv
<1>1. Init => IInv
  BY InitIInv
<1>2. IInv /\ [Next]_vars => IInv'
  BY StepIInv
<1> QED BY <1>1, <1>2, PTL DEF Spec

(* Deques, grants, replies and the clock stay well formed.                 *)
THEOREM Types == Spec => []TypeOK
<1>1. IInv => TypeOK
  BY DEF IInv
<1> QED BY <1>1, Invariance, PTL

(* The deque is the tail of the grants: however acquire and the purges     *)
(* trim it, no grant that may still count is forgotten.                    *)
THEOREM NoGrantForgotten == Spec => []BucketIsRecentGrants
<1>1. IInv => BucketIsRecentGrants
  BY DEF IInv
<1> QED BY <1>1, Invariance, PTL

(* acquire never lets more than Capacity calls of a user through in any    *)
(* closed window, for every capacity, window and set of users.             *)
THEOREM BurstLimitHolds == Spec => []WindowBound
<1>1. IInv => WindowBound
  BY DEF IInv
<1> QED BY <1>1, Invariance, PTL

(* retry_after is exact: refused until then, granted after.                *)
THEOREM RetryAfterIsExact == Spec => []RetryAfterExact
<1>1. IInv => RetryAfterExact
  <2> SUFFICES ASSUME IInv, NEW u \in Users, reply[u] = "refused"
               PROVE  Full(Purge(bucket[u], now - Window)) <=> now <= notBefore[u]
    BY DEF RetryAfterExact
  <2> DEFINE live == Purge(bucket[u], now - Window)
  <2>0. /\ TypeOK /\ now \in Nat /\ Len(bucket[u]) = Capacity
        /\ notBefore[u] = bucket[u][1] + Window
    BY MaxTimeAssumption DEF IInv, Bookkeeping, TypeOK
  <2>a. PICK G \in Nat : G = Len(granted[u])
    BY <2>0, UserTypes
  <2>b. PICK L \in Nat : L = Len(live)
    BY LiveFacts
  <2>1. /\ G - L \in 0 .. G /\ L <= Capacity
        /\ \A i \in 1 .. (G - L) : granted[u][i] < now - Window
        /\ \A i \in (G - L) + 1 .. G : granted[u][i] >= now - Window
    <3> HIDE DEF live
    <3> QED BY LiveFacts, <2>a, <2>b DEF live
  <2>2. /\ G - Capacity >= 0
        /\ bucket[u][1] = granted[u][(G - Capacity) + 1]
        /\ bucket[u][1] \in 0 .. now
    <3>1. 1 \in DOMAIN bucket[u]
      BY <2>0, UserTypes, CapacityAssumption
    <3>2. bucket[u][1] \in 0 .. now
      BY <3>1, <2>0, UserTypes
    <3> QED BY <2>0, <2>a, <3>1, <3>2 DEF IInv, BucketIsRecentGrants
  <2>3. CASE L = Capacity
    <3>1. (G - Capacity) + 1 \in (G - L) + 1 .. G
      BY <2>1, <2>2, <2>3, CapacityAssumption
    <3>2. bucket[u][1] >= now - Window
      BY <3>1, <2>1, <2>2
    <3>3. now <= notBefore[u]
      BY <3>2, <2>0, <2>2, WindowAssumption
    <3> QED BY <3>3, <2>3, <2>b, CapacityAssumption DEF Full
  <2>4. CASE L < Capacity
    <3>1. (G - Capacity) + 1 \in 1 .. (G - L)
      BY <2>1, <2>2, <2>4, CapacityAssumption
    <3>2. bucket[u][1] < now - Window
      BY <3>1, <2>1, <2>2
    <3>3. ~ (now <= notBefore[u])
      BY <3>2, <2>0, <2>2, WindowAssumption
    <3> QED BY <3>3, <2>4, <2>b, CapacityAssumption DEF Full
  <2> QED BY <2>1, <2>3, <2>4, CapacityAssumption
<1> QED BY <1>1, Invariance, PTL

(* The number of grants in the window is the number of elements acquire    *)
(* finds in the deque after its purge.                                     *)
LEMMA LiveCountsWindow ==
  ASSUME IInv, NEW u \in Users
  PROVE  Cardinality(Abstract!InWindow(u, now)) = Len(Purge(bucket[u], now - Window))
<1> DEFINE live == Purge(bucket[u], now - Window)
<1>0. TypeOK /\ now \in Nat
  BY MaxTimeAssumption DEF IInv, TypeOK
<1>a. PICK G \in Nat : G = Len(granted[u]) /\ DOMAIN granted[u] = 1 .. G
  BY <1>0, UserTypes
<1>b. PICK L \in Nat : L = Len(live)
  BY LiveFacts
<1>1. /\ G - L \in 0 .. G
      /\ \A i \in 1 .. (G - L) : granted[u][i] < now - Window
      /\ \A i \in (G - L) + 1 .. G : granted[u][i] >= now - Window
  <2> HIDE DEF live
  <2> QED BY LiveFacts, <1>a, <1>b DEF live
<1>2. \A i \in 1 .. G : granted[u][i] \in Int
  BY <1>0, <1>a, UserTypes
<1>3. Abstract!InWindow(u, now) = (G - L) + 1 .. G
  <2>1. Abstract!InWindow(u, now) = {i \in 1 .. G : granted[u][i] >= now - Window}
    BY <1>a DEF Abstract!InWindow
  <2>2. ASSUME NEW i \in 1 .. G
        PROVE  granted[u][i] >= now - Window <=> i \in (G - L) + 1 .. G
    <3>1. CASE i \in 1 .. (G - L)
      BY <3>1, <1>0, <1>1, <1>2, WindowAssumption
    <3>2. CASE i \in (G - L) + 1 .. G
      BY <3>2, <1>1
    <3> QED BY <3>1, <3>2, <1>1
  <2>3. (G - L) + 1 .. G \subseteq 1 .. G
    BY <1>1
  <2> QED BY <2>1, <2>2, <2>3
<1>4. Cardinality((G - L) + 1 .. G) = L
  <2>1. (G - L) + 1 \in Int /\ G \in Int
    BY <1>1
  <2>2. Cardinality((G - L) + 1 .. G)
          = IF (G - L) + 1 > G THEN 0 ELSE G - ((G - L) + 1) + 1
    BY <2>1, FS_Interval
  <2> QED BY <2>2, <1>1
<1> QED BY <1>3, <1>4, <1>b

(* RateLimiter implements SlidingWindow: every grant and every refusal is  *)
(* the one the number of grants in the window calls for.                   *)
THEOREM Refinement == Spec => ImplementsSlidingWindow
<1>1. Init => Abstract!AbsInit
  BY DEF Init, Abstract!AbsInit
<1>2. IInv /\ [Next]_vars => [Abstract!AbsNext]_(Abstract!absVars)
  <2> SUFFICES ASSUME IInv, [Next]_vars
               PROVE  Abstract!AbsNext \/ UNCHANGED Abstract!absVars
    OBVIOUS
  <2>1. CASE Tick
    BY <2>1 DEF Tick, Abstract!AbsNext, Abstract!AbsTick
  <2>2. ASSUME NEW u \in Users, AcquireGranted(u)
        PROVE  Abstract!AbsNext
    <3>1. Cardinality(Abstract!InWindow(u, now)) < Capacity
      <4>1. Len(Purge(bucket[u], now - Window)) \in Nat
        BY LiveFacts
      <4> QED BY <2>2, <4>1, LiveCountsWindow, CapacityAssumption DEF AcquireGranted, Full
    <3>2. Abstract!Grant(u)
      <4>1. Abstract!Cardinality(Abstract!InWindow(u, now))
              = Cardinality(Abstract!InWindow(u, now))
        BY DEF Abstract!Cardinality, Cardinality
      <4> QED BY <2>2, <3>1, <4>1 DEF AcquireGranted, Abstract!Grant
    <3> QED BY <3>2 DEF Abstract!AbsNext
  <2>3. ASSUME NEW u \in Users, AcquireRefused(u)
        PROVE  Abstract!AbsNext
    <3>1. Cardinality(Abstract!InWindow(u, now)) >= Capacity
      BY <2>3, LiveCountsWindow DEF AcquireRefused, Full
    <3>2. Abstract!Refuse(u)
      <4>1. Abstract!Cardinality(Abstract!InWindow(u, now))
              = Cardinality(Abstract!InWindow(u, now))
        BY DEF Abstract!Cardinality, Cardinality
      <4> QED BY <2>3, <3>1, <4>1 DEF AcquireRefused, Abstract!Refuse
    <3> QED BY <3>2 DEF Abstract!AbsNext
  <2>4. CASE UNCHANGED vars
    BY <2>4 DEF vars, Abstract!absVars
  <2> QED BY <2>1, <2>2, <2>3, <2>4 DEF Next, Acquire
<1> QED BY <1>1, <1>2, Invariance, PTL DEF Spec, ImplementsSlidingWindow, Abstract!AbsSpec
=============================================================================
