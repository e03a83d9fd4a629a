--------------------------- MODULE PipelineProofs ---------------------------
(***************************************************************************)
(* Proofs about Pipeline, for any number of databases and requests, every  *)
(* size of the cache and all lifetimes: both invariants of its run, and    *)
(* that it implements BoundedStaleness.  That every request ends is        *)
(* liveness, and stays with TLC.                                           *)
(***************************************************************************)
EXTENDS Pipeline, FiniteSetTheorems, TLAPS

\* An entry of the factory's cache or of the result cache.
CacheEntry == [db : Databases, expires : Nat \ {0}]

\* What request[r] may be: without a configuration, or with one.
Idle == [pc : {"new", "done"}]
Busy == [pc : {"wait", "build", "use"}, db : Databases, since : Nat]

\* The configuration of x was current ConfigAge before its arrival, which is
\* at most MaxRequest ago.
Timely(x) ==
  /\ x.since <= now /\ now <= x.since + MaxRequest
  /\ x.since - lastCurrent[x.db] <= ConfigAge

One(condition) == IF condition THEN 1 ELSE 0

(* The clock, and when each database was last the user's.                  *)
ClockOK ==
  /\ now \in 0 .. MaxTime /\ database \in Databases
  /\ lastCurrent \in [Databases -> Int] /\ lastCurrent[database] = now
  /\ \A d \in Databases : lastCurrent[d] <= now

RequestsOK ==
  /\ request \in [Requests -> Idle \union Busy]
  /\ \A r \in Requests : Active(r) => Timely(request[r])

(* An answer that is kept was given within a request that was timely.      *)
ResultOK ==
  /\ result \in CacheEntry \union {NoEntry}
  /\ result # NoEntry =>
       /\ result.expires <= now + ResultTTL
       /\ result.expires - lastCurrent[result.db] <= ConfigAge + MaxRequest + ResultTTL

(* The cache holds finitely many entries, each under its own key.          *)
CacheOK ==
  /\ pipeline \in [Databases -> CacheEntry \union {NoEntry}]
  /\ \A k \in Entries : pipeline[k].db = k /\ pipeline[k].expires <= now + PipelineTTL
  /\ IsFiniteSet(Entries) /\ Cardinality(Entries) <= CacheSize

(* A lock is held by the request that builds under its key, and while it   *)
(* builds nobody else puts a pipeline there.                               *)
LocksOK ==
  /\ holder \in [Databases -> Requests \union {Free}]
  /\ \A k \in Databases : holder[k] # Free =>
       /\ At(holder[k], "build") /\ request[holder[k]].db = k
       /\ ~Fresh(pipeline[k])
  /\ \A r \in Requests : At(r, "build") => holder[request[r].db] = r

(* One engine for an entry, and one for a build, besides the leaked ones.  *)
EnginesOK ==
  /\ open \in [Databases -> Nat] /\ leaked \in [Databases -> Nat]
  /\ \A d \in Databases : open[d] = One(d \in Entries) + One(holder[d] # Free) + leaked[d]

Inv == ClockOK /\ RequestsOK /\ ResultOK /\ CacheOK /\ LocksOK /\ EnginesOK

----------------------------------------------------------------------------
(* Facts about the operators.                                              *)

(* An entry is not NoEntry.                                                *)
LEMMA EntryExists ==
  ASSUME NEW e \in CacheEntry
  PROVE  e # NoEntry /\ e.db \in Databases /\ e.expires \in Nat \ {0}
<1>1. e.db \in Databases /\ e.expires \in Nat \ {0}
  BY DEF CacheEntry
<1>2. NoEntry.expires = 0
  BY DEF NoEntry
<1> QED BY <1>1, <1>2

(* A request that is neither new nor done has a configuration.             *)
LEMMA RequestKinds ==
  ASSUME NEW x \in Idle \union Busy
  PROVE  /\ x.pc \in {"new", "done", "wait", "build", "use"}
         /\ x.pc \notin {"new", "done"} => x.db \in Databases /\ x.since \in Nat
BY DEF Idle, Busy

(* The keys of a set of entries are their databases, so of each database   *)
(* there is one at most.                                                   *)
LEMMA HeldCount ==
  ASSUME CacheOK, NEW K \in SUBSET Entries, NEW d \in Databases
  PROVE  Held(K, d) = One(d \in K)
<1>1. {k \in K : pipeline[k].db = d} = IF d \in K THEN {d} ELSE {}
  BY DEF CacheOK, Entries
<1>2. Cardinality({d}) = 1 /\ Cardinality({}) = 0
  BY FS_Singleton, FS_EmptySet
<1> QED BY <1>1, <1>2 DEF Held, One

(* An entry that is there now and fresh is one of FreshKeys.               *)
LEMMA FreshIsEntry ==
  ASSUME ClockOK, CacheOK, NEW k \in Databases
  PROVE  /\ Fresh(pipeline[k]) => k \in FreshKeys
         /\ k \in FreshKeys => k \in Entries
         /\ Fresh(pipeline[k]) => pipeline[k].db = k /\ pipeline[k] # NoEntry
<1>1. ~Fresh(NoEntry)
  BY NumbersAssumption DEF ClockOK, Fresh, NoEntry
<1> QED BY <1>1 DEF CacheOK, FreshKeys, Entries

(* At an unchanged clock, a database that remains current has been so      *)
(* already.                                                                *)
LEMMA RememberSame ==
  ASSUME ClockOK, Remember, UNCHANGED <<now, database>>
  PROVE  ClockOK' /\ lastCurrent' = lastCurrent
<1>1. \A d \in Databases : lastCurrent'[d] = lastCurrent[d]
  BY DEF ClockOK, Remember
<1>2. lastCurrent' \in [Databases -> Int]
  BY DEF ClockOK, Remember
<1> QED BY <1>1, <1>2 DEF ClockOK

(* Whatever happens to the clock and to the account, lastCurrent grows.    *)
LEMMA RememberGrows ==
  ASSUME ClockOK, Remember, now' \in {now, now + 1}, now' \in 0 .. MaxTime, database' \in Databases
  PROVE  ClockOK' /\ \A d \in Databases : lastCurrent'[d] >= lastCurrent[d]
<1>1. now \in Int /\ now' \in Int
  BY NumbersAssumption DEF ClockOK
<1>2. lastCurrent' \in [Databases -> Int]
  BY <1>1 DEF ClockOK, Remember
<1> QED BY <1>1, <1>2 DEF ClockOK, Remember

(* A smaller set of entries is still finite and within the size.           *)
LEMMA FewerEntries ==
  ASSUME CacheOK, NEW K, K \subseteq Entries
  PROVE  IsFiniteSet(K) /\ Cardinality(K) <= CacheSize /\ Cardinality(K) \in Nat
<1>1. /\ IsFiniteSet(Entries) /\ Cardinality(Entries) <= CacheSize /\ CacheSize \in Nat
  BY NumbersAssumption DEF CacheOK
<1>2. IsFiniteSet(K) /\ Cardinality(K) <= Cardinality(Entries)
  BY <1>1, FS_Subset
<1>3. Cardinality(K) \in Nat /\ Cardinality(Entries) \in Nat
  BY <1>1, <1>2, FS_CardinalityType
<1> QED BY <1>1, <1>2, <1>3

----------------------------------------------------------------------------
(* Steps of a request.                                                     *)

(* The other requests do not notice: the clock stands still.               *)
LEMMA RequestMoves ==
  ASSUME Inv, NEW r \in Requests, NEW x \in Idle \union Busy,
         request' = [request EXCEPT ![r] = x], x.pc \notin {"new", "done"} => Timely(x),
         UNCHANGED context, Remember
  PROVE  /\ ClockOK' /\ RequestsOK' /\ lastCurrent' = lastCurrent
         /\ \A s \in Requests : request'[s] = IF s = r THEN x ELSE request[s]
<1>1. ClockOK' /\ lastCurrent' = lastCurrent /\ now' = now
  BY RememberSame DEF Inv, context
<1>2. \A s \in Requests : request'[s] = IF s = r THEN x ELSE request[s]
  BY DEF Inv, RequestsOK
<1>3. request' \in [Requests -> Idle \union Busy]
  BY DEF Inv, RequestsOK
<1>4. \A s \in Requests : Active(s)' => Timely(request[s])'
  BY <1>1, <1>2 DEF Inv, RequestsOK, Active, At, Timely
<1> QED BY <1>1, <1>2, <1>3, <1>4 DEF RequestsOK

(* A step that concerns neither the factory's cache nor its locks.         *)
LEMMA RequestOnly ==
  ASSUME Inv, NEW r \in Requests, NEW x \in Idle \union Busy,
         request' = [request EXCEPT ![r] = x], x.pc \notin {"new", "done"} => Timely(x),
         ~At(r, "build"), x.pc # "build",
         UNCHANGED <<context, pipeline, holder, engines>>, Remember,
         result' = result \/ (result' \in CacheEntry /\ result'.expires = now + ResultTTL
           /\ now - lastCurrent[result'.db] <= ConfigAge + MaxRequest)
  PROVE  Inv'
<1>1. /\ ClockOK' /\ RequestsOK' /\ lastCurrent' = lastCurrent /\ now' = now
      /\ \A s \in Requests : request'[s] = IF s = r THEN x ELSE request[s]
  BY RequestMoves DEF context
<1>2. ResultOK'
  <2>1. CASE result' = result
    BY <1>1, <2>1 DEF Inv, ResultOK
  <2>2. CASE result' \in CacheEntry /\ result'.expires = now + ResultTTL
               /\ now - lastCurrent[result'.db] <= ConfigAge + MaxRequest
    <3>1. /\ result'.db \in Databases /\ now \in Int /\ lastCurrent[result'.db] \in Int
          /\ {ResultTTL, ConfigAge, MaxRequest} \subseteq Int
      BY <2>2, EntryExists, NumbersAssumption DEF Inv, ClockOK
    <3> QED BY <1>1, <2>2, <3>1 DEF ResultOK
  <2> QED BY <2>1, <2>2
<1>3. CacheOK'
  BY <1>1 DEF Inv, CacheOK, Entries
<1>4. LocksOK'
  <2>1. \A k \in Databases : holder[k] # Free => holder[k] \in Requests /\ holder[k] # r
    BY DEF Inv, LocksOK
  <2> QED BY <1>1, <2>1 DEF Inv, LocksOK, At, Fresh
<1>5. EnginesOK'
  BY DEF Inv, EnginesOK, Entries, engines
<1> QED BY <1>1, <1>2, <1>3, <1>4, <1>5 DEF Inv

(* The two records that Goto and Finish leave.                             *)
LEMMA Records ==
  ASSUME NEW d \in Databases, NEW since \in Nat, NEW pc \in {"wait", "build", "use"}
  PROVE  /\ [pc |-> pc, db |-> d, since |-> since] \in Idle \union Busy
         /\ [pc |-> "done"] \in Idle \union Busy
BY DEF Idle, Busy

(* A request ends, and its answer may be kept.                             *)
LEMMA EndKeeps ==
  ASSUME Inv, NEW r \in Requests, ~At(r, "build"), Finish(r),
         UNCHANGED <<context, pipeline, holder, engines>>, Remember,
         result' = result \/ (result' \in CacheEntry /\ result'.expires = now + ResultTTL
           /\ now - lastCurrent[result'.db] <= ConfigAge + MaxRequest)
  PROVE  Inv'
<1>1. [pc |-> "done"] \in Idle \union Busy
  BY DEF Idle
<1> DEFINE x == [pc |-> "done"]
<1>2. x \in Idle \union Busy /\ x.pc = "done" /\ request' = [request EXCEPT ![r] = x]
  BY <1>1 DEF Finish
<1> HIDE DEF x
<1> QED BY <1>2, RequestOnly

(* A request goes on with its configuration.                               *)
LEMMA GotoKeeps ==
  ASSUME Inv, NEW r \in Requests, ~At(r, "build"), NEW pc \in {"wait", "use"},
         NEW d \in Databases, NEW since \in Nat, Goto(r, pc, d, since),
         since <= now, now <= since + MaxRequest, since - lastCurrent[d] <= ConfigAge,
         UNCHANGED <<context, pipeline, holder, engines, result>>, Remember
  PROVE  Inv'
<1> DEFINE x == [pc |-> pc, db |-> d, since |-> since]
<1>1. x \in Idle \union Busy /\ x.pc # "build" /\ Timely(x)
  BY Records DEF Timely
<1>2. request' = [request EXCEPT ![r] = x]
  BY DEF Goto
<1> HIDE DEF x
<1> QED BY <1>1, <1>2, RequestOnly

(* A request that has the components answers or goes on to the corrector.  *)
LEMMA ProceedKeeps ==
  ASSUME Inv, NEW r \in Requests, ~At(r, "build"),
         NEW d \in Databases, NEW since \in Nat, Proceed(r, d, since),
         since <= now, now <= since + MaxRequest, since - lastCurrent[d] <= ConfigAge,
         UNCHANGED <<context, pipeline, holder, engines, result>>, Remember
  PROVE  Inv'
BY EndKeeps, GotoKeeps DEF Proceed

(* A request that arrives is timely.                                       *)
LEMMA ArriveKeeps ==
  ASSUME Inv, NEW r \in Requests, Arrive(r)
  PROVE  Inv'
<1>1. PICK d \in Databases : \/ Replay(r, d) \/ ArriveHit(r, d)
                             \/ ArriveExpires(r, d) \/ ArriveMiss(r, d)
  BY DEF Arrive
<1>2. /\ now \in Nat /\ now <= now + MaxRequest /\ now - lastCurrent[d] <= ConfigAge
      /\ ~At(r, "build")
  BY <1>1, NumbersAssumption
  DEF Inv, ClockOK, Replay, ArriveHit, ArriveExpires, ArriveMiss, Arrives, At
<1>3. CASE Replay(r, d) \/ ArriveExpires(r, d)
  BY <1>2, <1>3, EndKeeps DEF Replay, ArriveExpires
<1>4. CASE ArriveHit(r, d)
  <2>1. pipeline[d].db = d
    BY <1>4, FreshIsEntry DEF ArriveHit, Inv, Key
  <2> QED BY <1>2, <1>4, <2>1, ProceedKeeps DEF ArriveHit, Key
<1>5. CASE ArriveMiss(r, d)
  BY <1>2, <1>5, GotoKeeps DEF ArriveMiss
<1> QED BY <1>1, <1>3, <1>4, <1>5

(* What is known of a request that is on its way.                          *)
LEMMA OnItsWay ==
  ASSUME Inv, NEW r \in Requests, ~At(r, "new"), ~At(r, "done")
  PROVE  /\ request[r].db \in Databases /\ request[r].since \in Nat
         /\ request[r].since <= now /\ now <= request[r].since + MaxRequest
         /\ request[r].since - lastCurrent[request[r].db] <= ConfigAge
BY RequestKinds DEF Inv, RequestsOK, Active, At, Timely

(* The lock is taken to look again, and given back.                        *)
LEMMA WaitKeeps ==
  ASSUME Inv, NEW r \in Requests,
         LockedHit(r) \/ LockedExpires(r) \/ LockedRefused(r) \/ Cancel(r)
  PROVE  Inv'
<1>1. ~At(r, "build") /\ ~At(r, "new") /\ ~At(r, "done")
  BY DEF LockedHit, LockedExpires, LockedRefused, Cancel, At
<1>2. CASE LockedHit(r)
  <2>1. pipeline[request[r].db].db = request[r].db
    BY <1>1, <1>2, OnItsWay, FreshIsEntry DEF LockedHit, Inv, Key
  <2> QED BY <1>1, <1>2, <2>1, OnItsWay, ProceedKeeps DEF LockedHit, Key
<1>3. CASE LockedExpires(r) \/ LockedRefused(r) \/ Cancel(r)
  BY <1>1, <1>3, EndKeeps DEF LockedExpires, LockedRefused, Cancel
<1> QED BY <1>2, <1>3

(* An answer is kept for ResultTTL.                                        *)
LEMMA UseKeeps ==
  ASSUME Inv, NEW r \in Requests, EndUse(r)
  PROVE  Inv'
<1>1. ~At(r, "build") /\ ~At(r, "new") /\ ~At(r, "done")
  BY DEF EndUse, Answer, AnswerFails, At
<1>2. CASE Answer(r)
  <2>1. /\ request[r].db \in Databases /\ now \in Nat
        /\ now - lastCurrent[request[r].db] <= ConfigAge + MaxRequest
    <3>1. /\ lastCurrent[request[r].db] \in Int /\ now \in Nat
          /\ MaxRequest \in Nat /\ ConfigAge \in Nat
      BY <1>1, OnItsWay, NumbersAssumption DEF Inv, ClockOK
    <3> QED BY <1>1, <3>1, OnItsWay
  <2>2. result' \in CacheEntry /\ result'.expires = now + ResultTTL /\ result'.db = request[r].db
    BY <1>2, <2>1, NumbersAssumption DEF Answer, CacheEntry
  <2> QED BY <1>1, <1>2, <2>1, <2>2, EndKeeps DEF Answer
<1>3. CASE AnswerFails(r)
  BY <1>1, <1>3, EndKeeps DEF AnswerFails
<1> QED BY <1>2, <1>3 DEF EndUse

----------------------------------------------------------------------------
(* The build of a pipeline.                                                *)

(* Who builds holds the lock of its key, which nobody else holds.          *)
LEMMA BuilderHoldsLock ==
  ASSUME Inv, NEW r \in Requests, At(r, "build")
  PROVE  /\ request[r].db \in Databases /\ holder[request[r].db] = r /\ r # Free
         /\ ~Fresh(pipeline[request[r].db])
         /\ \A k \in Databases : holder[k] = r => k = request[r].db
<1>1. request[r].db \in Databases
  BY RequestKinds DEF Inv, RequestsOK, At
<1>2. holder[request[r].db] = r /\ r # Free
  BY RequestsAssumption DEF Inv, LocksOK, Requests
<1> QED BY <1>1, <1>2 DEF Inv, LocksOK

(* A build begins under a free lock.                                       *)
LEMMA BuildKeeps ==
  ASSUME Inv, NEW r \in Requests, Build(r)
  PROVE  Inv'
<1> DEFINE d == request[r].db
           x == [pc |-> "build", db |-> d, since |-> request[r].since]
<1>1. /\ ~At(r, "build") /\ ~At(r, "new") /\ ~At(r, "done")
      /\ holder[d] = Free /\ ~Fresh(pipeline[d])
      /\ holder' = [holder EXCEPT ![d] = r] /\ request' = [request EXCEPT ![r] = x]
      /\ open' = [open EXCEPT ![d] = @ + 1]
      /\ UNCHANGED <<context, pipeline, result, leaked>> /\ Remember
  BY DEF Build, At, Key, Goto
<1>2. /\ d \in Databases /\ x \in Idle \union Busy /\ Timely(x)
      /\ x.pc = "build" /\ x.db = d
  BY <1>1, OnItsWay, Records DEF Timely
<1> HIDE DEF d, x
<1>3. /\ ClockOK' /\ RequestsOK' /\ lastCurrent' = lastCurrent /\ now' = now
      /\ \A s \in Requests : request'[s] = IF s = r THEN x ELSE request[s]
  BY <1>1, <1>2, RequestMoves DEF context
<1>4. ResultOK' /\ CacheOK'
  BY <1>1, <1>3 DEF Inv, ResultOK, CacheOK, Entries
<1>5. r # Free
  BY RequestsAssumption DEF Requests
<1>6. \A k \in Databases : holder'[k] = IF k = d THEN r ELSE holder[k]
  BY <1>1 DEF Inv, LocksOK
<1>7. LocksOK'
  <2>1. holder' \in [Databases -> Requests \union {Free}]
    BY <1>1 DEF Inv, LocksOK
  <2>2. \A k \in Databases : holder[k] # Free => holder[k] \in Requests /\ holder[k] # r
    BY <1>1 DEF Inv, LocksOK
  <2>3. \A k \in Databases : holder'[k] # Free =>
          /\ request'[holder'[k]].pc = "build" /\ request'[holder'[k]].db = k
          /\ ~(now' < pipeline'[k].expires)
    <3> SUFFICES ASSUME NEW k \in Databases, holder'[k] # Free
                 PROVE  /\ request'[holder'[k]].pc = "build" /\ request'[holder'[k]].db = k
                        /\ ~(now' < pipeline'[k].expires)
      OBVIOUS
    <3>1. CASE k = d
      BY <1>1, <1>2, <1>3, <1>6, <3>1 DEF Fresh
    <3>2. CASE k # d
      BY <1>1, <1>3, <1>6, <2>2, <3>2 DEF Inv, LocksOK, At, Fresh
    <3> QED BY <3>1, <3>2
  <2>4. \A s \in Requests : At(s, "build")' => holder'[request'[s].db] = s
    <3> SUFFICES ASSUME NEW s \in Requests, At(s, "build")' PROVE holder'[request'[s].db] = s
      OBVIOUS
    <3>1. CASE s = r
      BY <1>2, <1>3, <1>6, <3>1
    <3>2. CASE s # r
      <4>1. request'[s] = request[s] /\ At(s, "build")
        BY <1>3, <3>2 DEF At
      <4>2. request[s].db \in Databases /\ holder[request[s].db] = s /\ s # Free
        BY <4>1, BuilderHoldsLock
      <4>3. request[s].db # d
        BY <1>1, <4>2
      <4> QED BY <1>6, <4>1, <4>2, <4>3
    <3> QED BY <3>1, <3>2
  <2> QED BY <2>1, <2>3, <2>4 DEF LocksOK, At, Fresh
<1>8. EnginesOK'
  <2>1. \A k \in Databases : open'[k] = IF k = d THEN open[k] + 1 ELSE open[k]
    BY <1>1 DEF Inv, EnginesOK
  <2>2. open' \in [Databases -> Nat]
    BY <1>1, <1>2 DEF Inv, EnginesOK
  <2> QED BY <1>1, <1>2, <1>5, <1>6, <2>1, <2>2 DEF Inv, EnginesOK, One, Entries
<1> QED BY <1>3, <1>4, <1>7, <1>8 DEF Inv

(* The end of a build gives the lock back.                                 *)
LEMMA ReleaseKeeps ==
  ASSUME Inv, NEW r \in Requests, At(r, "build"), NEW x \in Idle \union Busy, x.pc # "build",
         request' = [request EXCEPT ![r] = x], x.pc \notin {"new", "done"} => Timely(x),
         Release(request[r].db), UNCHANGED context, Remember,
         \A k \in Databases : k # request[r].db => (Fresh(pipeline[k])' => Fresh(pipeline[k]))
  PROVE  /\ ClockOK' /\ RequestsOK' /\ LocksOK'
         /\ lastCurrent' = lastCurrent /\ now' = now
         /\ \A k \in Databases : holder'[k] = IF k = request[r].db THEN Free ELSE holder[k]
<1> DEFINE d == request[r].db
<1>1. /\ ClockOK' /\ RequestsOK' /\ lastCurrent' = lastCurrent /\ now' = now
      /\ \A s \in Requests : request'[s] = IF s = r THEN x ELSE request[s]
  BY RequestMoves DEF context
<1>2. /\ d \in Databases /\ holder[d] = r /\ r # Free
      /\ \A k \in Databases : holder[k] = r => k = d
  BY BuilderHoldsLock
<1>3. \A k \in Databases : holder'[k] = IF k = d THEN Free ELSE holder[k]
  BY DEF Inv, LocksOK, Release
<1>4. LocksOK'
  <2>1. holder' \in [Databases -> Requests \union {Free}]
    BY DEF Inv, LocksOK, Release
  <2>2. \A k \in Databases : holder'[k] # Free =>
          /\ request'[holder'[k]].pc = "build" /\ request'[holder'[k]].db = k
          /\ ~Fresh(pipeline[k])'
    <3> SUFFICES ASSUME NEW k \in Databases, holder'[k] # Free
                 PROVE  /\ request'[holder'[k]].pc = "build" /\ request'[holder'[k]].db = k
                        /\ ~Fresh(pipeline[k])'
      OBVIOUS
    <3>1. k # d /\ holder'[k] = holder[k] /\ holder[k] # r /\ holder[k] \in Requests
      BY <1>2, <1>3 DEF Inv, LocksOK
    <3> QED BY <1>1, <3>1 DEF Inv, LocksOK, At
  <2>3. \A s \in Requests : At(s, "build")' => holder'[request'[s].db] = s
    <3> SUFFICES ASSUME NEW s \in Requests, At(s, "build")' PROVE holder'[request'[s].db] = s
      OBVIOUS
    <3>1. s # r /\ request'[s] = request[s] /\ At(s, "build")
      BY <1>1 DEF At
    <3>2. request[s].db \in Databases /\ holder[request[s].db] = s
      BY <3>1, BuilderHoldsLock
    <3> QED BY <1>2, <1>3, <3>1, <3>2
  <2> QED BY <2>1, <2>2, <2>3 DEF LocksOK, At, Fresh
<1> QED BY <1>1, <1>3, <1>4

(* The engine of a build that fails is leaked.                             *)
LEMMA BuildFailsKeeps ==
  ASSUME Inv, NEW r \in Requests, BuildFails(r)
  PROVE  Inv'
<1> DEFINE d == request[r].db
           x == [pc |-> "done"]
<1>1. /\ At(r, "build") /\ Release(d) /\ request' = [request EXCEPT ![r] = x]
      /\ leaked' = [leaked EXCEPT ![d] = @ + 1]
      /\ UNCHANGED <<context, pipeline, result, open>> /\ Remember
  BY DEF BuildFails, Key, Finish
<1>2. x \in Idle \union Busy /\ x.pc = "done"
  BY DEF Idle
<1>3. d \in Databases /\ holder[d] = r /\ r # Free
  BY <1>1, BuilderHoldsLock
<1> HIDE DEF x
<1>4. /\ ClockOK' /\ RequestsOK' /\ LocksOK' /\ lastCurrent' = lastCurrent /\ now' = now
      /\ \A k \in Databases : holder'[k] = IF k = d THEN Free ELSE holder[k]
  <2>1. now' = now
    BY <1>1 DEF context
  <2>2. \A k \in Databases : Fresh(pipeline[k])' => Fresh(pipeline[k])
    BY <1>1, <2>1 DEF Fresh
  <2> QED BY <1>1, <1>2, <2>2, ReleaseKeeps
<1> HIDE DEF d
<1>5. ResultOK' /\ CacheOK'
  BY <1>1, <1>4 DEF Inv, ResultOK, CacheOK, Entries
<1>6. EnginesOK'
  <2>1. \A k \in Databases : leaked'[k] = IF k = d THEN leaked[k] + 1 ELSE leaked[k]
    BY <1>1 DEF Inv, EnginesOK
  <2>2. leaked' \in [Databases -> Nat]
    BY <1>1, <1>3 DEF Inv, EnginesOK
  <2>3. ASSUME NEW k \in Databases
        PROVE  open'[k] = One(k \in Entries) + One(holder'[k] # Free) + leaked'[k]
    <3>1. open'[k] = One(k \in Entries) + One(holder[k] # Free) + leaked[k] /\ leaked[k] \in Nat
      BY <1>1 DEF Inv, EnginesOK
    <3>2. CASE k = d
      BY <1>3, <1>4, <2>1, <3>1, <3>2 DEF One
    <3>3. CASE k # d
      BY <1>4, <2>1, <3>1, <3>3
    <3> QED BY <3>2, <3>3
  <2> QED BY <1>1, <2>2, <2>3 DEF Inv, EnginesOK, Entries
<1> QED BY <1>4, <1>5, <1>6 DEF Inv

(* What an insertion leaves: room is made among the others.                *)
LEMMA InsertKeeps ==
  ASSUME ClockOK, CacheOK, EnginesOK, now' = now,
         NEW d \in Databases, ~Fresh(pipeline[d]), Insert(d)
  PROVE  /\ CacheOK'
         /\ \A k \in Databases : k # d => (Fresh(pipeline[k])' => Fresh(pipeline[k]))
         /\ open' \in [Databases -> Int]
         /\ \A k \in Databases :
              open'[k] = open[k] + (IF k = d THEN 0 ELSE One(k \in Entries')) - One(k \in Entries)
         /\ d \in Entries'
<1>1. PICK gone \in Evicted(d) :
        LET out == gone \union (Entries \ FreshKeys) IN
          /\ pipeline' = [k \in Databases |->
               IF k = d THEN [db |-> d, expires |-> now + PipelineTTL]
               ELSE IF k \in out THEN NoEntry ELSE pipeline[k]]
          /\ open' = [b \in Databases |-> open[b] - Held(out, b)]
  BY DEF Insert, Key
<1> DEFINE out == gone \union (Entries \ FreshKeys)
           e == [db |-> d, expires |-> now + PipelineTTL]
<1>2. /\ gone \subseteq FreshKeys /\ FreshKeys \subseteq Entries /\ Entries \subseteq Databases
      /\ d \notin FreshKeys
  BY DEF Evicted, Oldest, FreshKeys, Entries
<1>3. out \in SUBSET Entries
  BY <1>2
<1>4. e \in CacheEntry /\ e.db = d /\ e.expires = now + PipelineTTL
  BY NumbersAssumption DEF ClockOK, CacheEntry
<1>5. e # NoEntry
  BY <1>4, EntryExists
<1>6. /\ \A k \in Databases : pipeline'[k] = IF k = d THEN e
                                             ELSE IF k \in out THEN NoEntry ELSE pipeline[k]
      /\ pipeline' \in [Databases -> CacheEntry \union {NoEntry}]
      /\ open' = [b \in Databases |-> open[b] - Held(out, b)]
  <2> HIDE DEF e
  <2>1. pipeline' = [k \in Databases |-> IF k = d THEN e
                                          ELSE IF k \in out THEN NoEntry ELSE pipeline[k]]
    BY <1>1 DEF e
  <2> QED BY <1>1, <1>4, <2>1 DEF CacheOK
<1> HIDE DEF e, out
<1>7. Entries' = (FreshKeys \ gone) \union {d}
  <2>1. \A k \in Databases :
           pipeline'[k] # NoEntry <=> k = d \/ (k \notin out /\ pipeline[k] # NoEntry)
    BY <1>5, <1>6
  <2> QED BY <1>2, <2>1 DEF Entries, out
<1>8. IsFiniteSet(Entries') /\ Cardinality(Entries') <= CacheSize
  <2>1. /\ IsFiniteSet(FreshKeys) /\ Cardinality(FreshKeys) <= CacheSize
        /\ Cardinality(FreshKeys) \in Nat
    BY <1>2, FewerEntries
  <2>2. /\ IsFiniteSet(FreshKeys \ gone) /\ Cardinality(FreshKeys \ gone) < CacheSize
        /\ Cardinality(FreshKeys \ gone) \in Nat
    <3>1. CASE gone = {} /\ Cardinality(FreshKeys) < CacheSize
      <4>1. FreshKeys \ gone = FreshKeys
        BY <3>1
      <4> QED BY <2>1, <3>1, <4>1
    <3>2. ASSUME NEW k \in FreshKeys, gone = {k}
          PROVE  /\ IsFiniteSet(FreshKeys \ gone) /\ Cardinality(FreshKeys \ gone) < CacheSize
                 /\ Cardinality(FreshKeys \ gone) \in Nat
      <4>1. /\ IsFiniteSet(FreshKeys \ {k})
            /\ Cardinality(FreshKeys \ {k}) = Cardinality(FreshKeys) - 1
        BY <2>1, FS_RemoveElement
      <4>2. Cardinality(FreshKeys \ {k}) \in Nat
        BY <4>1, FS_CardinalityType
      <4> QED BY <2>1, <3>2, <4>1, <4>2, NumbersAssumption
    <3>3. (gone = {} /\ Cardinality(FreshKeys) < CacheSize) \/ \E k \in FreshKeys : gone = {k}
      BY <1>2 DEF Evicted, Oldest
    <3> QED BY <3>1, <3>2, <3>3
  <2>3. /\ IsFiniteSet((FreshKeys \ gone) \union {d})
        /\ Cardinality((FreshKeys \ gone) \union {d}) = Cardinality(FreshKeys \ gone) + 1
    BY <1>2, <2>2, FS_AddElement
  <2> QED BY <1>7, <2>2, <2>3, NumbersAssumption
<1>9. \A k \in Entries' : pipeline'[k].db = k /\ pipeline'[k].expires <= now + PipelineTTL
  <2> SUFFICES ASSUME NEW k \in Entries'
               PROVE  pipeline'[k].db = k /\ pipeline'[k].expires <= now + PipelineTTL
    OBVIOUS
  <2>1. CASE k = d
    <3>1. now + PipelineTTL \in Int
      BY NumbersAssumption DEF ClockOK
    <3> QED BY <1>4, <1>6, <2>1, <3>1
  <2>2. CASE k # d
    <3>1. k \in Entries /\ k \in Databases /\ pipeline'[k] = pipeline[k]
      BY <1>2, <1>6, <1>7, <2>2 DEF out
    <3> QED BY <3>1 DEF CacheOK
  <2> QED BY <2>1, <2>2
<1>10. CacheOK'
  BY <1>6, <1>8, <1>9 DEF CacheOK
<1>11. \A k \in Databases : k # d => (Fresh(pipeline[k])' => Fresh(pipeline[k]))
  <2>1. ~(now < NoEntry.expires)
    BY NumbersAssumption DEF NoEntry, ClockOK
  <2> QED BY <1>6, <2>1 DEF Fresh
<1>12. \A k \in Databases : open'[k] = open[k] - One(k \in out)
  BY <1>3, <1>6, HeldCount
<1>13. \A k \in Databases : 
         0 - One(k \in out) = (IF k = d THEN 0 ELSE One(k \in Entries')) - One(k \in Entries)
  <2>1. \A k \in Databases : k # d => (One(k \in out) = One(k \in Entries) - One(k \in Entries'))
    BY <1>2, <1>7 DEF out, One
  <2>2. One(d \in out) = One(d \in Entries)
    BY <1>2 DEF out, One
  <2>3. \A k \in Databases :
           {One(k \in out), One(k \in Entries), One(k \in Entries')} \subseteq Int
    BY DEF One
  <2> QED BY <2>1, <2>2, <2>3
<1>14. \A k \in Databases : open[k] \in Int /\ One(k \in out) \in Int
  BY DEF EnginesOK, One
<1>15. open' \in [Databases -> Int]
  BY <1>6, <1>12, <1>14
<1>16. \A k \in Databases :
         open'[k] = open[k] + (IF k = d THEN 0 ELSE One(k \in Entries')) - One(k \in Entries)
  <2>1. \A k \in Databases :
           {One(k \in out), One(k \in Entries), One(k \in Entries')} \subseteq Int
    BY DEF One
  <2> QED BY <1>12, <1>13, <1>14, <2>1
<1> QED BY <1>7, <1>10, <1>11, <1>15, <1>16

(* The pipeline is inserted, the lock given back, and the request goes on. *)
LEMMA BuildDoneKeeps ==
  ASSUME Inv, NEW r \in Requests, BuildDone(r)
  PROVE  Inv'
<1> DEFINE d == request[r].db
<1>1. /\ At(r, "build") /\ Insert(d) /\ Release(d) /\ Proceed(r, d, request[r].since)
      /\ UNCHANGED <<context, result, leaked>> /\ Remember /\ now' = now
  BY DEF BuildDone, Key, context
<1>2. /\ d \in Databases /\ request[r].since \in Nat
      /\ request[r].since <= now /\ now <= request[r].since + MaxRequest
      /\ request[r].since - lastCurrent[d] <= ConfigAge
  BY <1>1, OnItsWay DEF At
<1>3. holder[d] = r /\ r # Free /\ ~Fresh(pipeline[d])
  BY <1>1, BuilderHoldsLock
<1>4. /\ CacheOK' /\ open' \in [Databases -> Int] /\ d \in Entries'
      /\ \A k \in Databases : k # d => (Fresh(pipeline[k])' => Fresh(pipeline[k]))
      /\ \A k \in Databases :
           open'[k] = open[k] + (IF k = d THEN 0 ELSE One(k \in Entries')) - One(k \in Entries)
  BY <1>1, <1>2, <1>3, InsertKeeps DEF Inv
<1>5. PICK x \in Idle \union Busy :
        /\ x.pc # "build" /\ request' = [request EXCEPT ![r] = x]
        /\ x.pc \notin {"new", "done"} => Timely(x)
  <2>1. CASE Finish(r)
    <3>1. [pc |-> "done"] \in Idle \union Busy
      BY DEF Idle
    <3> QED BY <2>1, <3>1 DEF Finish
  <2>2. CASE Goto(r, "use", d, request[r].since)
    <3> DEFINE x == [pc |-> "use", db |-> d, since |-> request[r].since]
    <3>1. x \in Idle \union Busy /\ x.pc # "build" /\ Timely(x)
      BY <1>2, Records DEF Timely
    <3>2. request' = [request EXCEPT ![r] = x]
      BY <2>2 DEF Goto
    <3> QED BY <3>1, <3>2
  <2> QED BY <1>1, <2>1, <2>2 DEF Proceed
<1>6. /\ ClockOK' /\ RequestsOK' /\ LocksOK' /\ lastCurrent' = lastCurrent
      /\ \A k \in Databases : holder'[k] = IF k = d THEN Free ELSE holder[k]
  BY <1>1, <1>4, <1>5, ReleaseKeeps
<1> HIDE DEF d
<1>7. ResultOK'
  BY <1>1, <1>6 DEF Inv, ResultOK
<1>8. EnginesOK'
  <2>1. \A k \in Databases :
          open'[k] = One(k \in Entries') + One(holder'[k] # Free) + leaked[k]
    <3> SUFFICES ASSUME NEW k \in Databases
                 PROVE  open'[k] = One(k \in Entries') + One(holder'[k] # Free) + leaked[k]
      OBVIOUS
    <3>1. open[k] = One(k \in Entries) + One(holder[k] # Free) + leaked[k] /\ leaked[k] \in Nat
      BY DEF Inv, EnginesOK
    <3>2. {One(k \in Entries), One(k \in Entries')} \subseteq Int
      BY DEF One
    <3>3. CASE k = d
      <4>1. One(k \in Entries') = 1 /\ One(holder'[k] # Free) = 0 /\ One(holder[k] # Free) = 1
        BY <1>3, <1>4, <1>6, <3>3 DEF One
      <4> QED BY <1>4, <3>1, <3>2, <3>3, <4>1
    <3>4. CASE k # d
      <4>1. One(holder'[k] # Free) = One(holder[k] # Free) /\ One(holder[k] # Free) \in Int
        BY <1>6, <3>4 DEF One
      <4> QED BY <1>4, <3>1, <3>2, <3>4, <4>1
    <3> QED BY <3>3, <3>4
  <2>2. open' \in [Databases -> Nat]
    <3>1. \A k \in Databases : open'[k] \in Nat
      BY <2>1 DEF One, Inv, EnginesOK
    <3> QED BY <1>4, <3>1
  <2> QED BY <1>1, <2>1, <2>2 DEF Inv, EnginesOK
<1> QED BY <1>4, <1>6, <1>7, <1>8 DEF Inv

----------------------------------------------------------------------------
(* The account and the process.                                            *)

(* Entries leave the cache, and the engines of K are disposed: whether the *)
(* whole cache is emptied or an invalidation ends half-way and leaks L.    *)
LEMMA DropKeeps ==
  ASSUME Inv, NEW K \in SUBSET Entries, NEW L \in SUBSET Entries, K \intersect L = {},
         UNCHANGED <<now, database, holder, request, result>>,
         pipeline' = [k \in Databases |-> IF k \in K \union L THEN NoEntry ELSE pipeline[k]],
         open' = [d \in Databases |-> open[d] - Held(K, d)],
         leaked' \in [Databases -> Nat],
         \A d \in Databases : leaked'[d] = leaked[d] + One(d \in L),
         Remember
  PROVE  Inv'
<1>1. ClockOK' /\ lastCurrent' = lastCurrent
  BY RememberSame DEF Inv
<1>2. RequestsOK' /\ ResultOK'
  BY <1>1 DEF Inv, RequestsOK, ResultOK, Active, At, Timely
<1>3. /\ \A k \in Databases : pipeline'[k] = IF k \in K \union L THEN NoEntry ELSE pipeline[k]
      /\ pipeline' \in [Databases -> CacheEntry \union {NoEntry}]
  BY DEF Inv, CacheOK
<1>4. Entries' = Entries \ (K \union L)
  BY <1>3 DEF Entries
<1>5. CacheOK'
  <2>1. IsFiniteSet(Entries') /\ Cardinality(Entries') <= CacheSize
    BY <1>4, FewerEntries DEF Inv
  <2>2. \A k \in Entries' : pipeline'[k].db = k /\ pipeline'[k].expires <= now + PipelineTTL
    BY <1>3, <1>4 DEF Inv, CacheOK, Entries
  <2> QED BY <1>3, <2>1, <2>2 DEF CacheOK
<1>6. LocksOK'
  <2>1. ~(now < NoEntry.expires)
    BY NumbersAssumption DEF NoEntry, Inv, ClockOK
  <2> QED BY <1>3, <2>1 DEF Inv, LocksOK, Fresh, At
<1>7. EnginesOK'
  <2>1. \A d \in Databases :
          open'[d] = One(d \in Entries') + One(holder'[d] # Free) + leaked'[d]
    <3> SUFFICES ASSUME NEW d \in Databases
                 PROVE  open'[d] = One(d \in Entries') + One(holder'[d] # Free) + leaked'[d]
      OBVIOUS
    <3>1. open'[d] = open[d] - One(d \in K)
      BY HeldCount DEF Inv
    <3>2. open[d] = One(d \in Entries) + One(holder[d] # Free) + leaked[d] /\ leaked[d] \in Nat
      BY DEF Inv, EnginesOK
    <3>3. One(d \in Entries') = One(d \in Entries) - One(d \in K) - One(d \in L)
      BY <1>4 DEF One
    <3>4. {One(d \in Entries), One(d \in K), One(d \in L), One(holder[d] # Free)} \subseteq Int
      BY DEF One
    <3>5. leaked'[d] = leaked[d] + One(d \in L)
      OBVIOUS
    <3> QED BY <3>1, <3>2, <3>3, <3>4, <3>5
  <2>2. \A d \in Databases : open'[d] \in Nat
    BY <2>1 DEF One
  <2> QED BY <2>1, <2>2 DEF EnginesOK
<1> QED BY <1>1, <1>2, <1>5, <1>6, <1>7 DEF Inv

(* The user changes the database, in this worker or in another one.        *)
LEMMA AccountKeeps ==
  ASSUME Inv, (\E d \in Databases : Reconnect(d)) \/ Bust
  PROVE  Inv'
<1>1. /\ database' \in Databases /\ now' = now /\ Remember
      /\ UNCHANGED <<pipeline, holder, request, result, engines>>
  BY DEF Inv, ClockOK, Reconnect, Bust
<1>2. ClockOK' /\ \A d \in Databases : lastCurrent'[d] >= lastCurrent[d]
  BY <1>1, RememberGrows DEF Inv, ClockOK
<1>3. \A d \in Databases : lastCurrent[d] \in Int /\ lastCurrent'[d] \in Int
  BY <1>2 DEF Inv, ClockOK
<1>4. RequestsOK'
  <2>1. \A r \in Requests : Active(r) =>
          request[r].db \in Databases /\ request[r].since \in Nat
    BY OnItsWay DEF Active
  <2>2. \A r \in Requests : Active(r) => Timely(request[r])'
    BY <1>1, <1>2, <1>3, <2>1, NumbersAssumption DEF Inv, RequestsOK, Timely
  <2> QED BY <1>1, <2>2 DEF Inv, RequestsOK, Active, At, Timely
<1>5. ResultOK'
  <2>1. result # NoEntry => result.db \in Databases /\ result.expires \in Int
    BY EntryExists DEF Inv, ResultOK
  <2> QED BY <1>1, <1>2, <1>3, <2>1, NumbersAssumption DEF Inv, ResultOK
<1>6. CacheOK' /\ LocksOK' /\ EnginesOK'
  BY <1>1 DEF Inv, CacheOK, LocksOK, EnginesOK, Entries, Fresh, At, engines
<1> QED BY <1>2, <1>4, <1>5, <1>6 DEF Inv

(* No request outlives MaxRequest; entries expire.                         *)
LEMMA TickKeeps ==
  ASSUME Inv, Tick
  PROVE  Inv'
<1>1. /\ now' = now + 1 /\ now' \in 0 .. MaxTime /\ now \in Nat /\ database' = database /\ Remember
      /\ UNCHANGED <<pipeline, holder, request, engines>>
  BY NumbersAssumption DEF Inv, ClockOK, Tick
<1>2. ClockOK' /\ \A d \in Databases : lastCurrent'[d] >= lastCurrent[d]
  BY <1>1, RememberGrows DEF Inv, ClockOK
<1>3. \A d \in Databases : lastCurrent[d] \in Int /\ lastCurrent'[d] \in Int
  BY <1>2 DEF Inv, ClockOK
<1>4. RequestsOK'
  <2>1. \A r \in Requests : Active(r) =>
          /\ request[r].db \in Databases /\ request[r].since \in Nat
          /\ now < request[r].since + MaxRequest
    BY OnItsWay DEF Active, Tick
  <2>2. \A r \in Requests : Active(r) => Timely(request[r])'
    BY <1>1, <1>2, <1>3, <2>1, NumbersAssumption DEF Inv, RequestsOK, Timely
  <2> QED BY <1>1, <2>2 DEF Inv, RequestsOK, Active, At, Timely
<1>5. ResultOK'
  <2>1. result # NoEntry => result.db \in Databases /\ result.expires \in Int
    BY EntryExists DEF Inv, ResultOK
  <2>2. result' \in {result, NoEntry}
    BY DEF Tick
  <2> QED BY <1>1, <1>2, <1>3, <2>1, <2>2, NumbersAssumption DEF Inv, ResultOK
<1>6. CacheOK'
  <2>1. \A k \in Entries : pipeline[k].expires \in Int
    BY EntryExists DEF Inv, CacheOK, Entries
  <2>2. Entries' = Entries
    BY <1>1 DEF Entries
  <2> QED BY <1>1, <2>1, <2>2, NumbersAssumption DEF Inv, CacheOK
<1>7. LocksOK'
  <2>1. \A k \in Databases : pipeline[k].expires \in Int
    BY EntryExists DEF Inv, CacheOK, NoEntry
  <2> QED BY <1>1, <2>1 DEF Inv, LocksOK, Fresh, At
<1>8. EnginesOK'
  BY <1>1 DEF Inv, EnginesOK, Entries, engines
<1> QED BY <1>2, <1>4, <1>5, <1>6, <1>7, <1>8 DEF Inv

----------------------------------------------------------------------------
(* The inductive invariant.                                                *)

(* Nothing is connected, asked or cached.                                  *)
LEMMA InitInv == Init => Inv
<1> SUFFICES ASSUME Init PROVE Inv
  OBVIOUS
<1>1. FirstDatabase \in Databases
  BY DatabasesAssumption DEF FirstDatabase
<1>2. \A d \in Databases : Bound[d] \in Nat
  BY NumbersAssumption DEF Bound
<1>3. ClockOK
  BY <1>1, <1>2, NumbersAssumption DEF Init, ClockOK
<1>4. RequestsOK
  <2>1. [pc |-> "new"] \in Idle
    BY DEF Idle
  <2> QED BY <2>1 DEF Init, RequestsOK, Active, At
<1>5. ResultOK
  BY DEF Init, ResultOK
<1>6. Entries = {}
  BY DEF Init, Entries
<1>7. CacheOK
  BY <1>6, FS_EmptySet, NumbersAssumption DEF Init, CacheOK
<1>8. LocksOK
  BY DEF Init, LocksOK, At
<1>9. EnginesOK
  BY <1>6 DEF Init, EnginesOK, One
<1> QED BY <1>3, <1>4, <1>5, <1>7, <1>8, <1>9 DEF Inv

(* Inv is inductive.                                                       *)
LEMMA NextKeepsInv == Inv /\ [Next]_vars => Inv'
<1> SUFFICES ASSUME Inv, [Next]_vars PROVE Inv'
  OBVIOUS
<1>1. CASE UNCHANGED vars
  BY <1>1 DEF vars, Inv, ClockOK, RequestsOK, ResultOK, CacheOK, LocksOK, EnginesOK, Entries,
     Active, At, Timely, Fresh
<1>8. leaked \in [Databases -> Nat]
  BY DEF Inv, EnginesOK
<1>2. ASSUME NEW r \in Requests,
             Arrive(r) \/ TakeLock(r) \/ EndBuild(r) \/ EndUse(r) \/ Cancel(r)
      PROVE  Inv'
  BY <1>2, ArriveKeeps, WaitKeeps, BuildKeeps, BuildDoneKeeps, BuildFailsKeeps, UseKeeps
  DEF TakeLock, EndBuild
<1>3. CASE (\E d \in Databases : Reconnect(d)) \/ Bust
  BY <1>3, AccountKeeps
<1>4. FreshKeys \subseteq Entries
  BY DEF FreshKeys
<1>5. CASE Invalidate \/ Shutdown
  <2>1. PICK K \in SUBSET Entries :
          /\ pipeline' = [k \in Databases |-> IF k \in K \union {} THEN NoEntry ELSE pipeline[k]]
          /\ open' = [d \in Databases |-> open[d] - Held(K, d)]
    BY <1>4, <1>5 DEF Invalidate, Shutdown, Drop
  <2>2. leaked' = leaked /\ Remember /\ UNCHANGED <<now, database, holder, request, result>>
    BY <1>5 DEF Invalidate, Shutdown
  <2>3. /\ leaked' \in [Databases -> Nat]
        /\ \A d \in Databases : leaked'[d] = leaked[d] + One(d \in {})
    BY <1>8, <2>2 DEF One
  <2>4. {} \in SUBSET Entries /\ K \intersect {} = {}
    OBVIOUS
  <2> QED BY <2>1, <2>2, <2>3, <2>4, DropKeeps
<1>6. ASSUME NEW k \in Databases, InvalidateFails(k)
      PROVE  Inv'
  <2>1. PICK before \in SUBSET (FreshKeys \ {k}) :
          /\ pipeline' = [j \in Databases |->
                            IF j \in before \union {k} THEN NoEntry ELSE pipeline[j]]
          /\ open' = [d \in Databases |-> open[d] - Held(before, d)]
          /\ leaked' = [d \in Databases |-> leaked[d] + Held({k}, d)]
    BY <1>6 DEF InvalidateFails
  <2>2. before \in SUBSET Entries /\ {k} \in SUBSET Entries /\ before \intersect {k} = {}
    BY <1>4, <1>6 DEF InvalidateFails
  <2>3. \A d \in Databases : Held({k}, d) = One(d \in {k})
    BY <2>2, HeldCount DEF Inv
  <2>4. \A d \in Databases : leaked'[d] = leaked[d] + One(d \in {k})
    BY <2>1, <2>3
  <2>5. leaked' \in [Databases -> Nat]
    <3>1. \A d \in Databases : leaked[d] + Held({k}, d) \in Nat
      BY <1>8, <2>3 DEF One
    <3> QED BY <2>1, <3>1
  <2>6. Remember /\ UNCHANGED <<now, database, holder, request, result>>
    BY <1>6 DEF InvalidateFails
  <2> QED BY <2>1, <2>2, <2>4, <2>5, <2>6, DropKeeps
<1>7. CASE Tick
  BY <1>7, TickKeeps
<1> QED BY <1>1, <1>2, <1>3, <1>5, <1>6, <1>7 DEF Next

(* The inductive invariant of the factory, its caches and its locks.       *)
THEOREM Invariance == Spec => []Inv
BY InitInv, NextKeepsInv, PTL DEF Spec

----------------------------------------------------------------------------
(* What follows from it.                                                   *)

(* The cache keeps to its size, and a lock is held by the request that     *)
(* builds under it.                                                        *)
THEOREM PipelineTypes == Spec => []TypeOK
<1>1. Inv => TypeOK
  <2> SUFFICES ASSUME Inv PROVE TypeOK
    OBVIOUS
  <2>1. \A k \in Entries : pipeline[k].db \in Databases /\ pipeline[k].expires <= now + PipelineTTL
    BY EntryExists DEF Inv, CacheOK, Entries
  <2>2. result # NoEntry => result.db \in Databases /\ result.expires <= now + ResultTTL
    BY EntryExists DEF Inv, ResultOK
  <2> QED BY <2>1, <2>2 DEF Inv, TypeOK, ClockOK, CacheOK, LocksOK, EnginesOK, Key
<1> QED BY <1>1, Invariance, PTL

(* Every engine that has not been disposed of is in the cache or being     *)
(* built, or its build or refresh raised, however builds, evictions,       *)
(* invalidations and the shutdown interleave.                              *)
THEOREM NoEngineIsLost == Spec => []NoEngineLost
<1>1. Inv => NoEngineLost
  <2> SUFFICES ASSUME Inv, NEW d \in Databases
               PROVE  open[d] = Held(Entries, d) + leaked[d]
                        + Cardinality({r \in Requests : At(r, "build") /\ request[r].db = d})
    BY DEF NoEngineLost
  <2>1. Held(Entries, d) = One(d \in Entries)
    BY HeldCount DEF Inv
  <2>2. {r \in Requests : At(r, "build") /\ request[r].db = d}
          = IF holder[d] # Free THEN {holder[d]} ELSE {}
    <3>1. \A r \in Requests : At(r, "build") => holder[request[r].db] = r /\ r # Free
      BY BuilderHoldsLock
    <3> QED BY <3>1 DEF Inv, LocksOK
  <2>3. Cardinality({holder[d]}) = 1 /\ Cardinality({}) = 0
    BY FS_Singleton, FS_EmptySet
  <2>4. Cardinality({r \in Requests : At(r, "build") /\ request[r].db = d}) = One(holder[d] # Free)
    BY <2>2, <2>3 DEF One
  <2>5. /\ open[d] = One(d \in Entries) + One(holder[d] # Free) + leaked[d]
        /\ {One(d \in Entries), One(holder[d] # Free), leaked[d]} \subseteq Int
    BY DEF Inv, EnginesOK, One
  <2> QED BY <2>1, <2>4, <2>5
<1> QED BY <1>1, Invariance, PTL

(* A step that answers from d leaves clock and account alone, and d was    *)
(* the user's database within the bound.                                   *)
LEMMA AnswersAreRecent ==
  ASSUME Inv, Next
  PROVE  \/ answered' = {}
         \/ /\ UNCHANGED <<now, database, lastCurrent>>
            /\ \E d \in Databases : answered' = {d} /\ now - lastCurrent[d] <= Bound[d]
<1>1. CASE answered' # {}
  <2>1. PICK r \in Requests : Arrive(r) \/ LockedHit(r) \/ BuildDone(r) \/ Answer(r)
    BY <1>1 DEF Next, TakeLock, LockedExpires, LockedRefused, Build, EndBuild, BuildFails, EndUse,
       AnswerFails, Cancel,
       Reconnect, InvalidateFails, Bust, Invalidate, Shutdown, Tick, NoReply
  <2>2. UNCHANGED <<now, database>> /\ Remember
    BY <2>1 DEF Arrive, Replay, ArriveHit, ArriveExpires, ArriveMiss, LockedHit, BuildDone, Answer,
      context
  <2>3. lastCurrent' = lastCurrent
    BY <2>2, RememberSame DEF Inv
  <2>4. /\ {ConfigAge, MaxRequest, ResultTTL} \subseteq Nat /\ now \in Nat
        /\ \A d \in Databases : /\ lastCurrent[d] \in Int
                                /\ Bound[d] = ConfigAge + MaxRequest + ResultTTL
    BY NumbersAssumption DEF Inv, ClockOK, Bound
  <2>5. \A d \in Databases : (\E since \in Nat : /\ now <= since + MaxRequest
                                                /\ since - lastCurrent[d] <= ConfigAge)
          => now - lastCurrent[d] <= Bound[d]
    BY <2>4
  <2>6. \E d \in Databases : answered' = {d} /\ now - lastCurrent[d] <= Bound[d]
    <3>1. CASE Arrive(r)
      <4>1. PICK d \in Databases : Replay(r, d) \/ ArriveHit(r, d)
        BY <1>1, <3>1 DEF Arrive, ArriveExpires, ArriveMiss, NoReply
      <4>2. CASE Replay(r, d)
        <5>1. answered' = {result.db} /\ now < result.expires
          BY <4>2 DEF Replay, Reply, Fresh
        <5>2. result # NoEntry
          BY <2>4, <5>1 DEF NoEntry
        <5>3. /\ result.db \in Databases /\ result.expires \in Int
              /\ result.expires - lastCurrent[result.db] <= ConfigAge + MaxRequest + ResultTTL
          BY <5>2, EntryExists DEF Inv, ResultOK
        <5> QED BY <2>4, <5>1, <5>3
      <4>3. CASE ArriveHit(r, d)
        <5>1. /\ pipeline[d].db = d /\ now - lastCurrent[d] <= ConfigAge
              /\ answered' = {d}
          BY <1>1, <4>3, FreshIsEntry DEF Inv, ArriveHit, Arrives, Key, Proceed, Reply, NoReply
        <5> QED BY <2>4, <5>1
      <4> QED BY <4>1, <4>2, <4>3
    <3>2. ASSUME ~At(r, "new"), ~At(r, "done"), answered' = {request[r].db}
          PROVE  \E d \in Databases : answered' = {d} /\ now - lastCurrent[d] <= Bound[d]
      BY <2>5, <3>2, OnItsWay
    <3>3. CASE LockedHit(r)
      <4>1. At(r, "wait") /\ pipeline[request[r].db].db = request[r].db
        BY <3>3, OnItsWay, FreshIsEntry DEF Inv, LockedHit, Key, At
      <4> QED BY <1>1, <3>2, <3>3, <4>1 DEF LockedHit, Key, Proceed, Reply, NoReply, At
    <3>4. CASE BuildDone(r) \/ Answer(r)
      BY <1>1, <3>2, <3>4 DEF BuildDone, Answer, Proceed, Reply, NoReply, At
    <3> QED BY <2>1, <3>1, <3>3, <3>4
  <2> QED BY <2>2, <2>3, <2>6
<1> QED BY <1>1

(* Every step keeps the history as BoundedStaleness does.                  *)
LEMMA HistoryIsKept ==
  ASSUME Inv, Next
  PROVE  /\ Remember
         /\ database' \in Databases
         /\ now' = now \/ (now < MaxTime /\ now' = now + 1 /\ database' = database)
<1>1. ASSUME NEW r \in Requests,
             Arrive(r) \/ TakeLock(r) \/ EndBuild(r) \/ EndUse(r) \/ Cancel(r)
      PROVE  Remember /\ UNCHANGED <<now, database>>
  BY <1>1 DEF Arrive, Replay, ArriveHit, ArriveExpires, ArriveMiss, TakeLock, LockedHit,
     LockedExpires, LockedRefused, Build, EndBuild, BuildFails, BuildDone, EndUse, Answer,
     AnswerFails, Cancel, context
<1>2. ASSUME NEW d \in Databases, Reconnect(d) \/ InvalidateFails(d)
      PROVE  Remember /\ now' = now /\ database' \in {d, database}
  BY <1>2 DEF Reconnect, InvalidateFails
<1>3. CASE Bust \/ Invalidate \/ Shutdown
  BY <1>3 DEF Inv, ClockOK, Bust, Invalidate, Shutdown
<1>4. CASE Tick
  BY <1>4 DEF Inv, ClockOK, Tick
<1> QED BY <1>1, <1>2, <1>3, <1>4 DEF Next, Inv, ClockOK

(* Initially the database connected first is the user's.                   *)
LEMMA InitRefines == Init => Abstract!AbsInit
<1> SUFFICES ASSUME Init PROVE Abstract!AbsInit
  OBVIOUS
<1> DEFINE valid == [d \in Databases |-> d = database]
<1>1. valid \in [Databases -> BOOLEAN]
  OBVIOUS
<1>2. lastCurrent = [d \in Databases |-> IF valid[d] THEN 0 ELSE 0 - Bound[d] - 1]
  BY DEF Init
<1> QED BY <1>1, <1>2 DEF Init, Abstract!AbsInit

(* Every step is one of BoundedStaleness.                                  *)
LEMMA NextRefines == Inv /\ [Next]_vars => [Abstract!AbsNext]_(Abstract!absVars)
<1> SUFFICES ASSUME Inv, [Next]_vars
             PROVE  Abstract!AbsNext \/ UNCHANGED Abstract!absVars
  OBVIOUS
<1> DEFINE valid == [d \in Databases |-> d = database]
           validNext == [d \in Databases |-> d = database']
<1>1. CASE UNCHANGED vars
  BY <1>1 DEF vars, Abstract!absVars
<1>2. CASE Next
  <2>1. /\ Remember /\ validNext \in [Databases -> BOOLEAN]
        /\ now' = now \/ (now < MaxTime /\ now' = now + 1 /\ database' = database)
    BY <1>2, HistoryIsKept
  <2>2. CASE answered' = {} /\ now' = now
    <3>1. lastCurrent' = [d \in Databases |->
                            IF valid[d] \/ validNext[d] THEN now ELSE lastCurrent[d]]
      BY <2>1, <2>2 DEF Remember
    <3>2. Abstract!AbsChange
      BY <2>1, <2>2, <3>1 DEF Abstract!AbsChange
    <3> QED BY <3>2 DEF Abstract!AbsNext
  <2>3. CASE answered' = {} /\ now' # now
    <3>1. lastCurrent' = [d \in Databases |-> IF valid[d] THEN now + 1 ELSE lastCurrent[d]]
      BY <2>1, <2>3 DEF Remember
    <3>2. Abstract!AbsTick
      BY <2>1, <2>3, <3>1 DEF Abstract!AbsTick
    <3> QED BY <3>2 DEF Abstract!AbsNext
  <2>4. CASE answered' # {}
    <3>1. /\ UNCHANGED <<now, database, lastCurrent>>
          /\ \E d \in Databases : answered' = {d} /\ now - lastCurrent[d] <= Bound[d]
      BY <1>2, <2>4, AnswersAreRecent
    <3>2. PICK d \in Databases : answered' = {d} /\ now - lastCurrent[d] <= Bound[d]
      BY <3>1
    <3>3. Abstract!AbsServe(d)
      BY <3>1, <3>2 DEF Abstract!AbsServe
    <3> QED BY <3>3 DEF Abstract!AbsNext
  <2> QED BY <2>1, <2>2, <2>3, <2>4
<1> QED BY <1>1, <1>2

(* Pipeline implements BoundedStaleness: after a reconnection no answer    *)
(* comes from the previous database later than the age of a configuration, *)
(* one request and the lifetime of the result cache allow.                 *)
THEOREM Refinement == Spec => AnswersFromRecentDatabase
<1>1. Init => Abstract!AbsInit
  BY InitRefines
<1>2. Inv /\ [Next]_vars => [Abstract!AbsNext]_(Abstract!absVars)
  BY NextRefines
<1> QED BY <1>1, <1>2, Invariance, PTL DEF Spec, AnswersFromRecentDatabase, Abstract!AbsSpec
=============================================================================
