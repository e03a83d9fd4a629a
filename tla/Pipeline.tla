------------------------------ MODULE Pipeline ------------------------------
(***************************************************************************)
(* PipelineFactory of core/pipeline_factory.py at work for one account on  *)
(* one worker: requests to the MCP tools arrive with the configuration the *)
(* verifier gave them, which may name a database the user has left; the    *)
(* factory builds an engine per database in a thread, under a lock per     *)
(* key, and keeps it in a TTLCache that is emptied lazily; reconnecting    *)
(* schedules an invalidation; ask_database puts its answer into the result *)
(* cache.  What the factory does between two awaits is one action.         *)
(* ApiKeys justifies ConfigAge: a request is served only on a claim that   *)
(* was good that recently, and the configuration was read with it.         *)
(***************************************************************************)
EXTENDS Integers, FiniteSets

CONSTANTS
  Databases,   \* the database URLs the user may connect
  Asks,        \* calls of ask_database, all with the same question
  Browses,     \* calls of list_tables, describe_schema, get_sample_data
  CacheSize,   \* maxsize of the factory's cache
  PipelineTTL, \* its ttl
  ResultTTL,   \* lifetime of an answer in the result cache
  ConfigAge,   \* how long ago a request's configuration was current at most
  MaxRequest,  \* assumed: how long a request takes at most
  MaxTime,     \* bound: the last instant of the clock
  MaxReconnects\* bound: how often the user changes the database

ASSUME DatabasesAssumption == Databases # {}
ASSUME NumbersAssumption ==
  /\ {CacheSize, PipelineTTL, ResultTTL} \subseteq Nat \ {0}
  /\ {ConfigAge, MaxRequest, MaxTime, MaxReconnects} \subseteq Nat

Requests == Asks \union Browses

\* In the place of a request, for a lock that nobody holds.
Free == "free"

ASSUME RequestsAssumption == Asks \intersect Browses = {} /\ Free \notin Requests

VARIABLES
  now,         \* the clock
  database,    \* the user's database
  pipeline,    \* self._cache: pipeline[k] is an entry, perhaps expired, or NoEntry
  holder,      \* self._per_key_locks: holder[k] is the request that holds it
  request,     \* request[r]: where call r is
  result,      \* the result cache's entry for the question, or NoEntry
  invalidation,\* an invalidate task is scheduled
  stopped,     \* shutdown has run
  reconnects,  \* how often the user has changed the database
  open,        \* history: how many engines on d were made and not disposed
  leaked,      \* history: those of them whose build or refresh raised
  lastCurrent, \* history: the last instant at which d was the user's database
  answered     \* history: the database of the answer given in this step, if any

vars == <<now, database, pipeline, holder, request, result, invalidation, stopped,
          reconnects, open, leaked, lastCurrent, answered>>

\* What a step of a request leaves alone.
context == <<now, database, invalidation, stopped, reconnects>>
engines == <<open, leaked>>

\* The database connected during onboarding; which one makes no difference.
FirstDatabase == CHOOSE d \in Databases : TRUE

NoEntry == [db |-> "none", expires |-> 0]
Bound == [d \in Databases |-> ConfigAge + MaxRequest + ResultTTL]

Init ==
  /\ now = 0
  /\ database = FirstDatabase
  /\ pipeline = [k \in Databases |-> NoEntry]
  /\ holder = [k \in Databases |-> Free]
  /\ request = [r \in Requests |-> [pc |-> "new"]]
  /\ result = NoEntry
  /\ invalidation = FALSE
  /\ stopped = FALSE
  /\ reconnects = 0
  /\ open = [d \in Databases |-> 0]
  /\ leaked = [d \in Databases |-> 0]
  /\ lastCurrent = [d \in Databases |-> IF d = FirstDatabase THEN 0 ELSE 0 - Bound[d] - 1]
  /\ answered = {}

----------------------------------------------------------------------------
(* The factory's cache.  An entry that has expired is absent for every     *)
(* reader, but it stays, with its engine, until the next insertion.        *)

Fresh(entry) == now < entry.expires

\* Mutant: the key names the user only.
KeyOfUser(d) == CHOOSE k \in Databases : TRUE

\* _build_key, for the one user.
Key(d) == d

Entries == {k \in Databases : pipeline[k] # NoEntry}
FreshKeys == {k \in Entries : Fresh(pipeline[k])}

\* How many engines on d the keys K of the cache hold.
Held(K, d) == Cardinality({k \in K : pipeline[k].db = d})

\* The entries K leave the cache, and their engines are disposed.
Drop(K) ==
  /\ pipeline' = [k \in Databases |-> IF k \in K THEN NoEntry ELSE pipeline[k]]
  /\ open' = [d \in Databases |-> open[d] - Held(K, d)]

Oldest(K) == {k \in K : \A j \in K : pipeline[k].expires <= pipeline[j].expires}

\* Mutant: the cache may grow to one entry more.
EvictedLate(key) ==
  IF key \in FreshKeys \/ Cardinality(FreshKeys) <= CacheSize THEN {{}}
  ELSE {{k} : k \in Oldest(FreshKeys)}

\* popitem, when there is no room for key: of equally old entries either may go.
Evicted(key) ==
  IF key \in FreshKeys \/ Cardinality(FreshKeys) < CacheSize THEN {{}}
  ELSE {{k} : k \in Oldest(FreshKeys)}

\* __setitem__ of _DisposingTTLCache: expired entries go first, then, if the
\* cache is full, the oldest one; the engine of each is disposed.
Insert(d) ==
  \E gone \in Evicted(Key(d)) :
    LET out == gone \union (Entries \ FreshKeys) IN
      /\ pipeline' = [k \in Databases |->
           IF k = Key(d) THEN [db |-> d, expires |-> now + PipelineTTL]
           ELSE IF k \in out THEN NoEntry ELSE pipeline[k]]
      /\ open' = [b \in Databases |-> open[b] - Held(out, b)]

----------------------------------------------------------------------------
(* Requests.                                                               *)

At(r, pc) == request[r].pc = pc
Active(r) == ~At(r, "new") /\ ~At(r, "done")

\* The request goes on at pc with the configuration d.
Goto(r, pc, d, since) ==
  request' = [request EXCEPT ![r] = [pc |-> pc, db |-> d, since |-> since]]

Finish(r) == request' = [request EXCEPT ![r] = [pc |-> "done"]]

Reply(d) == answered' = {d}
NoReply == answered' = {}

\* The history variable lastCurrent, kept by every step.
Remember ==
  lastCurrent' = [d \in Databases |->
                    IF d = database \/ d = database' THEN now' ELSE lastCurrent[d]]

Release(k) == holder' = [holder EXCEPT ![k] = Free]

\* The request has the components of the database d: the synchronous tools
\* answer at once, ask_database goes on to the corrector.
Proceed(r, d, since) ==
  \/ r \in Browses /\ Finish(r) /\ Reply(d)
  \/ r \in Asks /\ Goto(r, "use", d, since) /\ NoReply

\* The verifier has given the request a configuration naming d.
Arrives(r, d) ==
  /\ At(r, "new") /\ ~stopped
  /\ now - lastCurrent[d] <= ConfigAge

\* ask_database finds the answer in the result cache.
Replay(r, d) ==
  /\ Arrives(r, d) /\ r \in Asks /\ Fresh(result)
  /\ Finish(r) /\ Reply(result.db)
  /\ UNCHANGED <<context, pipeline, holder, result, engines>> /\ Remember

NoReplay(r) == r \in Browses \/ ~Fresh(result)

\* get: the fast path.
ArriveHit(r, d) ==
  /\ Arrives(r, d) /\ NoReplay(r)
  /\ Fresh(pipeline[Key(d)])
  /\ Proceed(r, pipeline[Key(d)].db, now)
  /\ UNCHANGED <<context, pipeline, holder, result, engines>> /\ Remember

\* The entry expires between the membership test and the index: KeyError.
ArriveExpires(r, d) ==
  /\ Arrives(r, d) /\ NoReplay(r)
  /\ Fresh(pipeline[Key(d)]) /\ pipeline[Key(d)].expires = now + 1
  /\ Finish(r) /\ NoReply
  /\ UNCHANGED <<context, pipeline, holder, result, engines>> /\ Remember

ArriveMiss(r, d) ==
  /\ Arrives(r, d) /\ NoReplay(r)
  /\ ~Fresh(pipeline[Key(d)])
  /\ Goto(r, "wait", d, now) /\ NoReply
  /\ UNCHANGED <<context, pipeline, holder, result, engines>> /\ Remember

\* Under the lock of the key somebody else has built the pipeline meanwhile.
LockedHit(r) ==
  /\ At(r, "wait") /\ holder[Key(request[r].db)] = Free
  /\ Fresh(pipeline[Key(request[r].db)])
  /\ Proceed(r, pipeline[Key(request[r].db)].db, request[r].since)
  /\ UNCHANGED <<context, pipeline, holder, result, engines>> /\ Remember

\* The entry expires between the membership test and the index: KeyError.
LockedExpires(r) ==
  LET entry == pipeline[Key(request[r].db)] IN
    /\ At(r, "wait") /\ holder[Key(request[r].db)] = Free
    /\ Fresh(entry) /\ entry.expires = now + 1
    /\ Finish(r) /\ NoReply
    /\ UNCHANGED <<context, pipeline, holder, result, engines>> /\ Remember

\* The URL guard refuses the configured URL, which DNS may decide anew.
LockedRefused(r) ==
  /\ At(r, "wait") /\ holder[Key(request[r].db)] = Free
  /\ ~Fresh(pipeline[Key(request[r].db)])
  /\ Finish(r) /\ NoReply
  /\ UNCHANGED <<context, pipeline, holder, result, engines>> /\ Remember

\* Mutant: the second look into the cache is left out.
BuildUnchecked(r) ==
  LET d == request[r].db IN
    /\ At(r, "wait") /\ holder[Key(d)] = Free
    /\ holder' = [holder EXCEPT ![Key(d)] = r]
    /\ Goto(r, "build", d, request[r].since) /\ NoReply
    /\ open' = [open EXCEPT ![d] = @ + 1]
    /\ UNCHANGED <<context, pipeline, result, leaked>> /\ Remember

\* _build_components starts in a thread, with the lock held.
Build(r) ==
  LET d == request[r].db IN
    /\ At(r, "wait") /\ holder[Key(d)] = Free
    /\ ~Fresh(pipeline[Key(d)])
    /\ holder' = [holder EXCEPT ![Key(d)] = r]
    /\ Goto(r, "build", d, request[r].since) /\ NoReply
    /\ open' = [open EXCEPT ![d] = @ + 1]
    /\ UNCHANGED <<context, pipeline, result, leaked>> /\ Remember

\* Mutant: the failure of the build leaves the lock held.
BuildFailsLocked(r) ==
  LET d == request[r].db IN
    /\ At(r, "build")
    /\ Finish(r) /\ NoReply
    /\ leaked' = [leaked EXCEPT ![d] = @ + 1]
    /\ UNCHANGED <<context, pipeline, holder, result, open>> /\ Remember

\* The dry-run connection fails; or _build_user_settings raises
\* NoLLMKeyAvailable after it, or the await is cancelled while the thread goes
\* on.  In no case is the engine disposed.
BuildFails(r) ==
  LET d == request[r].db IN
    /\ At(r, "build")
    /\ Release(Key(d)) /\ Finish(r) /\ NoReply
    /\ leaked' = [leaked EXCEPT ![d] = @ + 1]
    /\ UNCHANGED <<context, pipeline, result, open>> /\ Remember

\* The result is inserted without _lock, so an invalidation or the shutdown
\* may have emptied the cache in the meantime.
BuildDone(r) ==
  LET d == request[r].db IN
    /\ At(r, "build")
    /\ Insert(d) /\ Release(Key(d))
    /\ Proceed(r, d, request[r].since)
    /\ UNCHANGED <<context, result, leaked>> /\ Remember

\* ask_database succeeds and stores its answer, ...
Answer(r) ==
  /\ At(r, "use")
  /\ result' = [db |-> request[r].db, expires |-> now + ResultTTL]
  /\ Finish(r) /\ Reply(request[r].db)
  /\ UNCHANGED <<context, pipeline, holder, engines>> /\ Remember

\* ... or it fails.
AnswerFails(r) ==
  /\ At(r, "use")
  /\ Finish(r) /\ NoReply
  /\ UNCHANGED <<context, pipeline, holder, result, engines>> /\ Remember

\* The client's call is cancelled while it waits for the lock.
Cancel(r) ==
  /\ At(r, "wait")
  /\ Finish(r) /\ NoReply
  /\ UNCHANGED <<context, pipeline, holder, result, engines>> /\ Remember

----------------------------------------------------------------------------
(* What happens to the account and to the process.                         *)

\* submit_database in this worker schedules the invalidation, in another
\* worker it does not reach this one's factory.
Reconnect(d) ==
  /\ d # database /\ reconnects < MaxReconnects
  /\ database' = d /\ reconnects' = reconnects + 1
  /\ invalidation' \in {TRUE, invalidation}
  /\ NoReply
  /\ UNCHANGED <<now, pipeline, holder, request, result, stopped, engines>> /\ Remember

\* _bust_user_caches, on a change of a key, of the status or of the identity.
Bust ==
  /\ ~invalidation /\ invalidation' = TRUE
  /\ NoReply
  /\ UNCHANGED <<now, database, reconnects, pipeline, holder, request, result, stopped, engines>>
  /\ Remember

\* invalidate: every entry of the user that has not expired.
Invalidate ==
  /\ invalidation /\ invalidation' = FALSE
  /\ Drop(FreshKeys) /\ NoReply
  /\ UNCHANGED <<now, database, reconnects, holder, request, result, stopped, leaked>>
  /\ Remember

\* inspector.refresh connects to the database and is not guarded: when it
\* raises for k, k is out of the cache, its engine is not disposed, and the
\* entries after k stay.
InvalidateFails(k) ==
  /\ invalidation /\ invalidation' = FALSE
  /\ k \in FreshKeys
  /\ \E before \in SUBSET (FreshKeys \ {k}) :
       /\ pipeline' = [j \in Databases |->
            IF j \in before \union {k} THEN NoEntry ELSE pipeline[j]]
       /\ open' = [d \in Databases |-> open[d] - Held(before, d)]
       /\ leaked' = [d \in Databases |-> leaked[d] + Held({k}, d)]
  /\ NoReply
  /\ UNCHANGED <<now, database, reconnects, holder, request, result, stopped>> /\ Remember

\* shutdown, at the end of the lifespan: expired entries as well.
Shutdown ==
  /\ ~stopped /\ stopped' = TRUE
  /\ Drop(Entries) /\ NoReply
  /\ UNCHANGED <<now, database, reconnects, holder, request, result, invalidation, leaked>>
  /\ Remember

Tick ==
  /\ now < MaxTime
  /\ \A r \in Requests : Active(r) => now < request[r].since + MaxRequest
  /\ now' = now + 1
  /\ result' = IF now' < result.expires THEN result ELSE NoEntry
  /\ NoReply
  /\ UNCHANGED <<database, reconnects, pipeline, holder, request, invalidation, stopped, engines>>
  /\ Remember

TakeLock(r) == LockedHit(r) \/ LockedExpires(r) \/ LockedRefused(r) \/ Build(r)
EndBuild(r) == BuildDone(r) \/ BuildFails(r)
EndUse(r) == Answer(r) \/ AnswerFails(r)

Arrive(r) == \E d \in Databases :
  Replay(r, d) \/ ArriveHit(r, d) \/ ArriveExpires(r, d) \/ ArriveMiss(r, d)

Next ==
  \/ \E r \in Requests : Arrive(r) \/ TakeLock(r) \/ EndBuild(r) \/ EndUse(r) \/ Cancel(r)
  \/ \E d \in Databases : Reconnect(d) \/ InvalidateFails(d)
  \/ Bust
  \/ Invalidate
  \/ Shutdown
  \/ Tick

Spec == Init /\ [][Next]_vars

\* The event loop resumes the next waiter of a lock that was released, and
\* connections, model calls and queries end by their timeouts.  Nothing bounds
\* the wait for a lock, and nobody has to cancel.
Fairness == \A r \in Requests : WF_(request[r])(TakeLock(r) \/ EndBuild(r) \/ EndUse(r))

FairSpec == Spec /\ Fairness

----------------------------------------------------------------------------

(* Type invariant: the cache never exceeds its size, and a lock is held by *)
(* the request that builds under it.                                       *)
TypeOK ==
  /\ now \in 0 .. MaxTime
  /\ database \in Databases
  /\ \A k \in Entries : pipeline[k].db \in Databases /\ pipeline[k].expires <= now + PipelineTTL
  /\ Cardinality(Entries) <= CacheSize
  /\ \A k \in Databases : holder[k] # Free =>
       At(holder[k], "build") /\ Key(request[holder[k]].db) = k
  /\ result # NoEntry => result.db \in Databases /\ result.expires <= now + ResultTTL
  /\ {open, leaked} \subseteq [Databases -> Nat]

(* No engine gets lost but on the two paths that lose it: whatever the     *)
(* interleaving of builds, evictions, expiries, invalidations and the      *)
(* shutdown, an engine that has not been disposed is in the cache or being *)
(* built, or its build was abandoned, or its refresh raised during an      *)
(* invalidation.  That one in the cache will be disposed is not said: a    *)
(* build that ends after the shutdown puts its engine there for good.      *)
NoEngineLost ==
  \A d \in Databases :
    open[d] = Held(Entries, d) + leaked[d]
                + Cardinality({r \in Requests : At(r, "build") /\ request[r].db = d})

Abstract == INSTANCE BoundedStaleness
  WITH Claims <- Databases, Bound <- Bound, MaxTime <- MaxTime, now <- now,
       valid <- [d \in Databases |-> d = database], lastValid <- lastCurrent,
       served <- answered

(* After a reconnection answers from the previous database die out: none   *)
(* comes later than the configuration's age, one request and the lifetime  *)
(* of the result cache allow, although neither cache is emptied reliably   *)
(* and a slow call may overwrite the new database's answer.                *)
AnswersFromRecentDatabase == Abstract!AbsSpec

(* Every request ends: the lock of a key is released on every path of the  *)
(* build, so a request that waits for it gets a pipeline or an error.      *)
EveryRequestEnds == \A r \in Requests : Active(r) ~> At(r, "done")
=============================================================================
