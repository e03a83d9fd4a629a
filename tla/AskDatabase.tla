---------------------------- MODULE AskDatabase ----------------------------
(***************************************************************************)
(* The requests of one worker process, from DrainGuardMiddleware through   *)
(* ask_database to the reply, and the graceful shutdown of the lifespan.   *)
(* A step of a request is what its task does between two awaits: the event *)
(* loop runs one task at a time.  From the drain gate to the quota charge  *)
(* ask_database never yields (the burst limiter's lock is never contended, *)
(* the store is called synchronously), so that stretch is one action; the  *)
(* awaits are the ASGI layers around the tool, _get_pipeline and the       *)
(* corrector.  All requests are those of one user, whose row is also       *)
(* charged by the other workers.  What is left open: the verdict of the    *)
(* burst limiter (RateLimiter), the roll-over of the quota window (Quota), *)
(* and what the corrector answers.                                         *)
(***************************************************************************)
EXTENDS Integers, Sequences, FiniteSets

CONSTANTS
  Asks,        \* the requests that call ask_database
  Probes,      \* the requests for /health/live and /health/ready
  Questions,   \* the normalised questions, the cache key of the user
  Question,    \* Question[r]: what request r asks
  Limit,       \* ask_database_per_day of the user's plan
  CacheTTL,    \* CACHE_TTL, in ticks
  MaxTime,     \* bound: last instant of the clock
  MaxUsed      \* bound: other workers charge up to this count

ASSUME RequestsAssumption ==
  Asks \intersect Probes = {} /\ Question \in [Asks -> Questions]
ASSUME NumbersAssumption ==
  /\ Limit \in Nat \ {0} /\ CacheTTL \in Nat \ {0}
  /\ MaxTime \in Nat /\ MaxUsed \in Nat

Requests == Asks \union Probes

VARIABLES
  now,       \* time.monotonic()
  used,      \* daily_query_count in the present quota window
  phase,     \* where the lifespan is; draining is phase # "serving"
  inFlight,  \* DrainState._in_flight
  waiting,   \* the tasks the lifespan snapshotted and waits for
  cancelled, \* tasks with a CancelledError to be delivered
  at,        \* at[r]: the await request r stands at
  outcome,   \* outcome[r]: what became of the tool call
  charge,    \* charge[r]: daily_count its quota charge returned, or 0
  cache,     \* _cache[(user, q)]: [ans, time] or NoEntry
  served,    \* history: the entry a cached reply was taken from, and when
  rows,      \* query_history rows written for r, in order
  expired    \* history: the settle wait timed out

vars == <<now, used, phase, inFlight, waiting, cancelled, at, outcome,
          charge, cache, served, rows, expired>>

loopVars == <<now, used, phase, waiting, cancelled, expired>>

NoEntry == [time |-> -1]

\* A cached reply: the request that computed it, and when it was stored.
Entry == [ans : Asks, time : Nat]

Phases == {"serving", "draining", "settling", "closing", "stopped"}

\* Where a request's task is suspended.
Places == {"new", "handed", "resolving", "running", "replying", "done"}

Outcomes == {"none", "unavailable", "draining", "cached", "burst", "denied",
             "answered", "failed", "raised", "interrupted", "dropped", "healthy"}

Init ==
  /\ now = 0 /\ used = 0
  /\ phase = "serving"
  /\ inFlight = {} /\ waiting = {} /\ cancelled = {}
  /\ at = [r \in Requests |-> "new"]
  /\ outcome = [r \in Requests |-> "none"]
  /\ charge = [r \in Requests |-> 0]
  /\ cache = [q \in Questions |-> NoEntry]
  /\ served = [r \in Requests |-> NoEntry]
  /\ rows = [r \in Requests |-> <<>>]
  /\ expired = FALSE

Draining == phase # "serving"

\* A task runs as long as the process does, and gets its CancelledError next.
CanStep(r, place) ==
  phase # "stopped" /\ at[r] = place /\ r \notin cancelled

----------------------------------------------------------------------------
(* DrainGuardMiddleware.                                                   *)

\* Mutant: the middleware registers what it should refuse.
ArriveUnguarded(r) ==
  /\ CanStep(r, "new")
  /\ inFlight' = inFlight \union {r}
  /\ at' = [at EXCEPT ![r] = "handed"]
  /\ UNCHANGED <<loopVars, outcome, charge, cache, served, rows>>

\* The 503, or the registration of the task.
Arrive(r) ==
  /\ CanStep(r, "new")
  /\ IF Draining /\ r \notin Probes
       THEN /\ at' = [at EXCEPT ![r] = "done"]
            /\ outcome' = [outcome EXCEPT ![r] = "unavailable"]
            /\ UNCHANGED inFlight
       ELSE /\ inFlight' = inFlight \union {r}
            /\ at' = [at EXCEPT ![r] = "handed"]
            /\ UNCHANGED outcome
  /\ UNCHANGED <<loopVars, charge, cache, served, rows>>

\* The response is sent and the finally clause unregisters the task.
Reply(r) ==
  /\ CanStep(r, "replying")
  /\ at' = [at EXCEPT ![r] = "done"]
  /\ inFlight' = inFlight \ {r}
  /\ UNCHANGED <<loopVars, outcome, charge, cache, served, rows>>

\* A probe is answered at once: 200 if o is "healthy", else 503.
Answer(r, o) ==
  /\ CanStep(r, "handed") /\ r \in Probes
  /\ at' = [at EXCEPT ![r] = "done"]
  /\ outcome' = [outcome EXCEPT ![r] = o]
  /\ inFlight' = inFlight \ {r}
  /\ UNCHANGED <<loopVars, charge, cache, served, rows>>

\* health_live asks whether the heartbeat's task has run lately, which is left open.
HealthLive(r) == Answer(r, "healthy") \/ Answer(r, "unavailable")

\* health_ready fails from the drain flag on; whether the worker's other
\* dependencies are there is left open.
HealthReady(r) == (~Draining /\ Answer(r, "healthy")) \/ Answer(r, "unavailable")

----------------------------------------------------------------------------
(* ask_database, from its first line to the quota verdict.                 *)

\* The tool call of r is over: its reply is o.
Finish(r, o) ==
  /\ at' = [at EXCEPT ![r] = "replying"]
  /\ outcome' = [outcome EXCEPT ![r] = o]

\* The entry of the cache a call at the present instant may serve.
Fresh(e) == e # NoEntry /\ now - e.time < CacheTTL

Refuse(r) ==
  /\ CanStep(r, "handed") /\ r \in Asks
  /\ Draining
  /\ Finish(r, "draining")
  /\ UNCHANGED <<loopVars, inFlight, charge, cache, served, rows>>

CacheHit(r) ==
  /\ CanStep(r, "handed") /\ r \in Asks
  /\ ~Draining
  /\ Fresh(cache[Question[r]])
  /\ Finish(r, "cached")
  /\ served' = [served EXCEPT ![r] =
       [ans |-> cache[Question[r]].ans, stored |-> cache[Question[r]].time, time |-> now]]
  /\ UNCHANGED <<loopVars, inFlight, charge, cache, rows>>

BurstLimited(r) ==
  /\ CanStep(r, "handed") /\ r \in Asks
  /\ ~Draining
  /\ ~Fresh(cache[Question[r]])
  /\ Finish(r, "burst")
  /\ UNCHANGED <<loopVars, inFlight, charge, cache, served, rows>>

\* Mutant: the verdict counts the calls before this one and the present one.
AllowedOneMore(count) == count - 1 <= Limit

\* check_query_quota(plan_code, max(daily_count - 1, 0)).
Allowed(count) == (IF count - 1 >= 0 THEN count - 1 ELSE 0) < Limit

\* consume_daily_query_quota: a denied call has been charged as well.
Admit(r) ==
  /\ CanStep(r, "handed") /\ r \in Asks
  /\ ~Draining
  /\ ~Fresh(cache[Question[r]])
  /\ used' = used + 1
  /\ charge' = [charge EXCEPT ![r] = used + 1]
  /\ IF Allowed(used + 1)
       THEN at' = [at EXCEPT ![r] = "resolving"] /\ UNCHANGED outcome
       ELSE Finish(r, "denied")
  /\ UNCHANGED <<now, phase, waiting, cancelled, expired,
                 inFlight, cache, served, rows>>

----------------------------------------------------------------------------
(* The pipeline.                                                           *)

\* _get_pipeline returns: the corrector is awaited.
Resolve(r) ==
  /\ CanStep(r, "resolving")
  /\ at' = [at EXCEPT ![r] = "running"]
  /\ UNCHANGED <<loopVars, inFlight, outcome, charge, cache, served, rows>>

\* An exception leaves the tool: the cached entry expires between membership
\* test and index, the charge is rolled back, the factory refuses or cannot
\* connect, the first generate fails, or the history row cannot be written.
Raise(r) ==
  /\ \/ CanStep(r, "handed") /\ r \in Asks /\ ~Draining
     \/ CanStep(r, "resolving") \/ CanStep(r, "running")
  /\ Finish(r, "raised")
  /\ UNCHANGED <<loopVars, inFlight, charge, cache, served, rows>>

\* The row of r; log_query commits before it returns.
Log(r, kind) == rows' = [rows EXCEPT ![r] = Append(@, kind)]

Store(r) == cache' = [cache EXCEPT ![Question[r]] = [ans |-> r, time |-> now]]

Succeed(r) ==
  /\ CanStep(r, "running")
  /\ Log(r, "success")
  /\ Store(r)
  /\ Finish(r, "answered")
  /\ UNCHANGED <<loopVars, inFlight, charge, served>>

\* The TTLCache holds 1000 results of all users: inserting one for somebody
\* else may evict an entry at any time.
Evict(q) ==
  /\ phase # "stopped" /\ cache[q] # NoEntry
  /\ cache' = [cache EXCEPT ![q] = NoEntry]
  /\ UNCHANGED <<loopVars, inFlight, at, outcome, charge, served, rows>>

\* Mutant: the error answer is cached as well.
FailStored(r) ==
  /\ CanStep(r, "running")
  /\ Log(r, "error")
  /\ Store(r)
  /\ Finish(r, "failed")
  /\ UNCHANGED <<loopVars, inFlight, charge, served>>

\* The corrector gave up: the error is logged, and not cached.
Fail(r) ==
  /\ CanStep(r, "running")
  /\ Log(r, "error")
  /\ Finish(r, "failed")
  /\ UNCHANGED <<loopVars, inFlight, charge, cache, served>>

\* Mutant: the row of an interrupted query is written twice, by the except
\* clause and by the code after it.
DeliverCancelTwice(r) ==
  /\ phase # "stopped" /\ r \in cancelled /\ at[r] # "done"
  /\ cancelled' = cancelled \ {r}
  /\ at' = [at EXCEPT ![r] = "done"]
  /\ inFlight' = inFlight \ {r}
  /\ IF at[r] = "running"
       THEN /\ rows' = [rows EXCEPT ![r] = @ \o <<"interrupted", "error">>]
            /\ outcome' = [outcome EXCEPT ![r] = "interrupted"]
       ELSE UNCHANGED <<rows, outcome>>
  /\ UNCHANGED <<now, used, phase, waiting, expired, charge, cache, served>>

\* CancelledError at the await of r; only the corrector's await catches it.
DeliverCancel(r) ==
  /\ phase # "stopped" /\ r \in cancelled /\ at[r] # "done"
  /\ cancelled' = cancelled \ {r}
  /\ at' = [at EXCEPT ![r] = "done"]
  /\ inFlight' = inFlight \ {r}
  /\ IF at[r] = "running" THEN Log(r, "interrupted") ELSE UNCHANGED rows
  /\ outcome' = [outcome EXCEPT ![r] =
       CASE at[r] = "running" -> "interrupted"
         [] at[r] \in {"handed", "resolving"} -> "dropped"
         [] OTHER -> @]
  /\ UNCHANGED <<now, used, phase, waiting, expired, charge, cache, served>>

----------------------------------------------------------------------------
(* The exit of the lifespan: DrainState and what it guards.                *)

reqVars == <<inFlight, at, outcome, charge, cache, served, rows>>

Live(S) == {r \in S : at[r] # "done"}

\* begin_drain, and the snapshot wait_for_in_flight takes.
BeginDrain ==
  /\ phase = "serving"
  /\ phase' = "draining"
  /\ waiting' = Live(inFlight)
  /\ UNCHANGED <<now, used, cancelled, expired, reqVars>>

\* All the tasks of the snapshot are done: nothing to cancel.
WaitReturns ==
  /\ phase = "draining"
  /\ Live(waiting) = {}
  /\ phase' = "closing"
  /\ UNCHANGED <<now, used, waiting, cancelled, expired, reqVars>>

\* Mutant: the lifespan waits for the snapshot without a timeout.
GraceNeverExpires == FALSE /\ UNCHANGED vars

\* Mutant: the tasks of the old snapshot are cancelled, the done ones as well.
GraceCancelsDone ==
  /\ phase = "draining"
  /\ Live(waiting) # {}
  /\ phase' = "settling"
  /\ waiting' = Live(inFlight)
  /\ cancelled' = waiting
  /\ UNCHANGED <<now, used, expired, reqVars>>

\* The grace period is over: cancel_remaining cancels all that is in flight.
GraceExpires ==
  /\ phase = "draining"
  /\ Live(waiting) # {}
  /\ phase' = "settling"
  /\ waiting' = Live(inFlight)
  /\ cancelled' = Live(inFlight)
  /\ UNCHANGED <<now, used, expired, reqVars>>

SettleReturns ==
  /\ phase = "settling"
  /\ Live(waiting) = {}
  /\ phase' = "closing"
  /\ UNCHANGED <<now, used, waiting, cancelled, expired, reqVars>>

SettleExpires ==
  /\ phase = "settling"
  /\ Live(waiting) # {}
  /\ phase' = "closing"
  /\ expired' = TRUE
  /\ UNCHANGED <<now, used, waiting, cancelled, reqVars>>

\* factory.shutdown, executor_pool.shutdown, auth_engine.dispose, exit.
Close ==
  /\ phase = "closing"
  /\ phase' = "stopped"
  /\ UNCHANGED <<now, used, waiting, cancelled, expired, reqVars>>

----------------------------------------------------------------------------
(* The surroundings.                                                       *)

Tick ==
  /\ phase # "stopped" /\ now < MaxTime
  /\ now' = now + 1
  /\ UNCHANGED <<used, phase, waiting, cancelled, expired, reqVars>>

\* Another worker charges the same row.
ChargeElsewhere ==
  /\ phase # "stopped" /\ used < MaxUsed
  /\ used' = used + 1
  /\ UNCHANGED <<now, phase, waiting, cancelled, expired, reqVars>>

Handle(r) ==
  Refuse(r) \/ CacheHit(r) \/ BurstLimited(r) \/ Admit(r)

Run(r) == Resolve(r) \/ Raise(r) \/ Succeed(r) \/ Fail(r)

Shutdown ==
  WaitReturns \/ GraceExpires \/ SettleReturns \/ SettleExpires \/ Close

Next ==
  \/ \E r \in Requests : Arrive(r) \/ Reply(r) \/ DeliverCancel(r)
  \/ \E r \in Probes : HealthLive(r) \/ HealthReady(r)
  \/ \E r \in Asks : Handle(r) \/ Run(r)
  \/ \E q \in Questions : Evict(q)
  \/ BeginDrain \/ Shutdown
  \/ Tick \/ ChargeElsewhere

Spec == Init /\ [][Next]_vars

\* Timers fire and the lifespan's coroutine is resumed: no request is obliged
\* to make progress, and no fairness is assumed of any.
FairSpec == Spec /\ WF_vars(Shutdown)

----------------------------------------------------------------------------

\* Type invariant.
TypeOK ==
  /\ now \in 0 .. MaxTime /\ used \in Nat
  /\ phase \in Phases
  /\ inFlight \in SUBSET Requests
  /\ waiting \in SUBSET Requests
  /\ cancelled \in SUBSET inFlight
  /\ at \in [Requests -> Places]
  /\ outcome \in [Requests -> Outcomes]
  /\ charge \in [Requests -> Nat]
  /\ cache \in [Questions -> Entry \union {NoEntry}]
  /\ rows \in [Requests -> Seq({"success", "error", "interrupted"})]
  /\ expired \in BOOLEAN

\* The row a finished call leaves, by its outcome.
RowOf(o) ==
  CASE o = "answered" -> <<"success">>
    [] o = "failed" -> <<"error">>
    [] o = "interrupted" -> <<"interrupted">>
    [] OTHER -> <<>>

(* query_history tells the truth: whatever the interleaving with the       *)
(* shutdown, a call has exactly the one row its outcome calls for, and     *)
(* only calls that were charged have one.                                  *)
HistoryMatchesOutcome ==
  \A r \in Requests :
    /\ rows[r] = RowOf(outcome[r])
    /\ rows[r] # <<>> => charge[r] # 0

(* However the requests of this worker and the charges of the others       *)
(* interleave, at most Limit calls get past the quota gate, none of them   *)
(* shares its daily_count with another, and the count covers them all.     *)
AdmissionsWithinLimit ==
  LET charged == {r \in Asks : charge[r] # 0}
      admitted == {r \in charged : outcome[r] # "denied"}
  IN /\ Cardinality(admitted) <= Limit
     /\ \A r \in charged : charge[r] <= used
     /\ \A r, s \in charged : charge[r] = charge[s] => r = s

(* The engines are closed only after the last tool call has ended and      *)
(* written its row, unless the settle window was overrun.  Health probes   *)
(* are let in during the drain and may still be there.                     *)
TeardownAfterWork ==
  phase \in {"closing", "stopped"} /\ ~expired => inFlight \intersect Asks = {}

(* A cached reply is the logged, successful answer of an earlier charged   *)
(* call with the same question, stored less than CACHE_TTL before; an      *)
(* error, a refusal or an interrupted call is never replayed.              *)
CacheServesLoggedAnswer ==
  \A r \in Asks : outcome[r] = "cached" =>
    LET e == served[r] IN
      /\ rows[e.ans] = <<"success">> /\ charge[e.ans] # 0
      /\ Question[e.ans] = Question[r]
      /\ e.stored <= e.time /\ e.time < e.stored + CacheTTL

(* The shutdown ends even if no request ever makes progress.               *)
DrainCompletes == phase = "draining" ~> phase = "stopped"

(* cancel_remaining: "Request handlers (notably ask_database) catch        *)
(* CancelledError, write a terminal query_history row, then re-raise."     *)
InterruptedHasRow ==
  \A r \in Asks : charge[r] # 0 /\ outcome[r] = "dropped" => rows[r] # <<>>
=============================================================================
