# TLA+ verification of the MCP database agent

This directory holds a TLA+ development of the server under `src/`: modules that
model its components, TLC configurations that check them on small instances, and
theorems that TLAPS proves for every value of the constants. All source paths
below are relative to `src/src/` unless they say otherwise.

Contents: 1 the system, 2 deployment facts the models rest on, 3 modules, 4 runs,
5 proofs, 6 disagreements between code and its documentation, 7 what is not
modelled, 8 plan.

## 1. The system

A FastAPI process serves a web API (`api/app.py`, `api/admin.py`) for people who
sign up, connect a database, pay, and manage API keys, and an MCP endpoint
(`server.py`) whose tool `ask_database` turns a question into SQL with a language
model, runs it on the user's database and returns the rows. Everything durable
is in one authentication database (PostgreSQL): users, API keys, sessions,
verification tokens, query history, processed billing events.

| Component | State it keeps | Operations | Correct when |
|---|---|---|---|
| Burst rate limiter `auth/rate_limiter.py` | a deque of grant instants per user | `acquire` | no window of time holds more grants than the capacity; `retry_after` is exact |
| Daily quota `auth/user_store.py` 1001-1139, `entitlements/` | four columns of the user's row | charge, display, change of time zone, change of plan | admissions per window never exceed the plan; no query is lost; the boundary of a used window never moves earlier |
| `ask_database` `server.py` 233-512 | result cache, history rows | the tool call, from drain gate to reply | history says what happened; the cache replays only logged successes; no more calls than the limit are admitted |
| Graceful drain `core/drain.py`, `middleware/drain_guard.py`, `app.py` lifespan, health probes | drain flag, registered tasks | register, unregister, begin, wait, cancel | the process stops, and only after the calls it let in have written their rows |
| Billing `billing/service.py`, `auth/user_store.py` 772-885 | billing columns, processed events | checkout, confirmation, webhook | no event is lost; Pro comes from a payment, a trial or a completed checkout; plan and status agree; a superseded subscription has no say |
| Accounts `auth/user_store.py` 350-580, `auth/token_store.py`, `auth/onboarding.py` | onboarding and account status, tokens, sessions, a session cache per worker | sign-up, resend, verify, login link, logout, submit database, suspend, unsuspend, close | the status claims only what was earned; links work once; closed is final |
| API keys `auth/user_store.py` 600-750, `auth/middleware.py`, `auth/mcp_token_verifiers.py` | key rows, a key cache per worker | create, rotate, revoke, authenticate | the number of keys is the present plan's but for named leftovers; a revoked key is refused within the cache's lifetime |
| OAuth identities `auth/oauth_identity.py`, `auth/oauth_verifier.py` | issuer and subject on the user's row, signing-key cache | link, unlink, resolve | one account per subject |
| Pipeline factory `core/pipeline_factory.py` | cache of engines, a lock per key | get, invalidate, shutdown | no engine is lost; answers come from the database the user has connected; nobody waits for ever |
| Self-corrector, executor `core/self_corrector.py`, `core/sql_executor.py` | local to a call; shared thread pool | validate, execute, repair, retry | bounded attempts and one verdict; only validated SQL runs |
| Schema inspector `core/schema_inspector.py` | schema text with a TTL, the names the SQLAlchemy Inspector has read | read, refresh | a repair after drift is drafted on a fresh schema |
| SQL validator `core/sql_validator.py` | none | `validate` | what runs is one statement without a refused word, and its result is bounded where the database reads it as the validator does |
| Generator, formatter; URL guard; encryption | none | pure functions, a call of the model | their results |
| Heartbeat, query log, e-mail, settings, tracing, setup payloads | one timestamp; rows; none | input and output | - |

How they interact: an MCP request passes `DrainGuardMiddleware`, the token
verifier (API keys and their cache), and `ask_database`, which asks in this order
the drain flag, the result cache, the burst limiter, the quota row, the pipeline
factory and the corrector, and ends with a history row. The web API writes the
same user row as the quota and the billing code. Changes of an account end with
`_bust_user_caches`, which empties the caches of the worker that runs it and
invalidates its pipelines. Stripe calls the webhook; the browser calls the
confirmation. `SIGTERM` starts the drain in the lifespan.

What is hard to test here: several workers write one row without locks; an
`await` or a transaction boundary separates a decision from its effect; Stripe
repeats and reorders; caches are per process and purged only in one; a task can
be cancelled at any `await`; the shutdown overtakes calls. `PROJECT.json` lists
each such place by line under `hazards`, with the property that covers it or the
reason why none does.

## 2. Facts about the deployment

- The `Dockerfile` starts four `uvicorn` workers. In a worker, a coroutine runs
  alone until its next `await`; the store is synchronous, so most handlers run a
  whole chain of transactions without yielding. Between workers every two
  transactions, and every two statements of them, may interleave.
- The transactions are READ COMMITTED. Only `_lock_user_for_plan_mutation`
  (`SELECT ... FOR UPDATE`) takes a row lock; `create_api_key` and
  `upsert_user_database` use it. A `session.get` followed by assignments is a
  read and a later UPDATE.
- SQLAlchemy's UPDATE names only the columns whose new value differs from the one
  that was loaded. Two stale updates can therefore mix their columns; Quota
  (`RealignWrite`), Billing (`Flush`) and Accounts (`ActivateWrite`,
  `StatusWrite`) model exactly that.
- FastAPI runs synchronous dependencies (`require_user_session`) in a thread pool.
- A worker can be killed between two transactions. Its caches are lost with it.

## 3. Modules

A definition carries the name of the code it models where TLA+ allows; the
`map` of `PROJECT.json` gives its lines. Definitions whose comment begins
with "Mutant:" are deliberately wrong variants of the definition after them; no
specification uses them, and substituting one shows that a property can fail.

**SlidingWindow** is abstract: a call is granted iff fewer than `Capacity` grants
of its user lie in the closed window that ends now. It says nothing about deques.

**RateLimiter** is `PerUserSlidingWindow`: `bucket` is the deque, `Purge` the
`popleft` loop, `Acquire` the whole method (it holds one lock and never awaits).
`granted` remembers every grant and exists only for the properties. The clock is
a natural number that jumps forward by any amount or not at all.

**Quota** is the quota part of one user row (rows do not interact: each statement
names one id). `tx[w]` is what the open transaction of worker `w` has read.
`ConsumeRead`/`ConsumeWrite` are the SELECT and the UPDATE of
`consume_daily_query_quota`, `RealignRead`/`RealignWrite` those of
`update_timezone`; `Charge`, `Realigned` and `EffectiveSnapshot` are their
computations. `NextMidnight` is a parameter of which only "later than now" is
assumed, so the calendar is any calendar.

**AskDatabase** is one worker: `at[r]` is the `await` the task of request `r` is
suspended at, and an action is what runs between two awaits. `Admit` is therefore
gate, cache lookup, burst limiter and charge in one step, since nothing yields between
them. `Evict` is the result cache at its size, which it shares with all users; `Raise`
is any exception that leaves the tool, from the lookup and the charge on.
`DeliverCancel` raises `CancelledError` at the present `await`, and only the
corrector's await catches it. `BeginDrain` to `Close` are the exit of the lifespan
with `DrainState`. The limiter's verdict and the corrector's answer are free choices;
`ChargeElsewhere` is the other workers. The probes are let in during a drain and
answered at once (`HealthLive`, whose heartbeat may or may not have ticked, and
`HealthReady`, which fails once draining).

**Billing** is one user and Stripe. `job[j]` is one run of `process_webhook_event` or
`confirm_checkout_session`, a chain of transactions (`Deliver` or `Confirm`/`Seen`,
`Lookup`, `Current`, `Load`, `Write`, `Record`). Stripe (`Subscribe`, `Complete`,
`Settle`, `PaymentFails`, `GiveUp`, `Cancel`, `Update`, external) has the life of a
subscription as the code's branches know it: it begins before the checkout completes,
waiting for its first payment or on trial; the checkout completes with or without a
payment; it may become past due, unpaid, expired, canceled. Events are emitted at any
of these points, with the status of that moment, and stay deliverable, in any order,
until recorded; `Crash` ends a job anywhere. Statuses the code has no case for are the
OTHER branch, which "incomplete" takes. A Stripe customer that belongs to two users is
not modelled. `CreateCheckoutSession`, `ConfirmCheckoutSession` and `StripeWebhook`
are the endpoints: how such chains begin and end. `Genuine` is the verdict on the
signature: whatever Stripe did not send is refused. The stored price and period end
are left out: no decision reads them.

**Accounts** is one e-mail address: its row, tokens, whether it has a valid
session, and per worker the cached session and the handler under way.
`Signup`, `Request`, `Redeem`, `Submit` and `Command` begin a handler; the other
actions are its transactions. `VerifyEmail` and `ExchangeLoginLink` put the
transactions of those two endpoints together, `Register` those of a submission,
`Administer` those of the administrator. Blind writes of one column are one action with
their load (an equal value could as well have been written at the load);
`activate_user` and `set_account_status` decide on what they loaded and are two.
`Authenticate` is the session lookup of any request. `overlap` and `sealed`
are history variables that let a property speak of runs without overlap.

**BoundedStaleness** is abstract: whoever is served on a claim had the right to it
at most `Bound` ago. It knows a clock and which claims are good, and no caches.

**ApiKeys** is the authentication of `/mcp` over several workers. `key[k]` is a row of
`api_keys`, `cache[w][k]` the instant at which worker `w` forgets the key, `look[w]` a
verification whose thread is awaited, `job[w]` a handler between two transactions.
`LookupOnLoop` is `ApiKeyMiddleware` (mode `api_key_only`), `Lookup` and
`LookupInsert` the hybrid verifier with the gap in which a revocation can fall,
`OAuthVerify` to `OAuthServe` the OAuth verifier, which keeps no verdict.
`create_api_key` locks the user's row and is one step, `rotate_api_key` does not and
is two. The limit that a creation compares with is read from `plan[u]` (`MaxKeys`),
which `PlanChanges`, the billing update as it is seen here, moves either way without
touching a key. `LookupOnLoop` joins the SELECT, the note of the last use and the
insertion: they follow each other without an await, and a revocation by another worker
in between is an age of the entry that `MaxLookup` covers. A claim is a pair of a
credential and an account; `lastValid` records when it was last good, so that ApiKeys
can be shown to implement BoundedStaleness. The only assumption on time is that a
verification ends within `MaxLookup` of its read of the rows; how long checking a
token takes before is left open. Administrators and users call the same `RevokeKey`;
what a closure does to sessions is in Accounts.

**Pipeline** is one account on one worker: `get` of the factory between its awaits
(`ArriveHit`, `ArriveMiss`, `LockedHit`, `Build`, `BuildDone`, ...), the result cache,
and the tools that call it. `pipeline[k]` stays until an insertion, as `TTLCache`
removes expired entries lazily; `open[d]` counts every engine that nobody has
disposed, `leaked[d]` those among them whose build or refresh raised (`BuildFails`,
`InvalidateFails`). A request comes with a configuration up to `ConfigAge` old: this
is what ApiKeys proves of a verifier, and so the two modules compose by their abstract
specification, each an instance of BoundedStaleness.

**SqlValidator** is `SQLValidator.validate` as operators on sequences of tokens. The
scans of the masked text compare characters, and so may take a token for another (a
quoted name that reads `LIMIT 5`, the end of `discount(` for `COUNT(`): such a token
`shows` another kind, and the scans work on `Shown(sql)`. The module also says, apart
from that, what a database makes of the statement (`Read`, `WellFormed`, `Changes`,
`RowsAtMost`, external): it does not look at shown kinds, knows further words that change
something, and evaluates what follows a `LIMIT`, of which only a number that stands alone
(`IsWhole`) is known. `ReadAlike` says that the two read a statement alike.

**CorrectionLoop** is abstract: a question has at most `MaxRetries` attempts and one
verdict, which comes; after a schema error no statement is tried that was drafted on
an older schema, unless the refresh for that error failed (`excused`). An error after the
call's one refresh demands nothing.

**Corrector** composes `execute_with_correction` with SqlValidator, the inspector and
the thread pool. `ask[q]` is the call for question `q` and its local variables; an
action is what runs between two awaits, so `ModelAnswers` is the repair, the next turn
of the loop and its validation. `names` and `text` are the two caches of the
inspector, shared by all questions; `Noted` remembers at the error, before anything is
done about it, that a fresh schema is needed; `late` counts threads whose caller has
given up.

**MC...** modules give the constants for TLC; **...Proofs** modules the theorems.

## 4. Runs

All bounds are constants of the instance and appear in the guards.

| Run | Instance | Result |
|---|---|---|
| `rate_limiter` | 2 users, capacity 2, window 3, clock to 8 (more than two windows, so grants expire and the deque refills) | 0.7 M states. `WindowBound`, `RetryAfterExact`, `BucketIsRecentGrants` hold, and the limiter implements SlidingWindow |
| `quota` | 2 workers, 2 zones half a day apart, limits 1 and 2, a day of 4 ticks, clock to 6 (each zone crosses midnight), charges begin up to count 3 (denied and past the larger limit) | 1.8 M states. Admissions within plan, denials deserved, count and boundary kept, display predicts the charge |
| `quota_lost_update` | the same | violated: see 6.1 |
| `ask_database` | 3 calls, two with the same question, 1 probe, limit 2, cache lifetime 1 tick, clock to 1, 1 charge elsewhere | 3.2 M states. History, admissions, teardown, cache; the drain ends |
| `ask_interrupted` | the same | violated: see 6.2 |
| `billing` | 2 jobs, 2 checkout sessions, 2 events, 1 crash | 4.4 M states up to symmetry. No event lost, Pro comes from a payment, a trial or a completed session, plan and status agree unless an update was stale, superseded subscriptions are left alone |
| `billing_resurrect` | 1 job, 1 session, 2 events | violated: see 6.3 |
| `accounts` | 2 workers, 2 verification and 1 login token, 1 crash | 5.1 M states. Statuses are earned, sessions need a verified address, links are single-use and replaced, onboarding only advances, the paid plan and the closure stay |
| `accounts_closed` | 1 token of each kind, no crash | violated: see 6.4 |
| `api_keys` | 2 users, 2 workers, 3 keys, 1 subject, modes `api_key_only` and `hybrid` (which contains all of `oauth_only`), no key on the free plan and 1 on pro, both users on pro at first, cache lifetime 2, lookup 1, clock to 4 (an entry of a revoked key can expire), 3 handlers, changes of plan or kills | 1.0 M states. Keys within the present plan but for rotations of a key already gone and leftovers of a downgrade; ends of claims take effect in time |
| `pipeline` | 2 databases, 2 calls of `ask_database` and 1 other tool, cache of 1 entry, lifetimes 2 and 1, clock to 4, 1 reconnection | 0.50 M states. No engine lost but the counted leaks, the old database's answers die out, every request ends |
| `corrector` | 2 questions, 2 tables, both dialects, 15 kinds of statement, 2 attempts, 1 thread, 1 change of schema | 0.21 M states. Refused words never run, LIMITs hold where they are read alike; implements CorrectionLoop with its liveness |

Two workers suffice to show every interleaving of two transactions, which is all that
a lost update needs; a third adds no kind of step. Two sessions are the least for a
superseded subscription, and two events the least that the deletion of one needs while
the other is tracked (an update of the newer one, the deletion of the older one), or
that can be applied out of order; slots and sessions are interchangeable. Two
verification tokens the least for a replaced link, and three calls the least that
overdraw a limit of two. Three keys are an old one and the replacements of two
rotations; three handlers are a creation and two overlapping changes of it, one of
which may be a downgrade. The code's limits are 1 and 5; with 0 and 1 each of these
orders is reached within three handlers, and the proof is for any limits. A pipeline
lives for 2 ticks, so that an entry built while another request waits for its lock can
expire under that request. A pipeline cache of one entry evicts at the second
database. Two questions, two attempts and one thread are the least with which a
refresh by one question meets the other's reading, and with which a timed-out query
blocks a queued one; the statements of MCCorrector are the kinds that the validator's
checks tell apart. Workers and users of ApiKeys are interchangeable: its properties
name none, and its liveness is not checked.

Deadlock is checked in the limiter and quota runs, whose systems never stop. It is
off where they really may: after shutdown (AskDatabase, Pipeline), when the bounded
supply of events, tokens, operations or instants is used up (Billing, Accounts,
ApiKeys, Pipeline), when every question has its verdict (Corrector).

Some properties carry an exception, which is part of the result. `...UnlessStale`
and `overlap` name the only interleavings under which the code does not keep the
promise; without the exception TLC finds a counterexample in each case:

- two concurrent requests for a link leave two valid links (`NewTokenReplacesOld`);
- two concurrent redemptions of one link both succeed (`TokenIsSingleUse`), and the
  slower one can set a finished account back (`OnboardingMovesForward`);
- two concurrent first submissions can reset a plan that was paid for in between
  (`PaidPlanIsKept`);
- two concurrent billing updates mix plan and status (`PlanMatchesStatusUnlessStale`);
- a closure that overlaps another request can be undone (`SealedStaysClosed`);
- a deletion that has been found current and is then overtaken by another subscription
  downgrades the user (`SupersededUnlessOvertaken`);
- a rotation of a key that another rotation, a revocation or a closure has ended
  meanwhile adds a key, and a downgrade leaves the keys of the higher plan, which only
  revocations reduce (`KeysWithinPlan` counts both in `extra`);
- Pro is also granted on a trial, and on `checkout.session.completed` whose
  `payment_status` the webhook does not read, so that a payment that settles later may
  still fail (`ProIsEarned`);
- the row limit is lost for aggregates, GROUP BY included, behind a trailing comment,
  where an expression follows `LIMIT` (`100*1000`, `1e6`), and where a scan mistakes a
  token (an alias `"limit 5"`, a function `discount(`); and words in neither list
  (REPLACE, INTO with a quoted name) pass (`OnlyBoundedQueriesRun`; `_run_query` never
  commits). That database and validator find the same ends of literals and comments is
  assumed;
- statements drafted on the old schema are tried after a refresh that raised, and
  after a schema error that follows the call's one refresh
  (`ImplementsCorrectionLoop`);
- an engine leaks when a build is abandoned or fails after it was made, and when the
  refresh of an invalidation raises; and an engine inserted after the shutdown counts
  as cached although nobody will dispose it (`NoEngineLost`).

Fairness, where a property needs it. In AskDatabase `FairSpec` assumes weak fairness
of the steps of the lifespan (`Shutdown`): `asyncio.wait` returns when its tasks are
done or its timeout fires, and the coroutine is then resumed. No request is assumed to
ever progress; the two timeouts alone end the drain. In Pipeline a request that can go
on does: `asyncio.Lock` resumes its next waiter, and connections, model calls and
queries end by their timeouts (weak fairness of each request); nobody is obliged to
cancel. In Corrector the steps that a clock or a client timeout ends are fair for each
question (`WF_(ask[q])(Proceeds(q))`); no thread has to become free and no late query
has to end, so the verdict of a queued query comes from the timeout alone. The steps
of Billing, Accounts and ApiKeys are not assumed fair, and no liveness is claimed for
them.

Refinements: `ImplementsSlidingWindow` (RateLimiter, SlidingWindow),
`ServesOnlyRecentClaims` (ApiKeys, BoundedStaleness), `AnswersFromRecentDatabase`
(Pipeline, BoundedStaleness) and `ImplementsCorrectionLoop` (Corrector,
CorrectionLoop) are each the specification of an abstract module under a refinement
mapping, checked as a PROPERTY; all four are also proved, the last without its
liveness.

## 5. Proofs

`RateLimiterProofs` (any users, capacity, window, clock bound). What `acquire`
decides, it decides on the purged deque, whereas the promise is about all grants ever
made. `WindowBound` is therefore not inductive. The invariant `IInv` adds that the
deque is the tail of the grants and what it dropped is older than a window
(`BucketIsRecentGrants`, by itself `NoGrantForgotten`), that it holds at most
`Capacity`, that grants are in order, and that a refused user's deque is full
(`Bookkeeping`). The lemmas on `Purge` characterise the `CHOOSE` of the loop's exit.
From `Invariance` follow `Types` (`TypeOK`), `BurstLimitHolds` (`WindowBound`),
`RetryAfterIsExact` (`RetryAfterExact`), and, via `LiveCountsWindow` (the deque's
length is the cardinality of the abstract window), `Refinement`
(`ImplementsSlidingWindow`): every step is a step of SlidingWindow or a stutter.

`QuotaProofs` (any number of workers, zones, plans, limits, any `NextMidnight` that
returns a later instant). The invariant `QInv` adds to `TypeOK` that open
transactions read in the past, and `Accounting`: the count covers the admissions,
and under a single plan the admissions are exactly the smaller of count and limit.
From it: `AdmissionsWithinPlan`, `DenialsAreDeserved`, `CountIsKept`,
`DisplayedQuotaIsEnforced`, `ResetMovesOnlyLater`. `SingleWorkerKeepsContract`
shows that the contract of `update_timezone`, which two workers break (6.1), holds
without exception for one.

`ApiKeysProofs` (any users, keys, subjects, workers, modes, limits of the plans,
lifetimes). `ServesOnlyRecentClaims` says something of the moment at which a request
is served, but what is served then was read earlier. The invariant `Inv` therefore
carries the age of what is kept: an entry of a cache expires at most `TTL + MaxLookup`
after the last instant at which its key was good (`CacheBacked`), a lookup under way
has read no longer than `MaxLookup` ago, and what it read was good then
(`LookupBacked`), and what is good now is recorded as such (`Remembered`). Most steps
are `Calm`: they add nothing to a cache or a lookup and take no row away, so that
`CalmKeeps` covers them at once; the steps that fill a cache, those that begin a
lookup, and the clock have lemmas of their own. On top of it, `Refinement` maps steps
that serve nobody to `AbsChange` and requests to `AbsServe`. `KeysStayWithinPlan`
rests on the count of the active keys being right under the row lock, on a rotation
that replaces an active key leaving it as it is, and on a change of plan adding to
`extra` exactly what is then in excess of the new limit, so that no creation can add
to it. `MaxLookup` is assumed in the guard of `Tick`: the code itself puts no limit on
a lookup.

`BillingProofs` (any jobs, checkout sessions, events, crashes). A job may be killed
between the commit of its update and the record of its event. `Inv` therefore adds
that a job about to record its event has applied it (`EffectFirst`), which gives
`EventsAreNotLost` (`NoEventLost`). `WhereProComesFrom` (`ProIsEarned`) needs to know of
every event that can be delivered what must have happened at Stripe before (`Truthful`), of
every job under way that its event is such a one (`OnlyTrueEvents`), and of Stripe that it
takes none of it back (`WorldIsSound`).
`PlanAgreesWithStatus` proves `PlanMatchesStatusUnlessStale`, and `SupersededIsKept`
proves `SupersededUnlessOvertaken` from `DeletionsCurrent`: a deletion past its check
either finds the subscription it was compared with or has been marked as overtaken.

`AccountsProofs` (any workers, tokens, crashes). Most of the properties are about
what requests that do not overlap may do, while `overlap` only says which kinds ever
did. `OverlapRecorded` ties the two together: a kind that is not in `overlap` has at
most one request under way. On this rest `IssueSeesAll` (whoever is about to insert a
link has seen every live one), `RedeemsInOrder` (a verification finds the account as
it was checked, and a paid plan has a complete set-up) and `ActivatesOnce` (an
activation has loaded the free plan). `RequestsBacked` and `TokensTracked` say which
requests there can be for the row and the tokens as they are, `SealedIsQuiet` that
nothing is left that would write the status. There is one lemma per action, one for
all starts (`StartKeeps`) and one for all endings (`EndingKeeps`); `RowWriters` and
`RowSteps` give the action properties (`NoStepBack`, `NoRequestTakesThePlan`). TLC
checked the strengthened invariant on the instance of the `accounts` run first.

`AskDatabaseProofs` (any calls, probes, questions, limits, lifetimes, charges
elsewhere). The properties relate a call's outcome to its history row, its charge and
the state of the shutdown, and the shutdown may interrupt it at any await. `Inv` adds
`PlacesTell` (the await a call is suspended at tells whether it is registered with the
drain, that nothing has been decided yet and that it is charged), `ChargesCount`
(charges are different numbers up to the count of the row, and those not refused are
within the limit), `CallsAwaited` (while the drain waits, it waits for every call
registered; a call is registered before its first await), and `CacheIsLogged` (an
entry is the answer of a charged call with a success row). `MovesWork` shows once what
any step of a call keeps if it writes the row that goes with its outcome; each action
then only shows that it is such a step. `QuotaIsKept` follows because admitted calls
map one-to-one into `1 .. Limit`.

`PipelineProofs` (any databases, requests, size of the cache, lifetimes). For
`NoEngineIsLost` the invariant counts: `EnginesOK` says that `open[d]` is one for an
entry, one for a lock that is held and one for each leak, and `LocksOK` that the
holder of a lock is the one that builds under its key and that no fresh entry is there
meanwhile, which is why an insertion replaces no live engine. `CacheOK` bounds the
cache by counting the fresh entries that an eviction leaves. For `Refinement` the
invariant carries ages as in ApiKeysProofs: a request came with a configuration
`ConfigAge` old and is `MaxRequest` old at most (`Timely`), and the cached result was
given within such a request (`ResultOK`); the sum of these bounds is `Bound` of
BoundedStaleness. `MaxRequest` is assumed in the guard of `Tick`: no request outlives
its own timeouts.

`CorrectorProofs` (any set of statements a model may write, any questions, tables,
threads, retries). Its first half is about SqlValidator and has no state:
`LimitAppended`, `ClampedIsBounded` and `LimitedIsBounded` show that the text which
the validator returns is one statement without a refused word and that, if it reads
alike, the LIMIT the database goes by is the one it wrote or checked. `OneStatement`
is why dropping the trailing semicolons leaves no statement behind. The second half is
the state machine. `Inv` adds that whatever waits for a thread or runs is the
validator's version of an accepted draft (`Checked`), which gives `BoundedQueries`;
and, for the refinement, that the inspector's names are at least as recent as what
each call needs (`need <= readAt`), or the call is excused, because `readAt` never
falls whichever question refreshes or rereads. So a prompt built by any call is recent
enough for that call. `Works` says of a step of a call what CorrectionLoop's `Work`
does; `Refinement` proves `CorrectionLoopSafety`, which is `LoopSpec` without its
liveness. `PoolMoves` shows that a thread is counted once, by its call or as a late
one.

Proving changed three definitions. `WithoutSemicolon` now drops trailing semicolons
only, as `rstrip` does, instead of all of them. `WellFormed` also rejects a statement
whose parentheses do not match: its `LIMIT` may stand inside a parenthesis that never
closes, which no database runs; without this `OnlyBoundedQueriesRun` fails for such
drafts, which the instance does not contain. Assumptions that became explicit because
the model relied on them: `Free` is no request, `Unread` contains no table, and drafts
are sequences whose numbers are naturals, also where a scan only takes a token for a
number. They are about the model's own markers and the shape of tokens, and restrict
no behaviour of the code.

The assumptions are those the modules state about their constants; TLC evaluates
them in the runs. TLC checked the strengthened invariants of AskDatabase,
Pipeline and Corrector on the instances of their runs as well.

Every invariant and every action property of the passing runs is a theorem.
Only model-checked: liveness under fairness (`DrainCompletes`, `EveryRequestEnds`,
the verdict that `ImplementsCorrectionLoop` demands). It, like statements
about ENABLED, induction over data and RECURSIVE operators, is outside what the
prover handles; none of the modules needs the last two.

## 6. Disagreements found

1. `NoEarlyReset`. `update_timezone` (`auth/user_store.py:1120`) reads the row
   without a lock. If the other worker opens a new window between this read and the
   commit, a boundary computed from the old row replaces the one of the window now
   in use, and it may be earlier, contrary to the docstring at line 1103.
2. `InterruptedHasRow`. The `await` of the pipeline (`server.py:376`) stands before
   the `try` that catches the cancellation, so a call that was charged and is
   cancelled there leaves no history row, contrary to `core/drain.py:66`. The model
   delivers the cancellation to the tool's task, as `tests/test_drain.py` does;
   whether the MCP library always passes it on is outside this repository.
3. `ConfirmRespectsDeletion`. A checkout session stays paid for ever, so a first
   confirmation after the subscription was deleted makes the user Pro again
   (`billing/service.py:264`), contrary to the docstring at line 64.
4. `ClosedIsTerminal`. `set_account_status` compares the status it loaded; a
   concurrent suspension, unsuspension or first submission overwrites a closure,
   contrary to `TERMINAL_ACCOUNT_STATES` in `auth/onboarding.py:20`.

Further ones, met while modelling and not shown by a run of their own:

- `core/sql_validator.py:215` appends the LIMIT behind a trailing `--` comment, where
  the database does not see it; and the comment at line 220, that aggregations
  "produce a single row regardless", does not hold for GROUP BY. The property
  `OnlyBoundedQueriesRun` excepts both, and what line 420 accepts as a number.
- `billing/service.py:317` grants Pro on `checkout.session.completed` without reading
  `payment_status`, which the confirmation (line 223) does read.
- `LIMIT ALL` and `LIMIT offset, count` are not recognised, so a second LIMIT is
  appended; the syntax error that follows is not among the repairable ones.
- `core/self_corrector.py` returns, when the attempts are used up, the statement of a
  last repair that was never attempted.
- The markers "no such table", "undefined table" (`core/self_corrector.py:20-38`)
  match SQLite's messages; PostgreSQL's put the name between the words.
  `IsSchemaDrift` models what the comparison does.
- The TTL of the schema text rereads column samples, but the names come from the
  SQLAlchemy Inspector, whose cache only `refresh` empties; after a table with a text
  column was dropped, `get_full_schema` raises until a refresh or a new pipeline.
- The docstring of `refresh` (`core/schema_inspector.py:34`) assumes one task per
  engine; the questions of a user share it. `ImplementsCorrectionLoop` holds with two
  of them.
- `invalidate` (`core/pipeline_factory.py:200`) is to "drop all cache entries
  belonging to user_id"; a refresh that raises ends it early (`InvalidateFails`). An
  engine built for a user without a language-model key, or in a build that was
  cancelled, is not disposed.
- The state of the OAuth linking flow can be used again until its 600 seconds are
  over, and the callback does not ask for the account's status; both are in ApiKeys.

## 7. Not modelled

- The read-only endpoints, account listings and setup payloads change no state.
- `validate_database_connection` (`api/app.py:684`) writes a status of the connected
  database that no decision reads, possibly onto one connected meanwhile.
- uvicorn's own wait for connections, and the health of a worker whose loop is stuck.
- Which account-wide effects a purge in the same worker has beyond bounding staleness:
  `Bust` shortens it in the worker that runs it, and no property relies on that.
- The verification of a token (signatures, issuer, key sets and their cache), address
  ranges of the URL guard, encryption, masking of literals in SQL: sequential
  functions of their input, abstracted into their verdicts.
- An engine that is disposed while a request still uses it: SQLAlchemy lets the
  connections in use finish and opens new ones on demand, which is external.
- `OAuthMCPMiddleware` and `HybridMCPMiddleware` (`auth/middleware.py` 130-310),
  `require_api_key`, `tools/ask_database.py`: not installed or not called.
- The account-status gate of the checkout, the price id and the period end.
- Wording, layout, logging, HTTP details, configuration, the frontend, migrations,
  scripts. Together these are more than half of the source lines.

## 8. Plan

1. *Done:* SlidingWindow, RateLimiter, Quota, Billing, Accounts, ApiKeys and
   Pipeline with BoundedStaleness, AskDatabase with the drain and the probes,
   Corrector with SqlValidator and CorrectionLoop; the proofs of all of them.
2. Next: a theorem that composes ApiKeys with Pipeline, whose `ConfigAge` is the
   bound ApiKeys proves; what the liveness properties rest on, as safety.
