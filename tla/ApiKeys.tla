------------------------------ MODULE ApiKeys ------------------------------
(***************************************************************************)
(* Machine access to /mcp: the API keys of auth/user_store.py with their   *)
(* lifecycle, the OAuth identities linked to accounts, and the token       *)
(* verifiers with the key cache of each worker.                            *)
(* A handler of the web API runs on the event loop of its worker without   *)
(* an await, so the loop of w is busy while job[w] is not Idle; the other  *)
(* workers go on between its transactions.  A verifier in hybrid or OAuth  *)
(* mode looks the credential up in a thread and awaits it, so handlers of  *)
(* the same worker run between the lookup and the insertion of its result. *)
(* The users are set up: onboarding is complete and a database connected.  *)
(* Their sessions are Accounts' subject; here any user may call at any     *)
(* time, which a session cached in another worker allows for a while.      *)
(***************************************************************************)
EXTENDS Integers, FiniteSets

CONSTANTS
  Users,
  Keys,       \* ids of key rows, given out in order; a raw key is named by its row
  Subjects,   \* pairs of issuer and subject that an identity token may carry
  Workers,
  Modes,      \* the values of mcp_auth_mode to consider
  StartPlans, \* the plans that users may be on at the start
  FreeKeys,   \* max_api_keys of the free plan
  ProKeys,    \* ... and of the pro plan
  TTL,        \* lifetime of an entry of the key cache, in ticks
  MaxLookup,  \* assumed: how long after its read of the rows a verification ends at most
  MaxTime,    \* bound: the last instant of the clock
  MaxOps      \* bound: how many handlers begin and workers are killed

ASSUME NamesAssumption ==
  /\ Keys \subseteq Nat
  /\ Keys \intersect Subjects = {}
  /\ "no_subject" \notin Subjects
ASSUME ModesAssumption == Modes \subseteq {"api_key_only", "oauth_only", "hybrid"}
Plans == {"free", "pro"}
ASSUME PlansAssumption == StartPlans \subseteq Plans
ASSUME NumbersAssumption ==
  /\ TTL \in Nat \ {0}
  /\ {FreeKeys, ProKeys, MaxLookup, MaxTime, MaxOps} \subseteq Nat

VARIABLES
  mode,      \* settings.mcp_auth_mode
  now,       \* the clock
  plan,      \* plan[u]: users.plan_code
  account,   \* account[u]: users.account_status
  key,       \* key[k]: row k of api_keys, or NoKey
  link,      \* link[u]: the OAuth identity on u's row, or NoSubject
  invited,   \* the users to whom a link state was issued; it may have expired
  cache,     \* cache[w][k]: when the entry of k in w expires, 0 if there is none
  look,      \* look[w]: what the verification w awaits has read
  job,       \* job[w]: the handler w is in the middle of
  ops,       \* how many handlers have begun or workers were killed
  extra,     \* history: keys of u that no count ever admitted under the present plan
  lastValid, \* history: the last instant at which a claim was good
  served     \* history: the claim served in the step just made, if any

vars ==
  <<mode, now, plan, account, key, link, invited, cache, look, job, ops, extra, lastValid, served>>

Credentials == Keys \union Subjects
Claims == Credentials \X Users
Bound == [c \in Claims |-> IF c[1] \in Keys THEN TTL + MaxLookup ELSE MaxLookup]

NoKey == [owner |-> "none"]
KeyRow == [owner : Users, live : BOOLEAN, mcp : BOOLEAN]
NoSubject == "no_subject"
Idle == [pc |-> "idle"]

Init ==
  /\ mode \in Modes
  /\ now = 0
  /\ plan \in [Users -> StartPlans]
  /\ account = [u \in Users |-> "active"]
  /\ key = [k \in Keys |-> NoKey]
  /\ link = [u \in Users |-> NoSubject]
  /\ invited = {}
  /\ cache = [w \in Workers |-> [k \in Keys |-> 0]]
  /\ look = [w \in Workers |-> Idle]
  /\ job = [w \in Workers |-> Idle]
  /\ ops = 0
  /\ extra = [u \in Users |-> 0]
  /\ lastValid = [c \in Claims |-> 0 - Bound[c] - 1]
  /\ served = {}

----------------------------------------------------------------------------
(* The rows as they are now.                                               *)

Exists(k) == key[k] # NoKey
Live(k) == Exists(k) /\ key[k].live

\* revoked_at is NULL: what create_api_key counts.
LiveKeys(u) == {k \in Keys : Live(k) /\ key[k].owner = u}

\* get_user_by_api_key returns a configuration; the user is set up.
KeyFound(k) == Live(k) /\ account[key[k].owner] = "active"

\* ... for u, and the verifier accepts its scopes.
KeyIsGood(k, u) == KeyFound(k) /\ key[k].owner = u /\ key[k].mcp

\* OAuthIdentityResolver.resolve: the linked account is active.
SubjectIsGood(s, u) == link[u] = s /\ account[u] = "active"

Good(c) == IF c[1] \in Keys THEN KeyIsGood(c[1], c[2]) ELSE SubjectIsGood(c[1], c[2])

\* The history variable lastValid, kept by every step.
Remember ==
  lastValid' = [c \in Claims |-> IF Good(c) \/ Good(c)' THEN now' ELSE lastValid[c]]

\* The step serves no request.
Quiet == served' = {} /\ Remember

----------------------------------------------------------------------------
(* Caches and handlers.                                                    *)

OnLoop(w) == job[w] = Idle

Counted == ops < MaxOps /\ ops' = ops + 1

Begin(w, j) == OnLoop(w) /\ Counted /\ job' = [job EXCEPT ![w] = j]
Done(w) == job' = [job EXCEPT ![w] = Idle]
At(w, pc) == job[w].pc = pc

\* _bust_user_caches: the entries of the account go, in this worker only.
Bust(w, u) ==
  cache' = [cache EXCEPT ![w] = [k \in Keys |->
              IF Exists(k) /\ key[k].owner = u THEN 0 ELSE @[k]]]

Row(u, mcp) == [owner |-> u, live |-> TRUE, mcp |-> mcp]

\* The id of the next row.
Fresh(k) == ~Exists(k) /\ \A j \in Keys : j < k => Exists(j)

\* get_plan(...).max_api_keys.
MaxKeys(p) == IF p = "pro" THEN ProKeys ELSE FreeKeys

\* Mutant: the quota admits one key more.
WithinQuotaOrAt(u) == Cardinality(LiveKeys(u)) <= MaxKeys(plan[u])

\* check_api_key_quota, with the plan_code of the locked row.
WithinQuota(u) == Cardinality(LiveKeys(u)) < MaxKeys(plan[u])

\* create_api_key locks the user's row, so its checks and its insert are one step.
MayIssue(u) == account[u] = "active" /\ WithinQuota(u)

CreateKey(w, u, k, mcp) ==
  /\ OnLoop(w) /\ Counted /\ Fresh(k)
  /\ MayIssue(u)
  /\ key' = [key EXCEPT ![k] = Row(u, mcp)]
  /\ Bust(w, u)
  /\ UNCHANGED <<mode, now, plan, account, link, invited, look, job, extra>> /\ Quiet

\* The rows K get their revoked_at.
Revoke(K) == key' = [k \in Keys |-> IF k \in K THEN [key[k] EXCEPT !.live = FALSE] ELSE key[k]]

\* revoke_api_key, for its owner or an administrator.
RevokeKey(w, k) ==
  /\ OnLoop(w) /\ Counted /\ Live(k)
  /\ Revoke({k})
  /\ extra' = [extra EXCEPT ![key[k].owner] = IF @ = 0 THEN 0 ELSE @ - 1]
  /\ Bust(w, key[k].owner)
  /\ UNCHANGED <<mode, now, plan, account, link, invited, look, job>> /\ Quiet

\* rotate_api_key reads the row of an active key, without a lock, ...
RotateRead(w, k) ==
  /\ Live(k)
  /\ Begin(w, [pc |-> "rotate", k |-> k])
  /\ UNCHANGED <<mode, now, plan, account, key, link, invited, cache, look, extra>> /\ Quiet

\* ... and commits the revocation of what it read and a replacement.
RotateCommit(w, k) ==
  /\ At(w, "rotate") /\ Fresh(k)
  /\ LET old == key[job[w].k] IN
       /\ key' = [key EXCEPT ![job[w].k].live = FALSE, ![k] = Row(old.owner, old.mcp)]
       /\ extra' = IF old.live THEN extra ELSE [extra EXCEPT ![old.owner] = @ + 1]
       /\ Bust(w, old.owner)
  /\ Done(w)
  /\ UNCHANGED <<mode, now, plan, account, link, invited, look, ops>> /\ Quiet

\* admin_suspend_user and admin_unsuspend_user (their races are in Accounts).
Suspend(w, u) ==
  /\ OnLoop(w) /\ Counted /\ account[u] = "active"
  /\ account' = [account EXCEPT ![u] = "suspended"]
  /\ Bust(w, u)
  /\ UNCHANGED <<mode, now, plan, key, link, invited, look, job, extra>> /\ Quiet

Unsuspend(w, u) ==
  /\ OnLoop(w) /\ Counted /\ account[u] = "suspended"
  /\ account' = [account EXCEPT ![u] = "active"]
  /\ Bust(w, u)
  /\ UNCHANGED <<mode, now, plan, key, link, invited, look, job, extra>> /\ Quiet

\* admin_close_user: the status first, ...
Close(w, u) ==
  /\ account[u] # "closed"
  /\ Begin(w, [pc |-> "close", u |-> u])
  /\ account' = [account EXCEPT ![u] = "closed"]
  /\ UNCHANGED <<mode, now, plan, key, link, invited, cache, look, extra>> /\ Quiet

\* ... then revoke_all_user_api_keys (and the sessions), then the caches.
CloseRevokes(w) ==
  /\ At(w, "close")
  /\ Revoke(LiveKeys(job[w].u))
  /\ extra' = [extra EXCEPT ![job[w].u] = 0]
  /\ Bust(w, job[w].u)
  /\ Done(w)
  /\ UNCHANGED <<mode, now, plan, account, link, invited, look, ops>> /\ Quiet

----------------------------------------------------------------------------
(* Billing, whose own subject is the module of that name.                  *)

\* How many active keys of u are more than plan p allows.
Excess(u, p) ==
  IF Cardinality(LiveKeys(u)) > MaxKeys(p) THEN Cardinality(LiveKeys(u)) - MaxKeys(p) ELSE 0

\* apply_billing_update, in whichever process, or activate_free_tier writes
\* another plan_code; it revokes no key.
PlanChanges(u, p) ==
  /\ Counted /\ plan[u] # p
  /\ plan' = [plan EXCEPT ![u] = p]
  /\ extra' = [extra EXCEPT ![u] = Excess(u, p)]
  /\ UNCHANGED <<mode, now, account, key, link, invited, cache, look, job>> /\ Quiet

----------------------------------------------------------------------------
(* OAuth identities.                                                       *)

LinkedTo(s) == {u \in Users : link[u] = s}

\* _consume_oauth_link_state: some state that was handed out names u.  Whether
\* its 600 seconds are over is left open.
StateNames(u) == u \in invited

\* oauth_link_start hands out an encrypted state, which can be used more than
\* once; a second one adds nothing.
LinkStart(w, u) ==
  /\ OnLoop(w) /\ Counted /\ u \notin invited
  /\ invited' = invited \union {u}
  /\ UNCHANGED <<mode, now, plan, account, key, link, cache, look, job, extra>> /\ Quiet

\* oauth_link_callback: the state names u, the provider
\* vouches for s, and link_user_oauth_identity finds no other account with s, ...
LinkRead(w, u, s) ==
  /\ OnLoop(w) /\ StateNames(u)
  /\ LinkedTo(s) \subseteq {u}
  /\ job' = [job EXCEPT ![w] = [pc |-> "link", u |-> u, s |-> s]]
  /\ UNCHANGED <<mode, now, plan, account, key, link, invited, cache, look, ops, extra>> /\ Quiet

\* ... and writes it; the unique index refuses a second account with s.
LinkCommit(w) ==
  /\ At(w, "link")
  /\ IF LinkedTo(job[w].s) \subseteq {job[w].u}
       THEN /\ link' = [link EXCEPT ![job[w].u] = job[w].s]
            /\ Bust(w, job[w].u)
       ELSE UNCHANGED <<link, cache>>
  /\ Done(w)
  /\ UNCHANGED <<mode, now, plan, account, key, invited, look, ops, extra>> /\ Quiet

Unlink(w, u) ==
  /\ OnLoop(w) /\ Counted /\ link[u] # NoSubject
  /\ link' = [link EXCEPT ![u] = NoSubject]
  /\ Bust(w, u)
  /\ UNCHANGED <<mode, now, plan, account, key, invited, look, job, extra>> /\ Quiet

----------------------------------------------------------------------------
(* Requests to /mcp.                                                       *)

Serve(c) == served' = {c}

\* Mutant: a hit renews the entry, so that a busy key never expires.
HitRenews(w, k) ==
  /\ mode # "oauth_only" /\ OnLoop(w)
  /\ cache[w][k] # 0
  /\ Serve(<<k, key[k].owner>>)
  /\ cache' = [cache EXCEPT ![w][k] = now + TTL]
  /\ UNCHANGED <<mode, now, plan, account, key, link, invited, look, job, ops, extra>> /\ Remember

\* Mutant: every hit adds a lifetime to the entry.
HitExtends(w, k) ==
  /\ mode # "oauth_only" /\ OnLoop(w)
  /\ cache[w][k] # 0
  /\ Serve(<<k, key[k].owner>>)
  /\ cache' = [cache EXCEPT ![w][k] = @ + TTL]
  /\ UNCHANGED <<mode, now, plan, account, key, link, invited, look, job, ops, extra>> /\ Remember

\* The key is in the worker's cache: nothing else is asked.
Hit(w, k) ==
  /\ mode # "oauth_only" /\ OnLoop(w)
  /\ cache[w][k] # 0
  /\ Serve(<<k, key[k].owner>>)
  /\ UNCHANGED <<mode, now, plan, account, key, link, invited, cache, look, job, ops, extra>>
  /\ Remember

\* ApiKeyMiddleware: lookup and insertion with no await in between, in one step
\* although another worker may commit in between: what such a lookup read is at
\* most MaxLookup old, as in the thread of the other mode.
LookupOnLoop(w, k) ==
  /\ mode = "api_key_only" /\ OnLoop(w)
  /\ cache[w][k] = 0
  /\ Exists(k) /\ KeyIsGood(k, key[k].owner)
  /\ cache' = [cache EXCEPT ![w][k] = now + TTL]
  /\ Serve(<<k, key[k].owner>>)
  /\ UNCHANGED <<mode, now, plan, account, key, link, invited, look, job, ops, extra>> /\ Remember

\* HybridMCPTokenVerifier._resolve_api_key misses, and the thread it awaits
\* reads the rows; a key it rejects ends the request.
Lookup(w, k) ==
  /\ mode = "hybrid" /\ look[w] = Idle
  /\ cache[w][k] = 0
  /\ Exists(k) /\ KeyIsGood(k, key[k].owner)
  /\ look' = [look EXCEPT ![w] = [pc |-> "found", c |-> k, since |-> now]]
  /\ UNCHANGED <<mode, now, plan, account, key, link, invited, cache, job, ops, extra>> /\ Quiet

\* Back on the loop the result goes into the cache, whatever happened since.
LookupInsert(w) ==
  /\ look[w].pc = "found" /\ OnLoop(w)
  /\ cache' = [cache EXCEPT ![w][look[w].c] = now + TTL]
  /\ Serve(<<look[w].c, key[look[w].c].owner>>)
  /\ look' = [look EXCEPT ![w] = Idle]
  /\ UNCHANGED <<mode, now, plan, account, key, link, invited, job, ops, extra>> /\ Remember

\* OAuthMCPTokenVerifier: a thread verifies the token, which takes however
\* long and depends on nothing here, ...
OAuthVerify(w, s) ==
  /\ mode # "api_key_only" /\ look[w] = Idle
  /\ look' = [look EXCEPT ![w] = [pc |-> "verifying", c |-> s]]
  /\ UNCHANGED <<mode, now, plan, account, key, link, invited, cache, job, ops, extra>> /\ Quiet

\* Mutant: the account's status is not looked at.
OAuthResolveAny(w, u) ==
  /\ look[w].pc = "verifying"
  /\ link[u] = look[w].c
  /\ look' = [look EXCEPT ![w] = [pc |-> "resolved", c |-> @.c, u |-> u, since |-> now]]
  /\ UNCHANGED <<mode, now, plan, account, key, link, invited, cache, job, ops, extra>> /\ Quiet

\* ... another resolves its subject to an account, ...
OAuthResolve(w, u) ==
  /\ look[w].pc = "verifying"
  /\ SubjectIsGood(look[w].c, u)
  /\ look' = [look EXCEPT ![w] = [pc |-> "resolved", c |-> @.c, u |-> u, since |-> now]]
  /\ UNCHANGED <<mode, now, plan, account, key, link, invited, cache, job, ops, extra>> /\ Quiet

\* ... and the request is served; no verdict is kept.
OAuthServe(w) ==
  /\ look[w].pc = "resolved" /\ OnLoop(w)
  /\ Serve(<<look[w].c, look[w].u>>)
  /\ look' = [look EXCEPT ![w] = Idle]
  /\ UNCHANGED <<mode, now, plan, account, key, link, invited, cache, job, ops, extra>> /\ Remember

\* The credential is refused, a thread raises, or the client goes away.
Abandon(w) ==
  /\ look[w] # Idle
  /\ look' = [look EXCEPT ![w] = Idle]
  /\ UNCHANGED <<mode, now, plan, account, key, link, invited, cache, job, ops, extra>> /\ Quiet

----------------------------------------------------------------------------

\* A killed worker loses its cache and what it was doing.
Crash(w) ==
  /\ Counted
  /\ cache' = [cache EXCEPT ![w] = [k \in Keys |-> 0]]
  /\ look' = [look EXCEPT ![w] = Idle]
  /\ job' = [job EXCEPT ![w] = Idle]
  /\ UNCHANGED <<mode, now, plan, account, key, link, invited, extra>> /\ Quiet

\* Time passes, but no verification outlasts MaxLookup; a TTLCache treats an
\* entry as absent from the instant it expires.
Tick ==
  /\ now < MaxTime
  /\ \A w \in Workers : look[w].pc \in {"found", "resolved"} => now < look[w].since + MaxLookup
  /\ now' = now + 1
  /\ cache' = [w \in Workers |-> [k \in Keys |->
                 IF cache[w][k] > now + 1 THEN cache[w][k] ELSE 0]]
  /\ UNCHANGED <<mode, plan, account, key, link, invited, look, job, ops, extra>> /\ Quiet

Handler(w) ==
  \/ \E k \in Keys : \/ RevokeKey(w, k) \/ RotateRead(w, k) \/ RotateCommit(w, k)
                     \/ \E u \in Users, mcp \in BOOLEAN : CreateKey(w, u, k, mcp)
  \/ \E u \in Users : \/ Suspend(w, u) \/ Unsuspend(w, u) \/ Close(w, u) \/ Unlink(w, u)
                      \/ LinkStart(w, u)
                      \/ \E s \in Subjects : LinkRead(w, u, s)
  \/ CloseRevokes(w)
  \/ LinkCommit(w)

McpRequest(w) ==
  \/ \E k \in Keys : Hit(w, k) \/ LookupOnLoop(w, k) \/ Lookup(w, k)
  \/ \E s \in Subjects : OAuthVerify(w, s)
  \/ \E u \in Users : OAuthResolve(w, u)
  \/ LookupInsert(w) \/ OAuthServe(w) \/ Abandon(w)

Next ==
  \/ Tick
  \/ \E w \in Workers : Handler(w) \/ McpRequest(w) \/ Crash(w)
  \/ \E u \in Users, p \in Plans : PlanChanges(u, p)

Spec == Init /\ [][Next]_vars

----------------------------------------------------------------------------

Looking ==
  {Idle} \union [pc : {"found"}, c : Keys, since : Nat]
         \union [pc : {"verifying"}, c : Subjects]
         \union [pc : {"resolved"}, c : Subjects, u : Users, since : Nat]

Jobs ==
  {Idle} \union [pc : {"rotate"}, k : Keys]
         \union [pc : {"close"}, u : Users]
         \union [pc : {"link"}, u : Users, s : Subjects]

(* Type invariant: an entry expires within a lifetime of now, and whatever *)
(* is cached, looked up or rotated has a row.                              *)
TypeOK ==
  /\ mode \in Modes
  /\ now \in Nat
  /\ plan \in [Users -> Plans]
  /\ account \in [Users -> {"active", "suspended", "closed"}]
  /\ key \in [Keys -> {NoKey} \union KeyRow]
  /\ link \in [Users -> {NoSubject} \union Subjects]
  /\ invited \subseteq Users
  /\ cache \in [Workers -> [Keys -> Nat]]
  /\ look \in [Workers -> Looking]
  /\ job \in [Workers -> Jobs]
  /\ ops \in 0 .. MaxOps
  /\ extra \in [Users -> Nat]
  /\ lastValid \in [Claims -> Int]
  /\ served \subseteq Claims
  /\ \A w \in Workers :
       /\ \A k \in Keys : cache[w][k] # 0 => Exists(k) /\ cache[w][k] <= now + TTL
       /\ At(w, "rotate") => Exists(job[w].k)
       /\ look[w].pc = "found" => Exists(look[w].c)

(* The number of a user's active keys is that of the plan he is on now,    *)
(* although only create_api_key counts, rotations by two workers, or a     *)
(* rotation and a revocation, may overlap, and billing lowers the plan and *)
(* leaves the keys.  Exactly two things go beyond it, and the first        *)
(* revocations make up for them: keys that were within the plan before the *)
(* last change of it, and one for each rotation since of a key that was    *)
(* already gone.                                                           *)
KeysWithinPlan ==
  \A u \in Users : Cardinality(LiveKeys(u)) <= MaxKeys(plan[u]) + extra[u]

Abstract == INSTANCE BoundedStaleness
  WITH Claims <- Claims, Bound <- Bound, MaxTime <- MaxTime,
       now <- now, valid <- [c \in Claims |-> Good(c)], lastValid <- lastValid, served <- served

(* A revocation, suspension, closure or unlinking takes effect: no request *)
(* is served on a key more than a cache lifetime and one lookup after its  *)
(* claim ended, in whichever worker, nor on an OAuth identity more than    *)
(* one lookup after.                                                       *)
ServesOnlyRecentClaims == Abstract!AbsSpec
=============================================================================
