------------------------------ MODULE Accounts ------------------------------
(***************************************************************************)
(* The life of one account: sign-up, verification and login tokens,        *)
(* sessions with the session cache of each worker, the first and the later *)
(* submissions of a database, and the administrator's suspend, unsuspend   *)
(* and close.  Every handler is a chain of separate transactions of        *)
(* UserStore and TokenStore; within a worker most chains run without an    *)
(* await, but the workers interleave them, and submit_database awaits a    *)
(* dry-run connection.  No row is locked except by upsert_user_database.   *)
(* A worker may be killed between two transactions; its cache is lost      *)
(* with it.  A blind write of one column is one action, with its load:     *)
(* if the column already had the new value the write could as well have    *)
(* happened at the load.  activate_user and set_account_status decide on   *)
(* what they loaded, so their load and their write are two actions.        *)
(***************************************************************************)
EXTENDS Integers, FiniteSets

CONSTANTS
  Workers,     \* server processes, each with one handler under way at most
  EmailTokens, \* ids of the email verification tokens
  LoginTokens, \* ids of the login tokens
  MaxCrashes   \* bound: how many requests are cut off

ASSUME TokensAssumption == EmailTokens \intersect LoginTokens = {}
ASSUME CrashesAssumption == MaxCrashes \in Nat

Tokens == EmailTokens \union LoginTokens

VARIABLES
  row,      \* the user's row, or NoRow before sign-up
  token,    \* token[t]: verification_tokens row t
  session,  \* some session is neither revoked nor past expires_at
  cached,   \* cached[w]: the user_session_cache of w holds a session
  job,      \* job[w]: the request under way at worker w
  uses,     \* history: how often token t was redeemed
  overlap,  \* history: the kinds of request that ran twice at a time
  sealed,   \* history: a set-up account was closed while nothing else ran
  crashes   \* how many requests were cut off

vars == <<row, token, session, cached, job, uses, overlap, sealed, crashes>>

NoRow == [onb |-> "none"]

Row == [onb : {"pending_email_verification", "pending_db_connection", "setup_complete"},
        account : {"active", "suspended", "closed"},
        plan : {"free", "pro"}, verified : BOOLEAN, db : BOOLEAN]

\* create_user.
NewRow == [onb |-> "pending_email_verification", account |-> "active",
           plan |-> "free", verified |-> FALSE, db |-> FALSE]

\* A live token has used_at NULL and expires_at ahead; any other is dead.
TokenStates == {"none", "live", "dead"}

Idle == [pc |-> "idle"]

Exists == row # NoRow

Init ==
  /\ row = NoRow
  /\ token = [t \in Tokens |-> "none"]
  /\ session = FALSE
  /\ cached = [w \in Workers |-> FALSE]
  /\ job = [w \in Workers |-> Idle]
  /\ uses = [t \in Tokens |-> 0]
  /\ overlap = {}
  /\ sealed = FALSE
  /\ crashes = 0

----------------------------------------------------------------------------
(* Requests: each starts on an idle worker and holds what it has read.     *)

\* The kinds whose overlap a property asks for; a sign-up is an issue as well.
Kinds == {"issue", "redeem", "submit"}

\* Request of kind k starts at w with the record r.
Start(w, k, r) ==
  /\ job[w] = Idle
  /\ job' = [job EXCEPT ![w] = r]
  /\ overlap' = IF \E v \in Workers : job[v] # Idle /\ job[v].kind = k
                  THEN overlap \union ({k} \intersect Kinds) ELSE overlap

Goto(w, pc) == job' = [job EXCEPT ![w].pc = pc]
Done(w) == job' = [job EXCEPT ![w] = Idle]

At(w, pc) == job[w].pc = pc

\* _bust_user_caches empties the cache of the worker that runs it, but a
\* thread of that worker that has looked the session up may put it back.
Bust(w) == \E back \in {FALSE, cached[w]} : cached' = [cached EXCEPT ![w] = back]

----------------------------------------------------------------------------
(* Sign-up and the issue of tokens.                                        *)

\* A token id no row and no other request has.
FreshToken(t) ==
  /\ token[t] = "none"
  /\ \A w \in Workers : job[w] # Idle /\ job[w].kind = "issue" => job[w].t # t

\* signup: email_exists was false.
Signup(w, t) ==
  /\ ~Exists /\ t \in EmailTokens /\ FreshToken(t)
  /\ Start(w, "issue", [kind |-> "issue", pc |-> "create", t |-> t])
  /\ UNCHANGED <<row, token, session, cached, uses, sealed, crashes>>

\* create_user; a second row with this email violates the unique index.
Create(w) ==
  /\ At(w, "create")
  /\ IF Exists THEN Done(w) /\ UNCHANGED row
               ELSE Goto(w, "issue") /\ row' = NewRow
  /\ UNCHANGED <<token, session, cached, uses, overlap, sealed, crashes>>

\* get_user_by_email.
FoundByEmail == Exists /\ row.account # "closed"

\* resend_verification and request_login_link: the state decides which kind of
\* token is sent.
Request(w, t) ==
  /\ FoundByEmail /\ FreshToken(t)
  /\ t \in IF row.onb = "pending_email_verification" THEN EmailTokens ELSE LoginTokens
  /\ Start(w, "issue", [kind |-> "issue", pc |-> "issue", t |-> t])
  /\ UNCHANGED <<row, token, session, cached, uses, sealed, crashes>>

SamePurpose(t) == IF t \in EmailTokens THEN EmailTokens ELSE LoginTokens

\* _issue_token: the UPDATE marks the unused tokens of the purpose it sees
\* (for an expired one that changes nothing).
IssueMark(w) ==
  /\ At(w, "issue")
  /\ job' = [job EXCEPT ![w] =
       [kind |-> "issue", pc |-> "insert", t |-> job[w].t,
        seen |-> {u \in SamePurpose(job[w].t) : token[u] = "live"}]]
  /\ UNCHANGED <<row, token, session, cached, uses, overlap, sealed, crashes>>

\* Mutant: the previous tokens stay valid.
IssueCommitKeepsOld(w) ==
  /\ At(w, "insert")
  /\ token' = [token EXCEPT ![job[w].t] = "live"]
  /\ Done(w)
  /\ UNCHANGED <<row, session, cached, uses, overlap, sealed, crashes>>

\* The new token and the commit, which makes both visible.
IssueCommit(w) ==
  /\ At(w, "insert")
  /\ token' = [u \in Tokens |-> IF u = job[w].t THEN "live"
                                ELSE IF u \in job[w].seen THEN "dead" ELSE token[u]]
  /\ Done(w)
  /\ UNCHANGED <<row, session, cached, uses, overlap, sealed, crashes>>

----------------------------------------------------------------------------
(* verify_email and exchange_login_link.                                   *)

\* _consume_token reads the token; a token that is not live is refused.
Redeem(w, t) ==
  /\ token[t] = "live"
  /\ Start(w, "redeem", [kind |-> "redeem", pc |-> "consume", t |-> t])
  /\ UNCHANGED <<row, token, session, cached, uses, sealed, crashes>>

\* Mutant: the token is only marked once the session is issued.
ConsumeUnmarked(w) ==
  /\ At(w, "consume")
  /\ uses' = [uses EXCEPT ![job[w].t] = @ + 1]
  /\ Goto(w, "check")
  /\ UNCHANGED <<row, token, session, cached, overlap, sealed, crashes>>

\* used_at = now, by the id of the row, whatever became of it since.
Consume(w) ==
  /\ At(w, "consume")
  /\ token' = [token EXCEPT ![job[w].t] = "dead"]
  /\ uses' = [uses EXCEPT ![job[w].t] = @ + 1]
  /\ Goto(w, "check")
  /\ UNCHANGED <<row, session, cached, overlap, sealed, crashes>>

\* Mutant: a verification does not ask whether one is pending.
CheckStateForgotten(w) ==
  /\ At(w, "check")
  /\ Goto(w, IF job[w].t \in EmailTokens THEN "verify" ELSE "session")
  /\ UNCHANGED <<row, token, session, cached, uses, overlap, sealed, crashes>>

\* get_user_row: a verification needs a pending account, a login any other.
CheckState(w) ==
  /\ At(w, "check")
  /\ IF (row.onb = "pending_email_verification") = (job[w].t \in EmailTokens)
       THEN Goto(w, IF job[w].t \in EmailTokens THEN "verify" ELSE "session")
       ELSE Done(w)
  /\ UNCHANGED <<row, token, session, cached, uses, overlap, sealed, crashes>>

\* Mutant: the session is issued before the address counts as verified.
SetVerifiedLater(w) ==
  /\ At(w, "verify")
  /\ session' = TRUE
  /\ Goto(w, "transition")
  /\ UNCHANGED <<row, token, cached, uses, overlap, sealed, crashes>>

\* set_email_verified.
SetVerified(w) ==
  /\ At(w, "verify")
  /\ row' = [row EXCEPT !.verified = TRUE]
  /\ Goto(w, "transition")
  /\ UNCHANGED <<token, session, cached, uses, overlap, sealed, crashes>>

\* resolve_next_state; the second entry is for a trigger that no handler uses.
NextState ==
  [pending_email_verification |-> "pending_db_connection",
   pending_db_connection |-> "setup_complete"]

\* transition_user_state, from the state that "check" asked for.
Transition(w) ==
  /\ At(w, "transition")
  /\ row' = [row EXCEPT !.onb = NextState.pending_email_verification]
  /\ Goto(w, "session")
  /\ UNCHANGED <<token, session, cached, uses, overlap, sealed, crashes>>

\* issue_user_session.
IssueSession(w) ==
  /\ At(w, "session")
  /\ session' = TRUE
  /\ Done(w)
  /\ UNCHANGED <<row, token, cached, uses, overlap, sealed, crashes>>

----------------------------------------------------------------------------
(* Requests with a session.                                                *)

\* get_user_by_session returns a context.
SessionIsGood == session /\ row.account = "active"

\* require_user_session, in a thread: a session the cache of w does not hold
\* is looked up and put there.  The request goes on whenever its task is next
\* run, with what it found: its handler asks for cached[w].
Authenticate(w) ==
  /\ ~cached[w]
  /\ SessionIsGood
  /\ cached' = [cached EXCEPT ![w] = TRUE]
  /\ UNCHANGED <<row, token, session, job, uses, overlap, sealed, crashes>>

\* logout; it awaits nothing and reads what it revokes, so it is one action.
\* The session may have ended since it was looked up, and there may be others.
Logout(w) ==
  /\ job[w] = Idle /\ cached[w]
  /\ session' \in {FALSE, session}
  /\ Bust(w)
  /\ UNCHANGED <<row, token, job, uses, overlap, sealed, crashes>>

\* Mutant: every submission activates the account.
SubmitAlwaysFirst(w) ==
  /\ cached[w]
  /\ row.onb \in {"pending_db_connection", "setup_complete"}
  /\ Start(w, "submit", [kind |-> "submit", pc |-> "connect", first |-> TRUE])
  /\ UNCHANGED <<row, token, session, cached, uses, sealed, crashes>>

\* submit_database up to the await: the onboarding status it will go by.
Submit(w) ==
  /\ cached[w]
  /\ row.onb \in {"pending_db_connection", "setup_complete"}
  /\ Start(w, "submit",
       [kind |-> "submit", pc |-> "connect", first |-> row.onb = "pending_db_connection"])
  /\ UNCHANGED <<row, token, session, cached, uses, sealed, crashes>>

\* The dry-run connection fails: 400, and nothing was written.
ConnectFails(w) ==
  /\ At(w, "connect")
  /\ Done(w)
  /\ UNCHANGED <<row, token, session, cached, uses, overlap, sealed, crashes>>

\* Mutant: the account is activated before its database is stored.
ConnectActivatesFirst(w) ==
  /\ At(w, "connect")
  /\ IF job[w].first
       THEN Goto(w, "activate") /\ UNCHANGED <<row, cached>>
       ELSE row' = [row EXCEPT !.db = TRUE] /\ Bust(w) /\ Done(w)
  /\ UNCHANGED <<token, session, uses, overlap, sealed, crashes>>

\* upsert_user_database; a reconnect ends with the purge of the caches.
Connect(w) ==
  /\ At(w, "connect")
  /\ row' = [row EXCEPT !.db = TRUE]
  /\ IF job[w].first THEN Goto(w, "activate") /\ UNCHANGED cached
                     ELSE Bust(w) /\ Done(w)
  /\ UNCHANGED <<token, session, uses, overlap, sealed, crashes>>

\* activate_user: session.get.
ActivateLoad(w) ==
  /\ At(w, "activate")
  /\ job' = [job EXCEPT ![w] =
       [kind |-> "submit", pc |-> "activating",
        loaded |-> [onb |-> row.onb, account |-> row.account, plan |-> row.plan]]]
  /\ UNCHANGED <<row, token, session, cached, uses, overlap, sealed, crashes>>

Activated == [onb |-> "setup_complete", account |-> "active", plan |-> "free"]

\* Its commit: the columns whose new value differs from the loaded one.
ActivateWrite(w) ==
  /\ At(w, "activating")
  /\ row' = [c \in DOMAIN row |->
       IF c \in DOMAIN Activated /\ Activated[c] # job[w].loaded[c]
         THEN Activated[c] ELSE row[c]]
  /\ Bust(w)
  /\ Done(w)
  /\ UNCHANGED <<token, session, uses, overlap, sealed, crashes>>

----------------------------------------------------------------------------
(* The administrator.                                                      *)

\* The status an account must have for each command, and the new status.
Allows(to) ==
  CASE to = "suspended" -> row.account = "active"
    [] to = "active" -> row.account = "suspended"
    [] to = "closed" -> row.account # "closed"

\* admin_suspend_user, admin_unsuspend_user, admin_close_user: the check.
Command(w, to) ==
  /\ Exists /\ Allows(to)
  /\ Start(w, "admin", [kind |-> "admin", pc |-> "load", to |-> to])
  /\ UNCHANGED <<row, token, session, cached, uses, sealed, crashes>>

\* Mutant: a closed account is not left alone.
StatusLoadUnchecked(w) ==
  /\ At(w, "load")
  /\ job' = [job EXCEPT ![w] =
       [kind |-> "admin", pc |-> "write", to |-> job[w].to, loaded |-> row.account]]
  /\ UNCHANGED <<row, token, session, cached, uses, overlap, sealed, crashes>>

\* set_account_status loads the row; a closed account is left alone.
StatusLoad(w) ==
  /\ At(w, "load")
  /\ IF row.account = "closed" THEN Done(w)
     ELSE job' = [job EXCEPT ![w] =
            [kind |-> "admin", pc |-> "write", to |-> job[w].to, loaded |-> row.account]]
  /\ UNCHANGED <<row, token, session, cached, uses, overlap, sealed, crashes>>

\* Its commit, which names the status only if it changes.
StatusWrite(w) ==
  /\ At(w, "write")
  /\ row' = [row EXCEPT !.account = IF job[w].loaded = job[w].to THEN @ ELSE job[w].to]
  /\ sealed' = (sealed \/ (/\ job[w].to = "closed" /\ row.onb = "setup_complete"
                           /\ \A v \in Workers \ {w} : job[v] = Idle))
  /\ IF job[w].to = "closed" THEN Goto(w, "revoke") /\ UNCHANGED cached
                             ELSE Bust(w) /\ Done(w)
  /\ UNCHANGED <<token, session, uses, overlap, crashes>>

\* admin_close_user goes on with revoke_all_user_sessions and the caches.
RevokeAll(w) ==
  /\ At(w, "revoke")
  /\ session' = FALSE
  /\ Bust(w)
  /\ Done(w)
  /\ UNCHANGED <<row, token, uses, overlap, sealed, crashes>>

----------------------------------------------------------------------------
(* Time, payment and failure.                                              *)

Forget(w) == cached' = [cached EXCEPT ![w] = FALSE]

\* The expires_at of a token passes.
TokenExpires(t) ==
  /\ token[t] = "live"
  /\ token' = [token EXCEPT ![t] = "dead"]
  /\ UNCHANGED <<row, session, cached, job, uses, overlap, sealed, crashes>>

\* The expires_at of the last session passes.
SessionExpires ==
  /\ session
  /\ session' = FALSE
  /\ UNCHANGED <<row, token, cached, job, uses, overlap, sealed, crashes>>

\* The TTL of the cache entries is over.
CacheExpires(w) ==
  /\ cached[w]
  /\ Forget(w)
  /\ UNCHANGED <<row, token, session, job, uses, overlap, sealed, crashes>>

\* Billing (module Billing) upgrades an account whose set-up is complete.
Upgrade ==
  /\ Exists /\ row.onb = "setup_complete"
  /\ row' = [row EXCEPT !.plan = "pro"]
  /\ UNCHANGED <<token, session, cached, job, uses, overlap, sealed, crashes>>

\* The worker is killed and started again.
Crash(w) ==
  /\ job[w] # Idle /\ crashes < MaxCrashes
  /\ crashes' = crashes + 1
  /\ Done(w)
  /\ Forget(w)
  /\ UNCHANGED <<row, token, session, uses, overlap, sealed>>

Issue(w) == Create(w) \/ IssueMark(w) \/ IssueCommit(w)

\* The request at w redeems a token of one kind.
Redeems(w, kind) == job[w] # Idle /\ job[w].kind = "redeem" /\ job[w].t \in kind

VerifyEmail(w) ==
  /\ Redeems(w, EmailTokens)
  /\ Consume(w) \/ CheckState(w) \/ SetVerified(w) \/ Transition(w) \/ IssueSession(w)

ExchangeLoginLink(w) ==
  /\ Redeems(w, LoginTokens)
  /\ Consume(w) \/ CheckState(w) \/ IssueSession(w)

Register(w) ==
  ConnectFails(w) \/ Connect(w) \/ ActivateLoad(w) \/ ActivateWrite(w)

Administer(w) == StatusLoad(w) \/ StatusWrite(w) \/ RevokeAll(w)

Next ==
  \/ \E w \in Workers : Issue(w) \/ VerifyEmail(w) \/ ExchangeLoginLink(w)
                        \/ Register(w) \/ Administer(w) \/ Crash(w)
  \/ \E w \in Workers, t \in Tokens : Signup(w, t) \/ Request(w, t) \/ Redeem(w, t)
  \/ \E w \in Workers : Authenticate(w) \/ Submit(w) \/ Logout(w) \/ CacheExpires(w)
  \/ \E w \in Workers, to \in {"suspended", "active", "closed"} : Command(w, to)
  \/ \E t \in Tokens : TokenExpires(t)
  \/ SessionExpires \/ Upgrade

Spec == Init /\ [][Next]_vars

----------------------------------------------------------------------------

\* What a request under way may hold.
Job ==
  {Idle}
    \union [kind : {"issue"}, pc : {"create", "issue"}, t : Tokens]
    \union [kind : {"issue"}, pc : {"insert"}, t : Tokens, seen : SUBSET Tokens]
    \union [kind : {"redeem"}, t : Tokens,
            pc : {"consume", "check", "verify", "transition", "session"}]
    \union [kind : {"submit"}, pc : {"connect", "activate"}, first : BOOLEAN]
    \union [kind : {"submit"}, pc : {"activating"},
            loaded : [onb : {"pending_db_connection", "setup_complete"},
                      account : {"active", "suspended", "closed"}, plan : {"free", "pro"}]]
    \union [kind : {"admin"}, pc : {"load"}, to : {"active", "suspended", "closed"}]
    \union [kind : {"admin"}, pc : {"write", "revoke"},
            to : {"active", "suspended", "closed"}, loaded : {"active", "suspended"}]

\* Type invariant.
TypeOK ==
  /\ row \in Row \union {NoRow}
  /\ token \in [Tokens -> TokenStates]
  /\ session \in BOOLEAN
  /\ cached \in [Workers -> BOOLEAN]
  /\ job \in [Workers -> Job]
  /\ uses \in [Tokens -> Nat]
  /\ overlap \in SUBSET Kinds
  /\ sealed \in BOOLEAN
  /\ crashes \in 0 .. MaxCrashes

(* The onboarding status never claims more than the other columns hold,    *)
(* wherever a worker is killed and whoever else writes the row: past the   *)
(* verification the address is verified, and a complete set-up has a       *)
(* database to query.                                                      *)
StatusIsEarned ==
  Exists =>
    /\ row.onb # "pending_email_verification" => row.verified
    /\ row.onb = "setup_complete" => row.db

(* Nobody holds a session of an account whose address is not verified.     *)
SessionNeedsVerification == session => Exists /\ row.verified

(* A new link replaces the older ones: at most one token per purpose can   *)
(* be redeemed, unless two tokens were issued at the same time.            *)
NewTokenReplacesOld ==
  "issue" \notin overlap =>
    \A t, u \in Tokens : token[t] = "live" /\ token[u] = "live"
                            /\ SamePurpose(t) = SamePurpose(u) => t = u

(* Migration 0003 calls the tokens single-use: each is redeemed at most    *)
(* once, unless two redemptions ran at the same time.                      *)
TokenIsSingleUse ==
  "redeem" \notin overlap => \A t \in Tokens : uses[t] <= 1

Rank(onb) ==
  CASE onb = "none" -> 0 [] onb = "pending_email_verification" -> 1
    [] onb = "pending_db_connection" -> 2 [] onb = "setup_complete" -> 3

(* Onboarding only moves forward, whatever tokens are still about, unless  *)
(* two redemptions ran at the same time.                                   *)
OnboardingMovesForward ==
  []["redeem" \notin overlap' => Rank(row'.onb) >= Rank(row.onb)]_vars

(* submit_database: "Activate on first DB submission; on reconnect keep    *)
(* existing status".  No request of the account takes a paid plan away,    *)
(* unless two submissions, or two redemptions, ran at the same time.       *)
PaidPlanIsKept ==
  [][overlap' \intersect {"redeem", "submit"} = {} /\ Exists /\ row.plan = "pro"
       => row'.plan = "pro"]_vars

(* A set-up account that is closed while no other request is under way     *)
(* stays closed for ever: not even a session still cached by another       *)
(* worker, an unsuspension or a login link brings it back.                 *)
SealedStaysClosed == sealed => row.account = "closed"

(* onboarding.py: TERMINAL_ACCOUNT_STATES is {ACCOUNT_CLOSED}.             *)
ClosedIsTerminal ==
  [][Exists /\ row.account = "closed" => row'.account = "closed"]_vars
=============================================================================
