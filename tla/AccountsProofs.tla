--------------------------- MODULE AccountsProofs ---------------------------
(***************************************************************************)
(* Proofs about Accounts, for any number of workers, tokens and crashes:   *)
(* every invariant and action property that its runs check and that holds. *)
(***************************************************************************)
EXTENDS Accounts, TLAPS

(* A request of kind k is under way at w.                                  *)
Runs(w, k) == job[w] # Idle /\ job[w].kind = k

(* Which requests there can be for the row as it is: past its creation a   *)
(* request has a row, a verification that goes on has verified the         *)
(* address, and a submission has a verified account and a stored database. *)
RequestsBacked ==
  /\ \A t \in Tokens : token[t] # "none" => Exists
  /\ \A w \in Workers :
       /\ job[w].pc \notin {"idle", "create"} => Exists
       /\ job[w].pc \in {"transition", "session"} => row.verified
       /\ Runs(w, "submit") => row.onb # "pending_email_verification"
       /\ job[w].pc \in {"activate", "activating"} => row.db

(* A token is redeemed only while live, and live only after it was fresh.  *)
TokensTracked ==
  /\ \A t \in Tokens : token[t] # "dead" => uses[t] = 0
  /\ \A w \in Workers :
       /\ Runs(w, "issue") => token[job[w].t] = "none"
       /\ Runs(w, "redeem") => token[job[w].t] # "none"
       /\ job[w].pc = "insert" => \A u \in job[w].seen : token[u] # "none"
  /\ \A v, w \in Workers :
       Runs(v, "issue") /\ Runs(w, "issue") /\ job[v].t = job[w].t => v = w

(* What overlap records: while a kind is not in it, no two requests of     *)
(* that kind have been under way at a time.                                *)
OverlapRecorded ==
  \A k \in Kinds : k \notin overlap =>
    \A v, w \in Workers : Runs(v, k) /\ Runs(w, k) => v = w

(* Without two issues at a time, whoever is about to issue a link has seen *)
(* every live one of the purpose.                                          *)
IssueSeesAll ==
  "issue" \notin overlap =>
    \A w \in Workers : job[w].pc = "insert" =>
      \A u \in SamePurpose(job[w].t) : token[u] = "live" => u \in job[w].seen

(* Without two redemptions at a time, a token is consumed for the first    *)
(* time, a verification finds the account as it was checked, and a paid    *)
(* plan belongs to a complete set-up.                                      *)
RedeemsInOrder ==
  "redeem" \notin overlap =>
    /\ Exists /\ row.plan = "pro" => row.onb = "setup_complete"
    /\ \A w \in Workers :
         /\ job[w].pc = "consume" => uses[job[w].t] = 0
         /\ job[w].pc \in {"verify", "transition"} => row.onb = "pending_email_verification"

(* Without two submissions at a time either, an activation is the first.   *)
ActivatesOnce ==
  overlap \intersect {"redeem", "submit"} = {} =>
    \A w \in Workers :
      /\ job[w].pc = "connect" /\ job[w].first => row.onb = "pending_db_connection"
      /\ job[w].pc = "activate" => row.onb = "pending_db_connection"
      /\ job[w].pc = "activating" => job[w].loaded.plan = "free"

(* After the sealing no request is under way that would write the status.  *)
SealedIsQuiet ==
  sealed =>
    /\ row.onb = "setup_complete"
    /\ \A w \in Workers :
         /\ job[w].pc \notin {"verify", "transition", "activate", "activating", "load", "write"}
         /\ job[w].pc = "connect" => ~job[w].first

Inv ==
  /\ TypeOK
  /\ StatusIsEarned /\ SessionNeedsVerification /\ RequestsBacked
  /\ TokensTracked /\ OverlapRecorded
  /\ IssueSeesAll /\ NewTokenReplacesOld
  /\ RedeemsInOrder /\ TokenIsSingleUse /\ ActivatesOnce
  /\ SealedIsQuiet /\ SealedStaysClosed

----------------------------------------------------------------------------
(* Facts about rows and requests.                                          *)

(* A row is not NoRow.                                                     *)
LEMMA RowExists ==
  ASSUME NEW r \in Row
  PROVE  r # NoRow
<1>1. DOMAIN r = {"onb", "account", "plan", "verified", "db"}
  BY DEF Row
<1>2. DOMAIN NoRow = {"onb"}
  BY DEF NoRow
<1>3. "db" \in DOMAIN r /\ "db" \notin DOMAIN NoRow
  BY <1>1, <1>2
<1> QED BY <1>3

(* What a request holds follows from where it is.                          *)
LEMMA Shapes ==
  ASSUME TypeOK, NEW w \in Workers
  PROVE  /\ job[w].pc = "idle" <=> job[w] = Idle
         /\ Runs(w, "issue") <=> job[w].pc \in {"create", "issue", "insert"}
         /\ Runs(w, "redeem") <=>
              job[w].pc \in {"consume", "check", "verify", "transition", "session"}
         /\ Runs(w, "submit") <=> job[w].pc \in {"connect", "activate", "activating"}
         /\ Runs(w, "admin") <=> job[w].pc \in {"load", "write", "revoke"}
         /\ Runs(w, "issue") \/ Runs(w, "redeem") => job[w].t \in Tokens
         /\ job[w].pc = "insert" => job[w].seen \subseteq Tokens
         /\ job[w].pc = "connect" => job[w].first \in BOOLEAN
         /\ job[w].pc = "activating" =>
              /\ job[w].loaded.onb \in {"pending_db_connection", "setup_complete"}
              /\ job[w].loaded.account \in {"active", "suspended", "closed"}
              /\ job[w].loaded.plan \in {"free", "pro"}
         /\ Runs(w, "admin") => job[w].to \in {"active", "suspended", "closed"}
         /\ job[w].pc = "write" => job[w].loaded \in {"active", "suspended"}
<1>1. job[w] \in Job
  BY DEF TypeOK
<1>2. Idle.pc = "idle" /\ DOMAIN Idle = {"pc"}
  BY DEF Idle
<1>3. CASE job[w] = Idle
  BY <1>2, <1>3 DEF Runs
<1>4. CASE job[w] # Idle
  <2>1. "kind" \in DOMAIN job[w]
    BY <1>1, <1>4 DEF Job
  <2> QED BY <1>1, <1>4, <2>1 DEF Job, Runs
<1> QED BY <1>3, <1>4

(* The columns of the row.                                                 *)
LEMMA RowColumns ==
  ASSUME TypeOK, Exists
  PROVE  /\ row \in Row
         /\ row.onb \in {"pending_email_verification", "pending_db_connection", "setup_complete"}
         /\ row.account \in {"active", "suspended", "closed"}
         /\ row.plan \in {"free", "pro"}
         /\ row.verified \in BOOLEAN /\ row.db \in BOOLEAN
BY DEF TypeOK, Exists, Row

(* The tokens of one purpose.                                              *)
LEMMA Purposes ==
  ASSUME NEW t \in Tokens, NEW u \in Tokens
  PROVE  /\ SamePurpose(t) \subseteq Tokens /\ t \in SamePurpose(t)
         /\ SamePurpose(t) = SamePurpose(u) <=> u \in SamePurpose(t)
BY TokensAssumption DEF Tokens, SamePurpose

(* A request that ends, and time that passes, take only away.              *)
LEMMA EndingKeeps ==
  ASSUME Inv, UNCHANGED <<row, uses, overlap, sealed>>,
         \A t \in Tokens : token'[t] = token[t] \/ (token[t] = "live" /\ token'[t] = "dead"),
         token' \in [Tokens -> TokenStates],
         session' \in BOOLEAN, session' => session,
         cached' \in [Workers -> BOOLEAN], crashes' \in 0 .. MaxCrashes,
         job' \in [Workers -> Job],
         \A v \in Workers : job'[v] = job[v] \/ job'[v] = Idle
  PROVE  Inv'
<1>1. \A v \in Workers, k \in Kinds \union {"admin"} :
        Runs(v, k)' => Runs(v, k) /\ job'[v] = job[v]
  BY DEF Runs
<1>2. \A v \in Workers : job'[v].pc # "idle" => job'[v] = job[v]
  BY DEF Idle
<1>3. TypeOK'
  BY DEF Inv, TypeOK
<1>4. StatusIsEarned' /\ SessionNeedsVerification' /\ RequestsBacked'
  BY <1>1, <1>2 DEF Inv, StatusIsEarned, SessionNeedsVerification, RequestsBacked, Exists, Kinds
<1>5. TokensTracked'
  <2>1. \A t \in Tokens : /\ token'[t] = "none" <=> token[t] = "none"
                         /\ token'[t] # "dead" => token[t] # "dead"
    OBVIOUS
  <2>2. \A w \in Workers : job[w].pc = "insert" => job[w].seen \subseteq Tokens
    BY Shapes DEF Inv
  <2>3. \A w \in Workers : Runs(w, "issue") \/ Runs(w, "redeem") => job[w].t \in Tokens
    BY Shapes DEF Inv
  <2> QED BY <1>1, <1>2, <2>1, <2>2, <2>3 DEF Inv, TokensTracked, Kinds
<1>6. OverlapRecorded'
  BY <1>1 DEF Inv, OverlapRecorded
<1>7. IssueSeesAll' /\ NewTokenReplacesOld'
  <2>1. \A t \in Tokens : token'[t] = "live" => token[t] = "live"
    OBVIOUS
  <2>2. \A w \in Workers : job[w].pc = "insert" => job[w].t \in Tokens
    BY Shapes DEF Inv
  <2> QED BY <1>2, <2>1, <2>2, Purposes DEF Inv, IssueSeesAll, NewTokenReplacesOld
<1>8. RedeemsInOrder' /\ TokenIsSingleUse' /\ ActivatesOnce'
  BY <1>2 DEF Inv, RedeemsInOrder, TokenIsSingleUse, ActivatesOnce, Exists
<1>9. SealedIsQuiet' /\ SealedStaysClosed'
  BY <1>2 DEF Inv, SealedIsQuiet, SealedStaysClosed, Idle
<1> QED BY <1>3, <1>4, <1>5, <1>6, <1>7, <1>8, <1>9 DEF Inv

----------------------------------------------------------------------------
(* Requests that start.                                                    *)

(* A request that starts: overlap says if another of its kind is there.    *)
LEMMA StartWorks ==
  ASSUME Inv, NEW w \in Workers, NEW k, NEW r \in Job, r.kind = k, r # Idle, Start(w, k, r)
  PROVE  /\ \A v \in Workers : job'[v] = IF v = w THEN r ELSE job[v]
         /\ job' \in [Workers -> Job]
         /\ overlap' \in SUBSET Kinds /\ overlap \subseteq overlap'
         /\ OverlapRecorded'
<1>1. /\ \A v \in Workers : job'[v] = IF v = w THEN r ELSE job[v]
      /\ job' \in [Workers -> Job] /\ job[w] = Idle
  BY DEF Start, Inv, TypeOK
<1>2. overlap' \in SUBSET Kinds /\ overlap \subseteq overlap'
  BY DEF Start, Inv, TypeOK
<1>3. OverlapRecorded'
  <2> SUFFICES ASSUME NEW i \in Kinds, i \notin overlap', NEW u \in Workers, NEW v \in Workers,
                      Runs(u, i)', Runs(v, i)'
               PROVE  u = v
    BY DEF OverlapRecorded
  <2>1. i \notin overlap
    BY <1>2
  <2>2. CASE i # k
    BY <1>1, <2>1, <2>2 DEF Runs, Inv, OverlapRecorded
  <2>3. CASE i = k
    <3>1. \A x \in Workers : ~(job[x] # Idle /\ job[x].kind = k)
      BY <2>3 DEF Start
    <3> QED BY <1>1, <2>3, <3>1 DEF Runs
  <2> QED BY <2>2, <2>3
<1> QED BY <1>1, <1>2, <1>3

(* What each kind of request asks for when it starts: a token nobody has,  *)
(* a live token, a session (and the onboarding status to go by), an        *)
(* account that is not closed.                                             *)
MayStart(r) ==
  /\ r.pc \in {"create", "issue", "consume", "connect", "load"}
  /\ r.pc # "create" => Exists
  /\ r.kind = "issue" => r.t \in Tokens /\ FreshToken(r.t)
  /\ r.kind = "redeem" => r.t \in Tokens /\ token[r.t] = "live"
  /\ r.kind = "submit" => /\ row.onb \in {"pending_db_connection", "setup_complete"}
                         /\ r.first = (row.onb = "pending_db_connection")
  /\ r.kind = "admin" => row.account # "closed"

(* A request that may start keeps the invariant.                           *)
LEMMA StartKeeps ==
  ASSUME Inv, NEW w \in Workers, NEW k \in {"issue", "redeem", "submit", "admin"},
         NEW r \in Job, r.kind = k, r # Idle, MayStart(r), Start(w, k, r),
         UNCHANGED <<row, token, session, cached, uses, sealed, crashes>>
  PROVE  Inv'
<1>1. /\ \A v \in Workers : job'[v] = IF v = w THEN r ELSE job[v]
      /\ job' \in [Workers -> Job]
      /\ overlap' \in SUBSET Kinds /\ overlap \subseteq overlap'
      /\ OverlapRecorded'
  BY StartWorks
<1>2. /\ r.pc \in {"create", "issue"} <=> k = "issue"
      /\ r.pc = "consume" <=> k = "redeem"
      /\ r.pc = "connect" <=> k = "submit"
      /\ r.pc = "load" <=> k = "admin"
  BY DEF Job, MayStart
<1>3. TypeOK'
  BY <1>1 DEF Inv, TypeOK
<1>4. StatusIsEarned' /\ SessionNeedsVerification' /\ RequestsBacked'
  BY <1>1, <1>2
     DEF MayStart, Inv, StatusIsEarned, SessionNeedsVerification, RequestsBacked, Exists, Runs
<1>5. TokensTracked'
  <2>1. k = "issue" => \A v \in Workers : Runs(v, "issue") => job[v].t # r.t
    BY DEF MayStart, FreshToken, Runs
  <2> QED BY <1>1, <1>2, <2>1 DEF MayStart, Inv, TokensTracked, FreshToken, Runs
<1>6. IssueSeesAll' /\ NewTokenReplacesOld'
  BY <1>1, <1>2 DEF MayStart, Inv, IssueSeesAll, NewTokenReplacesOld
<1>7. RedeemsInOrder' /\ TokenIsSingleUse' /\ ActivatesOnce'
  <2>1. k = "redeem" => uses[r.t] = 0
    BY DEF MayStart, Inv, TokensTracked
  <2> QED BY <1>1, <1>2, <2>1
          DEF MayStart, Inv, RedeemsInOrder, TokenIsSingleUse, ActivatesOnce, Exists
<1>8. SealedIsQuiet' /\ SealedStaysClosed'
  BY <1>1, <1>2 DEF MayStart, Inv, SealedIsQuiet, SealedStaysClosed
<1> QED BY <1>1, <1>3, <1>4, <1>5, <1>6, <1>7, <1>8 DEF Inv

(* A sign-up, the request of a link and a redemption may start.            *)
LEMMA TokenRequestsKeep ==
  ASSUME Inv, NEW w \in Workers, NEW t \in Tokens, Signup(w, t) \/ Request(w, t) \/ Redeem(w, t)
  PROVE  Inv'
<1>1. CASE Signup(w, t)
  <2> DEFINE r == [kind |-> "issue", pc |-> "create", t |-> t]
  <2>1. r \in Job /\ r.kind = "issue" /\ r # Idle /\ MayStart(r)
    BY <1>1 DEF Signup, Job, Idle, MayStart
  <2>2. Start(w, "issue", r) /\ UNCHANGED <<row, token, session, cached, uses, sealed, crashes>>
    BY <1>1 DEF Signup
  <2> HIDE DEF r
  <2> QED BY <2>1, <2>2, StartKeeps
<1>2. CASE Request(w, t)
  <2> DEFINE r == [kind |-> "issue", pc |-> "issue", t |-> t]
  <2>1. r \in Job /\ r.kind = "issue" /\ r # Idle /\ MayStart(r)
    BY <1>2 DEF Request, FoundByEmail, Job, Idle, MayStart
  <2>2. Start(w, "issue", r) /\ UNCHANGED <<row, token, session, cached, uses, sealed, crashes>>
    BY <1>2 DEF Request
  <2> HIDE DEF r
  <2> QED BY <2>1, <2>2, StartKeeps
<1>3. CASE Redeem(w, t)
  <2> DEFINE r == [kind |-> "redeem", pc |-> "consume", t |-> t]
  <2>1. r \in Job /\ r.kind = "redeem" /\ r # Idle /\ MayStart(r)
    BY <1>3 DEF Redeem, Job, Idle, MayStart, Inv, RequestsBacked
  <2>2. Start(w, "redeem", r) /\ UNCHANGED <<row, token, session, cached, uses, sealed, crashes>>
    BY <1>3 DEF Redeem
  <2> HIDE DEF r
  <2> QED BY <2>1, <2>2, StartKeeps
<1> QED BY <1>1, <1>2, <1>3

(* So may a submission and a command of the administrator.                 *)
LEMMA SubmitAndCommandKeep ==
  ASSUME Inv, NEW w \in Workers, NEW to \in {"suspended", "active", "closed"},
         Submit(w) \/ Command(w, to)
  PROVE  Inv'
<1>1. CASE Submit(w)
  <2> DEFINE r == [kind |-> "submit", pc |-> "connect",
                   first |-> row.onb = "pending_db_connection"]
  <2>1. r \in Job /\ r.kind = "submit" /\ r # Idle
    BY DEF Job, Idle
  <2>2. MayStart(r)
    BY <1>1 DEF Submit, MayStart, Exists, NoRow
  <2>3. Start(w, "submit", r) /\ UNCHANGED <<row, token, session, cached, uses, sealed, crashes>>
    BY <1>1 DEF Submit
  <2> HIDE DEF r
  <2> QED BY <2>1, <2>2, <2>3, StartKeeps
<1>2. CASE Command(w, to)
  <2> DEFINE r == [kind |-> "admin", pc |-> "load", to |-> to]
  <2>1. r \in Job /\ r.kind = "admin" /\ r # Idle /\ MayStart(r)
    BY <1>2 DEF Command, Allows, Job, Idle, MayStart
  <2>2. Start(w, "admin", r) /\ UNCHANGED <<row, token, session, cached, uses, sealed, crashes>>
    BY <1>2 DEF Command
  <2> HIDE DEF r
  <2> QED BY <2>1, <2>2, StartKeeps
<1> QED BY <1>1, <1>2

----------------------------------------------------------------------------
(* Requests that go on.                                                    *)

(* A request that goes on stays of its kind.                               *)
LEMMA GoesOn ==
  ASSUME Inv, NEW w \in Workers, job[w] # Idle, NEW r \in Job, r # Idle, r.kind = job[w].kind,
         job' = [job EXCEPT ![w] = r], overlap' = overlap
  PROVE  /\ \A v \in Workers : job'[v] = IF v = w THEN r ELSE job[v]
         /\ job' \in [Workers -> Job]
         /\ overlap' \in SUBSET Kinds
         /\ OverlapRecorded'
<1>1. /\ \A v \in Workers : job'[v] = IF v = w THEN r ELSE job[v]
      /\ job' \in [Workers -> Job]
      /\ overlap' \in SUBSET Kinds
  BY DEF Inv, TypeOK
<1>2. \A v \in Workers, k \in Kinds : Runs(v, k)' <=> Runs(v, k)
  BY <1>1 DEF Runs
<1> QED BY <1>1, <1>2 DEF Inv, OverlapRecorded

(* create_user inserts a row with nothing earned yet.                      *)
LEMMA CreateKeeps ==
  ASSUME Inv, NEW w \in Workers, Create(w), ~Exists
  PROVE  Inv'
<1> DEFINE r == [kind |-> "issue", pc |-> "issue", t |-> job[w].t]
<1>1. /\ job[w].pc = "create" /\ job[w] # Idle /\ job[w].kind = "issue" /\ job[w].t \in Tokens
  BY Shapes DEF Create, At, Inv, Runs
<1>2. /\ row' = NewRow /\ job' = [job EXCEPT ![w] = r]
      /\ UNCHANGED <<token, session, cached, uses, overlap, sealed, crashes>>
  <2>1. job[w] \in [kind : {"issue"}, pc : {"create", "issue"}, t : Tokens]
    BY <1>1 DEF Inv, TypeOK, Job
  <2> QED BY <1>1, <2>1 DEF Create, Goto, Inv, TypeOK
<1>3. r \in Job /\ r.kind = "issue" /\ r.pc = "issue" /\ r.t = job[w].t /\ r # Idle
  BY <1>1 DEF Job, Idle
<1> HIDE DEF r
<1>4. /\ \A v \in Workers : job'[v] = IF v = w THEN r ELSE job[v]
      /\ job' \in [Workers -> Job]
      /\ overlap' \in SUBSET Kinds
      /\ OverlapRecorded'
  BY <1>1, <1>2, <1>3, GoesOn
<1>5. NewRow \in Row /\ Exists'
  <2>1. NewRow \in Row
    BY DEF NewRow, Row
  <2> QED BY <1>2, <2>1, RowExists DEF Exists
<1>6. \A v \in Workers : job[v].pc \in {"idle", "create"}
  BY DEF Inv, RequestsBacked
<1>7. TypeOK'
  BY <1>2, <1>4, <1>5 DEF Inv, TypeOK
<1>8. StatusIsEarned' /\ SessionNeedsVerification' /\ RequestsBacked'
  <2>1. \A v \in Workers : ~Runs(v, "submit")
    BY <1>6, Shapes DEF Inv
  <2> QED BY <1>2, <1>3, <1>4, <1>5, <1>6, <2>1
     DEF Inv, StatusIsEarned, SessionNeedsVerification, RequestsBacked, Exists, Runs, NewRow
<1>9. TokensTracked'
  BY <1>1, <1>2, <1>3, <1>4 DEF Inv, TokensTracked, Runs
<1>10. IssueSeesAll' /\ NewTokenReplacesOld'
  BY <1>2, <1>3, <1>4 DEF Inv, IssueSeesAll, NewTokenReplacesOld
<1>11. RedeemsInOrder' /\ TokenIsSingleUse' /\ ActivatesOnce'
  BY <1>2, <1>3, <1>4, <1>6
     DEF Inv, RedeemsInOrder, TokenIsSingleUse, ActivatesOnce, Exists, NewRow
<1>12. ~sealed
  BY DEF Inv, SealedIsQuiet, Exists, NoRow
<1>13. SealedIsQuiet' /\ SealedStaysClosed'
  BY <1>2, <1>12 DEF SealedIsQuiet, SealedStaysClosed
<1> QED BY <1>4, <1>7, <1>8, <1>9, <1>10, <1>11, <1>13 DEF Inv

(* _issue_token marks what is live at this moment.                         *)
LEMMA IssueMarkKeeps ==
  ASSUME Inv, NEW w \in Workers, IssueMark(w)
  PROVE  Inv'
<1> DEFINE t == job[w].t
           r == [kind |-> "issue", pc |-> "insert", t |-> t,
                 seen |-> {u \in SamePurpose(t) : token[u] = "live"}]
<1>1. /\ job[w].pc = "issue" /\ job[w] # Idle /\ job[w].kind = "issue" /\ t \in Tokens
  BY Shapes DEF IssueMark, At, Inv, Runs
<1>2. /\ job' = [job EXCEPT ![w] = r]
      /\ UNCHANGED <<row, token, session, cached, uses, overlap, sealed, crashes>>
  BY DEF IssueMark
<1>3. /\ r \in Job /\ r.kind = "issue" /\ r.pc = "insert" /\ r.t = t /\ r # Idle
      /\ r.seen = {u \in SamePurpose(t) : token[u] = "live"}
  BY <1>1, Purposes DEF Job, Idle
<1> HIDE DEF r
<1>4. /\ \A v \in Workers : job'[v] = IF v = w THEN r ELSE job[v]
      /\ job' \in [Workers -> Job]
      /\ overlap' \in SUBSET Kinds
      /\ OverlapRecorded'
  BY <1>1, <1>2, <1>3, GoesOn
<1>5. TypeOK'
  BY <1>2, <1>4 DEF Inv, TypeOK
<1>6. StatusIsEarned' /\ SessionNeedsVerification' /\ RequestsBacked'
  BY <1>1, <1>2, <1>3, <1>4
     DEF Inv, StatusIsEarned, SessionNeedsVerification, RequestsBacked, Exists, Runs
<1>7. TokensTracked'
  BY <1>1, <1>2, <1>3, <1>4 DEF Inv, TokensTracked, Runs
<1>8. IssueSeesAll' /\ NewTokenReplacesOld'
  BY <1>2, <1>3, <1>4 DEF Inv, IssueSeesAll, NewTokenReplacesOld
<1>9. RedeemsInOrder' /\ TokenIsSingleUse' /\ ActivatesOnce'
  BY <1>2, <1>3, <1>4 DEF Inv, RedeemsInOrder, TokenIsSingleUse, ActivatesOnce, Exists
<1>10. SealedIsQuiet' /\ SealedStaysClosed'
  BY <1>2, <1>3, <1>4 DEF Inv, SealedIsQuiet, SealedStaysClosed
<1> QED BY <1>4, <1>5, <1>6, <1>7, <1>8, <1>9, <1>10 DEF Inv

(* The new token is live, and what was marked is dead.                     *)
LEMMA IssueCommitKeeps ==
  ASSUME Inv, NEW w \in Workers, IssueCommit(w)
  PROVE  Inv'
<1> DEFINE t == job[w].t
<1>1. /\ job[w].pc = "insert" /\ Runs(w, "issue") /\ t \in Tokens /\ job[w].seen \subseteq Tokens
  BY Shapes DEF IssueCommit, At, Inv
<1>2. /\ job' = [job EXCEPT ![w] = Idle]
      /\ token' = [u \in Tokens |-> IF u = t THEN "live"
                                    ELSE IF u \in job[w].seen THEN "dead" ELSE token[u]]
      /\ UNCHANGED <<row, session, cached, uses, overlap, sealed, crashes>>
  BY DEF IssueCommit, Done
<1>3. \A v \in Workers : job'[v] = IF v = w THEN Idle ELSE job[v]
  BY <1>2 DEF Inv, TypeOK
<1>4. Idle.pc = "idle"
  BY DEF Idle
<1>5. \A v \in Workers, k \in {"issue", "redeem", "submit"} :
        Runs(v, k)' => Runs(v, k) /\ job'[v] = job[v] /\ v # w
  BY <1>3 DEF Runs
<1>6. token[t] = "none" /\ uses[t] = 0 /\ Exists
  BY <1>1 DEF Inv, TokensTracked, RequestsBacked
<1>7. TypeOK'
  <2>1. token' \in [Tokens -> TokenStates]
    BY <1>2 DEF Inv, TypeOK, TokenStates
  <2>2. job' \in [Workers -> Job]
    BY <1>2 DEF Inv, TypeOK, Job
  <2> QED BY <1>2, <2>1, <2>2 DEF Inv, TypeOK
<1>8. StatusIsEarned' /\ SessionNeedsVerification' /\ RequestsBacked'
  BY <1>2, <1>3, <1>4, <1>5, <1>6
     DEF Inv, StatusIsEarned, SessionNeedsVerification, RequestsBacked, Exists
<1>9. TokensTracked'
  <2>1. \A u \in Tokens : token'[u] = IF u = t THEN "live"
                                      ELSE IF u \in job[w].seen THEN "dead" ELSE token[u]
    BY <1>2
  <2>2. \A u \in Tokens : token'[u] # "dead" => uses'[u] = 0
    BY <1>2, <1>6, <2>1 DEF Inv, TokensTracked
  <2>3. ASSUME NEW v \in Workers
        PROVE  /\ Runs(v, "issue")' => token'[job'[v].t] = "none"
               /\ Runs(v, "redeem")' => token'[job'[v].t] # "none"
               /\ job'[v].pc = "insert" => \A u \in job'[v].seen : token'[u] # "none"
    <3>1. Runs(v, "issue") \/ Runs(v, "redeem") => job[v].t \in Tokens
      BY Shapes DEF Inv
    <3>2. job[v].pc = "insert" => job[v].seen \subseteq Tokens
      BY Shapes DEF Inv
    <3>3. Runs(v, "issue") /\ v # w => job[v].t # t /\ job[v].t \notin job[w].seen
      BY <1>1 DEF Inv, TokensTracked
    <3> QED BY <1>3, <1>4, <1>5, <2>1, <3>1, <3>2, <3>3 DEF Inv, TokensTracked
  <2> QED BY <1>5, <2>2, <2>3 DEF Inv, TokensTracked
<1>10. OverlapRecorded'
  BY <1>2, <1>5 DEF Inv, OverlapRecorded, Kinds
<1>11. NewTokenReplacesOld'
  <2> SUFFICES ASSUME "issue" \notin overlap, NEW a \in Tokens, NEW b \in Tokens,
                      token'[a] = "live", token'[b] = "live", SamePurpose(a) = SamePurpose(b)
               PROVE  a = b
    BY <1>2 DEF NewTokenReplacesOld
  <2>1. \A u \in SamePurpose(t) : token[u] = "live" => u \in job[w].seen
    BY <1>1 DEF Inv, IssueSeesAll
  <2>2. \A u \in Tokens : token'[u] = "live" /\ u # t
          => token[u] = "live" /\ u \notin SamePurpose(t)
    BY <1>2, <2>1
  <2> QED BY <1>1, <2>2, Purposes DEF Inv, NewTokenReplacesOld
<1>12. IssueSeesAll'
  <2>1. "issue" \notin overlap => \A v \in Workers : ~Runs(v, "issue")'
    BY <1>1, <1>5 DEF Inv, OverlapRecorded, Kinds
  <2>2. \A v \in Workers : job'[v].pc = "insert" => Runs(v, "issue")'
    BY <1>7, Shapes DEF Runs, Inv, IssueSeesAll, TypeOK, Job, Idle
  <2> QED BY <1>2, <2>1, <2>2 DEF IssueSeesAll
<1>13. RedeemsInOrder' /\ TokenIsSingleUse' /\ ActivatesOnce'
  BY <1>2, <1>3, <1>4 DEF Inv, RedeemsInOrder, TokenIsSingleUse, ActivatesOnce, Exists
<1>14. SealedIsQuiet' /\ SealedStaysClosed'
  BY <1>2, <1>3, <1>4 DEF Inv, SealedIsQuiet, SealedStaysClosed
<1> QED BY <1>7, <1>8, <1>9, <1>10, <1>11, <1>12, <1>13, <1>14 DEF Inv

----------------------------------------------------------------------------
(* Redemptions that go on.                                                 *)

(* A redemption keeps its token.                                           *)
LEMMA RedeemGoesOn ==
  ASSUME Inv, NEW w \in Workers, Runs(w, "redeem"), overlap' = overlap,
         NEW pc \in {"check", "verify", "transition", "session"}, Goto(w, pc)
  PROVE  /\ job[w].t \in Tokens
         /\ \A v \in Workers : job'[v] = IF v = w THEN [kind |-> "redeem", pc |-> pc, t |-> job[w].t]
                                                  ELSE job[v]
         /\ job' \in [Workers -> Job]
         /\ overlap' \in SUBSET Kinds
         /\ OverlapRecorded'
<1> DEFINE r == [kind |-> "redeem", pc |-> pc, t |-> job[w].t]
<1>1. /\ job[w].t \in Tokens /\ job[w] # Idle /\ job[w].kind = "redeem"
      /\ job[w] \in [kind : {"redeem"}, t : Tokens,
                     pc : {"consume", "check", "verify", "transition", "session"}]
  BY Shapes DEF Inv, TypeOK, Job, Runs
<1>2. job' = [job EXCEPT ![w] = r]
  <2>1. [job[w] EXCEPT !.pc = pc] = r
    BY <1>1
  <2>2. job' = [job EXCEPT ![w] = [job[w] EXCEPT !.pc = pc]]
    BY DEF Goto, Inv, TypeOK
  <2> QED BY <2>1, <2>2
<1>3. r \in Job /\ r.kind = "redeem" /\ r # Idle
  BY <1>1 DEF Job, Idle
<1> HIDE DEF r
<1>4. /\ \A v \in Workers : job'[v] = IF v = w THEN r ELSE job[v]
      /\ job' \in [Workers -> Job]
      /\ overlap' \in SUBSET Kinds
      /\ OverlapRecorded'
  BY <1>1, <1>2, <1>3, GoesOn
<1> QED BY <1>1, <1>4 DEF r

(* used_at is set, and the token cannot be redeemed again.                 *)
LEMMA ConsumeKeeps ==
  ASSUME Inv, NEW w \in Workers, Consume(w)
  PROVE  Inv'
<1> DEFINE t == job[w].t
<1>1. job[w].pc = "consume" /\ Runs(w, "redeem") /\ job[w].kind = "redeem"
  BY Shapes DEF Consume, At, Inv, Runs
<1>2. /\ t \in Tokens
      /\ \A v \in Workers : job'[v] = IF v = w THEN [kind |-> "redeem", pc |-> "check", t |-> t]
                                               ELSE job[v]
      /\ job' \in [Workers -> Job]
      /\ overlap' \in SUBSET Kinds
      /\ OverlapRecorded'
  BY <1>1, RedeemGoesOn DEF Consume
<1>3. /\ \A u \in Tokens : token'[u] = IF u = t THEN "dead" ELSE token[u]
      /\ token' \in [Tokens -> TokenStates]
      /\ \A u \in Tokens : uses'[u] = IF u = t THEN uses[u] + 1 ELSE uses[u]
      /\ uses' \in [Tokens -> Nat]
      /\ UNCHANGED <<row, session, cached, overlap, sealed, crashes>>
  BY <1>2 DEF Consume, Inv, TypeOK, TokenStates
<1>4. \A v \in Workers, k \in {"issue", "redeem", "submit"} : Runs(v, k)' =>
        Runs(v, k) /\ job'[v].t = job[v].t
  BY <1>1, <1>2 DEF Runs
<1>5. token[t] # "none" /\ Exists
  BY <1>1 DEF Inv, TokensTracked, RequestsBacked
<1>6. TypeOK'
  BY <1>2, <1>3 DEF Inv, TypeOK
<1>7. StatusIsEarned' /\ SessionNeedsVerification' /\ RequestsBacked'
  BY <1>2, <1>3, <1>5
     DEF Inv, StatusIsEarned, SessionNeedsVerification, RequestsBacked, Exists, Runs
<1>8. TokensTracked'
  <2>1. \A u \in Tokens : token'[u] = "none" <=> token[u] = "none"
    BY <1>3, <1>5
  <2>2. \A u \in Tokens : token'[u] # "dead" => uses'[u] = 0
    BY <1>3 DEF Inv, TokensTracked
  <2>3. \A v \in Workers : Runs(v, "issue")' => v # w /\ job'[v] = job[v]
    BY <1>2 DEF Runs
  <2>4. \A v \in Workers : /\ Runs(v, "issue") \/ Runs(v, "redeem") => job[v].t \in Tokens
                           /\ job[v].pc = "insert" => job[v].seen \subseteq Tokens
    BY Shapes DEF Inv
  <2>5. \A v \in Workers : job'[v].pc = "insert" => job'[v] = job[v]
    BY <1>2
  <2> QED BY <1>4, <2>1, <2>2, <2>3, <2>4, <2>5 DEF Inv, TokensTracked
<1>9. IssueSeesAll' /\ NewTokenReplacesOld'
  <2>1. \A v \in Workers : job'[v].pc = "insert" => job'[v] = job[v] /\ job[v].t \in Tokens
    BY <1>2, Shapes DEF Inv
  <2>2. \A u \in Tokens : token'[u] = "live" => token[u] = "live"
    BY <1>3
  <2> QED BY <1>3, <2>1, <2>2, Purposes DEF Inv, IssueSeesAll, NewTokenReplacesOld
<1>10. TokenIsSingleUse'
  <2>1. "redeem" \notin overlap => uses[t] = 0
    BY <1>1 DEF Inv, RedeemsInOrder
  <2> QED BY <1>3, <2>1 DEF Inv, TokenIsSingleUse
<1>11. RedeemsInOrder'
  <2>1. "redeem" \notin overlap => \A v \in Workers : job'[v].pc # "consume"
    <3>1. \A v \in Workers : job[v].pc = "consume" => Runs(v, "redeem")
      BY Shapes DEF Inv
    <3> QED BY <1>1, <1>2, <3>1 DEF Inv, OverlapRecorded, Kinds
  <2> QED BY <1>2, <1>3, <2>1 DEF Inv, RedeemsInOrder, Exists
<1>12. ActivatesOnce'
  BY <1>2, <1>3 DEF Inv, ActivatesOnce
<1>13. SealedIsQuiet' /\ SealedStaysClosed'
  BY <1>2, <1>3 DEF Inv, SealedIsQuiet, SealedStaysClosed
<1> QED BY <1>2, <1>6, <1>7, <1>8, <1>9, <1>10, <1>11, <1>12, <1>13 DEF Inv

(* The steps of a redemption that touch neither tokens nor submissions:    *)
(* what is left to show of each is that the row backs its requests.        *)
LEMMA RedeemStepKeeps ==
  ASSUME Inv, NEW w \in Workers, Runs(w, "redeem"), Exists,
         NEW pc \in {"verify", "transition", "session"}, Goto(w, pc),
         UNCHANGED <<token, uses, cached, overlap, sealed, crashes>>,
         row' \in Row, session' \in BOOLEAN,
         row'.db = row.db, row'.account = row.account, row'.plan = row.plan,
         row.verified => row'.verified,
         StatusIsEarned', SessionNeedsVerification',
         pc \in {"transition", "session"} => row'.verified,
         row'.onb # row.onb => row.onb = "pending_email_verification" \/ "redeem" \in overlap,
         row'.onb = "pending_email_verification" => row.onb = "pending_email_verification",
         "redeem" \notin overlap /\ pc \in {"verify", "transition"} =>
            row'.onb = "pending_email_verification",
         sealed => row'.onb = row.onb /\ pc = "session",
         "redeem" \notin overlap /\ pc = "session" /\ row.plan = "pro" => row'.onb = row.onb
  PROVE  Inv'
<1>1. /\ job[w].t \in Tokens
      /\ \A v \in Workers : job'[v] = IF v = w THEN [kind |-> "redeem", pc |-> pc, t |-> job[w].t]
                                               ELSE job[v]
      /\ job' \in [Workers -> Job]
      /\ overlap' \in SUBSET Kinds
      /\ OverlapRecorded'
  <2>1. pc \in {"check", "verify", "transition", "session"}
    OBVIOUS
  <2> QED BY <2>1, RedeemGoesOn
<1>2. Exists'
  BY RowExists DEF Exists
<1>3. TypeOK'
  BY <1>1 DEF Inv, TypeOK
<1>4. RequestsBacked'
  BY <1>1, <1>2 DEF Inv, RequestsBacked, Runs
<1>5. TokensTracked'
  BY <1>1 DEF Inv, TokensTracked, Runs
<1>6. IssueSeesAll' /\ NewTokenReplacesOld' /\ TokenIsSingleUse'
  BY <1>1 DEF Inv, IssueSeesAll, NewTokenReplacesOld, TokenIsSingleUse
<1>7. RedeemsInOrder'
  <2>1. \A v \in Workers : job[v].pc \in {"verify", "transition"} => Runs(v, "redeem")
    BY Shapes DEF Inv
  <2>2. "redeem" \notin overlap => \A v \in Workers : v # w => job[v].pc \notin {"verify", "transition"}
    BY <2>1 DEF Inv, OverlapRecorded, Kinds
  <2> QED BY <1>1, <1>2, <2>2 DEF Inv, RedeemsInOrder
<1>8. ActivatesOnce'
  <2>1. "redeem" \notin overlap /\ row'.onb # row.onb =>
          \A v \in Workers : ~Runs(v, "submit")
    BY DEF Inv, RequestsBacked
  <2>2. \A v \in Workers : job[v].pc \in {"connect", "activate", "activating"} => Runs(v, "submit")
    BY Shapes DEF Inv
  <2> QED BY <1>1, <2>1, <2>2 DEF Inv, ActivatesOnce
<1>9. SealedIsQuiet' /\ SealedStaysClosed'
  BY <1>1 DEF Inv, SealedIsQuiet, SealedStaysClosed
<1> QED BY <1>1, <1>3, <1>4, <1>5, <1>6, <1>7, <1>8, <1>9 DEF Inv

(* A verification goes on if one is pending, a login if none is.           *)
LEMMA CheckStateKeeps ==
  ASSUME Inv, NEW w \in Workers, CheckState(w),
         (row.onb = "pending_email_verification") = (job[w].t \in EmailTokens)
  PROVE  Inv'
<1>1. job[w].pc = "check" /\ Runs(w, "redeem") /\ Exists
  BY Shapes DEF CheckState, At, Inv, RequestsBacked
<1>2. PICK pc \in {"verify", "session"} :
        /\ Goto(w, pc)
        /\ pc = "verify" <=> row.onb = "pending_email_verification"
  BY DEF CheckState
<1>3. UNCHANGED <<row, token, session, cached, uses, overlap, sealed, crashes>>
  BY DEF CheckState
<1>4. row' \in Row /\ session' \in BOOLEAN /\ StatusIsEarned' /\ SessionNeedsVerification'
  BY <1>1, <1>3, RowColumns
     DEF Inv, TypeOK, StatusIsEarned, SessionNeedsVerification, Exists
<1>5. pc = "session" => row'.verified
  BY <1>1, <1>2, <1>3 DEF Inv, StatusIsEarned
<1>6. sealed => pc = "session"
  BY <1>2 DEF Inv, SealedIsQuiet
<1> QED BY <1>1, <1>2, <1>3, <1>4, <1>5, <1>6, RedeemStepKeeps

(* set_email_verified.                                                     *)
LEMMA SetVerifiedKeeps ==
  ASSUME Inv, NEW w \in Workers, SetVerified(w)
  PROVE  Inv'
<1>1. job[w].pc = "verify" /\ Runs(w, "redeem") /\ Exists
  BY Shapes DEF SetVerified, At, Inv, RequestsBacked
<1>2. /\ Goto(w, "transition") /\ row' = [row EXCEPT !.verified = TRUE]
      /\ UNCHANGED <<token, session, cached, uses, overlap, sealed, crashes>>
  BY DEF SetVerified
<1>3. /\ row' \in Row /\ row'.verified /\ row'.onb = row.onb
      /\ row'.db = row.db /\ row'.account = row.account /\ row'.plan = row.plan
  BY <1>1, <1>2, RowColumns DEF Inv, Row
<1>4. session' \in BOOLEAN /\ StatusIsEarned' /\ SessionNeedsVerification'
  BY <1>1, <1>2, <1>3, RowExists
     DEF Inv, TypeOK, StatusIsEarned, SessionNeedsVerification, Exists
<1>5. "redeem" \notin overlap => row.onb = "pending_email_verification"
  BY <1>1 DEF Inv, RedeemsInOrder
<1>6. ~sealed
  BY <1>1 DEF Inv, SealedIsQuiet
<1> QED BY <1>1, <1>2, <1>3, <1>4, <1>5, <1>6, RedeemStepKeeps

(* transition_user_state: the address is verified by then.                 *)
LEMMA TransitionKeeps ==
  ASSUME Inv, NEW w \in Workers, Transition(w)
  PROVE  Inv'
<1>1. job[w].pc = "transition" /\ Runs(w, "redeem") /\ Exists /\ row.verified
  BY Shapes DEF Transition, At, Inv, RequestsBacked
<1>2. /\ Goto(w, "session") /\ row' = [row EXCEPT !.onb = "pending_db_connection"]
      /\ UNCHANGED <<token, session, cached, uses, overlap, sealed, crashes>>
  BY DEF Transition, NextState
<1>3. /\ row' \in Row /\ row'.verified = row.verified /\ row'.onb = "pending_db_connection"
      /\ row'.db = row.db /\ row'.account = row.account /\ row'.plan = row.plan
  BY <1>1, <1>2, RowColumns DEF Inv, Row
<1>4. session' \in BOOLEAN /\ StatusIsEarned' /\ SessionNeedsVerification'
  BY <1>1, <1>2, <1>3, RowExists
     DEF Inv, TypeOK, StatusIsEarned, SessionNeedsVerification, Exists
<1>5. "redeem" \notin overlap => row.onb = "pending_email_verification" /\ row.plan # "pro"
  BY <1>1 DEF Inv, RedeemsInOrder
<1>6. ~sealed
  BY <1>1 DEF Inv, SealedIsQuiet
<1> QED BY <1>1, <1>2, <1>3, <1>4, <1>5, <1>6, RedeemStepKeeps

(* issue_user_session: only for a verified address.                        *)
LEMMA IssueSessionKeeps ==
  ASSUME Inv, NEW w \in Workers, IssueSession(w)
  PROVE  Inv'
<1>1. job[w].pc = "session" /\ Exists /\ row.verified
  BY DEF IssueSession, At, Inv, RequestsBacked
<1>2. /\ \A v \in Workers : job'[v] = IF v = w THEN Idle ELSE job[v]
      /\ job' \in [Workers -> Job]
      /\ session' = TRUE /\ UNCHANGED <<row, token, cached, uses, overlap, sealed, crashes>>
  BY DEF IssueSession, Done, Inv, TypeOK, Job
<1>3. Idle.pc = "idle"
  BY DEF Idle
<1>4. TypeOK'
  BY <1>2 DEF Inv, TypeOK
<1>5. StatusIsEarned' /\ SessionNeedsVerification' /\ RequestsBacked'
  BY <1>1, <1>2, <1>3
     DEF Inv, StatusIsEarned, SessionNeedsVerification, RequestsBacked, Exists, Runs
<1>6. TokensTracked' /\ OverlapRecorded'
  BY <1>2, <1>3 DEF Inv, TokensTracked, OverlapRecorded, Runs
<1>7. IssueSeesAll' /\ NewTokenReplacesOld'
  BY <1>2, <1>3 DEF Inv, IssueSeesAll, NewTokenReplacesOld
<1>8. RedeemsInOrder' /\ TokenIsSingleUse' /\ ActivatesOnce'
  BY <1>2, <1>3 DEF Inv, RedeemsInOrder, TokenIsSingleUse, ActivatesOnce, Exists
<1>9. SealedIsQuiet' /\ SealedStaysClosed'
  BY <1>2, <1>3 DEF Inv, SealedIsQuiet, SealedStaysClosed
<1> QED BY <1>4, <1>5, <1>6, <1>7, <1>8, <1>9 DEF Inv

----------------------------------------------------------------------------
(* Submissions and commands that go on.                                    *)

(* upsert_user_database: the database is stored, whatever comes next.      *)
LEMMA ConnectKeeps ==
  ASSUME Inv, NEW w \in Workers, Connect(w)
  PROVE  Inv'
<1> DEFINE r == IF job[w].first THEN [kind |-> "submit", pc |-> "activate", first |-> job[w].first]
                ELSE Idle
<1>1. /\ job[w].pc = "connect" /\ Runs(w, "submit") /\ Exists /\ job[w].first \in BOOLEAN
      /\ row.onb # "pending_email_verification"
  BY Shapes DEF Connect, At, Inv, RequestsBacked
<1>2. /\ row' = [row EXCEPT !.db = TRUE]
      /\ UNCHANGED <<token, session, uses, overlap, sealed, crashes>>
  BY DEF Connect
<1>3. job' = [job EXCEPT ![w] = r] /\ cached' \in [Workers -> BOOLEAN]
  <2>1. job[w] \in [kind : {"submit"}, pc : {"connect", "activate"}, first : BOOLEAN]
    BY <1>1 DEF Inv, TypeOK, Job, Runs
  <2>2. CASE job[w].first
    <3>1. [job[w] EXCEPT !.pc = "activate"]
            = [kind |-> "submit", pc |-> "activate", first |-> job[w].first]
      BY <2>1
    <3>2. job' = [job EXCEPT ![w] = [job[w] EXCEPT !.pc = "activate"]] /\ cached' = cached
      BY <2>2 DEF Connect, Goto, Inv, TypeOK
    <3> QED BY <2>2, <3>1, <3>2 DEF Inv, TypeOK
  <2>3. CASE ~job[w].first
    BY <2>3 DEF Connect, Done, Bust, Inv, TypeOK
  <2> QED BY <2>2, <2>3
<1>4. /\ r \in Job
      /\ r = Idle \/ (r # Idle /\ r.kind = "submit")
      /\ r.pc = IF job[w].first THEN "activate" ELSE "idle"
  BY <1>1 DEF Job, Idle
<1>5. /\ row' \in Row /\ row'.db /\ row'.onb = row.onb
      /\ row'.verified = row.verified /\ row'.account = row.account /\ row'.plan = row.plan
  BY <1>1, <1>2, RowColumns DEF Inv, Row
<1>6. Exists'
  BY <1>5, RowExists DEF Exists
<1> HIDE DEF r
<1>7. \A v \in Workers : job'[v] = IF v = w THEN r ELSE job[v]
  BY <1>3 DEF Inv, TypeOK
<1>8. \A v \in Workers, k \in {"issue", "redeem", "submit"} :
        Runs(v, k)' => Runs(v, k) /\ (k # "submit" => job'[v] = job[v])
  BY <1>1, <1>4, <1>7 DEF Runs
<1>9. TypeOK'
  <2>1. job' \in [Workers -> Job]
    BY <1>3, <1>4 DEF Inv, TypeOK
  <2> QED BY <1>2, <1>3, <1>5, <2>1 DEF Inv, TypeOK
<1>10. StatusIsEarned' /\ SessionNeedsVerification' /\ RequestsBacked'
  BY <1>1, <1>2, <1>4, <1>5, <1>6, <1>7, <1>8
     DEF Inv, StatusIsEarned, SessionNeedsVerification, RequestsBacked
<1>11. TokensTracked' /\ OverlapRecorded'
  <2>1. \A v \in Workers : job'[v].pc = "insert" => job'[v] = job[v]
    BY <1>4, <1>7
  <2> QED BY <1>2, <1>8, <2>1 DEF Inv, TokensTracked, OverlapRecorded, Kinds
<1>12. IssueSeesAll' /\ NewTokenReplacesOld' /\ TokenIsSingleUse'
  BY <1>2, <1>4, <1>7 DEF Inv, IssueSeesAll, NewTokenReplacesOld, TokenIsSingleUse
<1>13. RedeemsInOrder' /\ ActivatesOnce'
  BY <1>1, <1>2, <1>4, <1>5, <1>6, <1>7 DEF Inv, RedeemsInOrder, ActivatesOnce
<1>14. SealedIsQuiet' /\ SealedStaysClosed'
  BY <1>1, <1>2, <1>4, <1>5, <1>7 DEF Inv, SealedIsQuiet, SealedStaysClosed
<1> QED BY <1>9, <1>10, <1>11, <1>12, <1>13, <1>14 DEF Inv

(* A step that only moves a submission or a command on.                    *)
LEMMA LoadKeeps ==
  ASSUME Inv, NEW w \in Workers, job[w] # Idle, NEW r \in Job, r # Idle, r.kind = job[w].kind,
         r.pc \in {"activating", "write"}, job[w].pc \in {"activate", "load"},
         r.pc = "activating" => r.loaded.plan = row.plan /\ job[w].pc = "activate",
         job' = [job EXCEPT ![w] = r],
         UNCHANGED <<row, token, session, cached, uses, overlap, sealed, crashes>>
  PROVE  Inv'
<1>1. /\ \A v \in Workers : job'[v] = IF v = w THEN r ELSE job[v]
      /\ job' \in [Workers -> Job]
      /\ overlap' \in SUBSET Kinds
      /\ OverlapRecorded'
  BY GoesOn
<1>2. Exists /\ ~sealed
  BY DEF Inv, RequestsBacked, SealedIsQuiet
<1>3. r.kind \notin {"issue", "redeem"}
  BY DEF Job
<1>4. TypeOK'
  BY <1>1 DEF Inv, TypeOK
<1>5. StatusIsEarned' /\ SessionNeedsVerification' /\ RequestsBacked'
  BY <1>1, <1>2
     DEF Inv, StatusIsEarned, SessionNeedsVerification, RequestsBacked, Exists, Runs
<1>6. TokensTracked'
  BY <1>1, <1>3 DEF Inv, TokensTracked, Runs
<1>7. IssueSeesAll' /\ NewTokenReplacesOld' /\ TokenIsSingleUse' /\ RedeemsInOrder'
  BY <1>1 DEF Inv, IssueSeesAll, NewTokenReplacesOld, TokenIsSingleUse, RedeemsInOrder, Exists
<1>8. ActivatesOnce'
  <2>1. /\ "redeem" \notin overlap /\ row.plan = "pro" => row.onb = "setup_complete"
        /\ row.plan \in {"free", "pro"}
    BY <1>2, RowColumns DEF Inv, RedeemsInOrder
  <2> QED BY <1>1, <2>1 DEF Inv, ActivatesOnce
<1>9. SealedIsQuiet' /\ SealedStaysClosed'
  BY <1>2 DEF SealedIsQuiet, SealedStaysClosed
<1> QED BY <1>1, <1>4, <1>5, <1>6, <1>7, <1>8, <1>9 DEF Inv

(* activate_user and set_account_status load the row they decide on.       *)
LEMMA LoadsKeep ==
  ASSUME Inv, NEW w \in Workers, ActivateLoad(w) \/ (StatusLoad(w) /\ row.account # "closed")
  PROVE  Inv'
<1>1. CASE ActivateLoad(w)
  <2> DEFINE r == [kind |-> "submit", pc |-> "activating",
                   loaded |-> [onb |-> row.onb, account |-> row.account, plan |-> row.plan]]
  <2>1. /\ job[w].pc = "activate" /\ Runs(w, "submit") /\ Exists
        /\ row.onb # "pending_email_verification"
    BY <1>1, Shapes DEF ActivateLoad, At, Inv, RequestsBacked
  <2>2. row.onb \in {"pending_db_connection", "setup_complete"}
        /\ row.account \in {"active", "suspended", "closed"} /\ row.plan \in {"free", "pro"}
    BY <2>1, RowColumns DEF Inv
  <2>3. /\ r \in Job /\ r # Idle /\ r.kind = "submit" /\ r.pc = "activating"
        /\ r.loaded.plan = row.plan
    BY <2>2 DEF Job, Idle
  <2>4. /\ job' = [job EXCEPT ![w] = r]
        /\ UNCHANGED <<row, token, session, cached, uses, overlap, sealed, crashes>>
    BY <1>1 DEF ActivateLoad
  <2> HIDE DEF r
  <2> QED BY <2>1, <2>3, <2>4, LoadKeeps DEF Runs
<1>2. CASE StatusLoad(w) /\ row.account # "closed"
  <2> DEFINE r == [kind |-> "admin", pc |-> "write", to |-> job[w].to, loaded |-> row.account]
  <2>1. /\ job[w].pc = "load" /\ Runs(w, "admin") /\ Exists
        /\ job[w].to \in {"active", "suspended", "closed"}
    BY <1>2, Shapes DEF StatusLoad, At, Inv, RequestsBacked
  <2>2. row.account \in {"active", "suspended"}
    BY <1>2, <2>1, RowColumns DEF Inv
  <2>3. r \in Job /\ r # Idle /\ r.kind = "admin" /\ r.pc = "write"
    BY <2>1, <2>2 DEF Job, Idle
  <2>4. /\ job' = [job EXCEPT ![w] = r]
        /\ UNCHANGED <<row, token, session, cached, uses, overlap, sealed, crashes>>
    BY <1>2 DEF StatusLoad
  <2> HIDE DEF r
  <2> QED BY <2>1, <2>3, <2>4, LoadKeeps DEF Runs
<1> QED BY <1>1, <1>2

(* The commit of activate_user.                                            *)
LEMMA ActivatedRow ==
  ASSUME Inv, NEW w \in Workers, ActivateWrite(w)
  PROVE  /\ job[w].pc = "activating" /\ Runs(w, "submit") /\ Exists
         /\ row.onb # "pending_email_verification" /\ row.db /\ ~sealed
         /\ row' \in Row /\ row'.verified = row.verified /\ row'.db = row.db
         /\ row'.onb \in {row.onb, "setup_complete"} /\ row'.account \in {row.account, "active"}
         /\ row'.plan = IF job[w].loaded.plan = "free" THEN row.plan ELSE "free"
<1>1. /\ job[w].pc = "activating" /\ Runs(w, "submit") /\ Exists
      /\ row.onb # "pending_email_verification" /\ row.db /\ ~sealed
  BY Shapes DEF ActivateWrite, At, Inv, RequestsBacked, SealedIsQuiet
<1>2. /\ row \in Row /\ row.onb \in {"pending_db_connection", "setup_complete"}
      /\ row.account \in {"active", "suspended", "closed"} /\ row.plan \in {"free", "pro"}
      /\ row.verified \in BOOLEAN /\ row.db \in BOOLEAN
  BY <1>1, RowColumns DEF Inv
<1>3. DOMAIN row = {"onb", "account", "plan", "verified", "db"}
  BY <1>2 DEF Row
<1>4. /\ DOMAIN Activated = {"onb", "account", "plan"}
      /\ Activated.onb = "setup_complete" /\ Activated.account = "active" /\ Activated.plan = "free"
  BY DEF Activated
<1>5. row' = [c \in {"onb", "account", "plan", "verified", "db"} |->
        IF c \in {"onb", "account", "plan"} /\ Activated[c] # job[w].loaded[c]
          THEN Activated[c] ELSE row[c]]
  BY <1>3, <1>4 DEF ActivateWrite
<1>6. /\ row'.onb = IF job[w].loaded.onb # "setup_complete" THEN "setup_complete" ELSE row.onb
      /\ row'.account = IF job[w].loaded.account # "active" THEN "active" ELSE row.account
      /\ row'.plan = IF job[w].loaded.plan # "free" THEN "free" ELSE row.plan
      /\ row'.verified = row.verified /\ row'.db = row.db
  BY <1>4, <1>5
<1>7. row' = [onb |-> row'.onb, account |-> row'.account, plan |-> row'.plan,
              verified |-> row'.verified, db |-> row'.db]
  BY <1>5
<1>8. row' \in Row
  BY <1>2, <1>6, <1>7 DEF Row
<1> QED BY <1>1, <1>6, <1>8

(* The first submission completes the set-up of a verified account with a  *)
(* database; a paid plan survives it unless two submissions overlap.       *)
LEMMA ActivateWriteKeeps ==
  ASSUME Inv, NEW w \in Workers, ActivateWrite(w)
  PROVE  Inv'
<1>1. /\ job[w].pc = "activating" /\ Runs(w, "submit") /\ Exists
      /\ row.onb # "pending_email_verification" /\ row.db /\ ~sealed
      /\ row' \in Row /\ row'.verified = row.verified /\ row'.db = row.db
      /\ row'.onb \in {row.onb, "setup_complete"} /\ row'.account \in {row.account, "active"}
      /\ row'.plan = IF job[w].loaded.plan = "free" THEN row.plan ELSE "free"
  BY ActivatedRow
<1>2. /\ \A v \in Workers : job'[v] = IF v = w THEN Idle ELSE job[v]
      /\ job' \in [Workers -> Job] /\ cached' \in [Workers -> BOOLEAN]
      /\ UNCHANGED <<token, session, uses, overlap, sealed, crashes>>
  BY DEF ActivateWrite, Bust, Done, Inv, TypeOK, Job
<1>3. Idle.pc = "idle" /\ Exists'
  BY <1>1, RowExists DEF Idle, Exists
<1>4. TypeOK'
  BY <1>1, <1>2 DEF Inv, TypeOK
<1>5. StatusIsEarned' /\ SessionNeedsVerification' /\ RequestsBacked'
  BY <1>1, <1>2, <1>3
     DEF Inv, StatusIsEarned, SessionNeedsVerification, RequestsBacked, Runs
<1>6. TokensTracked' /\ OverlapRecorded'
  BY <1>2, <1>3 DEF Inv, TokensTracked, OverlapRecorded, Runs
<1>7. IssueSeesAll' /\ NewTokenReplacesOld' /\ TokenIsSingleUse'
  BY <1>2, <1>3 DEF Inv, IssueSeesAll, NewTokenReplacesOld, TokenIsSingleUse
<1>8. RedeemsInOrder'
  BY <1>1, <1>2, <1>3 DEF Inv, RedeemsInOrder
<1>9. ActivatesOnce'
  <2>1. \A v \in Workers : job[v].pc \in {"connect", "activate", "activating"} => Runs(v, "submit")
    BY Shapes DEF Inv
  <2>2. "submit" \notin overlap => \A v \in Workers : v # w => ~Runs(v, "submit")
    BY <1>1 DEF Inv, OverlapRecorded, Kinds
  <2> QED BY <1>2, <1>3, <2>1, <2>2 DEF ActivatesOnce
<1>10. SealedIsQuiet' /\ SealedStaysClosed'
  BY <1>1, <1>2 DEF SealedIsQuiet, SealedStaysClosed
<1> QED BY <1>4, <1>5, <1>6, <1>7, <1>8, <1>9, <1>10 DEF Inv

(* The commit of set_account_status; sealed says when the closure is final.*)
LEMMA StatusWriteKeeps ==
  ASSUME Inv, NEW w \in Workers, StatusWrite(w)
  PROVE  Inv'
<1> DEFINE r == IF job[w].to = "closed"
                  THEN [kind |-> "admin", pc |-> "revoke", to |-> job[w].to, loaded |-> job[w].loaded]
                  ELSE Idle
<1>1. /\ job[w].pc = "write" /\ Runs(w, "admin") /\ Exists /\ ~sealed
      /\ job[w].to \in {"active", "suspended", "closed"} /\ job[w].loaded \in {"active", "suspended"}
  BY Shapes DEF StatusWrite, At, Inv, RequestsBacked, SealedIsQuiet
<1>2. /\ row' = [row EXCEPT !.account = IF job[w].loaded = job[w].to THEN @ ELSE job[w].to]
      /\ sealed' = (sealed \/ (/\ job[w].to = "closed" /\ row.onb = "setup_complete"
                               /\ \A v \in Workers \ {w} : job[v] = Idle))
      /\ UNCHANGED <<token, session, uses, overlap, crashes>>
  BY DEF StatusWrite
<1>3. job' = [job EXCEPT ![w] = r] /\ cached' \in [Workers -> BOOLEAN]
  <2>1. job[w] \in [kind : {"admin"}, pc : {"write", "revoke"},
                    to : {"active", "suspended", "closed"}, loaded : {"active", "suspended"}]
    BY <1>1 DEF Inv, TypeOK, Job, Runs
  <2>2. CASE job[w].to = "closed"
    <3>1. [job[w] EXCEPT !.pc = "revoke"] = r
      BY <2>1, <2>2
    <3>2. job' = [job EXCEPT ![w] = [job[w] EXCEPT !.pc = "revoke"]] /\ cached' = cached
      BY <2>2 DEF StatusWrite, Goto, Inv, TypeOK
    <3> QED BY <3>1, <3>2 DEF Inv, TypeOK
  <2>3. CASE job[w].to # "closed"
    BY <2>3 DEF StatusWrite, Done, Bust, Inv, TypeOK
  <2> QED BY <2>2, <2>3
<1>4. /\ r \in Job
      /\ r = Idle \/ (r # Idle /\ r.kind = "admin" /\ job[w].to = "closed")
      /\ r.pc = IF job[w].to = "closed" THEN "revoke" ELSE "idle"
  BY <1>1 DEF Job, Idle
<1>5. /\ row' \in Row /\ row'.onb = row.onb /\ row'.db = row.db
      /\ row'.verified = row.verified /\ row'.plan = row.plan
      /\ job[w].to = "closed" => row'.account = "closed"
  BY <1>1, <1>2, RowColumns DEF Inv, Row
<1>6. Exists'
  BY <1>5, RowExists DEF Exists
<1> HIDE DEF r
<1>7. \A v \in Workers : job'[v] = IF v = w THEN r ELSE job[v]
  BY <1>3 DEF Inv, TypeOK
<1>8. \A v \in Workers, k \in {"issue", "redeem", "submit"} :
        Runs(v, k)' => Runs(v, k) /\ job'[v] = job[v]
  BY <1>1, <1>4, <1>7 DEF Runs
<1>9. TypeOK'
  <2>1. job' \in [Workers -> Job]
    BY <1>3, <1>4 DEF Inv, TypeOK
  <2>2. sealed' \in BOOLEAN
    BY <1>1, <1>2
  <2> QED BY <1>2, <1>3, <1>5, <2>1, <2>2 DEF Inv, TypeOK
<1>10. StatusIsEarned' /\ SessionNeedsVerification' /\ RequestsBacked'
  <2>1. StatusIsEarned' /\ SessionNeedsVerification'
    BY <1>1, <1>2, <1>5, <1>6 DEF Inv, StatusIsEarned, SessionNeedsVerification
  <2>2. \A v \in Workers : job'[v] = job[v] \/ job'[v].pc \in {"idle", "revoke"}
    BY <1>4, <1>7
  <2>3. ASSUME NEW v \in Workers
        PROVE  /\ job'[v].pc \in {"transition", "session"} => row'.verified
               /\ Runs(v, "submit")' => row'.onb # "pending_email_verification"
               /\ job'[v].pc \in {"activate", "activating"} => row'.db
    <3>1. CASE job'[v] = job[v]
      BY <1>5, <1>8, <3>1 DEF Inv, RequestsBacked, Runs
    <3>2. CASE job'[v].pc \in {"idle", "revoke"}
      BY <1>5, <1>8, <3>2 DEF Inv, RequestsBacked
    <3> QED BY <2>2, <3>1, <3>2
  <2> QED BY <1>6, <2>1, <2>3 DEF RequestsBacked
<1>11. TokensTracked' /\ OverlapRecorded'
  <2>1. \A v \in Workers : job'[v].pc = "insert" => job'[v] = job[v]
    BY <1>4, <1>7
  <2> QED BY <1>2, <1>8, <2>1 DEF Inv, TokensTracked, OverlapRecorded, Kinds
<1>12. IssueSeesAll' /\ NewTokenReplacesOld' /\ TokenIsSingleUse'
  BY <1>2, <1>4, <1>7 DEF Inv, IssueSeesAll, NewTokenReplacesOld, TokenIsSingleUse
<1>13. RedeemsInOrder' /\ ActivatesOnce'
  BY <1>1, <1>2, <1>4, <1>5, <1>6, <1>7 DEF Inv, RedeemsInOrder, ActivatesOnce
<1>14. SealedIsQuiet' /\ SealedStaysClosed'
  <2>1. ASSUME sealed'
        PROVE  /\ row'.account = "closed" /\ row'.onb = "setup_complete"
               /\ \A v \in Workers : job'[v].pc \in {"idle", "revoke"}
    <3>1. Idle.pc = "idle"
      BY DEF Idle
    <3> QED BY <1>1, <1>2, <1>4, <1>5, <1>7, <2>1, <3>1
  <2> QED BY <2>1 DEF SealedIsQuiet, SealedStaysClosed
<1> QED BY <1>9, <1>10, <1>11, <1>12, <1>13, <1>14 DEF Inv

(* A payment of an account whose set-up is complete.                       *)
LEMMA UpgradeKeeps ==
  ASSUME Inv, Upgrade
  PROVE  Inv'
<1>1. /\ Exists /\ row.onb = "setup_complete" /\ row' = [row EXCEPT !.plan = "pro"]
      /\ UNCHANGED <<token, session, cached, job, uses, overlap, sealed, crashes>>
  BY DEF Upgrade
<1>2. /\ row' \in Row /\ row'.onb = row.onb /\ row'.db = row.db
      /\ row'.verified = row.verified /\ row'.account = row.account
  BY <1>1, RowColumns DEF Inv, Row
<1>3. Exists'
  BY <1>2, RowExists DEF Exists
<1>4. TypeOK'
  BY <1>1, <1>2 DEF Inv, TypeOK
<1>5. StatusIsEarned' /\ SessionNeedsVerification' /\ RequestsBacked'
  BY <1>1, <1>2, <1>3
     DEF Inv, StatusIsEarned, SessionNeedsVerification, RequestsBacked, Runs
<1>6. TokensTracked' /\ OverlapRecorded' /\ IssueSeesAll' /\ NewTokenReplacesOld' /\ TokenIsSingleUse'
  BY <1>1 DEF Inv, TokensTracked, OverlapRecorded, Runs, IssueSeesAll, NewTokenReplacesOld,
     TokenIsSingleUse
<1>7. RedeemsInOrder' /\ ActivatesOnce' /\ SealedIsQuiet' /\ SealedStaysClosed'
  BY <1>1, <1>2 DEF Inv, RedeemsInOrder, ActivatesOnce, SealedIsQuiet, SealedStaysClosed
<1> QED BY <1>4, <1>5, <1>6, <1>7 DEF Inv

----------------------------------------------------------------------------
(* Endings, and the whole of Next.                                         *)

(* A request that ends without a write, is revoked or killed, and time     *)
(* that passes.                                                            *)
LEMMA EndingsKeep ==
  ASSUME Inv, NEW w \in Workers,
         \/ ConnectFails(w) \/ Crash(w) \/ RevokeAll(w) \/ Authenticate(w) \/ Logout(w)
         \/ CacheExpires(w) \/ SessionExpires
         \/ Create(w) /\ Exists
         \/ StatusLoad(w) /\ row.account = "closed"
         \/ CheckState(w) /\ (row.onb = "pending_email_verification") # (job[w].t \in EmailTokens)
  PROVE  Inv'
<1> DEFINE ended == [job EXCEPT ![w] = Idle]
<1>1. UNCHANGED <<row, uses, overlap, sealed, token>>
  BY DEF ConnectFails, Crash, RevokeAll, Authenticate, Logout, CacheExpires, SessionExpires,
     Create, StatusLoad, CheckState
<1>2. job' \in {job, ended}
  BY DEF ConnectFails, Crash, RevokeAll, Authenticate, Logout, CacheExpires, SessionExpires,
     Create, StatusLoad, CheckState, Done
<1>3. session' \in BOOLEAN /\ (session' => session)
  <2>1. session' = session \/ session' = FALSE
    BY DEF ConnectFails, Crash, RevokeAll, Authenticate, Logout, CacheExpires, SessionExpires,
       Create, StatusLoad, CheckState
  <2>2. session \in BOOLEAN
    BY DEF Inv, TypeOK
  <2>3. CASE session' = session
    BY <2>2, <2>3
  <2>4. CASE session' = FALSE
    BY <2>4
  <2> QED BY <2>1, <2>3, <2>4
<1>4. cached' = cached \/ \E b \in BOOLEAN : cached' = [cached EXCEPT ![w] = b]
  BY DEF Inv, TypeOK, ConnectFails, Crash, RevokeAll, Authenticate, Logout, CacheExpires,
     SessionExpires, Create, StatusLoad, CheckState, Forget, Bust
<1>5. cached' \in [Workers -> BOOLEAN]
  BY <1>4 DEF Inv, TypeOK
<1>6. crashes' \in 0 .. MaxCrashes
  <2>1. crashes' = crashes \/ (crashes < MaxCrashes /\ crashes' = crashes + 1)
    BY DEF ConnectFails, Crash, RevokeAll, Authenticate, Logout, CacheExpires, SessionExpires,
       Create, StatusLoad, CheckState
  <2>2. crashes \in 0 .. MaxCrashes
    BY DEF Inv, TypeOK
  <2> QED BY <2>1, <2>2, CrashesAssumption
<1>7. job' \in [Workers -> Job] /\ \A v \in Workers : job'[v] = job[v] \/ job'[v] = Idle
  BY <1>2 DEF Inv, TypeOK, Job
<1>8. token' \in [Tokens -> TokenStates]
  BY <1>1 DEF Inv, TypeOK
<1> QED BY <1>1, <1>3, <1>5, <1>6, <1>7, <1>8, EndingKeeps

(* The expires_at of a token passes.                                       *)
LEMMA TokenExpiresKeeps ==
  ASSUME Inv, NEW t \in Tokens, TokenExpires(t)
  PROVE  Inv'
<1>1. /\ token[t] = "live" /\ token' = [token EXCEPT ![t] = "dead"]
      /\ UNCHANGED <<row, session, cached, job, uses, overlap, sealed, crashes>>
  BY DEF TokenExpires
<1>2. /\ token' \in [Tokens -> TokenStates]
      /\ \A u \in Tokens : token'[u] = token[u] \/ (token[u] = "live" /\ token'[u] = "dead")
  BY <1>1 DEF Inv, TypeOK, TokenStates
<1> QED BY <1>1, <1>2, EndingKeeps DEF Inv, TypeOK

(* Nothing has happened yet.                                               *)
LEMMA InitInv == Init => Inv
<1> SUFFICES ASSUME Init PROVE Inv
  OBVIOUS
<1>1. /\ Idle.pc = "idle" /\ Idle \in Job
      /\ \A w \in Workers : job[w] = Idle
      /\ \A t \in Tokens : token[t] = "none" /\ uses[t] = 0
  <2>1. Idle.pc = "idle"
    BY DEF Idle
  <2>2. Idle \in Job
    BY DEF Job
  <2>3. /\ \A w \in Workers : job[w] = Idle
        /\ \A t \in Tokens : token[t] = "none" /\ uses[t] = 0
    BY DEF Init
  <2> QED BY <2>1, <2>2, <2>3
<1>2. ~Exists /\ session = FALSE /\ sealed = FALSE /\ overlap = {}
  BY DEF Init, Exists
<1>3. TypeOK
  <2>1. /\ row \in Row \union {NoRow} /\ token \in [Tokens -> TokenStates]
        /\ uses \in [Tokens -> Nat] /\ overlap \in SUBSET Kinds /\ crashes \in 0 .. MaxCrashes
    BY CrashesAssumption DEF Init, TokenStates
  <2>2. session \in BOOLEAN /\ sealed \in BOOLEAN /\ cached \in [Workers -> BOOLEAN]
    BY DEF Init
  <2>3. job \in [Workers -> Job]
    BY <1>1 DEF Init
  <2> QED BY <2>1, <2>2, <2>3 DEF TypeOK
<1>4. StatusIsEarned /\ SessionNeedsVerification /\ RequestsBacked
  BY <1>1, <1>2 DEF StatusIsEarned, SessionNeedsVerification, RequestsBacked, Runs
<1>5. TokensTracked /\ OverlapRecorded
  BY <1>1, <1>2 DEF TokensTracked, OverlapRecorded, Runs
<1>6. IssueSeesAll /\ NewTokenReplacesOld /\ RedeemsInOrder /\ TokenIsSingleUse /\ ActivatesOnce
  BY <1>1, <1>2 DEF IssueSeesAll, NewTokenReplacesOld, RedeemsInOrder, TokenIsSingleUse, ActivatesOnce
<1>7. SealedIsQuiet /\ SealedStaysClosed
  BY <1>1, <1>2 DEF SealedIsQuiet, SealedStaysClosed
<1> QED BY <1>3, <1>4, <1>5, <1>6, <1>7 DEF Inv

(* Inv is inductive.                                                       *)
LEMMA NextKeepsInv == Inv /\ [Next]_vars => Inv'
<1> SUFFICES ASSUME Inv, [Next]_vars PROVE Inv'
  OBVIOUS
<1>1. ASSUME NEW w \in Workers, Issue(w) PROVE Inv'
  BY <1>1, CreateKeeps, EndingsKeep, IssueMarkKeeps, IssueCommitKeeps DEF Issue
<1>2. ASSUME NEW w \in Workers, VerifyEmail(w) \/ ExchangeLoginLink(w) PROVE Inv'
  <2>1. Consume(w) \/ CheckState(w) \/ SetVerified(w) \/ Transition(w) \/ IssueSession(w)
    BY <1>2 DEF VerifyEmail, ExchangeLoginLink
  <2>2. CASE CheckState(w)
    BY <2>2, CheckStateKeeps, EndingsKeep
  <2> QED BY <2>1, <2>2, ConsumeKeeps, SetVerifiedKeeps, TransitionKeeps, IssueSessionKeeps
<1>3. ASSUME NEW w \in Workers, Register(w) PROVE Inv'
  BY <1>3, EndingsKeep, ConnectKeeps, LoadsKeep, ActivateWriteKeeps DEF Register
<1>4. ASSUME NEW w \in Workers, Administer(w) PROVE Inv'
  BY <1>4, EndingsKeep, LoadsKeep, StatusWriteKeeps DEF Administer
<1>5. ASSUME NEW w \in Workers, Crash(w) \/ Authenticate(w) \/ Logout(w) \/ CacheExpires(w)
      PROVE  Inv'
  BY <1>5, EndingsKeep
<1>6. ASSUME NEW w \in Workers, NEW t \in Tokens, Signup(w, t) \/ Request(w, t) \/ Redeem(w, t)
      PROVE  Inv'
  BY <1>6, TokenRequestsKeep
<1>7. ASSUME NEW w \in Workers, Submit(w) PROVE Inv'
  BY <1>7, SubmitAndCommandKeep
<1>8. ASSUME NEW w \in Workers, NEW to \in {"suspended", "active", "closed"}, Command(w, to)
      PROVE  Inv'
  BY <1>8, SubmitAndCommandKeep
<1>9. CASE SessionExpires
  <2>1. /\ UNCHANGED <<row, token, cached, job, uses, overlap, sealed, crashes>>
        /\ session /\ session' = FALSE
    BY <1>9 DEF SessionExpires
  <2> QED BY <2>1, EndingKeeps DEF Inv, TypeOK
<1>10. CASE UNCHANGED vars
  BY <1>10, EndingKeeps DEF vars, Inv, TypeOK
<1> QED BY <1>1, <1>2, <1>3, <1>4, <1>5, <1>6, <1>7, <1>8, <1>9, <1>10, TokenExpiresKeeps,
           UpgradeKeeps DEF Next

(* The inductive invariant holds throughout.                               *)
THEOREM Invariance == Spec => []Inv
BY InitInv, NextKeepsInv, PTL DEF Spec

----------------------------------------------------------------------------
(* What follows from it.                                                   *)

(* What a row, a token and a request may hold, wherever a worker is killed.*)
THEOREM AccountTypes == Spec => []TypeOK
<1>1. Inv => TypeOK
  BY DEF Inv
<1> QED BY <1>1, Invariance, PTL

(* The onboarding status never claims more than the other columns hold.    *)
THEOREM StatusIsBacked == Spec => []StatusIsEarned
<1>1. Inv => StatusIsEarned
  BY DEF Inv
<1> QED BY <1>1, Invariance, PTL

(* No session belongs to an account whose address is not verified.         *)
THEOREM SessionsAreVerified == Spec => []SessionNeedsVerification
<1>1. Inv => SessionNeedsVerification
  BY DEF Inv
<1> QED BY <1>1, Invariance, PTL

(* Without two issues at a time, at most one link per purpose is alive.    *)
THEOREM LinksAreReplaced == Spec => []NewTokenReplacesOld
<1>1. Inv => NewTokenReplacesOld
  BY DEF Inv
<1> QED BY <1>1, Invariance, PTL

(* Without two redemptions at a time, no link is redeemed twice.           *)
THEOREM LinksWorkOnce == Spec => []TokenIsSingleUse
<1>1. Inv => TokenIsSingleUse
  BY DEF Inv
<1> QED BY <1>1, Invariance, PTL

(* An account sealed by a quiet closure is never opened again.             *)
THEOREM ClosureIsFinal == Spec => []SealedStaysClosed
<1>1. Inv => SealedStaysClosed
  BY DEF Inv
<1> QED BY <1>1, Invariance, PTL
----------------------------------------------------------------------------
(* What a step may do to the row.                                          *)

(* The steps that write the row; none of them is the start of a request.   *)
LEMMA RowWriters ==
  ASSUME Inv, [Next]_vars, row' # row
  PROVE  /\ overlap' = overlap
         /\ \/ Upgrade
            \/ \E w \in Workers :
                 \/ Create(w) /\ ~Exists
                 \/ SetVerified(w) \/ Transition(w) \/ Connect(w)
                 \/ ActivateWrite(w) \/ StatusWrite(w)
<1>1. /\ \A w \in Workers : ~IssueMark(w) /\ ~IssueCommit(w) /\ ~Consume(w) /\ ~CheckState(w)
           /\ ~IssueSession(w) /\ ~ConnectFails(w) /\ ~ActivateLoad(w) /\ ~StatusLoad(w)
           /\ ~RevokeAll(w) /\ ~Crash(w) /\ ~Authenticate(w) /\ ~Submit(w) /\ ~Logout(w)
           /\ ~CacheExpires(w) /\ ~(Create(w) /\ Exists)
      /\ \A w \in Workers, t \in Tokens : ~Signup(w, t) /\ ~Request(w, t) /\ ~Redeem(w, t)
      /\ \A w \in Workers, to \in {"suspended", "active", "closed"} : ~Command(w, to)
      /\ \A t \in Tokens : ~TokenExpires(t)
      /\ ~SessionExpires
      /\ ~UNCHANGED vars
  BY DEF IssueMark, IssueCommit, Consume, CheckState, IssueSession, ConnectFails, ActivateLoad,
     StatusLoad, RevokeAll, Crash, Authenticate, Submit, Logout, CacheExpires, Create, Signup,
     Request, Redeem, Command, TokenExpires, SessionExpires, vars
<1>2. \/ Upgrade
      \/ \E w \in Workers : Create(w) \/ SetVerified(w) \/ Transition(w) \/ Connect(w)
                            \/ ActivateWrite(w) \/ StatusWrite(w)
  BY <1>1 DEF Next, Issue, VerifyEmail, ExchangeLoginLink, Register, Administer
<1>3. overlap' = overlap
  BY <1>2 DEF Upgrade, Create, SetVerified, Transition, Connect, ActivateWrite, StatusWrite
<1> QED BY <1>1, <1>2, <1>3

(* The order of the onboarding states.                                     *)
LEMMA Ranks ==
  /\ Rank("none") = 0 /\ Rank("pending_email_verification") = 1
  /\ Rank("pending_db_connection") = 2 /\ Rank("setup_complete") = 3
BY DEF Rank

(* What each of them does to the onboarding status and to the plan.        *)
LEMMA RowSteps ==
  ASSUME Inv, [Next]_vars, row' # row
  PROVE  /\ "redeem" \notin overlap => Rank(row'.onb) >= Rank(row.onb)
         /\ overlap \intersect {"redeem", "submit"} = {} /\ Exists /\ row.plan = "pro"
              => row'.plan = "pro"
<1> DEFINE Goal == /\ "redeem" \notin overlap => Rank(row'.onb) >= Rank(row.onb)
                   /\ overlap \intersect {"redeem", "submit"} = {} /\ Exists /\ row.plan = "pro"
                        => row'.plan = "pro"
<1>1. Exists => /\ row \in Row
                /\ row.onb \in {"pending_email_verification", "pending_db_connection",
                                "setup_complete"}
                /\ Rank(row.onb) \in 1 .. 3
  BY Ranks, RowColumns DEF Inv
<1>2. CASE Upgrade
  <2>1. Exists /\ row' = [row EXCEPT !.plan = "pro"]
    BY <1>2 DEF Upgrade
  <2>2. row'.onb = row.onb /\ row'.plan = "pro"
    BY <1>1, <2>1 DEF Row
  <2> QED BY <1>1, <2>1, <2>2
<1>3. ASSUME NEW w \in Workers, Create(w), ~Exists PROVE Goal
  <2>1. row.onb = "none" /\ row'.onb = "pending_email_verification"
    BY <1>3 DEF Create, Exists, NoRow, NewRow
  <2> QED BY <1>3, <2>1, Ranks
<1>4. ASSUME NEW w \in Workers, SetVerified(w) \/ Connect(w) \/ StatusWrite(w) PROVE Goal
  <2>1. Exists
    BY <1>4 DEF SetVerified, Connect, StatusWrite, At, Inv, RequestsBacked
  <2>2. CASE SetVerified(w)
    <3>1. row' = [row EXCEPT !.verified = TRUE]
      BY <2>2 DEF SetVerified
    <3>2. row'.onb = row.onb /\ row'.plan = row.plan
      BY <1>1, <2>1, <3>1 DEF Row
    <3> QED BY <1>1, <2>1, <3>2
  <2>3. CASE Connect(w)
    <3>1. row' = [row EXCEPT !.db = TRUE]
      BY <2>3 DEF Connect
    <3>2. row'.onb = row.onb /\ row'.plan = row.plan
      BY <1>1, <2>1, <3>1 DEF Row
    <3> QED BY <1>1, <2>1, <3>2
  <2>4. CASE StatusWrite(w)
    <3> DEFINE to == IF job[w].loaded = job[w].to THEN row.account ELSE job[w].to
    <3>1. row' = [row EXCEPT !.account = to]
      BY <2>4 DEF StatusWrite
    <3> HIDE DEF to
    <3>2. row'.onb = row.onb /\ row'.plan = row.plan
      BY <1>1, <2>1, <3>1 DEF Row
    <3> QED BY <1>1, <2>1, <3>2
  <2> QED BY <1>4, <2>2, <2>3, <2>4
<1>5. ASSUME NEW w \in Workers, Transition(w) PROVE Goal
  <2>1. job[w].pc = "transition" /\ Exists
    BY <1>5 DEF Transition, At, Inv, RequestsBacked
  <2>2. row' = [row EXCEPT !.onb = "pending_db_connection"]
    BY <1>5 DEF Transition, NextState
  <2>3. row'.onb = "pending_db_connection" /\ row'.plan = row.plan
    BY <1>1, <2>1, <2>2 DEF Row
  <2>4. "redeem" \notin overlap => row.onb = "pending_email_verification"
    BY <2>1 DEF Inv, RedeemsInOrder
  <2> QED BY <2>3, <2>4, Ranks
<1>6. ASSUME NEW w \in Workers, ActivateWrite(w) PROVE Goal
  <2>1. /\ job[w].pc = "activating" /\ Exists
        /\ row'.onb \in {row.onb, "setup_complete"}
        /\ row'.plan = IF job[w].loaded.plan = "free" THEN row.plan ELSE "free"
    BY <1>6, ActivatedRow
  <2>2. overlap \intersect {"redeem", "submit"} = {} => job[w].loaded.plan = "free"
    BY <2>1 DEF Inv, ActivatesOnce
  <2> QED BY <1>1, <2>1, <2>2, Ranks
<1> QED BY <1>2, <1>3, <1>4, <1>5, <1>6, RowWriters

(* Without two redemptions at a time, onboarding only moves forward: an    *)
(* old verification link cannot undo a completed set-up.                   *)
THEOREM NoStepBack == Spec => OnboardingMovesForward
<1>1. Inv /\ [Next]_vars => ["redeem" \notin overlap' => Rank(row'.onb) >= Rank(row.onb)]_vars
  <2> SUFFICES ASSUME Inv, [Next]_vars, ~UNCHANGED vars, "redeem" \notin overlap'
               PROVE  Rank(row'.onb) >= Rank(row.onb)
    OBVIOUS
  <2>1. CASE row' # row
    BY <2>1, RowSteps, RowWriters
  <2>2. CASE row' = row
    <3>1. Rank(row.onb) \in 0 .. 3
      <4>1. CASE Exists
        BY <4>1, RowColumns, Ranks DEF Inv
      <4>2. CASE ~Exists
        BY <4>2, Ranks DEF Exists, NoRow
      <4> QED BY <4>1, <4>2
    <3> QED BY <2>2, <3>1
  <2> QED BY <2>1, <2>2
<1> QED BY <1>1, Invariance, PTL DEF Spec, OnboardingMovesForward

(* Without two submissions or redemptions at a time, no request of the     *)
(* account takes a paid plan away: an activation, which writes the free    *)
(* plan over any other that it loaded, has loaded a free one.              *)
THEOREM NoRequestTakesThePlan == Spec => PaidPlanIsKept
<1>1. Inv /\ [Next]_vars =>
        [overlap' \intersect {"redeem", "submit"} = {} /\ Exists /\ row.plan = "pro"
           => row'.plan = "pro"]_vars
  <2> SUFFICES ASSUME Inv, [Next]_vars, overlap' \intersect {"redeem", "submit"} = {}, Exists,
                      row.plan = "pro"
               PROVE  row'.plan = "pro"
    OBVIOUS
  <2>1. CASE row' # row
    BY <2>1, RowSteps, RowWriters
  <2> QED BY <2>1
<1> QED BY <1>1, Invariance, PTL DEF Spec, PaidPlanIsKept
=============================================================================
