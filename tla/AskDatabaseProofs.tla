------------------------- MODULE AskDatabaseProofs -------------------------
(***************************************************************************)
(* Proofs about AskDatabase, for any number of requests, questions, limits *)
(* and lifetimes: every invariant of its passing run.                      *)
(***************************************************************************)
EXTENDS AskDatabase, FunctionTheorems, FiniteSetTheorems, TLAPS

\* Where a request is between its registration and its end.
Present == {"handed", "resolving", "running", "replying"}

\* What a cached reply was taken from, and when.
Served == [ans : Asks, stored : Nat, time : Nat]

(* The place of a request tells whether it is registered, and that nothing *)
(* has been decided before the reply; past the quota gate it is charged.   *)
PlacesTell ==
  \A r \in Requests :
    /\ r \in inFlight <=> at[r] \in Present
    /\ at[r] \in {"new", "handed", "resolving", "running"} => outcome[r] = "none"
    /\ at[r] \in {"resolving", "running"} => charge[r] # 0

(* A charge is the count as it was then; no two are equal, and one that    *)
(* was not refused is within the limit.                                    *)
ChargesCount ==
  \A r \in Asks : charge[r] # 0 =>
    /\ charge[r] <= used
    /\ outcome[r] # "denied" => charge[r] <= Limit
    /\ \A s \in Asks : charge[s] = charge[r] => s = r

(* The lifespan waits for every call that is still there.                  *)
CallsAwaited ==
  phase \in {"draining", "settling"} => inFlight \intersect Asks \subseteq waiting

(* An entry of the result cache is the answer of a charged call to that    *)
(* question, logged as a success.                                          *)
CacheIsLogged ==
  \A q \in Questions : cache[q] # NoEntry =>
    /\ rows[cache[q].ans] = <<"success">> /\ charge[cache[q].ans] # 0
    /\ Question[cache[q].ans] = q
    /\ cache[q].time <= now

(* A cached reply has been taken from an entry.                            *)
ServedFromEntry ==
  /\ served \in [Requests -> Served \union {NoEntry}]
  /\ \A r \in Requests : outcome[r] = "cached" => served[r] \in Served

Inv ==
  /\ TypeOK /\ ServedFromEntry
  /\ PlacesTell /\ HistoryMatchesOutcome
  /\ ChargesCount
  /\ CallsAwaited /\ TeardownAfterWork
  /\ CacheIsLogged /\ CacheServesLoggedAnswer

----------------------------------------------------------------------------
(* Facts about the operators.                                              *)

(* The row that each outcome calls for.                                    *)
LEMMA Rows ==
  ASSUME NEW o \in Outcomes
  PROVE  /\ RowOf("answered") = <<"success">> /\ RowOf("failed") = <<"error">>
         /\ RowOf("interrupted") = <<"interrupted">>
         /\ o \notin {"answered", "failed", "interrupted"} => RowOf(o) = <<>>
         /\ RowOf(o) = <<"success">> <=> o = "answered"
         /\ RowOf(o) \in Seq({"success", "error", "interrupted"})
<1>1. <<"success">> # <<"error">> /\ <<"success">> # <<"interrupted">> /\ <<"success">> # <<>>
  OBVIOUS
<1>2. CASE o = "answered"
  BY <1>2 DEF RowOf
<1>3. CASE o = "failed"
  BY <1>1, <1>3 DEF RowOf
<1>4. CASE o = "interrupted"
  BY <1>1, <1>4 DEF RowOf
<1>5. CASE o \notin {"answered", "failed", "interrupted"}
  BY <1>1, <1>5 DEF RowOf
<1> QED BY <1>2, <1>3, <1>4, <1>5

(* check_query_quota lets a count through as long as it is within the plan.*)
LEMMA AllowedWithinLimit ==
  ASSUME NEW count \in Nat \ {0}
  PROVE  Allowed(count) <=> count <= Limit
BY NumbersAssumption DEF Allowed

(* An entry of the cache is not NoEntry.                                   *)
LEMMA EntryExists ==
  ASSUME NEW e \in Entry
  PROVE  e # NoEntry /\ e.ans \in Asks /\ e.time \in Nat
<1>1. DOMAIN e = {"ans", "time"} /\ DOMAIN NoEntry = {"time"}
  BY DEF Entry, NoEntry
<1>2. e # NoEntry
  BY <1>1
<1> QED BY <1>2 DEF Entry

----------------------------------------------------------------------------
(* Steps of a request.                                                     *)

\* Request r goes to p with the outcome o, and has the row it calls for.
Moves(r, p, o) ==
  /\ at' = [at EXCEPT ![r] = p]
  /\ outcome' = [outcome EXCEPT ![r] = o]
  /\ rows' = [rows EXCEPT ![r] = RowOf(o)]
  /\ inFlight' = IF p \in Present THEN inFlight \union {r} ELSE inFlight \ {r}

\* A decision is not made twice, and not before the reply.
InOrder(r, p, o) ==
  /\ at[r] # "done" /\ p # "new"
  /\ at[r] = "replying" => o = outcome[r]
  /\ p \in {"handed", "resolving", "running"} => o = "none"
  /\ at[r] = "new" => p \in {"handed", "done"}

(* What every step of a request keeps, whatever it does to the quota and   *)
(* the cache.                                                              *)
LEMMA MovesWork ==
  ASSUME Inv, NEW r \in Requests, NEW p \in Places, NEW o \in Outcomes,
         Moves(r, p, o), InOrder(r, p, o),
         p = "handed" => at[r] = "new" /\ (r \in Asks => phase = "serving"),
         p \in {"resolving", "running"} \/ o \in {"answered", "failed", "interrupted"}
           => charge'[r] # 0,
         cancelled' \in SUBSET cancelled, p = "done" => r \notin cancelled',
         charge' \in [Requests -> Nat], \A s \in Requests : charge[s] # 0 => charge'[s] # 0,
         cache' \in [Questions -> Entry \union {NoEntry}], used' \in Nat,
         UNCHANGED <<now, phase, waiting, expired>>
  PROVE  /\ \A s \in Requests : /\ outcome'[s] = IF s = r THEN o ELSE outcome[s]
                                /\ rows'[s] = IF s = r THEN RowOf(o) ELSE rows[s]
                                /\ rows[s] = <<"success">> => rows'[s] = <<"success">>
         /\ outcome[r] \in {"none", o}
         /\ TypeOK' /\ PlacesTell' /\ HistoryMatchesOutcome' /\ CallsAwaited' /\ TeardownAfterWork'
<1>1. /\ TypeOK
      /\ \A s \in Requests : /\ at'[s] = IF s = r THEN p ELSE at[s]
                             /\ outcome'[s] = IF s = r THEN o ELSE outcome[s]
                             /\ rows'[s] = IF s = r THEN RowOf(o) ELSE rows[s]
                             /\ s \in inFlight' <=> IF s = r THEN p \in Present ELSE s \in inFlight
      /\ inFlight' \in SUBSET Requests
  BY DEF Inv, TypeOK, Moves
<1>2. TypeOK'
  <2>1. rows' \in [Requests -> Seq({"success", "error", "interrupted"})]
    BY <1>1, Rows DEF TypeOK, Moves
  <2>2. cancelled' \in SUBSET inFlight'
    BY <1>1 DEF TypeOK, Moves, InOrder, Present, Places
  <2> QED BY <1>1, <2>1, <2>2 DEF TypeOK, Moves
<1>3. outcome[r] \in {"none", o}
  BY <1>1 DEF Inv, PlacesTell, InOrder, Places, TypeOK
<1>4. PlacesTell'
  BY <1>1 DEF Inv, PlacesTell, InOrder
<1>5. HistoryMatchesOutcome'
  BY <1>1, Rows DEF Inv, HistoryMatchesOutcome
<1>6. inFlight' \intersect Asks \subseteq inFlight \/ phase = "serving"
  BY <1>1 DEF Inv, PlacesTell, InOrder, Places, Present, TypeOK
<1>7. CallsAwaited' /\ TeardownAfterWork'
  BY <1>6 DEF Inv, CallsAwaited, TeardownAfterWork
<1>8. \A s \in Requests : rows[s] = <<"success">> => rows'[s] = <<"success">>
  <2>1. "none" \in Outcomes
    BY DEF Outcomes
  <2>2. RowOf("none") # <<"success">>
    BY <2>1, Rows
  <2> QED BY <1>1, <1>3, <2>2 DEF Inv, HistoryMatchesOutcome
<1> QED BY <1>1, <1>2, <1>3, <1>4, <1>5, <1>7, <1>8

(* The cache and what was served from it, while answers stay logged.       *)
LEMMA CacheKeeps ==
  ASSUME Inv, \A s \in Requests : rows[s] = <<"success">> => rows'[s] = <<"success">>,
         \A s \in Requests : charge[s] # 0 => charge'[s] # 0,
         \A q \in Questions :
           \/ cache'[q] = cache[q] \/ cache'[q] = NoEntry
           \/ /\ cache'[q].ans \in Requests /\ cache'[q].time = now /\ Question[cache'[q].ans] = q
              /\ rows'[cache'[q].ans] = <<"success">> /\ charge'[cache'[q].ans] # 0,
         now' >= now, now' \in Nat,
         NEW R \in SUBSET Requests,
         \A s \in Requests \ R : /\ served'[s] = served[s]
                                 /\ outcome'[s] = "cached" => outcome[s] = "cached",
         \A s \in R : served'[s] \in Served,
         \A s \in R \intersect Asks :
           LET e == served'[s] IN
             /\ rows[e.ans] = <<"success">> /\ charge[e.ans] # 0
             /\ Question[e.ans] = Question[s]
             /\ e.stored <= e.time /\ e.time < e.stored + CacheTTL,
         served' \in [Requests -> Served \union {NoEntry}]
  PROVE  CacheIsLogged' /\ ServedFromEntry' /\ CacheServesLoggedAnswer'
<1>1. CacheIsLogged'
  <2> SUFFICES ASSUME NEW q \in Questions, cache'[q] # NoEntry
               PROVE  /\ rows'[cache'[q].ans] = <<"success">> /\ charge'[cache'[q].ans] # 0
                      /\ Question[cache'[q].ans] = q /\ cache'[q].time <= now'
    BY DEF CacheIsLogged
  <2>1. CASE cache'[q] = cache[q]
    <3>1. cache[q].ans \in Requests /\ cache[q].time \in Nat /\ now \in Nat
      BY <2>1, NumbersAssumption DEF Inv, TypeOK, Entry, Requests
    <3>2. /\ rows[cache[q].ans] = <<"success">> /\ charge[cache[q].ans] # 0
          /\ Question[cache[q].ans] = q /\ cache[q].time <= now
      BY <2>1 DEF Inv, CacheIsLogged
    <3> QED BY <2>1, <3>1, <3>2
  <2>2. CASE cache'[q] # cache[q]
    <3>1. now \in Nat
      BY NumbersAssumption DEF Inv, TypeOK
    <3> QED BY <2>2, <3>1
  <2> QED BY <2>1, <2>2
<1>2. ServedFromEntry'
  BY DEF Inv, ServedFromEntry
<1>3. CacheServesLoggedAnswer'
  <2>1. \A e \in Served : e.ans \in Requests
    BY DEF Served, Requests
  <2> QED BY <2>1 DEF Inv, ServedFromEntry, CacheServesLoggedAnswer, Requests
<1> QED BY <1>1, <1>2, <1>3

(* A step that neither charges nor touches the cache.                      *)
LEMMA MovesKeep ==
  ASSUME Inv, NEW r \in Requests, NEW p \in Places, NEW o \in Outcomes,
         Moves(r, p, o), InOrder(r, p, o),
         p = "handed" => at[r] = "new" /\ (r \in Asks => phase = "serving"),
         p \in {"resolving", "running"} \/ o \in {"answered", "failed", "interrupted"}
           => charge[r] # 0,
         o = "cached" => outcome[r] = o,
         cancelled' \in SUBSET cancelled, p = "done" => r \notin cancelled',
         UNCHANGED <<now, used, phase, waiting, expired, charge, cache, served>>
  PROVE  Inv'
<1>1. /\ \A s \in Requests : /\ outcome'[s] = IF s = r THEN o ELSE outcome[s]
                             /\ rows[s] = <<"success">> => rows'[s] = <<"success">>
      /\ outcome[r] \in {"none", o}
      /\ TypeOK' /\ PlacesTell' /\ HistoryMatchesOutcome' /\ CallsAwaited' /\ TeardownAfterWork'
  BY MovesWork DEF Inv, TypeOK
<1>2. ChargesCount'
  BY <1>1 DEF Inv, ChargesCount, Requests
<1>3. /\ \A s \in Requests \ {} : /\ served'[s] = served[s]
                                   /\ outcome'[s] = "cached" => outcome[s] = "cached"
      /\ now' >= now /\ now' \in Nat
  BY <1>1, NumbersAssumption DEF Inv, TypeOK
<1>4. CacheIsLogged' /\ ServedFromEntry' /\ CacheServesLoggedAnswer'
  <2>1. {} \in SUBSET Requests /\ served' \in [Requests -> Served \union {NoEntry}]
    BY DEF Inv, ServedFromEntry
  <2>2. \A s \in {} \intersect Asks :
          LET e == served'[s] IN
            /\ rows[e.ans] = <<"success">> /\ charge[e.ans] # 0
            /\ Question[e.ans] = Question[s]
            /\ e.stored <= e.time /\ e.time < e.stored + CacheTTL
    OBVIOUS
  <2> QED BY <1>1, <1>3, <2>1, <2>2, CacheKeeps
<1> QED BY <1>1, <1>2, <1>4 DEF Inv

(* Steps that only move a request on or end it.                            *)
LEMMA RequestsKeep ==
  ASSUME Inv, NEW r \in Requests,
         \/ Arrive(r) \/ Reply(r) \/ DeliverCancel(r)
         \/ r \in Probes /\ (HealthLive(r) \/ HealthReady(r))
         \/ r \in Asks /\ (Refuse(r) \/ BurstLimited(r) \/ Resolve(r) \/ Raise(r) \/ Fail(r))
  PROVE  Inv'
<1>1. /\ TypeOK /\ at[r] \in Places /\ outcome[r] \in Outcomes
      /\ rows[r] = RowOf(outcome[r]) /\ rows = [rows EXCEPT ![r] = rows[r]]
      /\ outcome = [outcome EXCEPT ![r] = outcome[r]]
      /\ r \in inFlight <=> at[r] \in Present
      /\ at[r] \in {"new", "handed", "resolving", "running"} => outcome[r] = "none"
      /\ at[r] \in {"resolving", "running"} => charge[r] # 0
      /\ outcome[r] \in {"answered", "failed", "interrupted"} => charge[r] # 0
  BY Rows DEF Inv, TypeOK, PlacesTell, HistoryMatchesOutcome
<1>2. /\ RowOf("none") = <<>> /\ RowOf("unavailable") = <<>> /\ RowOf("healthy") = <<>>
      /\ RowOf("draining") = <<>> /\ RowOf("burst") = <<>> /\ RowOf("raised") = <<>>
      /\ RowOf("dropped") = <<>> /\ RowOf("failed") = Append(<<>>, "error")
      /\ RowOf("interrupted") = Append(<<>>, "interrupted")
  BY DEF RowOf
<1>3. CASE Arrive(r)
  <2>1. CASE Draining /\ r \notin Probes
    <3>1. Moves(r, "done", "unavailable")
      BY <1>1, <1>2, <1>3, <2>1 DEF Arrive, CanStep, Moves, Present
    <3> QED BY <1>1, <1>3, <2>1, <3>1, MovesKeep
            DEF Arrive, CanStep, InOrder, Places, Outcomes, loopVars
  <2>2. CASE ~(Draining /\ r \notin Probes)
    <3>1. Moves(r, "handed", "none")
      BY <1>1, <1>2, <1>3, <2>2 DEF Arrive, CanStep, Moves, Present
    <3>2. r \in Asks => phase = "serving"
      BY <2>2, RequestsAssumption DEF Draining
    <3> QED BY <1>1, <1>3, <2>2, <3>1, <3>2, MovesKeep
            DEF Arrive, CanStep, InOrder, Places, Outcomes, loopVars
  <2> QED BY <2>1, <2>2
<1>4. CASE Reply(r)
  <2>1. Moves(r, "done", outcome[r])
    BY <1>1, <1>4 DEF Reply, CanStep, Moves, Present
  <2> QED BY <1>1, <1>4, <2>1, MovesKeep DEF Reply, CanStep, InOrder, Places, loopVars
<1>5. CASE r \in Probes /\ (HealthLive(r) \/ HealthReady(r))
  <2>1. PICK o \in {"healthy", "unavailable"} : Answer(r, o)
    BY <1>5 DEF HealthLive, HealthReady
  <2>2. Moves(r, "done", o)
    BY <1>1, <1>2, <2>1 DEF Answer, CanStep, Moves, Present
  <2> QED BY <1>1, <2>1, <2>2, MovesKeep DEF Answer, CanStep, InOrder, Places, Outcomes, loopVars
<1>6. CASE Refuse(r) \/ BurstLimited(r) \/ Raise(r)
  <2>1. PICK o \in {"draining", "burst", "raised"} :
          at[r] \in {"handed", "resolving", "running"} /\ Finish(r, o) /\ UNCHANGED rows
    BY <1>6 DEF Refuse, BurstLimited, Raise, CanStep
  <2>2. Moves(r, "replying", o)
    BY <1>1, <1>2, <1>6, <2>1 DEF Refuse, BurstLimited, Raise, Finish, Moves, Present
  <2> QED BY <1>1, <1>6, <2>1, <2>2, MovesKeep
          DEF Refuse, BurstLimited, Raise, InOrder, Places, Outcomes, loopVars
<1>7. CASE Resolve(r)
  <2>1. Moves(r, "running", "none")
    BY <1>1, <1>2, <1>7 DEF Resolve, CanStep, Moves, Present
  <2> QED BY <1>1, <1>7, <2>1, MovesKeep DEF Resolve, CanStep, InOrder, Places, Outcomes, loopVars
<1>8. CASE Fail(r)
  <2>1. Moves(r, "replying", "failed")
    BY <1>1, <1>2, <1>8 DEF Fail, CanStep, Log, Finish, Moves, Present
  <2> QED BY <1>1, <1>8, <2>1, MovesKeep DEF Fail, CanStep, InOrder, Places, Outcomes, loopVars
<1>9. CASE DeliverCancel(r)
  <2> DEFINE o == CASE at[r] = "running" -> "interrupted"
                    [] at[r] \in {"handed", "resolving"} -> "dropped"
                    [] OTHER -> outcome[r]
  <2>1. /\ at[r] # "done" /\ cancelled' = cancelled \ {r} /\ o \in Outcomes
        /\ at[r] = "running" => o = "interrupted"
        /\ at[r] \in {"handed", "resolving"} => o = "dropped"
        /\ at[r] \notin {"running", "handed", "resolving"} => o = outcome[r]
    BY <1>1, <1>9 DEF DeliverCancel, Outcomes
  <2>2. at[r] \in Present
    BY <1>1, <1>9 DEF DeliverCancel, TypeOK
  <2>3. outcome' = [outcome EXCEPT ![r] = o]
    BY <1>9 DEF DeliverCancel
  <2> HIDE DEF o
  <2>4. rows' = [rows EXCEPT ![r] = RowOf(o)]
    <3>1. CASE at[r] = "running"
      BY <1>1, <1>2, <1>9, <2>1, <3>1 DEF DeliverCancel, Log
    <3>2. CASE at[r] # "running"
      BY <1>1, <1>2, <1>9, <2>1, <3>2 DEF DeliverCancel, Places
    <3> QED BY <3>1, <3>2
  <2>5. Moves(r, "done", o)
    BY <1>9, <2>3, <2>4 DEF DeliverCancel, Moves, Present
  <2> QED BY <1>1, <1>9, <2>1, <2>2, <2>5, MovesKeep DEF DeliverCancel, InOrder, Places, Present
<1> QED BY <1>3, <1>4, <1>5, <1>6, <1>7, <1>8, <1>9

(* A reply from the cache: the entry was stored less than CACHE_TTL ago.   *)
LEMMA CacheHitKeeps ==
  ASSUME Inv, NEW r \in Asks, CacheHit(r)
  PROVE  Inv'
<1> DEFINE c == cache[Question[r]]
           e == [ans |-> c.ans, stored |-> c.time, time |-> now]
<1>1. /\ at[r] = "handed" /\ r \in Requests /\ r \notin cancelled
      /\ c # NoEntry /\ now - c.time < CacheTTL
      /\ at' = [at EXCEPT ![r] = "replying"] /\ outcome' = [outcome EXCEPT ![r] = "cached"]
      /\ served' = [served EXCEPT ![r] = e]
      /\ UNCHANGED <<loopVars, inFlight, charge, cache, rows>>
  BY DEF CacheHit, CanStep, Fresh, Finish, Requests
<1>2. /\ c \in Entry /\ c.ans \in Asks /\ c.time \in Nat /\ now \in Nat /\ c.time <= now
      /\ rows[c.ans] = <<"success">> /\ charge[c.ans] # 0 /\ Question[c.ans] = Question[r]
  <2>1. Question[r] \in Questions /\ now \in Nat
    BY RequestsAssumption, NumbersAssumption DEF Inv, TypeOK
  <2>2. c \in Entry
    BY <1>1, <2>1 DEF Inv, TypeOK
  <2>3. /\ rows[c.ans] = <<"success">> /\ charge[c.ans] # 0
        /\ Question[c.ans] = Question[r] /\ c.time <= now
    BY <1>1, <2>1 DEF Inv, CacheIsLogged
  <2> QED BY <2>1, <2>2, <2>3, EntryExists
<1>3. Moves(r, "replying", "cached") /\ InOrder(r, "replying", "cached")
  <2>1. rows[r] = RowOf("none") /\ RowOf("none") = RowOf("cached") /\ r \in inFlight
    BY <1>1 DEF Inv, PlacesTell, HistoryMatchesOutcome, RowOf, Present
  <2> QED BY <1>1, <2>1 DEF Moves, InOrder, Present, Inv, TypeOK
<1>4. /\ \A s \in Requests : /\ outcome'[s] = IF s = r THEN "cached" ELSE outcome[s]
                             /\ rows[s] = <<"success">> => rows'[s] = <<"success">>
      /\ outcome[r] \in {"none", "cached"}
      /\ TypeOK' /\ PlacesTell' /\ HistoryMatchesOutcome' /\ CallsAwaited' /\ TeardownAfterWork'
  BY <1>1, <1>3, MovesWork DEF Inv, TypeOK, Places, Outcomes, loopVars
<1>5. ChargesCount'
  BY <1>1, <1>4 DEF Inv, ChargesCount, Requests, loopVars
<1>6. /\ e \in Served /\ e.ans = c.ans /\ e.stored = c.time /\ e.time = now
      /\ e.time < e.stored + CacheTTL
  BY <1>1, <1>2, NumbersAssumption DEF Served
<1> HIDE DEF c, e
<1>7. /\ served' \in [Requests -> Served \union {NoEntry}] /\ served'[r] = e
      /\ \A s \in Requests \ {r} :
           served'[s] = served[s] /\ (outcome'[s] = "cached" => outcome[s] = "cached")
  BY <1>1, <1>4, <1>6 DEF Inv, ServedFromEntry
<1>8. CacheIsLogged' /\ ServedFromEntry' /\ CacheServesLoggedAnswer'
  <2>1. {r} \in SUBSET Requests /\ now' >= now /\ now' \in Nat /\ charge' = charge /\ cache' = cache
    BY <1>1, <1>2 DEF loopVars
  <2>2. \A s \in {r} \intersect Asks :
          LET f == served'[s] IN
            /\ rows[f.ans] = <<"success">> /\ charge[f.ans] # 0
            /\ Question[f.ans] = Question[s]
            /\ f.stored <= f.time /\ f.time < f.stored + CacheTTL
    BY <1>2, <1>6, <1>7
  <2>3. \A s \in {r} : served'[s] \in Served
    BY <1>6, <1>7
  <2> QED BY <1>4, <1>7, <2>1, <2>2, <2>3, CacheKeeps
<1> QED BY <1>4, <1>5, <1>8 DEF Inv

(* The answer is logged and cached in one step.                            *)
LEMMA SucceedKeeps ==
  ASSUME Inv, NEW r \in Asks, Succeed(r)
  PROVE  Inv'
<1> DEFINE e == [ans |-> r, time |-> now]
           q == Question[r]
<1>1. /\ at[r] = "running" /\ r \in Requests /\ r \notin cancelled /\ q \in Questions
      /\ rows' = [rows EXCEPT ![r] = Append(@, "success")] /\ cache' = [cache EXCEPT ![q] = e]
      /\ at' = [at EXCEPT ![r] = "replying"] /\ outcome' = [outcome EXCEPT ![r] = "answered"]
      /\ UNCHANGED <<loopVars, inFlight, charge, served>>
  BY RequestsAssumption DEF Succeed, CanStep, Log, Store, Finish, Requests
<1>2. /\ charge[r] # 0 /\ r \in inFlight /\ now \in Nat
      /\ outcome[r] = "none" /\ rows[r] = <<>>
  <2>1. charge[r] # 0 /\ r \in inFlight /\ outcome[r] = "none"
    BY <1>1 DEF Inv, PlacesTell, Present
  <2>2. RowOf("none") = <<>>
    BY DEF RowOf
  <2>3. rows[r] = <<>>
    BY <1>1, <2>1, <2>2 DEF Inv, HistoryMatchesOutcome
  <2>4. now \in Nat
    BY NumbersAssumption DEF Inv, TypeOK
  <2> QED BY <2>1, <2>3, <2>4
<1>3. Moves(r, "replying", "answered") /\ InOrder(r, "replying", "answered")
  <2>1. Append(rows[r], "success") = RowOf("answered")
    BY <1>2 DEF RowOf
  <2> QED BY <1>1, <1>2, <2>1 DEF Moves, InOrder, Present
<1>4. /\ e \in Entry /\ e.ans = r /\ e.time = now
  BY <1>2 DEF Entry
<1> HIDE DEF e, q
<1>5. /\ cache' \in [Questions -> Entry \union {NoEntry}]
      /\ \A k \in Questions : cache'[k] = IF k = q THEN e ELSE cache[k]
  BY <1>1, <1>4 DEF Inv, TypeOK
<1>6. /\ \A s \in Requests : /\ outcome'[s] = IF s = r THEN "answered" ELSE outcome[s]
                             /\ rows'[s] = IF s = r THEN RowOf("answered") ELSE rows[s]
                             /\ rows[s] = <<"success">> => rows'[s] = <<"success">>
      /\ TypeOK' /\ PlacesTell' /\ HistoryMatchesOutcome' /\ CallsAwaited' /\ TeardownAfterWork'
  BY <1>1, <1>2, <1>3, <1>5, MovesWork DEF Inv, TypeOK, Places, Outcomes, loopVars
<1>7. ChargesCount'
  BY <1>1, <1>2, <1>6 DEF Inv, ChargesCount, Requests, loopVars
<1>8. CacheIsLogged' /\ ServedFromEntry' /\ CacheServesLoggedAnswer'
  <2>1. /\ {} \in SUBSET Requests /\ served' \in [Requests -> Served \union {NoEntry}]
        /\ now' >= now /\ now' \in Nat /\ charge' = charge /\ served' = served
    BY <1>1, <1>2 DEF Inv, ServedFromEntry, loopVars
  <2>2. \A s \in {} \intersect Asks :
          LET f == served'[s] IN
            /\ rows[f.ans] = <<"success">> /\ charge[f.ans] # 0
            /\ Question[f.ans] = Question[s]
            /\ f.stored <= f.time /\ f.time < f.stored + CacheTTL
    OBVIOUS
  <2>3. \A k \in Questions :
          \/ cache'[k] = cache[k]
          \/ /\ cache'[k].ans \in Requests /\ cache'[k].time = now /\ Question[cache'[k].ans] = k
             /\ rows'[cache'[k].ans] = <<"success">> /\ charge'[cache'[k].ans] # 0
    BY <1>1, <1>2, <1>4, <1>5, <1>6, <2>1 DEF RowOf, q
  <2>4. \A s \in Requests \ {} : /\ served'[s] = served[s]
                                  /\ outcome'[s] = "cached" => outcome[s] = "cached"
    BY <1>6, <2>1
  <2> QED BY <1>6, <2>1, <2>2, <2>3, <2>4, CacheKeeps
<1> QED BY <1>6, <1>7, <1>8 DEF Inv

(* The quota charge: it is larger than all before, and whoever goes on is  *)
(* within the limit.                                                       *)
LEMMA AdmitKeeps ==
  ASSUME Inv, NEW r \in Asks, Admit(r)
  PROVE  Inv'
<1> DEFINE p == IF Allowed(used + 1) THEN "resolving" ELSE "replying"
           o == IF Allowed(used + 1) THEN "none" ELSE "denied"
<1>1. /\ at[r] = "handed" /\ r \in Requests /\ r \notin cancelled
      /\ outcome[r] = "none" /\ rows[r] = RowOf("none") /\ r \in inFlight
  BY DEF Admit, CanStep, Requests, Inv, PlacesTell, HistoryMatchesOutcome, Present
<1>2. /\ used' = used + 1 /\ charge' = [charge EXCEPT ![r] = used + 1]
      /\ UNCHANGED <<now, phase, waiting, cancelled, expired, inFlight, cache, served, rows>>
      /\ used \in Nat /\ charge' \in [Requests -> Nat]
      /\ \A s \in Requests : charge'[s] = IF s = r THEN used + 1 ELSE charge[s]
  BY DEF Admit, Inv, TypeOK, Requests
<1>3. Moves(r, p, o) /\ InOrder(r, p, o) /\ p \in {"resolving", "replying"}
  <2>1. RowOf("none") = RowOf("denied")
    BY DEF RowOf
  <2>2. outcome = [outcome EXCEPT ![r] = "none"] /\ rows = [rows EXCEPT ![r] = rows[r]]
    BY <1>1 DEF Inv, TypeOK
  <2>3. CASE Allowed(used + 1)
    BY <1>1, <1>2, <2>2, <2>3 DEF Admit, Moves, InOrder, Present
  <2>4. CASE ~Allowed(used + 1)
    BY <1>1, <1>2, <2>1, <2>2, <2>4 DEF Admit, Finish, Moves, InOrder, Present
  <2> QED BY <2>3, <2>4
<1>4. o \in {"none", "denied"} /\ (o # "denied" => used + 1 <= Limit)
  BY <1>2, AllowedWithinLimit
<1> HIDE DEF p, o
<1>5. /\ \A s \in Requests : /\ outcome'[s] = IF s = r THEN o ELSE outcome[s]
                             /\ rows[s] = <<"success">> => rows'[s] = <<"success">>
      /\ TypeOK' /\ PlacesTell' /\ HistoryMatchesOutcome' /\ CallsAwaited' /\ TeardownAfterWork'
  <2>1. /\ cache' \in [Questions -> Entry \union {NoEntry}] /\ used' \in Nat
        /\ cancelled' \in SUBSET cancelled /\ charge'[r] # 0
        /\ \A s \in Requests : charge[s] # 0 => charge'[s] # 0
    BY <1>1, <1>2 DEF Inv, TypeOK
  <2> QED BY <1>1, <1>2, <1>3, <1>4, <2>1, MovesWork DEF Places, Outcomes
<1>6. ChargesCount'
  <2>1. \A s \in Asks : charge[s] # 0 => charge[s] <= used
    BY DEF Inv, ChargesCount
  <2>2. \A s \in Asks : charge[s] \in Nat /\ s \in Requests
    BY DEF Inv, TypeOK, Requests
  <2> SUFFICES ASSUME NEW s \in Asks, charge'[s] # 0
               PROVE  /\ charge'[s] <= used' /\ (outcome'[s] # "denied" => charge'[s] <= Limit)
                      /\ \A u \in Asks : charge'[u] = charge'[s] => u = s
    BY DEF ChargesCount
  <2>3. CASE s = r
    BY <1>1, <1>2, <1>4, <1>5, <2>1, <2>2, <2>3
  <2>4. CASE s # r
    <3>1. /\ charge'[s] = charge[s] /\ charge[s] <= used
          /\ outcome[s] # "denied" => charge[s] <= Limit
          /\ \A u \in Asks : charge[u] = charge[s] => u = s
      BY <1>2, <2>2, <2>4 DEF Inv, ChargesCount
    <3> QED BY <1>2, <1>5, <2>2, <2>4, <3>1
  <2> QED BY <2>3, <2>4
<1>7. CacheIsLogged' /\ ServedFromEntry' /\ CacheServesLoggedAnswer'
  <2>1. /\ {} \in SUBSET Requests /\ served' \in [Requests -> Served \union {NoEntry}]
        /\ now' >= now /\ now' \in Nat /\ served' = served
        /\ \A s \in Requests : charge[s] # 0 => charge'[s] # 0
        /\ \A q \in Questions : cache'[q] = cache[q]
    BY <1>2, NumbersAssumption DEF Inv, ServedFromEntry, TypeOK
  <2>2. \A s \in {} \intersect Asks :
          LET f == served'[s] IN
            /\ rows[f.ans] = <<"success">> /\ charge[f.ans] # 0
            /\ Question[f.ans] = Question[s]
            /\ f.stored <= f.time /\ f.time < f.stored + CacheTTL
    OBVIOUS
  <2>3. \A s \in Requests \ {} : /\ served'[s] = served[s]
                                  /\ outcome'[s] = "cached" => outcome[s] = "cached"
    BY <1>4, <1>5, <2>1
  <2> QED BY <1>5, <2>1, <2>2, <2>3, CacheKeeps
<1> QED BY <1>5, <1>6, <1>7 DEF Inv

----------------------------------------------------------------------------
(* The lifespan and the surroundings.                                      *)

(* These steps leave every request as it is.                               *)
LEMMA ContextKeeps ==
  ASSUME Inv, BeginDrain \/ Shutdown \/ Tick \/ ChargeElsewhere
  PROVE  Inv'
<1>1. UNCHANGED reqVars
  BY DEF BeginDrain, Shutdown, WaitReturns, GraceExpires, SettleReturns, SettleExpires, Close,
     Tick, ChargeElsewhere
<1>2. Live(inFlight) = inFlight
  BY DEF Live, Inv, PlacesTell, Present, TypeOK
<1>3. now' \in 0 .. MaxTime /\ now' >= now /\ used' \in Nat /\ used' >= used
  BY NumbersAssumption DEF Inv, TypeOK, BeginDrain, Shutdown, WaitReturns, GraceExpires,
     SettleReturns, SettleExpires, Close, Tick, ChargeElsewhere
<1>4. /\ phase' \in Phases /\ waiting' \in SUBSET Requests /\ cancelled' \in SUBSET inFlight
  BY <1>2 DEF Inv, TypeOK, Phases, BeginDrain, Shutdown, WaitReturns, GraceExpires,
     SettleReturns, SettleExpires, Close, Tick, ChargeElsewhere
<1>5. expired' \in BOOLEAN
  BY DEF Inv, TypeOK, BeginDrain, Shutdown, WaitReturns, GraceExpires,
     SettleReturns, SettleExpires, Close, Tick, ChargeElsewhere
<1>6. TypeOK'
  BY <1>1, <1>3, <1>4, <1>5 DEF Inv, TypeOK, reqVars
<1>7. PlacesTell' /\ HistoryMatchesOutcome'
  BY <1>1 DEF Inv, PlacesTell, HistoryMatchesOutcome, reqVars
<1>8. ChargesCount'
  BY <1>1, <1>3 DEF Inv, ChargesCount, reqVars, TypeOK, Requests
<1>9. CallsAwaited' /\ TeardownAfterWork'
  <2>1. CASE BeginDrain \/ GraceExpires
    BY <1>1, <1>2, <2>1 DEF BeginDrain, GraceExpires, CallsAwaited, TeardownAfterWork, reqVars
  <2>2. CASE WaitReturns \/ SettleReturns
    <3>1. inFlight \intersect Asks \subseteq Live(waiting)
      BY <1>2, <2>2 DEF WaitReturns, SettleReturns, Inv, CallsAwaited, Live
    <3> QED BY <1>1, <2>2, <3>1
            DEF WaitReturns, SettleReturns, CallsAwaited, TeardownAfterWork, reqVars
  <2>3. CASE SettleExpires
    BY <1>1, <2>3 DEF SettleExpires, CallsAwaited, TeardownAfterWork
  <2>4. CASE Close \/ Tick \/ ChargeElsewhere
    BY <1>1, <2>4 DEF Close, Tick, ChargeElsewhere, Inv, CallsAwaited, TeardownAfterWork, reqVars
  <2> QED BY <2>1, <2>2, <2>3, <2>4 DEF Shutdown
<1>10. CacheIsLogged' /\ ServedFromEntry' /\ CacheServesLoggedAnswer'
  <2>1. \A q \in Questions : cache[q] # NoEntry => cache[q].time \in Nat /\ now \in Nat
    BY NumbersAssumption DEF Inv, TypeOK, Entry
  <2>2. CacheIsLogged'
    BY <1>1, <1>3, <2>1 DEF Inv, CacheIsLogged, reqVars
  <2>3. ServedFromEntry' /\ CacheServesLoggedAnswer'
    BY <1>1 DEF Inv, ServedFromEntry, CacheServesLoggedAnswer, reqVars
  <2> QED BY <2>2, <2>3
<1> QED BY <1>6, <1>7, <1>8, <1>9, <1>10 DEF Inv

(* An eviction leaves everything but one entry of the cache as it is.       *)
LEMMA EvictKeeps ==
  ASSUME Inv, NEW q \in Questions, Evict(q)
  PROVE  Inv'
<1>1. /\ UNCHANGED <<loopVars, inFlight, at, outcome, charge, served, rows>>
      /\ cache' \in [Questions -> Entry \union {NoEntry}]
      /\ \A k \in Questions : cache'[k] = cache[k] \/ cache'[k] = NoEntry
  BY DEF Evict, Inv, TypeOK
<1>2. TypeOK' /\ PlacesTell' /\ HistoryMatchesOutcome' /\ ChargesCount'
  BY <1>1 DEF Inv, TypeOK, PlacesTell, HistoryMatchesOutcome, ChargesCount, loopVars
<1>3. CallsAwaited' /\ TeardownAfterWork'
  BY <1>1 DEF Inv, CallsAwaited, TeardownAfterWork, loopVars
<1>4. CacheIsLogged'
  <2>1. \A k \in Questions : cache'[k] # NoEntry => cache'[k] = cache[k]
    BY <1>1
  <2> QED BY <1>1, <2>1 DEF Inv, CacheIsLogged, loopVars
<1>5. ServedFromEntry' /\ CacheServesLoggedAnswer'
  BY <1>1 DEF Inv, ServedFromEntry, CacheServesLoggedAnswer, loopVars
<1> QED BY <1>2, <1>3, <1>4, <1>5 DEF Inv

(* Nothing has been asked yet.                                             *)
LEMMA InitInv == Init => Inv
<1> SUFFICES ASSUME Init PROVE Inv
  OBVIOUS
<1>1. /\ \A r \in Requests : /\ at[r] = "new" /\ outcome[r] = "none" /\ charge[r] = 0
                             /\ rows[r] = <<>> /\ served[r] = NoEntry
      /\ \A q \in Questions : cache[q] = NoEntry
      /\ phase = "serving" /\ inFlight = {}
  BY DEF Init
<1>2. RowOf("none") = <<>>
  BY DEF RowOf
<1>3. TypeOK
  <2>1. now \in 0 .. MaxTime /\ used \in Nat /\ phase \in Phases
    BY NumbersAssumption DEF Init, Phases
  <2>2. expired \in BOOLEAN /\ rows \in [Requests -> Seq({"success", "error", "interrupted"})]
    <3> DEFINE Kinds == {"success", "error", "interrupted"}
    <3>1. <<>> \in Seq(Kinds)
      OBVIOUS
    <3> HIDE DEF Kinds
    <3>2. rows \in [Requests -> Seq(Kinds)]
      BY <3>1 DEF Init
    <3> QED BY <3>2 DEF Init, Kinds
  <2>3. inFlight \in SUBSET Requests /\ waiting \in SUBSET Requests /\ cancelled \in SUBSET inFlight
    BY DEF Init
  <2>4. at \in [Requests -> Places] /\ outcome \in [Requests -> Outcomes]
    BY DEF Init, Places, Outcomes
  <2>5. charge \in [Requests -> Nat] /\ cache \in [Questions -> Entry \union {NoEntry}]
    BY DEF Init
  <2> QED BY <2>1, <2>2, <2>3, <2>4, <2>5 DEF TypeOK
<1>4. ServedFromEntry
  BY <1>1 DEF Init, ServedFromEntry
<1>5. PlacesTell /\ HistoryMatchesOutcome /\ ChargesCount
  BY <1>1, <1>2 DEF PlacesTell, HistoryMatchesOutcome, ChargesCount, Present, Requests
<1>6. CallsAwaited /\ TeardownAfterWork /\ CacheIsLogged /\ CacheServesLoggedAnswer
  BY <1>1 DEF CallsAwaited, TeardownAfterWork, CacheIsLogged, CacheServesLoggedAnswer, Requests
<1> QED BY <1>3, <1>4, <1>5, <1>6 DEF Inv

(* Inv is inductive.                                                       *)
LEMMA NextKeepsInv == Inv /\ [Next]_vars => Inv'
<1> SUFFICES ASSUME Inv, [Next]_vars PROVE Inv'
  OBVIOUS
<1>1. CASE UNCHANGED vars
  BY <1>1 DEF vars, Inv, TypeOK, ServedFromEntry, PlacesTell, HistoryMatchesOutcome, ChargesCount,
     CallsAwaited, TeardownAfterWork, CacheIsLogged, CacheServesLoggedAnswer
<1>2. ASSUME NEW r \in Requests, Arrive(r) \/ Reply(r) \/ DeliverCancel(r)
      PROVE  Inv'
  BY <1>2, RequestsKeep
<1>3. ASSUME NEW r \in Probes, HealthLive(r) \/ HealthReady(r)
      PROVE  Inv'
  BY <1>3, RequestsKeep DEF Requests
<1>4. ASSUME NEW r \in Asks, Handle(r) \/ Run(r)
      PROVE  Inv'
  <2>1. r \in Requests
    BY DEF Requests
  <2> QED BY <1>4, <2>1, RequestsKeep, CacheHitKeeps, AdmitKeeps, SucceedKeeps DEF Handle, Run
<1> QED BY <1>1, <1>2, <1>3, <1>4, ContextKeeps, EvictKeeps DEF Next

(* The inductive invariant of the requests, the caches and the shutdown.   *)
THEOREM Invariance == Spec => []Inv
BY InitInv, NextKeepsInv, PTL DEF Spec

----------------------------------------------------------------------------
(* What follows from it.                                                   *)

(* Requests, charges, cache and lifespan stay well formed.                 *)
THEOREM AskTypes == Spec => []TypeOK
<1>1. Inv => TypeOK
  BY DEF Inv
<1> QED BY <1>1, Invariance, PTL

(* Whatever the shutdown does in between, a call has exactly the row in    *)
(* query_history that its outcome calls for.                               *)
THEOREM HistoryIsTrue == Spec => []HistoryMatchesOutcome
<1>1. Inv => HistoryMatchesOutcome
  BY DEF Inv
<1> QED BY <1>1, Invariance, PTL

(* At most Limit calls get past the quota gate, however many are made and  *)
(* whatever the other workers charge: their charges are different numbers  *)
(* from 1 to Limit.                                                        *)
THEOREM QuotaIsKept == Spec => []AdmissionsWithinLimit
<1>1. Inv => AdmissionsWithinLimit
  <2> SUFFICES ASSUME Inv PROVE AdmissionsWithinLimit
    OBVIOUS
  <2> DEFINE charged == {r \in Asks : charge[r] # 0}
             admitted == {r \in charged : outcome[r] # "denied"}
             f == [r \in admitted |-> charge[r]]
  <2>1. \A r \in admitted : charge[r] \in 1 .. Limit
    BY NumbersAssumption DEF Inv, TypeOK, ChargesCount, Requests
  <2>2. f \in Injection(admitted, 1 .. Limit)
    <3>1. f \in [admitted -> 1 .. Limit]
      BY <2>1
    <3>2. \A r, s \in admitted : f[r] = f[s] => r = s
      BY DEF Inv, ChargesCount
    <3> QED
      <4> HIDE DEF admitted, f
      <4> QED BY <3>1, <3>2, Fun_IsInj
  <2>3. IsFiniteSet(1 .. Limit) /\ Cardinality(1 .. Limit) = Limit
    <3>1. Limit \in Int /\ 1 \in Int /\ Limit >= 1
      BY NumbersAssumption
    <3> QED BY <3>1, FS_Interval
  <2>4. Cardinality(admitted) <= Limit
    <3> HIDE DEF admitted, f
    <3>1. Cardinality(admitted) <= Cardinality(1 .. Limit)
      BY <2>2, <2>3, FS_Injection
    <3> QED BY <2>3, <3>1
  <2> QED BY <2>4 DEF Inv, ChargesCount, AdmissionsWithinLimit
<1> QED BY <1>1, Invariance, PTL

(* Unless the settle window was overrun, the engines are closed after the  *)
(* last call has ended.                                                    *)
THEOREM EnginesOutliveCalls == Spec => []TeardownAfterWork
<1>1. Inv => TeardownAfterWork
  BY DEF Inv
<1> QED BY <1>1, Invariance, PTL

(* A cached reply is the recent, logged answer of a charged call with the  *)
(* same question.                                                          *)
THEOREM CacheIsHonest == Spec => []CacheServesLoggedAnswer
<1>1. Inv => CacheServesLoggedAnswer
  BY DEF Inv
<1> QED BY <1>1, Invariance, PTL
=============================================================================
