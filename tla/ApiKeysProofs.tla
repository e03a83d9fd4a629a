--------------------------- MODULE ApiKeysProofs ---------------------------
(***************************************************************************)
(* Proofs about ApiKeys, for every set of users, keys, subjects and        *)
(* workers, every plan, lifetime and length of the clock: the types, that  *)
(* a claim that ended is served no longer than BoundedStaleness says, and  *)
(* that nothing but a plan that went down and rotations of gone keys puts  *)
(* active keys beyond the plan.                                            *)
(***************************************************************************)
EXTENDS ApiKeys, FiniteSetTheorems, TLAPS

(* What is good at present was last good now.                              *)
Remembered ==
  \A c \in Claims : lastValid[c] <= now /\ (Good(c) => lastValid[c] = now)

(* A cached key has a row, its entry has not expired, and it expires at    *)
(* most a lifetime and a lookup after the key was good for its owner.      *)
CacheBacked ==
  \A w \in Workers, k \in Keys : cache[w][k] # 0 =>
    /\ Exists(k)
    /\ now < cache[w][k]
    /\ cache[w][k] <= lastValid[<<k, key[k].owner>>] + TTL + MaxLookup

(* The credential c spoke for u when a lookup read the rows, not longer    *)
(* than MaxLookup ago.                                                     *)
ReadRecently(c, u, since) ==
  /\ since <= lastValid[<<c, u>>]
  /\ since <= now /\ now <= since + MaxLookup

LookupBacked ==
  \A w \in Workers :
    /\ look[w].pc = "found" => ReadRecently(look[w].c, key[look[w].c].owner, look[w].since)
    /\ look[w].pc = "resolved" => ReadRecently(look[w].c, look[w].u, look[w].since)

(* KeysWithinPlan, of finitely many keys.                                  *)
KeysCounted ==
  \A u \in Users :
    /\ IsFiniteSet(LiveKeys(u))
    /\ Cardinality(LiveKeys(u)) <= MaxKeys(plan[u]) + extra[u]

Inv == TypeOK /\ Remembered /\ CacheBacked /\ LookupBacked

----------------------------------------------------------------------------
(* Facts about the rows.                                                   *)

(* A row is not NoKey.                                                     *)
LEMMA RowIsKey ==
  ASSUME NEW r \in KeyRow
  PROVE  r # NoKey
<1>1. DOMAIN r = {"owner", "live", "mcp"}
  BY DEF KeyRow
<1>2. DOMAIN NoKey = {"owner"}
  BY DEF NoKey
<1>3. "live" \notin DOMAIN NoKey /\ "live" \in DOMAIN r
  BY <1>1, <1>2
<1> QED BY <1>3

(* What a key that has a row looks like.                                   *)
LEMMA ExistingKey ==
  ASSUME TypeOK, NEW k \in Keys, Exists(k)
  PROVE  key[k] \in KeyRow /\ key[k].owner \in Users
BY DEF TypeOK, Exists, KeyRow

(* A good claim: of a key, then the key exists and has this owner.         *)
LEMMA GoodKey ==
  ASSUME NEW k \in Keys, NEW u \in Users
  PROVE  /\ <<k, u>> \in Claims
         /\ Good(<<k, u>>) <=> KeyIsGood(k, u)
         /\ Bound[<<k, u>>] = TTL + MaxLookup
BY DEF Claims, Credentials, Good, Bound

(* The same of an OAuth identity and the account it is linked to.          *)
LEMMA GoodSubject ==
  ASSUME NEW s \in Subjects, NEW u \in Users
  PROVE  /\ <<s, u>> \in Claims
         /\ Good(<<s, u>>) <=> SubjectIsGood(s, u)
         /\ Bound[<<s, u>>] = MaxLookup
BY NamesAssumption DEF Claims, Credentials, Good, Bound

(* Remember computes lastValid from now on.                                *)
LEMMA RememberWorks ==
  ASSUME TypeOK, Remembered, Remember, now' \in Nat, now <= now'
  PROVE  /\ lastValid' \in [Claims -> Int]
         /\ Remembered'
         /\ \A c \in Claims : lastValid[c] <= lastValid'[c]
<1>1. \A c \in Claims : lastValid[c] \in Int /\ lastValid[c] <= now
  BY DEF TypeOK, Remembered
<1>2. \A c \in Claims : lastValid'[c] \in Int
  BY <1>1 DEF Remember
<1>3. \A c \in Claims : lastValid[c] <= lastValid'[c]
  BY <1>1 DEF Remember, TypeOK
<1>4. Remembered'
  <2> SUFFICES ASSUME NEW c \in Claims
               PROVE  lastValid'[c] <= now' /\ (Good(c)' => lastValid'[c] = now')
    BY DEF Remembered, Claims, Credentials
  <2>1. lastValid'[c] = IF Good(c) \/ Good(c)' THEN now' ELSE lastValid[c]
    BY DEF Remember
  <2> QED BY <1>1, <2>1 DEF TypeOK
<1>5. lastValid' \in [Claims -> Int]
  BY <1>2 DEF Remember
<1> QED BY <1>3, <1>4, <1>5

----------------------------------------------------------------------------
(* Most steps add nothing to the caches and to the lookups under way.      *)

OwnersKept == \A k \in Keys : Exists(k) => Exists(k)' /\ key'[k].owner = key[k].owner

\* The types of everything but lastValid and what refers to rows.
Typed ==
  /\ mode \in Modes
  /\ now \in Nat
  /\ plan \in [Users -> Plans]
  /\ account \in [Users -> {"active", "suspended", "closed"}]
  /\ key \in [Keys -> {NoKey} \union KeyRow]
  /\ link \in [Users -> {NoSubject} \union Subjects]
  /\ invited \subseteq Users
  /\ cache \in [Workers -> [Keys -> Nat]]
  /\ look \in [Workers -> Looking]
  /\ job \in [Workers -> Jobs]
  /\ ops \in 0 .. MaxOps
  /\ extra \in [Users -> Nat]
  /\ served \subseteq Claims
  /\ \A w \in Workers : At(w, "rotate") => Exists(job[w].k)

Calm ==
  /\ Typed'
  /\ OwnersKept
  /\ now' = now
  /\ \A w \in Workers, k \in Keys : cache'[w][k] \in {0, cache[w][k]}
  /\ \A w \in Workers : look'[w] \in {Idle, look[w]}
  /\ Remember

(* The credentials of lookups are keys with a row, or subjects.            *)
LEMMA LookingFor ==
  ASSUME TypeOK, NEW w \in Workers
  PROVE  /\ look[w].pc = "found" =>
              /\ look[w].c \in Keys /\ look[w].since \in Nat
              /\ Exists(look[w].c)
         /\ look[w].pc = "resolved" =>
              /\ look[w].c \in Subjects /\ look[w].u \in Users /\ look[w].since \in Nat
         /\ look[w].pc = "verifying" => look[w].c \in Subjects
<1>1. look[w] \in Looking
  BY DEF TypeOK
<1>2. Idle.pc = "idle"
  BY DEF Idle
<1> QED BY <1>1, <1>2 DEF TypeOK, Looking

(* Calm steps keep the invariant.                                          *)
LEMMA CalmKeeps ==
  ASSUME Inv, Calm
  PROVE  Inv'
<1>1. TypeOK /\ Remembered /\ CacheBacked /\ LookupBacked
  BY DEF Inv
<1>2. now' = now /\ now \in Nat /\ Remember
  BY <1>1 DEF Calm, TypeOK
<1>3. /\ lastValid' \in [Claims -> Int]
      /\ Remembered'
      /\ \A c \in Claims : lastValid[c] <= lastValid'[c]
  BY <1>1, <1>2, RememberWorks
<1>4. \A w \in Workers, k \in Keys : cache'[w][k] # 0 =>
        /\ Exists(k) /\ Exists(k)'
        /\ cache'[w][k] = cache[w][k]
        /\ key'[k].owner = key[k].owner
  BY <1>1 DEF Calm, CacheBacked, OwnersKept
<1>5. CacheBacked'
  <2> SUFFICES ASSUME NEW w \in Workers, NEW k \in Keys, cache'[w][k] # 0
               PROVE  /\ Exists(k)'
                      /\ now' < cache'[w][k]
                      /\ cache'[w][k] <= lastValid'[<<k, key'[k].owner>>] + TTL + MaxLookup
    BY DEF CacheBacked
  <2>1. /\ Exists(k)
        /\ now < cache[w][k]
        /\ cache[w][k] <= lastValid[<<k, key[k].owner>>] + TTL + MaxLookup
    BY <1>1, <1>4 DEF CacheBacked
  <2>2. <<k, key[k].owner>> \in Claims
    BY <1>1, <2>1, ExistingKey, GoodKey
  <2>3. cache[w][k] \in Nat /\ lastValid[<<k, key[k].owner>>] \in Int
    BY <1>1, <2>2 DEF TypeOK
  <2>4. lastValid[<<k, key[k].owner>>] <= lastValid'[<<k, key[k].owner>>]
    BY <1>3, <2>2
  <2>5. lastValid'[<<k, key[k].owner>>] \in Int
    BY <1>3, <2>2
  <2> QED BY <1>2, <1>4, <2>1, <2>3, <2>4, <2>5, NumbersAssumption
<1>6. ASSUME NEW w \in Workers, look'[w] # Idle
      PROVE  look'[w] = look[w]
  BY <1>6 DEF Calm
<1>7. LookupBacked'
  <2> SUFFICES ASSUME NEW w \in Workers
               PROVE  /\ look'[w].pc = "found" =>
                           ReadRecently(look[w].c, key[look[w].c].owner, look[w].since)'
                      /\ look'[w].pc = "resolved" =>
                           ReadRecently(look[w].c, look[w].u, look[w].since)'
    BY DEF LookupBacked
  <2>1. CASE look'[w].pc = "found"
    <3>1. look'[w] = look[w]
      BY <1>6, <2>1 DEF Idle
    <3>2. /\ look[w].c \in Keys /\ look[w].since \in Nat /\ Exists(look[w].c)
          /\ ReadRecently(look[w].c, key[look[w].c].owner, look[w].since)
      BY <1>1, <2>1, <3>1, LookingFor DEF LookupBacked
    <3>3. key'[look[w].c].owner = key[look[w].c].owner
      BY <3>2 DEF Calm, OwnersKept
    <3>4. <<look[w].c, key[look[w].c].owner>> \in Claims
      BY <1>1, <3>2, ExistingKey, GoodKey
    <3> DEFINE c == <<look[w].c, key[look[w].c].owner>>
    <3>5. lastValid[c] <= lastValid'[c] /\ lastValid[c] \in Int /\ lastValid'[c] \in Int
      BY <1>1, <1>3, <3>4 DEF TypeOK
    <3>6. look[w].since <= lastValid'[c]
      BY <3>2, <3>5 DEF ReadRecently
    <3> QED BY <1>2, <2>1, <3>1, <3>2, <3>3, <3>6 DEF ReadRecently
  <2>2. CASE look'[w].pc = "resolved"
    <3>1. look'[w] = look[w]
      BY <1>6, <2>2 DEF Idle
    <3>2. /\ look[w].c \in Subjects /\ look[w].u \in Users /\ look[w].since \in Nat
          /\ ReadRecently(look[w].c, look[w].u, look[w].since)
      BY <1>1, <2>2, <3>1, LookingFor DEF LookupBacked
    <3>3. <<look[w].c, look[w].u>> \in Claims
      BY <3>2, GoodSubject
    <3> DEFINE c == <<look[w].c, look[w].u>>
    <3>4. lastValid[c] <= lastValid'[c] /\ lastValid[c] \in Int /\ lastValid'[c] \in Int
      BY <1>1, <1>3, <3>3 DEF TypeOK
    <3>5. look[w].since <= lastValid'[c]
      BY <3>2, <3>4 DEF ReadRecently
    <3> QED BY <1>2, <2>2, <3>1, <3>2, <3>5 DEF ReadRecently
  <2> QED BY <2>1, <2>2
<1>8. TypeOK'
  <2>1. \A w \in Workers, k \in Keys :
          cache'[w][k] # 0 => Exists(k)' /\ cache'[w][k] <= now' + TTL
    BY <1>1, <1>2, <1>4 DEF TypeOK
  <2>2. \A w \in Workers : look'[w].pc = "found" => Exists(look[w].c)'
    <3> SUFFICES ASSUME NEW w \in Workers, look'[w].pc = "found"
                 PROVE  Exists(look[w].c)'
      OBVIOUS
    <3>1. look'[w] = look[w]
      BY <1>6 DEF Idle
    <3>2. look[w].c \in Keys /\ Exists(look[w].c)
      BY <1>1, <3>1, LookingFor
    <3> QED BY <3>1, <3>2 DEF Calm, OwnersKept, Exists
  <2> QED BY <1>3, <2>1, <2>2 DEF TypeOK, Typed, Calm
<1> QED BY <1>3, <1>5, <1>7, <1>8 DEF Inv

(* The types of TypeOK include those of Typed.                             *)
LEMMA TypedNow == TypeOK => Typed
BY DEF TypeOK, Typed

(* The purge of the caches of an account.                                  *)
LEMMA BustWorks ==
  ASSUME TypeOK, NEW w \in Workers, NEW u, Bust(w, u)
  PROVE  /\ cache' \in [Workers -> [Keys -> Nat]]
         /\ \A v \in Workers, k \in Keys : cache'[v][k] \in {0, cache[v][k]}
BY DEF TypeOK, Bust

(* Revoked rows stay rows of their owners.                                 *)
LEMMA RevokeWorks ==
  ASSUME TypeOK, NEW K \in SUBSET Keys, \A k \in K : Exists(k), Revoke(K)
  PROVE  /\ key' \in [Keys -> {NoKey} \union KeyRow]
         /\ OwnersKept
<1>1. ASSUME NEW k \in Keys
      PROVE  /\ key'[k] \in {NoKey} \union KeyRow
             /\ Exists(k) => key'[k] \in KeyRow /\ key'[k].owner = key[k].owner
  <2>1. CASE k \in K
    <3>1. key[k] \in KeyRow
      BY <2>1, ExistingKey
    <3>2. key'[k] = [key[k] EXCEPT !.live = FALSE]
      BY <2>1 DEF Revoke
    <3> QED BY <3>1, <3>2 DEF KeyRow
  <2>2. CASE k \notin K
    BY <2>2, ExistingKey DEF Revoke, TypeOK
  <2> QED BY <2>1, <2>2
<1>2. key' \in [Keys -> {NoKey} \union KeyRow]
  BY <1>1 DEF Revoke
<1>3. OwnersKept
  BY <1>1, RowIsKey DEF OwnersKept, Exists
<1> QED BY <1>2, <1>3

(* A new row does not disturb the others.                                  *)
LEMMA InsertWorks ==
  ASSUME TypeOK, NEW k \in Keys, ~Exists(k), NEW r \in KeyRow, key' = [key EXCEPT ![k] = r]
  PROVE  /\ key' \in [Keys -> {NoKey} \union KeyRow]
         /\ OwnersKept
<1>1. key' \in [Keys -> {NoKey} \union KeyRow]
  BY DEF TypeOK
<1>2. OwnersKept
  BY DEF TypeOK, OwnersKept, Exists
<1> QED BY <1>1, <1>2

(* Creating a key is calm.                                                 *)
LEMMA CreateKeyIsCalm ==
  ASSUME TypeOK, NEW w \in Workers, NEW u \in Users, NEW k \in Keys, NEW mcp \in BOOLEAN,
         CreateKey(w, u, k, mcp)
  PROVE  Calm
<1>1. Row(u, mcp) \in KeyRow
  BY DEF Row, KeyRow
<1>2. key' \in [Keys -> {NoKey} \union KeyRow] /\ OwnersKept
  BY <1>1, InsertWorks DEF CreateKey, Fresh
<1>3. /\ cache' \in [Workers -> [Keys -> Nat]]
      /\ \A v \in Workers, j \in Keys : cache'[v][j] \in {0, cache[v][j]}
  BY BustWorks DEF CreateKey
<1>4. ops' \in 0 .. MaxOps
  BY NumbersAssumption DEF CreateKey, Counted, TypeOK
<1>5. \A v \in Workers : At(v, "rotate")' => Exists(job[v].k)'
  BY <1>2, TypedNow DEF CreateKey, At, Typed, Jobs, OwnersKept, Exists, Idle
<1> QED BY <1>2, <1>3, <1>4, <1>5, TypedNow DEF CreateKey, Calm, Typed, Quiet

(* A rotation under way goes on with a row that stays.                     *)
LEMMA RotationsKept ==
  ASSUME TypeOK, OwnersKept, \A v \in Workers : job'[v] # job[v] => job'[v].pc # "rotate"
  PROVE  \A v \in Workers : At(v, "rotate")' => Exists(job[v].k)'
<1> SUFFICES ASSUME NEW v \in Workers, job'[v].pc = "rotate"
             PROVE  Exists(job[v].k)'
  BY DEF At
<1>1. job'[v] = job[v]
  OBVIOUS
<1>2. job[v].k \in Keys /\ Exists(job[v].k)
  BY <1>1 DEF TypeOK, At, Jobs, Idle
<1> QED BY <1>1, <1>2 DEF OwnersKept, Exists

(* Nothing happens to the rows of api_keys.                                *)
LEMMA RowsUntouched ==
  ASSUME TypeOK, key' = key
  PROVE  key' \in [Keys -> {NoKey} \union KeyRow] /\ OwnersKept
BY DEF TypeOK, OwnersKept, Exists

(* Revoking a key is calm: its row stays, with the same owner.             *)
LEMMA RevokeKeyIsCalm ==
  ASSUME TypeOK, NEW w \in Workers, NEW k \in Keys, RevokeKey(w, k)
  PROVE  Calm
<1>1. key' \in [Keys -> {NoKey} \union KeyRow] /\ OwnersKept
  <2>1. Revoke({k}) /\ {k} \in SUBSET Keys /\ \A j \in {k} : Exists(j)
    BY DEF RevokeKey, Live
  <2> QED BY <2>1, RevokeWorks
<1>2. /\ cache' \in [Workers -> [Keys -> Nat]]
      /\ \A v \in Workers, j \in Keys : cache'[v][j] \in {0, cache[v][j]}
  BY BustWorks DEF RevokeKey
<1>3. ops' \in 0 .. MaxOps
  BY NumbersAssumption DEF RevokeKey, Counted, TypeOK
<1>4. \A v \in Workers : At(v, "rotate")' => Exists(job[v].k)'
  BY <1>1, RotationsKept DEF RevokeKey
<1>5. extra' \in [Users -> Nat]
  <2>1. PICK o \in Users : o = key[k].owner
    BY ExistingKey DEF RevokeKey, Live
  <2>2. (IF extra[o] = 0 THEN 0 ELSE extra[o] - 1) \in Nat
    BY DEF TypeOK
  <2> QED BY <2>1, <2>2 DEF RevokeKey, TypeOK
<1> QED BY <1>1, <1>2, <1>3, <1>4, <1>5, TypedNow DEF RevokeKey, Calm, Typed, Quiet

(* Starting a rotation is calm, and the key it read has a row.             *)
LEMMA RotateReadIsCalm ==
  ASSUME TypeOK, NEW w \in Workers, NEW k \in Keys, RotateRead(w, k)
  PROVE  Calm
<1>1. key' \in [Keys -> {NoKey} \union KeyRow] /\ OwnersKept
  BY RowsUntouched DEF RotateRead
<1>2. job' = [job EXCEPT ![w] = [pc |-> "rotate", k |-> k]] /\ ops' \in 0 .. MaxOps
  BY NumbersAssumption DEF RotateRead, Begin, Counted, TypeOK
<1>3. job' \in [Workers -> Jobs]
  BY <1>2 DEF TypeOK, Jobs
<1>4. \A v \in Workers : At(v, "rotate")' => Exists(job[v].k)'
  <2> SUFFICES ASSUME NEW v \in Workers, job'[v].pc = "rotate"
               PROVE  Exists(job[v].k)'
    BY DEF At
  <2>1. CASE v = w
    BY <1>2, <2>1 DEF RotateRead, Live, Exists, TypeOK
  <2>2. CASE v # w
    BY <1>2, <2>2 DEF RotateRead, At, Exists, TypeOK
  <2> QED BY <2>1, <2>2
<1> QED BY <1>1, <1>2, <1>3, <1>4, TypedNow DEF RotateRead, Calm, Typed, Quiet

(* The commit of a rotation is calm: the old row stays, the new one is     *)
(* another, and no cache holds it yet.                                     *)
LEMMA RotateCommitIsCalm ==
  ASSUME TypeOK, NEW w \in Workers, NEW k \in Keys, RotateCommit(w, k)
  PROVE  Calm
<1> DEFINE j == job[w].k
           old == key[j]
<1>1. j \in Keys /\ Exists(j) /\ ~Exists(k) /\ job[w].pc = "rotate"
  BY DEF RotateCommit, TypeOK, At, Jobs, Idle, Fresh
<1>2. old \in KeyRow /\ old.owner \in Users /\ j # k
  BY <1>1, ExistingKey
<1>3. Row(old.owner, old.mcp) \in KeyRow
  BY <1>2 DEF Row, KeyRow
<1>4. key' = [key EXCEPT ![j].live = FALSE, ![k] = Row(old.owner, old.mcp)]
  BY DEF RotateCommit
<1>5. /\ key'[j] \in KeyRow /\ key'[j].owner = old.owner
      /\ key'[k] \in KeyRow
      /\ \A i \in Keys \ {j, k} : key'[i] = key[i]
      /\ key' \in [Keys -> {NoKey} \union KeyRow]
  BY <1>1, <1>2, <1>3, <1>4 DEF TypeOK, KeyRow
<1>6. OwnersKept
  BY <1>1, <1>5, RowIsKey DEF OwnersKept, Exists
<1>7. extra' \in [Users -> Nat]
  BY <1>2 DEF RotateCommit, TypeOK
<1>8. /\ cache' \in [Workers -> [Keys -> Nat]]
      /\ \A v \in Workers, i \in Keys : cache'[v][i] \in {0, cache[v][i]}
  BY BustWorks DEF RotateCommit
<1>9. job' = [job EXCEPT ![w] = Idle]
  BY DEF RotateCommit, Done
<1>10. job' \in [Workers -> Jobs] /\ \A v \in Workers : job'[v] # job[v] => job'[v].pc # "rotate"
  BY <1>9 DEF TypeOK, Jobs, Idle
<1>11. \A v \in Workers : At(v, "rotate")' => Exists(job[v].k)'
  BY <1>6, <1>10, RotationsKept
<1> QED BY <1>5, <1>6, <1>7, <1>8, <1>10, <1>11, TypedNow DEF RotateCommit, Calm, Typed, Quiet

(* Suspending an account and ending its suspension is calm.                *)
LEMMA SuspendIsCalm ==
  ASSUME TypeOK, NEW w \in Workers, NEW u \in Users, Suspend(w, u) \/ Unsuspend(w, u)
  PROVE  Calm
<1>1. key' \in [Keys -> {NoKey} \union KeyRow] /\ OwnersKept
  BY RowsUntouched DEF Suspend, Unsuspend
<1>2. /\ cache' \in [Workers -> [Keys -> Nat]]
      /\ \A v \in Workers, k \in Keys : cache'[v][k] \in {0, cache[v][k]}
  BY BustWorks DEF Suspend, Unsuspend
<1>3. ops' \in 0 .. MaxOps
  BY NumbersAssumption DEF Suspend, Unsuspend, Counted, TypeOK
<1>4. \A v \in Workers : At(v, "rotate")' => Exists(job[v].k)'
  BY <1>1, RotationsKept DEF Suspend, Unsuspend
<1>5. account' \in [Users -> {"active", "suspended", "closed"}]
  BY DEF Suspend, Unsuspend, TypeOK
<1> QED BY <1>1, <1>2, <1>3, <1>4, <1>5, TypedNow DEF Suspend, Unsuspend, Calm, Typed, Quiet

(* Closing an account is calm in its first transaction ...                 *)
LEMMA CloseIsCalm ==
  ASSUME TypeOK, NEW w \in Workers, NEW u \in Users, Close(w, u)
  PROVE  Calm
<1>1. key' \in [Keys -> {NoKey} \union KeyRow] /\ OwnersKept
  BY RowsUntouched DEF Close
<1>2. job' = [job EXCEPT ![w] = [pc |-> "close", u |-> u]] /\ ops' \in 0 .. MaxOps
  BY NumbersAssumption DEF Close, Begin, Counted, TypeOK
<1>3. job' \in [Workers -> Jobs] /\ \A v \in Workers : job'[v] # job[v] => job'[v].pc # "rotate"
  BY <1>2 DEF TypeOK, Jobs
<1>4. \A v \in Workers : At(v, "rotate")' => Exists(job[v].k)'
  BY <1>1, <1>3, RotationsKept
<1>5. account' \in [Users -> {"active", "suspended", "closed"}]
  BY DEF Close, TypeOK
<1> QED BY <1>1, <1>2, <1>3, <1>4, <1>5, TypedNow DEF Close, Calm, Typed, Quiet

(* ... and in its second, which revokes the keys of the account.           *)
LEMMA CloseRevokesIsCalm ==
  ASSUME TypeOK, NEW w \in Workers, CloseRevokes(w)
  PROVE  Calm
<1>1. key' \in [Keys -> {NoKey} \union KeyRow] /\ OwnersKept
  BY RevokeWorks DEF CloseRevokes, LiveKeys, Live
<1>2. /\ cache' \in [Workers -> [Keys -> Nat]]
      /\ \A v \in Workers, k \in Keys : cache'[v][k] \in {0, cache[v][k]}
  BY BustWorks DEF CloseRevokes
<1>3. job' = [job EXCEPT ![w] = Idle]
  BY DEF CloseRevokes, Done
<1>4. job' \in [Workers -> Jobs] /\ \A v \in Workers : job'[v] # job[v] => job'[v].pc # "rotate"
  BY <1>3 DEF TypeOK, Jobs, Idle
<1>5. \A v \in Workers : At(v, "rotate")' => Exists(job[v].k)'
  BY <1>1, <1>4, RotationsKept
<1>6. extra' \in [Users -> Nat]
  BY DEF CloseRevokes, TypeOK
<1> QED BY <1>1, <1>2, <1>4, <1>5, <1>6, TypedNow DEF CloseRevokes, Calm, Typed, Quiet

(* Inviting to link, and unlinking, is calm.                               *)
LEMMA UnlinkIsCalm ==
  ASSUME TypeOK, NEW w \in Workers, NEW u \in Users, LinkStart(w, u) \/ Unlink(w, u)
  PROVE  Calm
<1>1. key' \in [Keys -> {NoKey} \union KeyRow] /\ OwnersKept
  BY RowsUntouched DEF LinkStart, Unlink
<1>2. /\ cache' \in [Workers -> [Keys -> Nat]]
      /\ \A v \in Workers, k \in Keys : cache'[v][k] \in {0, cache[v][k]}
  BY BustWorks DEF LinkStart, Unlink, TypeOK
<1>3. ops' \in 0 .. MaxOps
  BY NumbersAssumption DEF LinkStart, Unlink, Counted, TypeOK
<1>4. \A v \in Workers : At(v, "rotate")' => Exists(job[v].k)'
  BY <1>1, RotationsKept DEF LinkStart, Unlink
<1>5. link' \in [Users -> {NoSubject} \union Subjects] /\ invited' \subseteq Users
  BY DEF LinkStart, Unlink, TypeOK
<1> QED BY <1>1, <1>2, <1>3, <1>4, <1>5, TypedNow DEF LinkStart, Unlink, Calm, Typed, Quiet

(* The first half of the link callback only reads ...                      *)
LEMMA LinkReadIsCalm ==
  ASSUME TypeOK, NEW w \in Workers, NEW u \in Users, NEW s \in Subjects, LinkRead(w, u, s)
  PROVE  Calm
<1>1. key' \in [Keys -> {NoKey} \union KeyRow] /\ OwnersKept
  BY RowsUntouched DEF LinkRead
<1>2. job' \in [Workers -> Jobs] /\ \A v \in Workers : job'[v] # job[v] => job'[v].pc # "rotate"
  BY DEF LinkRead, TypeOK, Jobs
<1>3. \A v \in Workers : At(v, "rotate")' => Exists(job[v].k)'
  BY <1>1, <1>2, RotationsKept
<1> QED BY <1>1, <1>2, <1>3, TypedNow DEF LinkRead, Calm, Typed, Quiet

(* ... and the second writes the subject, unless another account has it.   *)
LEMMA LinkCommitIsCalm ==
  ASSUME TypeOK, NEW w \in Workers, LinkCommit(w)
  PROVE  Calm
<1>1. key' \in [Keys -> {NoKey} \union KeyRow] /\ OwnersKept
  BY RowsUntouched DEF LinkCommit
<1>2. /\ cache' \in [Workers -> [Keys -> Nat]]
      /\ \A v \in Workers, k \in Keys : cache'[v][k] \in {0, cache[v][k]}
  BY BustWorks DEF LinkCommit, TypeOK
<1>3. job' \in [Workers -> Jobs] /\ \A v \in Workers : job'[v] # job[v] => job'[v].pc # "rotate"
  BY DEF LinkCommit, Done, TypeOK, Jobs, Idle
<1>4. \A v \in Workers : At(v, "rotate")' => Exists(job[v].k)'
  BY <1>1, <1>3, RotationsKept
<1>5. job[w].s \in Subjects /\ job[w].u \in Users
  BY DEF LinkCommit, TypeOK, At, Jobs, Idle
<1>6. link' \in [Users -> {NoSubject} \union Subjects]
  BY <1>5 DEF LinkCommit, TypeOK
<1> QED BY <1>1, <1>2, <1>3, <1>4, <1>6, TypedNow DEF LinkCommit, Calm, Typed, Quiet

(* A killed worker and an abandoned request only lose what they had.       *)
LEMMA CrashIsCalm ==
  ASSUME TypeOK, NEW w \in Workers, Crash(w) \/ Abandon(w)
  PROVE  Calm
<1>1. key' \in [Keys -> {NoKey} \union KeyRow] /\ OwnersKept
  BY RowsUntouched DEF Crash, Abandon
<1>2. /\ cache' \in [Workers -> [Keys -> Nat]]
      /\ \A v \in Workers, k \in Keys : cache'[v][k] \in {0, cache[v][k]}
  <2>1. CASE Crash(w)
    <3>1. cache' = [cache EXCEPT ![w] = [k \in Keys |-> 0]]
      BY <2>1 DEF Crash
    <3> QED BY <3>1 DEF TypeOK
  <2>2. CASE Abandon(w)
    BY <2>2 DEF Abandon, TypeOK
  <2> QED BY <2>1, <2>2
<1>3. ops' \in 0 .. MaxOps
  BY NumbersAssumption DEF Crash, Abandon, Counted, TypeOK
<1>4. job' = job \/ job' = [job EXCEPT ![w] = Idle]
  BY DEF Crash, Abandon
<1>5. job' \in [Workers -> Jobs] /\ \A v \in Workers : job'[v] # job[v] => job'[v].pc # "rotate"
  <2>1. CASE job' = job
    BY <2>1 DEF TypeOK
  <2>2. CASE job' = [job EXCEPT ![w] = Idle]
    BY <2>2 DEF TypeOK, Jobs, Idle
  <2> QED BY <1>4, <2>1, <2>2
<1>6. \A v \in Workers : At(v, "rotate")' => Exists(job[v].k)'
  BY <1>1, <1>5, RotationsKept
<1>7. look' = [look EXCEPT ![w] = Idle]
  BY DEF Crash, Abandon
<1>8. look' \in [Workers -> Looking] /\ \A v \in Workers : look'[v] \in {Idle, look[v]}
  BY <1>7 DEF TypeOK, Looking
<1> QED BY <1>1, <1>2, <1>3, <1>5, <1>6, <1>8, TypedNow DEF Crash, Abandon, Calm, Typed, Quiet

(* A key in the cache speaks for the owner of its row.                     *)
LEMMA CachedClaim ==
  ASSUME TypeOK, NEW w \in Workers, NEW k \in Keys, cache[w][k] # 0
  PROVE  Exists(k) /\ key[k].owner \in Users /\ <<k, key[k].owner>> \in Claims
<1>1. Exists(k)
  BY DEF TypeOK
<1> QED BY <1>1, ExistingKey, GoodKey

(* Serving from the cache is calm.                                         *)
LEMMA HitIsCalm ==
  ASSUME TypeOK, NEW w \in Workers, NEW k \in Keys, Hit(w, k)
  PROVE  Calm
<1>1. key' \in [Keys -> {NoKey} \union KeyRow] /\ OwnersKept
  BY RowsUntouched DEF Hit
<1>2. \A v \in Workers : At(v, "rotate")' => Exists(job[v].k)'
  BY <1>1, RotationsKept DEF Hit
<1>3. served' \subseteq Claims
  BY CachedClaim DEF Hit, Serve
<1> QED BY <1>1, <1>2, <1>3, TypedNow DEF Hit, Calm, Typed

(* A request served on an OAuth identity leaves no trace in a cache.       *)
LEMMA OAuthServeIsCalm ==
  ASSUME TypeOK, NEW w \in Workers, OAuthServe(w)
  PROVE  Calm
<1>1. key' \in [Keys -> {NoKey} \union KeyRow] /\ OwnersKept
  BY RowsUntouched DEF OAuthServe
<1>2. \A v \in Workers : At(v, "rotate")' => Exists(job[v].k)'
  BY <1>1, RotationsKept DEF OAuthServe
<1>3. served' \subseteq Claims
  BY LookingFor, GoodSubject DEF OAuthServe, Serve
<1>4. look' \in [Workers -> Looking] /\ \A v \in Workers : look'[v] \in {Idle, look[v]}
  BY DEF OAuthServe, TypeOK, Looking
<1> QED BY <1>1, <1>2, <1>3, <1>4, TypedNow DEF OAuthServe, Calm, Typed

----------------------------------------------------------------------------
(* The steps that fill a cache, begin or advance a lookup, and the clock.  *)

(* While nothing happens to rows and clock, the history stays as it is.    *)
LEMMA Steady ==
  ASSUME Inv, UNCHANGED <<now, account, key, link>>, Remember
  PROVE  /\ lastValid' = lastValid
         /\ Remembered'
         /\ \A c \in Claims : Good(c)' <=> Good(c)
<1>1. \A c \in Claims : Good(c)' <=> Good(c)
  BY DEF Good, KeyIsGood, KeyFound, Live, Exists, SubjectIsGood
<1>2. \A c \in Claims : lastValid'[c] = lastValid[c]
  BY <1>1 DEF Remember, Inv, Remembered
<1>3. lastValid' = lastValid
  BY <1>2 DEF Remember, Inv, TypeOK
<1>4. Remembered'
  BY <1>1, <1>3 DEF Inv, Remembered, Claims, Credentials
<1> QED BY <1>1, <1>3, <1>4

(* An entry that one worker gains must be backed like the others.          *)
LEMMA EntryGained ==
  ASSUME Inv, NEW w \in Workers, NEW k \in Keys,
         UNCHANGED <<now, account, key, link>>, Remember, Exists(k),
         now <= lastValid[<<k, key[k].owner>>] + MaxLookup,
         cache' = [cache EXCEPT ![w][k] = now + TTL]
  PROVE  /\ CacheBacked'
         /\ cache' \in [Workers -> [Keys -> Nat]]
         /\ \A v \in Workers, j \in Keys :
              cache'[v][j] # 0 => Exists(j)' /\ cache'[v][j] <= now' + TTL
<1>1. lastValid' = lastValid /\ now \in Nat /\ TTL \in Nat \ {0} /\ MaxLookup \in Nat
  BY Steady, NumbersAssumption DEF Inv, TypeOK
<1>2. cache' \in [Workers -> [Keys -> Nat]]
  BY <1>1 DEF Inv, TypeOK
<1>3. <<k, key[k].owner>> \in Claims /\ lastValid[<<k, key[k].owner>>] \in Int
  <2>1. key[k].owner \in Users
    BY ExistingKey DEF Inv
  <2>2. <<k, key[k].owner>> \in Claims
    BY <2>1, GoodKey
  <2> QED BY <2>2 DEF Inv, TypeOK
<1>4. ASSUME NEW v \in Workers, NEW j \in Keys, cache'[v][j] # 0
      PROVE  /\ Exists(j)' /\ now < cache'[v][j] /\ cache'[v][j] <= now + TTL
             /\ cache'[v][j] <= lastValid[<<j, key[j].owner>>] + TTL + MaxLookup
  <2>1. CASE v = w /\ j = k
    <3>1. cache'[v][j] = now + TTL
      BY <2>1 DEF Inv, TypeOK
    <3> QED BY <1>1, <1>3, <2>1, <3>1 DEF Exists
  <2>2. CASE ~(v = w /\ j = k)
    <3>1. cache'[v][j] = cache[v][j]
      BY <2>2 DEF Inv, TypeOK
    <3> QED BY <1>4, <3>1 DEF Inv, TypeOK, CacheBacked, Exists
  <2> QED BY <2>1, <2>2
<1>5. CacheBacked'
  BY <1>1, <1>4 DEF CacheBacked
<1> QED BY <1>2, <1>4, <1>5

(* ApiKeyMiddleware: the key is good at this very instant.                 *)
LEMMA LookupOnLoopKeeps ==
  ASSUME Inv, NEW w \in Workers, NEW k \in Keys, LookupOnLoop(w, k)
  PROVE  Inv'
<1>1. UNCHANGED <<now, account, key, link>> /\ Remember
  BY DEF LookupOnLoop
<1>2. Exists(k) /\ key[k].owner \in Users /\ KeyIsGood(k, key[k].owner)
  BY ExistingKey DEF LookupOnLoop, Inv
<1>3. <<k, key[k].owner>> \in Claims /\ lastValid[<<k, key[k].owner>>] = now
  BY <1>2, GoodKey DEF Inv, Remembered
<1>4. lastValid' = lastValid /\ Remembered'
  BY <1>1, Steady
<1>5. now <= lastValid[<<k, key[k].owner>>] + MaxLookup
  BY <1>3, NumbersAssumption DEF Inv, TypeOK
<1>6. /\ CacheBacked'
      /\ cache' \in [Workers -> [Keys -> Nat]]
      /\ \A v \in Workers, j \in Keys :
           cache'[v][j] # 0 => Exists(j)' /\ cache'[v][j] <= now' + TTL
  BY <1>1, <1>2, <1>5, EntryGained DEF LookupOnLoop
<1>7. LookupBacked'
  BY <1>4 DEF LookupOnLoop, Inv, LookupBacked, ReadRecently
<1>8. TypeOK'
  BY <1>3, <1>4, <1>6 DEF LookupOnLoop, Serve, Inv, TypeOK, At, Exists
<1> QED BY <1>4, <1>6, <1>7, <1>8 DEF Inv

(* HybridMCPTokenVerifier: the key was good when the thread read it.       *)
LEMMA LookupInsertKeeps ==
  ASSUME Inv, NEW w \in Workers, LookupInsert(w)
  PROVE  Inv'
<1> DEFINE k == look[w].c
<1>1. UNCHANGED <<now, account, key, link>> /\ Remember
  BY DEF LookupInsert
<1>2. k \in Keys /\ Exists(k) /\ look[w].since \in Nat
  BY LookingFor DEF LookupInsert, Inv
<1>3. ReadRecently(k, key[k].owner, look[w].since)
  BY DEF LookupInsert, Inv, LookupBacked
<1>4. key[k].owner \in Users /\ <<k, key[k].owner>> \in Claims
  BY <1>2, ExistingKey, GoodKey DEF Inv
<1>5. lastValid[<<k, key[k].owner>>] \in Int
  BY <1>4 DEF Inv, TypeOK
<1>6. now <= lastValid[<<k, key[k].owner>>] + MaxLookup
  BY <1>2, <1>3, <1>5, NumbersAssumption DEF Inv, TypeOK, ReadRecently
<1>7. cache' = [cache EXCEPT ![w][k] = now + TTL]
  BY DEF LookupInsert
<1>8. lastValid' = lastValid /\ Remembered'
  BY <1>1, Steady
<1>9. /\ CacheBacked'
      /\ cache' \in [Workers -> [Keys -> Nat]]
      /\ \A v \in Workers, j \in Keys :
           cache'[v][j] # 0 => Exists(j)' /\ cache'[v][j] <= now' + TTL
  <2> HIDE DEF k
  <2> QED BY <1>1, <1>2, <1>6, <1>7, EntryGained
<1>10. look' \in [Workers -> Looking] /\ \A v \in Workers : look'[v] \in {Idle, look[v]}
  BY DEF LookupInsert, Inv, TypeOK, Looking
<1>11. LookupBacked'
  BY <1>8, <1>10 DEF LookupInsert, Inv, LookupBacked, ReadRecently, Idle
<1>12. \A v \in Workers : look'[v].pc = "found" => Exists(look[v].c)'
  BY <1>10 DEF LookupInsert, Inv, TypeOK, Exists, Idle
<1>13. TypeOK'
  BY <1>4, <1>8, <1>9, <1>10, <1>12 DEF LookupInsert, Serve, Inv, TypeOK, At, Exists
<1> QED BY <1>8, <1>9, <1>11, <1>13 DEF Inv

(* A worker's lookup advances to what it reads now or has not read yet.    *)
LEMMA LookBegun ==
  ASSUME Inv, NEW w \in Workers, NEW l \in Looking,
         UNCHANGED <<now, account, key, link, cache>>, Remember,
         look' = [look EXCEPT ![w] = l],
         l.pc = "found" => Exists(l.c) /\ ReadRecently(l.c, key[l.c].owner, l.since),
         l.pc = "resolved" => ReadRecently(l.c, l.u, l.since)
  PROVE  /\ Remembered' /\ CacheBacked' /\ LookupBacked'
         /\ lastValid' = lastValid
         /\ look' \in [Workers -> Looking]
         /\ \A v \in Workers : look'[v].pc = "found" => Exists(look[v].c)'
<1>1. lastValid' = lastValid /\ Remembered'
  BY Steady
<1>2. look' \in [Workers -> Looking]
  BY DEF Inv, TypeOK
<1>3. CacheBacked'
  BY <1>1 DEF Inv, CacheBacked, Exists
<1>4. ASSUME NEW v \in Workers
      PROVE  /\ look'[v].pc = "found" =>
                  /\ Exists(look[v].c)'
                  /\ ReadRecently(look[v].c, key[look[v].c].owner, look[v].since)'
             /\ look'[v].pc = "resolved" => ReadRecently(look[v].c, look[v].u, look[v].since)'
  <2>1. CASE v = w
    <3>1. look'[v] = l
      BY <2>1 DEF Inv, TypeOK
    <3> QED BY <1>1, <3>1 DEF ReadRecently, Exists
  <2>2. CASE v # w
    <3>1. look'[v] = look[v]
      BY <2>2 DEF Inv, TypeOK
    <3> QED BY <1>1, <3>1 DEF Inv, TypeOK, LookupBacked, ReadRecently, Exists
  <2> QED BY <2>1, <2>2
<1>5. LookupBacked'
  BY <1>4 DEF LookupBacked
<1> QED BY <1>1, <1>2, <1>3, <1>4, <1>5

(* A lookup that begins has read a key that is good now.                   *)
LEMMA LookupKeeps ==
  ASSUME Inv, NEW w \in Workers, NEW k \in Keys, Lookup(w, k)
  PROVE  Inv'
<1> DEFINE l == [pc |-> "found", c |-> k, since |-> now]
<1>1. UNCHANGED <<now, account, key, link, cache>> /\ Remember
  BY DEF Lookup, Quiet
<1>2. Exists(k) /\ key[k].owner \in Users /\ KeyIsGood(k, key[k].owner)
  BY ExistingKey DEF Lookup, Inv
<1>3. <<k, key[k].owner>> \in Claims /\ lastValid[<<k, key[k].owner>>] = now
  BY <1>2, GoodKey DEF Inv, Remembered
<1>4. ReadRecently(k, key[k].owner, now)
  BY <1>3, NumbersAssumption DEF Inv, TypeOK, ReadRecently
<1>5. l \in Looking
  BY DEF Inv, TypeOK, Looking
<1>6. look' = [look EXCEPT ![w] = l]
  BY DEF Lookup
<1>7. /\ Remembered' /\ CacheBacked' /\ LookupBacked'
      /\ lastValid' = lastValid
      /\ look' \in [Workers -> Looking]
      /\ \A v \in Workers : look'[v].pc = "found" => Exists(look[v].c)'
  BY <1>1, <1>2, <1>4, <1>5, <1>6, LookBegun
<1>8. TypeOK'
  BY <1>7 DEF Lookup, Quiet, Inv, TypeOK, At, Exists
<1> QED BY <1>7, <1>8 DEF Inv

(* Verifying an identity token reads nothing yet.                          *)
LEMMA OAuthVerifyKeeps ==
  ASSUME Inv, NEW w \in Workers, NEW s \in Subjects, OAuthVerify(w, s)
  PROVE  Inv'
<1> DEFINE l == [pc |-> "verifying", c |-> s]
<1>1. UNCHANGED <<now, account, key, link, cache>> /\ Remember
  BY DEF OAuthVerify, Quiet
<1>2. l \in Looking
  BY DEF Looking
<1>3. look' = [look EXCEPT ![w] = l]
  BY DEF OAuthVerify
<1>4. /\ Remembered' /\ CacheBacked' /\ LookupBacked'
      /\ lastValid' = lastValid
      /\ look' \in [Workers -> Looking]
      /\ \A v \in Workers : look'[v].pc = "found" => Exists(look[v].c)'
  BY <1>1, <1>2, <1>3, LookBegun
<1>5. TypeOK'
  BY <1>4 DEF OAuthVerify, Quiet, Inv, TypeOK, At, Exists
<1> QED BY <1>4, <1>5 DEF Inv

(* A subject is resolved to an account it is good for now.                 *)
LEMMA OAuthResolveKeeps ==
  ASSUME Inv, NEW w \in Workers, NEW u \in Users, OAuthResolve(w, u)
  PROVE  Inv'
<1> DEFINE s == look[w].c
           l == [pc |-> "resolved", c |-> s, u |-> u, since |-> now]
<1>1. UNCHANGED <<now, account, key, link, cache>> /\ Remember
  BY DEF OAuthResolve, Quiet
<1>2. s \in Subjects /\ SubjectIsGood(s, u)
  BY LookingFor DEF OAuthResolve, Inv
<1>3. <<s, u>> \in Claims /\ lastValid[<<s, u>>] = now
  BY <1>2, GoodSubject DEF Inv, Remembered
<1>4. ReadRecently(s, u, now)
  BY <1>3, NumbersAssumption DEF Inv, TypeOK, ReadRecently
<1>5. l \in Looking
  BY <1>2 DEF Inv, TypeOK, Looking
<1>6. look' = [look EXCEPT ![w] = l]
  BY DEF OAuthResolve, Inv, TypeOK
<1>7. /\ Remembered' /\ CacheBacked' /\ LookupBacked'
      /\ lastValid' = lastValid
      /\ look' \in [Workers -> Looking]
      /\ \A v \in Workers : look'[v].pc = "found" => Exists(look[v].c)'
  <2> HIDE DEF s
  <2> QED BY <1>1, <1>4, <1>5, <1>6, LookBegun
<1>8. TypeOK'
  BY <1>7 DEF OAuthResolve, Quiet, Inv, TypeOK, At, Exists
<1> QED BY <1>7, <1>8 DEF Inv

(* The clock: expired entries go, and no lookup outlasts MaxLookup.        *)
LEMMA TickKeeps ==
  ASSUME Inv, Tick
  PROVE  Inv'
<1>1. now' = now + 1 /\ now \in Nat /\ Remember
  BY DEF Tick, Quiet, Inv, TypeOK
<1>2. /\ lastValid' \in [Claims -> Int]
      /\ Remembered'
      /\ \A c \in Claims : lastValid[c] <= lastValid'[c]
  BY <1>1, RememberWorks DEF Inv
<1>3. cache' \in [Workers -> [Keys -> Nat]]
  <2>1. cache' = [w \in Workers |-> [k \in Keys |->
                    IF cache[w][k] > now + 1 THEN cache[w][k] ELSE 0]]
    BY DEF Tick
  <2> QED BY <2>1 DEF Inv, TypeOK
<1>4. ASSUME NEW w \in Workers, NEW k \in Keys, cache'[w][k] # 0
      PROVE  /\ cache'[w][k] = cache[w][k] /\ cache[w][k] > now + 1
             /\ Exists(k)' /\ cache'[w][k] <= now' + TTL
             /\ cache'[w][k] <= lastValid'[<<k, key'[k].owner>>] + TTL + MaxLookup
  <2>1. cache'[w][k] = cache[w][k] /\ cache[w][k] > now + 1
    BY <1>4 DEF Tick
  <2>2. cache[w][k] # 0 /\ cache[w][k] \in Nat
    BY <1>4, <2>1 DEF Inv, TypeOK
  <2>3. Exists(k) /\ <<k, key[k].owner>> \in Claims
    BY <2>2, CachedClaim DEF Inv
  <2>4. /\ lastValid[<<k, key[k].owner>>] <= lastValid'[<<k, key[k].owner>>]
        /\ lastValid[<<k, key[k].owner>>] \in Int
        /\ lastValid'[<<k, key[k].owner>>] \in Int
    BY <1>2, <2>3 DEF Inv, TypeOK
  <2>5. /\ cache[w][k] <= lastValid[<<k, key[k].owner>>] + TTL + MaxLookup
        /\ cache[w][k] <= now + TTL
    BY <2>2 DEF Inv, TypeOK, CacheBacked
  <2>6. key' = key /\ Exists(k)'
    BY <2>3 DEF Tick, Exists
  <2> QED BY <1>1, <2>1, <2>2, <2>4, <2>5, <2>6, NumbersAssumption
<1>5. CacheBacked'
  BY <1>1, <1>4 DEF CacheBacked
<1>6. look' = look /\ key' = key
  BY DEF Tick
<1>7. ASSUME NEW w \in Workers, look[w].pc = "found"
      PROVE  ReadRecently(look[w].c, key[look[w].c].owner, look[w].since)'
  <2>1. /\ look[w].c \in Keys /\ look[w].since \in Nat /\ Exists(look[w].c)
        /\ ReadRecently(look[w].c, key[look[w].c].owner, look[w].since)
    BY <1>7, LookingFor DEF Inv, LookupBacked
  <2> DEFINE c == <<look[w].c, key[look[w].c].owner>>
  <2>2. c \in Claims
    BY <2>1, ExistingKey, GoodKey DEF Inv
  <2>3. lastValid[c] <= lastValid'[c] /\ lastValid[c] \in Int /\ lastValid'[c] \in Int
    BY <1>2, <2>2 DEF Inv, TypeOK
  <2>4. look[w].since <= lastValid'[c]
    BY <2>1, <2>3 DEF ReadRecently
  <2>5. now < look[w].since + MaxLookup
    BY <1>7 DEF Tick
  <2> QED BY <1>1, <1>6, <2>1, <2>4, <2>5, NumbersAssumption DEF ReadRecently
<1>8. ASSUME NEW w \in Workers, look[w].pc = "resolved"
      PROVE  ReadRecently(look[w].c, look[w].u, look[w].since)'
  <2>1. /\ look[w].c \in Subjects /\ look[w].u \in Users /\ look[w].since \in Nat
        /\ ReadRecently(look[w].c, look[w].u, look[w].since)
    BY <1>8, LookingFor DEF Inv, LookupBacked
  <2> DEFINE c == <<look[w].c, look[w].u>>
  <2>2. c \in Claims
    BY <2>1, GoodSubject
  <2>3. lastValid[c] <= lastValid'[c] /\ lastValid[c] \in Int /\ lastValid'[c] \in Int
    BY <1>2, <2>2 DEF Inv, TypeOK
  <2>4. look[w].since <= lastValid'[c]
    BY <2>1, <2>3 DEF ReadRecently
  <2>5. now < look[w].since + MaxLookup
    BY <1>8 DEF Tick
  <2> QED BY <1>1, <1>6, <2>1, <2>4, <2>5, NumbersAssumption DEF ReadRecently
<1>9. LookupBacked'
  BY <1>6, <1>7, <1>8 DEF LookupBacked
<1>10. \A w \in Workers : At(w, "rotate")' => Exists(job[w].k)'
  BY DEF Tick, Inv, TypeOK, At, Exists
<1>11. \A w \in Workers : look'[w].pc = "found" => Exists(look[w].c)'
  BY <1>6 DEF Inv, TypeOK, Exists
<1>12. TypeOK'
  <2>1. /\ UNCHANGED <<mode, plan, account, key, link, invited, look, job, ops, extra>>
        /\ served' = {}
    BY DEF Tick, Quiet
  <2>2. Typed'
    BY <1>1, <1>3, <1>10, <2>1 DEF Inv, TypeOK, Typed
  <2> QED BY <1>2, <1>4, <1>11, <2>2 DEF TypeOK, Typed
<1> QED BY <1>2, <1>5, <1>9, <1>12 DEF Inv

----------------------------------------------------------------------------
(* The number of keys.                                                     *)

(* The limits of the plans are numbers.                                    *)
LEMMA LimitIsNat == \A p : MaxKeys(p) \in Nat
BY NumbersAssumption DEF MaxKeys

(* A step that activates no key keeps the count.                           *)
LEMMA FewerKeys ==
  ASSUME TypeOK, KeysCounted, extra' = extra, plan' = plan,
         \A u \in Users : LiveKeys(u)' \subseteq LiveKeys(u)
  PROVE  KeysCounted'
<1> SUFFICES ASSUME NEW u \in Users
             PROVE  /\ IsFiniteSet(LiveKeys(u)')
                    /\ Cardinality(LiveKeys(u)') <= MaxKeys(plan'[u]) + extra'[u]
  BY DEF KeysCounted, MaxKeys
<1>1. IsFiniteSet(LiveKeys(u)) /\ Cardinality(LiveKeys(u)) <= MaxKeys(plan[u]) + extra[u]
  BY DEF KeysCounted
<1>2. IsFiniteSet(LiveKeys(u)') /\ Cardinality(LiveKeys(u)') <= Cardinality(LiveKeys(u))
  BY <1>1, FS_Subset
<1>3. Cardinality(LiveKeys(u)) \in Nat /\ Cardinality(LiveKeys(u)') \in Nat
  BY <1>1, <1>2, FS_CardinalityType
<1>4. MaxKeys(plan[u]) \in Nat /\ extra[u] \in Nat
  BY LimitIsNat DEF TypeOK
<1> QED BY <1>1, <1>2, <1>3, <1>4

(* Keys only get revoked by revoke_api_key and by the closure.             *)
LEMMA RevokedKeys ==
  ASSUME TypeOK, NEW K \in SUBSET Keys, \A k \in K : Exists(k), Revoke(K)
  PROVE  \A u \in Users : LiveKeys(u)' \subseteq LiveKeys(u)
<1> SUFFICES ASSUME NEW u \in Users, NEW k \in Keys,
                    key'[k] # NoKey, key'[k].live, key'[k].owner = u
             PROVE  key[k] # NoKey /\ key[k].live /\ key[k].owner = u
  BY DEF LiveKeys, Live, Exists
<1>1. CASE k \in K
  <2>1. key[k] \in KeyRow /\ key'[k] = [key[k] EXCEPT !.live = FALSE]
    BY <1>1, ExistingKey DEF Revoke
  <2>2. key'[k].live = FALSE
    BY <2>1 DEF KeyRow
  <2> QED BY <2>2
<1>2. CASE k \notin K
  BY <1>2 DEF Revoke
<1> QED BY <1>1, <1>2

(* create_api_key counts and inserts under the lock of the user's row.     *)
LEMMA CreateKeyCounts ==
  ASSUME TypeOK, KeysCounted, NEW w \in Workers, NEW u \in Users, NEW k \in Keys,
         NEW mcp \in BOOLEAN, CreateKey(w, u, k, mcp)
  PROVE  KeysCounted'
<1>1. /\ key' = [key EXCEPT ![k] = Row(u, mcp)] /\ key[k] = NoKey
      /\ extra' = extra /\ plan' = plan
  BY DEF CreateKey, Fresh, Exists
<1>2. key'[k] \in KeyRow /\ key'[k].live /\ key'[k].owner = u
  BY <1>1 DEF TypeOK, Row, KeyRow
<1>3. key'[k] # NoKey
  BY <1>2, RowIsKey
<1>4. \A i \in Keys \ {k} : key'[i] = key[i]
  BY <1>1 DEF TypeOK
<1>5. LiveKeys(u)' = LiveKeys(u) \union {k} /\ k \notin LiveKeys(u)
  BY <1>1, <1>2, <1>3, <1>4 DEF LiveKeys, Live, Exists
<1>6. \A v \in Users \ {u} : LiveKeys(v)' = LiveKeys(v)
  BY <1>1, <1>2, <1>4 DEF LiveKeys, Live, Exists
<1>7. IsFiniteSet(LiveKeys(u)) /\ Cardinality(LiveKeys(u)) < MaxKeys(plan[u])
  BY DEF KeysCounted, CreateKey, MayIssue, WithinQuota
<1>8. IsFiniteSet(LiveKeys(u)') /\ Cardinality(LiveKeys(u)') = Cardinality(LiveKeys(u)) + 1
  BY <1>5, <1>7, FS_AddElement
<1>9. Cardinality(LiveKeys(u)) \in Nat
  BY <1>7, FS_CardinalityType
<1>10. Cardinality(LiveKeys(u)') <= MaxKeys(plan[u]) + extra[u]
  <2>1. MaxKeys(plan[u]) \in Nat /\ extra[u] \in Nat
    BY LimitIsNat DEF TypeOK
  <2> QED BY <1>7, <1>8, <1>9, <2>1
<1> QED BY <1>1, <1>6, <1>8, <1>10 DEF KeysCounted, MaxKeys

(* A rotation replaces an active key, or adds one and is counted in extra. *)
LEMMA RotateCommitCounts ==
  ASSUME TypeOK, KeysCounted, NEW w \in Workers, NEW k \in Keys, RotateCommit(w, k)
  PROVE  KeysCounted'
<1>1. PICK j \in Keys : j = job[w].k /\ key[j] # NoKey /\ key[k] = NoKey
  BY DEF RotateCommit, TypeOK, At, Jobs, Idle, Fresh, Exists
<1>2. PICK o \in Users : o = key[j].owner /\ key[j] \in KeyRow /\ j # k
  BY <1>1, ExistingKey DEF Exists
<1>3. /\ key' = [key EXCEPT ![j].live = FALSE, ![k] = Row(o, key[j].mcp)]
      /\ extra' = IF key[j].live THEN extra ELSE [extra EXCEPT ![o] = @ + 1]
      /\ plan' = plan
  BY <1>1, <1>2 DEF RotateCommit
<1>4. Row(o, key[j].mcp) \in KeyRow /\ Row(o, key[j].mcp).live /\ Row(o, key[j].mcp).owner = o
  BY <1>2 DEF Row, KeyRow
<1>5. /\ key'[j].live = FALSE
      /\ key'[k] = Row(o, key[j].mcp) /\ key'[k] # NoKey
      /\ \A i \in Keys \ {j, k} : key'[i] = key[i]
  BY <1>1, <1>2, <1>3, <1>4, RowIsKey DEF TypeOK, KeyRow
<1>6. \A i : i \in LiveKeys(o)' <=> i \in (LiveKeys(o) \ {j}) \union {k}
  <2> SUFFICES ASSUME NEW i \in Keys
               PROVE  i \in LiveKeys(o)' <=> i \in (LiveKeys(o) \ {j}) \union {k}
    BY DEF LiveKeys
  <2>1. CASE i = j
    BY <1>2, <1>5, <2>1 DEF LiveKeys, Live
  <2>2. CASE i = k
    BY <1>4, <1>5, <2>2 DEF LiveKeys, Live, Exists
  <2>3. CASE i \notin {j, k}
    BY <1>5, <2>3 DEF LiveKeys, Live, Exists
  <2> QED BY <2>1, <2>2, <2>3
<1>7. LiveKeys(o)' = (LiveKeys(o) \ {j}) \union {k}
  BY <1>6
<1>8. k \notin LiveKeys(o) /\ (j \in LiveKeys(o) <=> key[j].live)
  BY <1>1, <1>2 DEF LiveKeys, Live, Exists
<1>9. \A v \in Users \ {o} : LiveKeys(v)' \subseteq LiveKeys(v)
  BY <1>1, <1>2, <1>4, <1>5 DEF LiveKeys, Live, Exists
<1>10. /\ IsFiniteSet(LiveKeys(o)) /\ Cardinality(LiveKeys(o)) <= MaxKeys(plan[o]) + extra[o]
       /\ \A v \in Users : MaxKeys(plan[v]) \in Nat /\ extra[v] \in Nat
  BY <1>2, LimitIsNat DEF KeysCounted, TypeOK
<1>11. /\ IsFiniteSet(LiveKeys(o) \ {j})
       /\ Cardinality(LiveKeys(o) \ {j}) =
            IF j \in LiveKeys(o) THEN Cardinality(LiveKeys(o)) - 1 ELSE Cardinality(LiveKeys(o))
  BY <1>10, FS_RemoveElement
<1>12. /\ IsFiniteSet(LiveKeys(o)')
       /\ Cardinality(LiveKeys(o)') = Cardinality(LiveKeys(o) \ {j}) + 1
  BY <1>7, <1>8, <1>11, FS_AddElement
<1>13. Cardinality(LiveKeys(o)) \in Nat
  BY <1>10, FS_CardinalityType
<1>14. \A v \in Users : extra'[v] = IF v = o /\ ~key[j].live THEN extra[v] + 1 ELSE extra[v]
  BY <1>3 DEF TypeOK
<1>15. Cardinality(LiveKeys(o)') <= MaxKeys(plan[o]) + extra'[o]
  BY <1>2, <1>8, <1>10, <1>11, <1>12, <1>13, <1>14
<1>16. ASSUME NEW v \in Users, v # o
       PROVE  /\ IsFiniteSet(LiveKeys(v)')
              /\ Cardinality(LiveKeys(v)') <= MaxKeys(plan[v]) + extra'[v]
  <2>1. IsFiniteSet(LiveKeys(v)) /\ Cardinality(LiveKeys(v)) <= MaxKeys(plan[v]) + extra[v]
    BY DEF KeysCounted
  <2>2. IsFiniteSet(LiveKeys(v)') /\ Cardinality(LiveKeys(v)') <= Cardinality(LiveKeys(v))
    BY <1>9, <1>16, <2>1, FS_Subset
  <2>3. Cardinality(LiveKeys(v)) \in Nat /\ Cardinality(LiveKeys(v)') \in Nat
    BY <2>1, <2>2, FS_CardinalityType
  <2> QED BY <1>10, <1>14, <1>16, <2>1, <2>2, <2>3
<1> QED BY <1>3, <1>12, <1>15, <1>16 DEF KeysCounted, MaxKeys

(* revoke_api_key takes a key away, so it may take one off what is beyond. *)
LEMMA RevokeKeyCounts ==
  ASSUME TypeOK, KeysCounted, NEW w \in Workers, NEW k \in Keys, RevokeKey(w, k)
  PROVE  KeysCounted'
<1>1. PICK o \in Users : o = key[k].owner /\ key[k] # NoKey /\ key[k].live
  BY ExistingKey DEF RevokeKey, Live, Exists
<1>2. Revoke({k}) /\ plan' = plan
      /\ extra' = [extra EXCEPT ![o] = IF @ = 0 THEN 0 ELSE @ - 1]
  BY <1>1 DEF RevokeKey
<1>3. \A u \in Users : LiveKeys(u)' \subseteq LiveKeys(u)
  BY <1>1, <1>2, RevokedKeys DEF Exists
<1>4. k \in LiveKeys(o) /\ k \notin LiveKeys(o)'
  <2>1. key'[k] = [key[k] EXCEPT !.live = FALSE] /\ key[k] \in KeyRow
    BY <1>1, <1>2, ExistingKey DEF Revoke, Exists
  <2>2. key'[k].live = FALSE
    BY <2>1 DEF KeyRow
  <2> QED BY <1>1, <2>2 DEF LiveKeys, Live, Exists
<1>5. ASSUME NEW u \in Users
      PROVE  /\ IsFiniteSet(LiveKeys(u)')
             /\ Cardinality(LiveKeys(u)') <= MaxKeys(plan[u]) + extra'[u]
  <2>1. /\ IsFiniteSet(LiveKeys(u)) /\ Cardinality(LiveKeys(u)) <= MaxKeys(plan[u]) + extra[u]
        /\ MaxKeys(plan[u]) \in Nat /\ extra[u] \in Nat
    BY LimitIsNat DEF KeysCounted, TypeOK
  <2>2. Cardinality(LiveKeys(u)) \in Nat
    BY <2>1, FS_CardinalityType
  <2>3. CASE u = o
    <3>1. /\ IsFiniteSet(LiveKeys(o) \ {k})
          /\ Cardinality(LiveKeys(o) \ {k}) = Cardinality(LiveKeys(o)) - 1
      BY <1>4, <2>1, <2>3, FS_RemoveElement
    <3>2. LiveKeys(o)' \subseteq LiveKeys(o) \ {k}
      BY <1>3, <1>4
    <3>3. /\ IsFiniteSet(LiveKeys(o)')
          /\ Cardinality(LiveKeys(o)') <= Cardinality(LiveKeys(o) \ {k})
      BY <3>1, <3>2, FS_Subset
    <3>4. Cardinality(LiveKeys(o)') \in Nat
      BY <3>3, FS_CardinalityType
    <3>5. extra'[o] = IF extra[o] = 0 THEN 0 ELSE extra[o] - 1
      BY <1>2 DEF TypeOK
    <3> QED BY <2>1, <2>2, <2>3, <3>1, <3>3, <3>4, <3>5
  <2>4. CASE u # o
    <3>1. extra'[u] = extra[u]
      BY <1>2, <2>4 DEF TypeOK
    <3>2. /\ IsFiniteSet(LiveKeys(u)')
          /\ Cardinality(LiveKeys(u)') <= Cardinality(LiveKeys(u))
      BY <1>3, <2>1, FS_Subset
    <3>3. Cardinality(LiveKeys(u)') \in Nat
      BY <3>2, FS_CardinalityType
    <3> QED BY <2>1, <2>2, <3>1, <3>2, <3>3
  <2> QED BY <2>3, <2>4
<1> QED BY <1>2, <1>5 DEF KeysCounted, MaxKeys

(* A closure leaves no key, hence none beyond the plan.                    *)
LEMMA CloseRevokesCounts ==
  ASSUME TypeOK, KeysCounted, NEW w \in Workers, CloseRevokes(w)
  PROVE  KeysCounted'
<1>1. PICK o \in Users : o = job[w].u
  BY DEF CloseRevokes, TypeOK, At, Jobs, Idle
<1>2. Revoke(LiveKeys(o)) /\ plan' = plan /\ extra' = [extra EXCEPT ![o] = 0]
  BY <1>1 DEF CloseRevokes
<1>3. \A u \in Users : LiveKeys(u)' \subseteq LiveKeys(u)
  <2>1. LiveKeys(o) \in SUBSET Keys /\ \A k \in LiveKeys(o) : Exists(k)
    BY DEF LiveKeys, Live
  <2> QED BY <1>2, <2>1, RevokedKeys
<1>4. LiveKeys(o)' = {}
  <2> SUFFICES ASSUME NEW k \in LiveKeys(o)'
               PROVE  FALSE
    OBVIOUS
  <2>1. k \in LiveKeys(o) /\ k \in Keys /\ key'[k].live
    BY <1>3 DEF LiveKeys, Live
  <2>2. key'[k] = [key[k] EXCEPT !.live = FALSE] /\ key[k] \in KeyRow
    BY <1>2, <2>1, ExistingKey DEF Revoke, LiveKeys, Live
  <2>3. key'[k].live = FALSE
    BY <2>2 DEF KeyRow
  <2> QED BY <2>1, <2>3
<1>5. ASSUME NEW u \in Users
      PROVE  /\ IsFiniteSet(LiveKeys(u)')
             /\ Cardinality(LiveKeys(u)') <= MaxKeys(plan[u]) + extra'[u]
  <2>1. /\ IsFiniteSet(LiveKeys(u)) /\ Cardinality(LiveKeys(u)) <= MaxKeys(plan[u]) + extra[u]
        /\ MaxKeys(plan[u]) \in Nat /\ extra[u] \in Nat
    BY LimitIsNat DEF KeysCounted, TypeOK
  <2>2. CASE u = o
    <3>1. extra'[u] = 0
      BY <1>2, <2>2 DEF TypeOK
    <3>2. IsFiniteSet(LiveKeys(u)') /\ Cardinality(LiveKeys(u)') = 0
      BY <1>4, <2>2, FS_EmptySet
    <3> QED BY <2>1, <3>1, <3>2
  <2>3. CASE u # o
    <3>1. extra'[u] = extra[u]
      BY <1>2, <2>3 DEF TypeOK
    <3>2. /\ IsFiniteSet(LiveKeys(u)')
          /\ Cardinality(LiveKeys(u)') <= Cardinality(LiveKeys(u))
      BY <1>3, <2>1, FS_Subset
    <3>3. Cardinality(LiveKeys(u)') \in Nat /\ Cardinality(LiveKeys(u)) \in Nat
      BY <2>1, <3>2, FS_CardinalityType
    <3> QED BY <2>1, <3>1, <3>2, <3>3
  <2> QED BY <2>2, <2>3
<1> QED BY <1>2, <1>5 DEF KeysCounted, MaxKeys

(* A plan that goes down leaves its keys, which extra accounts for.        *)
LEMMA PlanChangesCounts ==
  ASSUME TypeOK, KeysCounted, NEW u \in Users, NEW p \in Plans, PlanChanges(u, p)
  PROVE  KeysCounted' /\ extra' \in [Users -> Nat] /\ plan' \in [Users -> Plans]
<1>1. /\ plan' = [plan EXCEPT ![u] = p]
      /\ extra' = [extra EXCEPT ![u] = Excess(u, p)]
      /\ key' = key
  BY DEF PlanChanges
<1>2. \A v \in Users : LiveKeys(v)' = LiveKeys(v)
  BY <1>1 DEF LiveKeys, Live, Exists
<1>3. \A v \in Users : /\ IsFiniteSet(LiveKeys(v)) /\ Cardinality(LiveKeys(v)) \in Nat
                       /\ Cardinality(LiveKeys(v)) <= MaxKeys(plan[v]) + extra[v]
  BY FS_CardinalityType DEF KeysCounted
<1>4. Excess(u, p) \in Nat /\ Cardinality(LiveKeys(u)) <= MaxKeys(p) + Excess(u, p)
  BY <1>3, LimitIsNat DEF Excess
<1>5. extra' \in [Users -> Nat] /\ plan' \in [Users -> Plans]
  BY <1>1, <1>4 DEF TypeOK
<1>6. ASSUME NEW v \in Users
      PROVE  /\ IsFiniteSet(LiveKeys(v)')
             /\ Cardinality(LiveKeys(v)') <= MaxKeys(plan'[v]) + extra'[v]
  <2>1. CASE v = u
    <3>1. plan'[v] = p /\ extra'[v] = Excess(u, p)
      BY <1>1, <2>1 DEF TypeOK
    <3> QED BY <1>2, <1>3, <1>4, <2>1, <3>1
  <2>2. CASE v # u
    <3>1. plan'[v] = plan[v] /\ extra'[v] = extra[v]
      BY <1>1, <2>2 DEF TypeOK
    <3> QED BY <1>2, <1>3, <3>1
  <2> QED BY <2>1, <2>2
<1> QED BY <1>5, <1>6 DEF KeysCounted, MaxKeys

(* Billing leaves keys, caches and requests alone, so it is calm.          *)
LEMMA PlanChangesIsCalm ==
  ASSUME TypeOK, KeysCounted, NEW u \in Users, NEW p \in Plans, PlanChanges(u, p)
  PROVE  Calm /\ now' = now /\ Quiet
<1>1. key' \in [Keys -> {NoKey} \union KeyRow] /\ OwnersKept
  BY RowsUntouched DEF PlanChanges
<1>2. \A v \in Workers : At(v, "rotate")' => Exists(job[v].k)'
  BY <1>1, RotationsKept DEF PlanChanges
<1>3. extra' \in [Users -> Nat] /\ plan' \in [Users -> Plans]
  BY PlanChangesCounts
<1>4. ops' \in 0 .. MaxOps
  BY NumbersAssumption DEF PlanChanges, Counted, TypeOK
<1> QED BY <1>1, <1>2, <1>3, <1>4, TypedNow DEF PlanChanges, Calm, Typed, Quiet

(* The count is kept by every step.                                        *)
LEMMA NextCounts == TypeOK /\ KeysCounted /\ [Next]_vars => KeysCounted'
<1> SUFFICES ASSUME TypeOK, KeysCounted, [Next]_vars
             PROVE  KeysCounted'
  OBVIOUS
<1>1. ASSUME key' = key, extra' = extra, plan' = plan
      PROVE  KeysCounted'
  <2>1. \A u \in Users : LiveKeys(u)' \subseteq LiveKeys(u)
    BY <1>1 DEF LiveKeys, Live, Exists
  <2> QED BY <1>1, <2>1, FewerKeys
<1>4. ASSUME NEW w \in Workers, Handler(w)
      PROVE  KeysCounted'
  <2>1. ASSUME NEW k \in Keys, RotateRead(w, k)
        PROVE  key' = key /\ extra' = extra /\ plan' = plan
    BY <2>1 DEF RotateRead
  <2>2. ASSUME NEW u \in Users, Suspend(w, u) \/ Unsuspend(w, u) \/ Close(w, u) \/ Unlink(w, u)
                                \/ LinkStart(w, u) \/ \E s \in Subjects : LinkRead(w, u, s)
        PROVE  key' = key /\ extra' = extra /\ plan' = plan
    BY <2>2 DEF Suspend, Unsuspend, Close, Unlink, LinkStart, LinkRead
  <2>3. ASSUME LinkCommit(w)
        PROVE  key' = key /\ extra' = extra /\ plan' = plan
    BY <2>3 DEF LinkCommit
  <2> QED BY <1>1, <1>4, <2>1, <2>2, <2>3, CreateKeyCounts, RotateCommitCounts, RevokeKeyCounts,
             CloseRevokesCounts DEF Handler
<1>5. ASSUME NEW w \in Workers, McpRequest(w)
      PROVE  key' = key /\ extra' = extra /\ plan' = plan
  BY <1>5 DEF McpRequest, Hit, LookupOnLoop, Lookup, LookupInsert, OAuthVerify, OAuthResolve,
     OAuthServe, Abandon
<1>6. ASSUME Tick \/ (\E w \in Workers : Crash(w)) \/ UNCHANGED vars
      PROVE  key' = key /\ extra' = extra /\ plan' = plan
  BY <1>6 DEF Tick, Crash, vars
<1> QED BY <1>1, <1>4, <1>5, <1>6, PlanChangesCounts DEF Next

----------------------------------------------------------------------------
(* The invariant holds.                                                    *)

(* At the start there are no keys and no links, so no claim is good.       *)
LEMMA NothingGood == Init => \A c \in Claims : ~Good(c)
<1> SUFFICES ASSUME Init, NEW c \in Claims
             PROVE  ~Good(c)
  OBVIOUS
<1>1. c[1] \in Keys \union Subjects /\ c[2] \in Users
  BY DEF Claims, Credentials
<1>2. CASE c[1] \in Keys
  BY <1>2 DEF Init, Good, KeyIsGood, KeyFound, Live, Exists
<1>3. CASE c[1] \notin Keys
  BY <1>1, <1>3, NamesAssumption DEF Init, Good, SubjectIsGood, NoSubject
<1> QED BY <1>2, <1>3

(* How old a claim may be is a number.                                     *)
LEMMA BoundIsNat == \A c \in Claims : Bound[c] \in Nat
BY NumbersAssumption DEF Bound

(* The program starts in the invariant: with empty caches and no lookup.   *)
LEMMA InitInv == Init => Inv
<1> SUFFICES ASSUME Init
             PROVE  Inv
  OBVIOUS
<1>1. Idle.pc = "idle" /\ Idle \in Looking /\ Idle \in Jobs
  BY DEF Idle, Looking, Jobs
<1>2. \A c \in Claims : lastValid[c] \in Int /\ lastValid[c] <= now
  BY BoundIsNat DEF Init
<1>3. Remembered
  BY <1>2, NothingGood DEF Remembered
<1>4. CacheBacked
  BY DEF Init, CacheBacked
<1>5. \A w \in Workers : look[w].pc = "idle" /\ job[w].pc = "idle"
  BY <1>1 DEF Init
<1>6. LookupBacked
  BY <1>5 DEF LookupBacked
<1>7. lastValid \in [Claims -> Int]
  BY <1>2 DEF Init
<1>8. Typed
  BY <1>1, <1>5, NumbersAssumption, PlansAssumption DEF Init, Typed, At
<1>9. \A w \in Workers, k \in Keys : cache[w][k] = 0
  BY DEF Init
<1>10. TypeOK
  BY <1>5, <1>7, <1>8, <1>9 DEF TypeOK, Typed
<1> QED BY <1>3, <1>4, <1>6, <1>10 DEF Inv

(* ... and with no keys at all.                                            *)
LEMMA InitCounts == Init => KeysCounted
<1> SUFFICES ASSUME Init, NEW u \in Users
             PROVE  /\ IsFiniteSet(LiveKeys(u))
                    /\ Cardinality(LiveKeys(u)) <= MaxKeys(plan[u]) + extra[u]
  BY DEF KeysCounted
<1>1. LiveKeys(u) = {}
  BY DEF Init, LiveKeys, Live, Exists
<1> QED BY <1>1, FS_EmptySet, LimitIsNat DEF Init

(* Every handler of the web API is calm.                                   *)
LEMMA HandlerIsCalm ==
  ASSUME TypeOK, NEW w \in Workers, Handler(w)
  PROVE  Calm /\ now' = now /\ Quiet
<1>1. ASSUME NEW k \in Keys, NEW u \in Users, NEW mcp \in BOOLEAN, CreateKey(w, u, k, mcp)
      PROVE  Calm /\ now' = now /\ Quiet
  BY <1>1, CreateKeyIsCalm DEF CreateKey
<1>2. ASSUME NEW k \in Keys, RevokeKey(w, k)
      PROVE  Calm /\ now' = now /\ Quiet
  BY <1>2, RevokeKeyIsCalm DEF RevokeKey
<1>3. ASSUME NEW k \in Keys, RotateRead(w, k)
      PROVE  Calm /\ now' = now /\ Quiet
  BY <1>3, RotateReadIsCalm DEF RotateRead
<1>4. ASSUME NEW k \in Keys, RotateCommit(w, k)
      PROVE  Calm /\ now' = now /\ Quiet
  BY <1>4, RotateCommitIsCalm DEF RotateCommit
<1>5. ASSUME NEW u \in Users, Suspend(w, u) \/ Unsuspend(w, u)
      PROVE  Calm /\ now' = now /\ Quiet
  BY <1>5, SuspendIsCalm DEF Suspend, Unsuspend
<1>6. ASSUME NEW u \in Users, Close(w, u)
      PROVE  Calm /\ now' = now /\ Quiet
  BY <1>6, CloseIsCalm DEF Close
<1>7. ASSUME CloseRevokes(w)
      PROVE  Calm /\ now' = now /\ Quiet
  BY <1>7, CloseRevokesIsCalm DEF CloseRevokes
<1>8. ASSUME NEW u \in Users, LinkStart(w, u) \/ Unlink(w, u)
      PROVE  Calm /\ now' = now /\ Quiet
  BY <1>8, UnlinkIsCalm DEF LinkStart, Unlink
<1>9. ASSUME NEW u \in Users, NEW s \in Subjects, LinkRead(w, u, s)
      PROVE  Calm /\ now' = now /\ Quiet
  BY <1>9, LinkReadIsCalm DEF LinkRead
<1>10. ASSUME LinkCommit(w)
       PROVE  Calm /\ now' = now /\ Quiet
  BY <1>10, LinkCommitIsCalm DEF LinkCommit
<1> QED BY <1>1, <1>2, <1>3, <1>4, <1>5, <1>6, <1>7, <1>8, <1>9, <1>10 DEF Handler

(* Every step keeps the invariant.                                         *)
LEMMA NextKeepsInv == Inv /\ KeysCounted /\ [Next]_vars => Inv'
<1> SUFFICES ASSUME Inv, KeysCounted, [Next]_vars
             PROVE  Inv'
  OBVIOUS
<1>1. TypeOK
  BY DEF Inv
<1>2. CASE Tick
  BY <1>2, TickKeeps
<1>3. ASSUME NEW w \in Workers, Handler(w)
      PROVE  Inv'
  BY <1>1, <1>3, HandlerIsCalm, CalmKeeps
<1>4. ASSUME NEW w \in Workers, Crash(w) \/ Abandon(w)
      PROVE  Inv'
  BY <1>1, <1>4, CrashIsCalm, CalmKeeps
<1>5. ASSUME NEW w \in Workers, NEW k \in Keys, Hit(w, k)
      PROVE  Inv'
  BY <1>1, <1>5, HitIsCalm, CalmKeeps
<1>6. ASSUME NEW w \in Workers, OAuthServe(w)
      PROVE  Inv'
  BY <1>1, <1>6, OAuthServeIsCalm, CalmKeeps
<1>7. ASSUME NEW w \in Workers, McpRequest(w)
      PROVE  Inv'
  BY <1>4, <1>5, <1>6, <1>7, LookupOnLoopKeeps, LookupKeeps, LookupInsertKeeps,
     OAuthVerifyKeeps, OAuthResolveKeeps DEF McpRequest
<1>8. ASSUME NEW u \in Users, NEW p \in Plans, PlanChanges(u, p)
      PROVE  Inv'
  BY <1>1, <1>8, PlanChangesIsCalm, CalmKeeps
<1>9. CASE UNCHANGED vars
  <2>1. \A c \in Claims : Good(c)' <=> Good(c)
    BY <1>9 DEF vars, Good, KeyIsGood, KeyFound, Live, Exists, SubjectIsGood
  <2>2. TypeOK'
    BY <1>9 DEF Inv, vars, TypeOK, At, Exists
  <2>3. Remembered'
    BY <1>9, <2>1 DEF Inv, vars, Remembered, Claims, Credentials
  <2>4. CacheBacked'
    BY <1>9 DEF Inv, vars, CacheBacked, Exists
  <2>5. LookupBacked'
    BY <1>9 DEF Inv, vars, LookupBacked, ReadRecently
  <2> QED BY <2>2, <2>3, <2>4, <2>5 DEF Inv
<1> QED BY <1>2, <1>3, <1>4, <1>7, <1>8, <1>9 DEF Next

(* The inductive invariant: what is cached or being looked up was good for *)
(* its account recently enough (core/user_cache.py, mcp_token_verifiers),  *)
(* and the keys of each user are finitely many and accounted for.          *)
THEOREM Invariance == Spec => [](Inv /\ KeysCounted)
<1>1. Init => Inv /\ KeysCounted
  BY InitInv, InitCounts
<1>2. Inv /\ KeysCounted /\ [Next]_vars => (Inv /\ KeysCounted)'
  BY NextKeepsInv, NextCounts DEF Inv
<1> QED BY <1>1, <1>2, PTL DEF Spec

(* The types: a cached key always has a row, with an entry that expires    *)
(* within a lifetime, and a rotation goes on with a row that still exists. *)
THEOREM ApiKeyTypes == Spec => []TypeOK
<1>1. Inv => TypeOK
  BY DEF Inv
<1> QED BY <1>1, Invariance, PTL

----------------------------------------------------------------------------
(* The refinement.  Steps that serve nobody map to AbsChange or AbsTick,   *)
(* requests to AbsServe.                                                   *)

(* What is good maps to a function of the claims.                          *)
LEMMA GoodIsValid ==
  /\ [c \in Claims |-> Good(c)] \in [Claims -> BOOLEAN]
  /\ [c \in Claims |-> Good(c)]' \in [Claims -> BOOLEAN]
  /\ [c \in Claims |-> Good(c)]' = [c \in Claims |-> Good(c)']
<1>1. \A c \in Claims : Good(c) \in BOOLEAN /\ Good(c)' \in BOOLEAN
  BY DEF Good, KeyIsGood, KeyFound, Live, SubjectIsGood
<1>2. Claims' = Claims
  BY DEF Claims, Credentials
<1> QED BY <1>1, <1>2

(* The initial states map to initial states.                               *)
LEMMA InitRefines == Init => Abstract!AbsInit
<1> SUFFICES ASSUME Init
             PROVE  Abstract!AbsInit
  OBVIOUS
<1>1. \A c \in Claims : ~Good(c)
  BY NothingGood
<1>2. lastValid = [c \in Claims |-> IF [d \in Claims |-> Good(d)][c] THEN 0 ELSE 0 - Bound[c] - 1]
  BY <1>1 DEF Init
<1> QED BY <1>2, GoodIsValid DEF Init, Abstract!AbsInit

(* Rows may change as they like as long as nothing is served.              *)
LEMMA QuietRefines ==
  ASSUME Quiet, now' = now
  PROVE  Abstract!AbsChange
BY GoodIsValid DEF Quiet, Remember, Abstract!AbsChange

(* The clock advances while the rows stay.                                 *)
LEMMA TickRefines ==
  ASSUME Inv, Tick
  PROVE  Abstract!AbsTick
<1>1. \A c \in Claims : Good(c)' <=> Good(c)
  BY DEF Tick, Good, KeyIsGood, KeyFound, Live, Exists, SubjectIsGood
<1>2. [c \in Claims |-> Good(c)]' = [c \in Claims |-> Good(c)]
  <2>1. \A c \in Claims : Good(c)' = Good(c)
    BY <1>1 DEF Good, KeyIsGood, KeyFound, Live, SubjectIsGood
  <2> QED BY <2>1, GoodIsValid
<1>3. lastValid' = [c \in Claims |->
                      IF [d \in Claims |-> Good(d)][c] THEN now + 1 ELSE lastValid[c]]
  BY <1>1 DEF Tick, Quiet, Remember
<1> QED BY <1>2, <1>3 DEF Tick, Quiet, Abstract!AbsTick

(* A request on a claim that was good recently enough.                     *)
LEMMA ServeRefines ==
  ASSUME Inv, UNCHANGED <<now, account, key, link>>, Remember,
         NEW c \in Claims, now <= lastValid[c] + Bound[c], Serve(c)
  PROVE  Abstract!AbsServe(c)
<1>1. lastValid' = lastValid /\ \A d \in Claims : Good(d)' <=> Good(d)
  BY Steady
<1>2. [d \in Claims |-> Good(d)]' = [d \in Claims |-> Good(d)]
  <2>1. \A d \in Claims : Good(d)' = Good(d)
    BY <1>1 DEF Good, KeyIsGood, KeyFound, Live, SubjectIsGood
  <2> QED BY <2>1, GoodIsValid
<1>3. now - lastValid[c] <= Bound[c]
  BY BoundIsNat DEF Inv, TypeOK
<1> QED BY <1>1, <1>2, <1>3 DEF Serve, Abstract!AbsServe

(* A key in the cache was good a lifetime and a lookup ago at most, as its *)
(* entry has not expired.                                                  *)
LEMMA HitRefines ==
  ASSUME Inv, NEW w \in Workers, NEW k \in Keys, Hit(w, k)
  PROVE  Abstract!AbsServe(<<k, key[k].owner>>)
<1> DEFINE c == <<k, key[k].owner>>
<1>1. c \in Claims /\ key[k].owner \in Users
  BY CachedClaim DEF Hit, Inv
<1>2. now < cache[w][k] /\ cache[w][k] <= lastValid[c] + TTL + MaxLookup
  BY DEF Hit, Inv, CacheBacked
<1>3. lastValid[c] \in Int /\ cache[w][k] \in Nat /\ now \in Nat /\ Bound[c] = TTL + MaxLookup
  BY <1>1, GoodKey DEF Inv, TypeOK
<1>4. now <= lastValid[c] + Bound[c]
  BY <1>2, <1>3, NumbersAssumption
<1>5. UNCHANGED <<now, account, key, link>> /\ Remember /\ Serve(c)
  BY DEF Hit
<1> HIDE DEF c
<1>6. Abstract!AbsServe(c)
  BY <1>1, <1>4, <1>5, ServeRefines
<1> QED BY <1>6 DEF c

(* ApiKeyMiddleware serves on a key that is good at this instant.          *)
LEMMA LookupOnLoopRefines ==
  ASSUME Inv, NEW w \in Workers, NEW k \in Keys, LookupOnLoop(w, k)
  PROVE  Abstract!AbsServe(<<k, key[k].owner>>)
<1> DEFINE c == <<k, key[k].owner>>
<1>1. key[k].owner \in Users /\ KeyIsGood(k, key[k].owner)
  BY ExistingKey DEF LookupOnLoop, Inv
<1>2. c \in Claims /\ lastValid[c] = now
  BY <1>1, GoodKey DEF Inv, Remembered
<1>3. now <= lastValid[c] + Bound[c]
  BY <1>2, BoundIsNat DEF Inv, TypeOK
<1>4. UNCHANGED <<now, account, key, link>> /\ Remember /\ Serve(c)
  BY DEF LookupOnLoop
<1> HIDE DEF c
<1>5. Abstract!AbsServe(c)
  BY <1>2, <1>3, <1>4, ServeRefines
<1> QED BY <1>5 DEF c

(* The verifier serves on a key that was good when its lookup read it.     *)
LEMMA LookupInsertRefines ==
  ASSUME Inv, NEW w \in Workers, LookupInsert(w)
  PROVE  Abstract!AbsServe(<<look[w].c, key[look[w].c].owner>>)
<1> DEFINE k == look[w].c
           c == <<k, key[k].owner>>
<1>1. /\ k \in Keys /\ Exists(k) /\ look[w].since \in Nat
      /\ ReadRecently(k, key[k].owner, look[w].since)
  BY LookingFor DEF LookupInsert, Inv, LookupBacked
<1>2. c \in Claims /\ key[k].owner \in Users
  BY <1>1, ExistingKey, GoodKey DEF Inv
<1>3. lastValid[c] \in Int /\ now \in Nat /\ Bound[c] = TTL + MaxLookup
  BY <1>1, <1>2, GoodKey DEF Inv, TypeOK
<1>4. now <= lastValid[c] + Bound[c]
  BY <1>1, <1>3, NumbersAssumption DEF ReadRecently
<1>5. UNCHANGED <<now, account, key, link>> /\ Remember /\ Serve(c)
  BY DEF LookupInsert
<1> HIDE DEF c
<1>6. Abstract!AbsServe(c)
  BY <1>2, <1>4, <1>5, ServeRefines
<1> QED BY <1>6 DEF c

(* An OAuth identity was linked to the active account when it was resolved.*)
LEMMA OAuthServeRefines ==
  ASSUME Inv, NEW w \in Workers, OAuthServe(w)
  PROVE  Abstract!AbsServe(<<look[w].c, look[w].u>>)
<1> DEFINE c == <<look[w].c, look[w].u>>
<1>1. /\ look[w].c \in Subjects /\ look[w].u \in Users /\ look[w].since \in Nat
      /\ ReadRecently(look[w].c, look[w].u, look[w].since)
  BY LookingFor DEF OAuthServe, Inv, LookupBacked
<1>2. c \in Claims /\ Bound[c] = MaxLookup
  BY <1>1, GoodSubject
<1>3. lastValid[c] \in Int /\ now \in Nat
  BY <1>2 DEF Inv, TypeOK
<1>4. now <= lastValid[c] + Bound[c]
  BY <1>1, <1>2, <1>3, NumbersAssumption DEF ReadRecently
<1>5. UNCHANGED <<now, account, key, link>> /\ Remember /\ Serve(c)
  BY DEF OAuthServe
<1> HIDE DEF c
<1>6. Abstract!AbsServe(c)
  BY <1>2, <1>4, <1>5, ServeRefines
<1> QED BY <1>6 DEF c

(* Every step maps to a step of the abstract specification or a stutter.   *)
LEMMA NextRefines ==
  Inv /\ KeysCounted /\ [Next]_vars => [Abstract!AbsNext]_(Abstract!absVars)
<1> SUFFICES ASSUME Inv, KeysCounted, [Next]_vars
             PROVE  Abstract!AbsNext \/ UNCHANGED Abstract!absVars
  OBVIOUS
<1>1. CASE Tick
  BY <1>1, TickRefines DEF Abstract!AbsNext
<1>2. ASSUME NEW w \in Workers, Handler(w)
      PROVE  Abstract!AbsChange
  BY <1>2, HandlerIsCalm, QuietRefines DEF Inv
<1>3. ASSUME NEW w \in Workers, Crash(w)
      PROVE  Abstract!AbsChange
  BY <1>3, QuietRefines DEF Crash
<1>4. ASSUME NEW w \in Workers, McpRequest(w)
      PROVE  Abstract!AbsNext
  <2>1. ASSUME NEW k \in Keys, Hit(w, k)
        PROVE  \E c \in Claims : Abstract!AbsServe(c)
    <3>1. <<k, key[k].owner>> \in Claims
      BY <2>1, CachedClaim DEF Hit, Inv
    <3> QED BY <2>1, <3>1, HitRefines
  <2>2. ASSUME NEW k \in Keys, LookupOnLoop(w, k)
        PROVE  \E c \in Claims : Abstract!AbsServe(c)
    <3>1. <<k, key[k].owner>> \in Claims
      BY <2>2, ExistingKey, GoodKey DEF LookupOnLoop, Inv
    <3> QED BY <2>2, <3>1, LookupOnLoopRefines
  <2>3. ASSUME LookupInsert(w)
        PROVE  \E c \in Claims : Abstract!AbsServe(c)
    <3>1. look[w].c \in Keys /\ Exists(look[w].c)
      BY <2>3, LookingFor DEF LookupInsert, Inv
    <3>2. <<look[w].c, key[look[w].c].owner>> \in Claims
      BY <3>1, ExistingKey, GoodKey DEF Inv
    <3> QED BY <2>3, <3>2, LookupInsertRefines
  <2>4. ASSUME OAuthServe(w)
        PROVE  \E c \in Claims : Abstract!AbsServe(c)
    <3>1. look[w].c \in Subjects /\ look[w].u \in Users
      BY <2>4, LookingFor DEF OAuthServe, Inv
    <3>2. <<look[w].c, look[w].u>> \in Claims
      BY <3>1, GoodSubject
    <3> QED BY <2>4, <3>2, OAuthServeRefines
  <2>5. ASSUME NEW k \in Keys, Lookup(w, k)
        PROVE  Abstract!AbsChange
    BY <2>5, QuietRefines DEF Lookup
  <2>6. ASSUME NEW s \in Subjects, OAuthVerify(w, s)
        PROVE  Abstract!AbsChange
    BY <2>6, QuietRefines DEF OAuthVerify
  <2>7. ASSUME NEW u \in Users, OAuthResolve(w, u)
        PROVE  Abstract!AbsChange
    BY <2>7, QuietRefines DEF OAuthResolve
  <2>8. ASSUME Abandon(w)
        PROVE  Abstract!AbsChange
    BY <2>8, QuietRefines DEF Abandon
  <2> QED BY <1>4, <2>1, <2>2, <2>3, <2>4, <2>5, <2>6, <2>7, <2>8
          DEF McpRequest, Abstract!AbsNext
<1>5. CASE UNCHANGED vars
  <2>1. \A c \in Claims : Good(c)' = Good(c)
    BY <1>5 DEF vars, Good, KeyIsGood, KeyFound, Live, Exists, SubjectIsGood
  <2>2. [c \in Claims |-> Good(c)]' = [c \in Claims |-> Good(c)]
    BY <2>1, GoodIsValid
  <2> QED BY <1>5, <2>2 DEF vars, Abstract!absVars
<1>6. ASSUME NEW u \in Users, NEW p \in Plans, PlanChanges(u, p)
      PROVE  Abstract!AbsChange
  BY <1>6, PlanChangesIsCalm, QuietRefines DEF Inv
<1> QED BY <1>1, <1>2, <1>3, <1>4, <1>5, <1>6 DEF Next, Abstract!AbsNext

(* A revocation, suspension, closure or unlinking takes effect in every    *)
(* worker within the bound of BoundedStaleness, whatever a lookup in a     *)
(* thread, a cache or a restart does in between.                           *)
THEOREM Refinement == Spec => ServesOnlyRecentClaims
<1>1. Init => Abstract!AbsInit
  BY InitRefines
<1>2. Inv /\ KeysCounted /\ [Next]_vars => [Abstract!AbsNext]_(Abstract!absVars)
  BY NextRefines
<1> QED BY <1>1, <1>2, Invariance, PTL DEF Spec, ServesOnlyRecentClaims, Abstract!AbsSpec

----------------------------------------------------------------------------

(* The plan's number of keys: whatever rotations, revocations, closures    *)
(* and changes of plan in several workers do, every key above the limit of *)
(* the present plan was within an earlier plan's, or is a rotation of a    *)
(* key that was already gone.                                              *)
THEOREM KeysStayWithinPlan == Spec => []KeysWithinPlan
<1>1. KeysCounted => KeysWithinPlan
  BY DEF KeysCounted, KeysWithinPlan
<1> QED BY <1>1, Invariance, PTL

=============================================================================
