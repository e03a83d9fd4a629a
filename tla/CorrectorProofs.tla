-------------------------- MODULE CorrectorProofs --------------------------
(***************************************************************************)
(* Proofs about SqlValidator and Corrector, for any set of statements a    *)
(* model may write and any number of questions, tables and threads: both   *)
(* invariants of the run, and the safety part of the refinement to         *)
(* CorrectionLoop.  That the verdict comes is liveness, and stays with     *)
(* TLC.                                                                    *)
(***************************************************************************)
EXTENDS Corrector, SequenceTheorems, WellFoundedInduction, FiniteSetTheorems, TLAPS

----------------------------------------------------------------------------
(* SqlValidator.                                                           *)

(* Max of the community modules is the maximum of a set of naturals that   *)
(* is bounded: the least of its bounds belongs to it.                      *)
LEMMA MaxExists ==
  ASSUME NEW S, S \subseteq Nat, S # {}, NEW n \in Nat, \A i \in S : i <= n
  PROVE  Max(S) \in S /\ \A i \in S : i <= Max(S)
<1> DEFINE T == {b \in Nat : \A i \in S : i <= b}
           R == OpToRel(<, Nat)
<1>1. IsWellFoundedOn(R, Nat)
  BY NatLessThanWellFounded
<1>2. T \subseteq Nat /\ T # {}
  OBVIOUS
<1> HIDE DEF T, R
<1>3. PICK b \in T : \A c \in T : ~(<<c, b>> \in R)
  BY <1>1, <1>2, WFMin
<1>4. \A c \in T : b <= c
  <2>1. R = {p \in Nat \X Nat : p[1] < p[2]}
    BY DEF OpToRel, R
  <2>2. \A c \in T : c \in Nat /\ b \in Nat /\ ~(c < b)
    BY <1>2, <1>3, <2>1
  <2> QED BY <2>2
<1>5. b \in S
  <2> SUFFICES ASSUME b \notin S PROVE FALSE
    OBVIOUS
  <2>1. b \in Nat /\ \A i \in S : i \in Nat /\ i < b
    BY <1>2 DEF T
  <2>2. b - 1 \in Nat /\ \A i \in S : i <= b - 1
    <3>1. PICK i \in S : TRUE
      OBVIOUS
    <3>2. b - 1 \in Nat
      BY <2>1, <3>1
    <3> QED BY <2>1, <3>2
  <2>3. b - 1 \in T
    BY <2>2 DEF T
  <2> QED BY <1>4, <2>1, <2>3
<1>6. \A i \in S : i <= b /\ b >= i
  BY <1>2 DEF T
<1> QED BY <1>5, <1>6 DEF Max

(* A finite set with two elements has not at most one.                     *)
LEMMA TwoElements ==
  ASSUME NEW S, IsFiniteSet(S), Cardinality(S) <= 1, NEW a \in S, NEW b \in S
  PROVE  a = b
<1> SUFFICES ASSUME a # b PROVE FALSE
  OBVIOUS
<1>1. IsFiniteSet({a}) /\ Cardinality({a}) = 1
  BY FS_Singleton
<1>2. Cardinality({a} \union {b}) = Cardinality({a}) + 1
  BY <1>1, FS_AddElement
<1>3. Cardinality({a} \union {b}) <= Cardinality(S)
  <2>1. {a} \union {b} \subseteq S
    OBVIOUS
  <2> QED BY <2>1, FS_Subset
<1>4. Cardinality(S) \in Nat
  BY FS_CardinalityType
<1> QED BY <1>1, <1>2, <1>3, <1>4

(* What DraftsAssumption says of one draft.                                *)
LEMMA DraftFacts ==
  ASSUME NEW sql \in Drafts
  PROVE  /\ sql \in Seq({sql[i] : i \in Positions(sql)}) /\ Len(sql) \in Nat
         /\ Positions(sql) = 1 .. Len(sql)
         /\ \A i \in Positions(sql) :
              /\ "kind" \in DOMAIN sql[i]
              /\ sql[i].kind = "int" \/ Seen(sql[i]) = "int"
                   => "value" \in DOMAIN sql[i] /\ sql[i].value \in Nat
<1>1. sql \in Seq({sql[i] : i \in Positions(sql)})
  BY DraftsAssumption
<1>2. Len(sql) \in Nat
  BY <1>1
<1>3. Positions(sql) = 1 .. Len(sql)
  BY DEF Positions
<1>4. ASSUME NEW i \in Positions(sql)
      PROVE  /\ "kind" \in DOMAIN sql[i]
             /\ sql[i].kind = "int" \/ Seen(sql[i]) = "int"
                  => "value" \in DOMAIN sql[i] /\ sql[i].value \in Nat
  BY DraftsAssumption
<1> QED BY <1>1, <1>2, <1>3, <1>4

(* A statement is finite.                                                  *)
LEMMA FinitelyMany ==
  ASSUME NEW sql, Len(sql) \in Nat
  PROVE  IsFiniteSet(1 .. Len(sql))
BY FS_Interval

(* What is shown of a draft to the scans of the masked text.               *)
LEMMA ShownFacts ==
  ASSUME NEW sql \in Drafts
  PROVE  /\ Positions(Shown(sql)) = Positions(sql)
         /\ \A i \in Positions(sql) : Shown(sql)[i].kind = Seen(sql[i])
<1> DEFINE t == Shown(sql)
<1>1. t = [i \in 1 .. Len(sql) |-> [sql[i] EXCEPT !.kind = Seen(sql[i])]]
  BY DraftFacts DEF Shown
<1>2. ASSUME NEW i \in Positions(sql)
      PROVE  t[i].kind = Seen(sql[i])
  <2>1. t[i] = [sql[i] EXCEPT !.kind = Seen(sql[i])] /\ "kind" \in DOMAIN sql[i]
    BY <1>1, <1>2, DraftFacts
  <2> QED BY <2>1
<1> HIDE DEF t
<1>3. t \in Seq({t[i] : i \in 1 .. Len(sql)}) /\ Len(t) = Len(sql)
  BY <1>1, DraftFacts
<1>4. Positions(t) = Positions(sql)
  BY <1>3 DEF Positions
<1> QED BY <1>2, <1>4 DEF t

(* A query that is one statement begins only once.                         *)
LEMMA BeginsOnce ==
  ASSUME NEW sql, Len(sql) \in Nat, StatementCount(sql) <= 1, StartsAsQuery(sql)
  PROVE  \A i \in Positions(sql) :
           i # 1 /\ Is(sql, i - 1, "semi") => sql[i].kind \in {"semi", "note"}
<1> DEFINE B == {i \in Positions(sql) : /\ sql[i].kind \notin {"semi", "note"}
                                        /\ i = 1 \/ Is(sql, i - 1, "semi")}
<1>1. IsFiniteSet(B) /\ Cardinality(B) <= 1
  <2>1. IsFiniteSet(1 .. Len(sql))
    BY FS_Interval
  <2>2. B \subseteq 1 .. Len(sql)
    BY DEF Positions
  <2>3. IsFiniteSet(B)
    BY <2>1, <2>2, FS_Subset
  <2> QED BY <2>3 DEF StatementCount
<1>2. 1 \in B
  BY DEF StartsAsQuery, Is, Where
<1> SUFFICES ASSUME NEW i \in Positions(sql), i # 1, i \in B
             PROVE  FALSE
  OBVIOUS
<1> HIDE DEF B
<1> QED BY <1>1, <1>2, TwoElements

(* And the other way round.                                                *)
LEMMA OneStatement ==
  ASSUME NEW sql, StartsAsQuery(sql),
         \A i \in Positions(sql) :
           i # 1 /\ Is(sql, i - 1, "semi") => sql[i].kind \in {"semi", "note"}
  PROVE  StatementCount(sql) = 1
<1>1. {i \in Positions(sql) : /\ sql[i].kind \notin {"semi", "note"}
                              /\ i = 1 \/ Is(sql, i - 1, "semi")} = {1}
  BY DEF StartsAsQuery, Is, Where
<1> QED BY <1>1, FS_Singleton DEF StatementCount

(* A statement with one LIMIT of its own, on a number, returns that many   *)
(* rows at most.                                                           *)
LEMMA RowsOfLimit ==
  ASSUME NEW sql, Len(sql) \in Nat, NEW x \in OwnLimits(sql), Cardinality(OwnLimits(sql)) <= 1,
         IsWhole(sql, x + 1), sql[x + 1].value \in Nat, sql[x + 1].value <= MaxQueryRows
  PROVE  RowsAtMost(sql) <= MaxQueryRows
<1> DEFINE v == sql[x + 1].value
<1>1. IsFiniteSet(OwnLimits(sql))
  <2>1. IsFiniteSet(1 .. Len(sql))
    BY FS_Interval
  <2>2. OwnLimits(sql) \subseteq 1 .. Len(sql)
    BY DEF OwnLimits, Read, Positions
  <2> QED BY <2>1, <2>2, FS_Subset
<1>2. OwnLimits(sql) = {x}
  BY <1>1, TwoElements
<1>3. {sql[i + 1].value : i \in {j \in OwnLimits(sql) : IsWhole(sql, j + 1)}} = {v}
  BY <1>2
<1>4. v < BigResult /\ v \in Nat /\ BigResult \in Nat /\ MaxQueryRows \in Nat
  BY RowsAssumption
<1> HIDE DEF v
<1>5. Min({v} \union {BigResult}) = v
  BY <1>4 DEF Min
<1> QED BY <1>3, <1>4, <1>5 DEF RowsAtMost, v

\* What OnlyBoundedQueriesRun says of one statement.
Bounded(sql) ==
  /\ StatementCount(sql) = 1
  /\ Changes(sql) => Has(sql, "effect")
  /\ WellFormed(sql) /\ ReadAlike(sql) => RowsAtMost(sql) <= MaxQueryRows

(* Three tokens are appended to a sequence.                                *)
LEMMA ThreeMore ==
  ASSUME NEW X, NEW s \in Seq(X), NEW a \in X, NEW b \in X, NEW c \in X
  PROVE  /\ Len(s \o <<a, b, c>>) = Len(s) + 3
         /\ \A i \in 1 .. Len(s) : (s \o <<a, b, c>>)[i] = s[i]
         /\ (s \o <<a, b, c>>)[Len(s) + 1] = a
         /\ (s \o <<a, b, c>>)[Len(s) + 2] = b
         /\ (s \o <<a, b, c>>)[Len(s) + 3] = c
<1> DEFINE t == <<a, b, c>>
<1>1. t \in Seq(X) /\ Len(t) = 3 /\ t[1] = a /\ t[2] = b /\ t[3] = c
  OBVIOUS
<1> HIDE DEF t
<1>2. Len(s) \in Nat
  OBVIOUS
<1>3. /\ Len(s \o t) = Len(s) + Len(t)
      /\ \A i \in 1 .. Len(s) + Len(t) : (s \o t)[i] = IF i <= Len(s) THEN s[i] ELSE t[i - Len(s)]
  <2>1. t \in Seq(X)
    BY <1>1
  <2> QED BY <2>1, ConcatProperties, Zenon
<1> DEFINE m == s \o t
<1> HIDE DEF m
<1>4. /\ Len(m) = Len(s) + 3
      /\ \A i \in 1 .. Len(s) + 3 : m[i] = IF i <= Len(s) THEN s[i] ELSE t[i - Len(s)]
  BY <1>1, <1>3 DEF m
<1>5. /\ \A i \in 1 .. Len(s) : m[i] = s[i]
      /\ m[Len(s) + 1] = t[1] /\ m[Len(s) + 2] = t[2] /\ m[Len(s) + 3] = t[3]
  BY <1>2, <1>4
<1> QED BY <1>1, <1>4, <1>5 DEF m, t

(* LIMIT is appended to what remains of the statement without its trailing *)
(* semicolons.                                                             *)
LEMMA LimitAppended ==
  ASSUME NEW sql \in Drafts, StartsAsQuery(sql),
         NEW m, m = WithoutSemicolon(sql) \o <<Limit, Number(MaxQueryRows), Semicolon>>
  PROVE  \E n \in Positions(sql) :
           /\ Len(m) = n + 3 /\ ~Is(sql, n, "semi")
           /\ \A i \in 1 .. n : m[i] = sql[i]
           /\ m[n + 1] = Limit /\ m[n + 2] = Number(MaxQueryRows) /\ m[n + 3] = Semicolon
<1> DEFINE S == {0} \union {i \in Positions(sql) : ~Is(sql, i, "semi")}
           n == Max(S)
           tail == <<Limit, Number(MaxQueryRows), Semicolon>>
           X == {sql[i] : i \in Positions(sql)} \union {Limit, Number(MaxQueryRows), Semicolon}
<1>1. /\ sql \in Seq({sql[i] : i \in Positions(sql)}) /\ Len(sql) \in Nat
      /\ Positions(sql) = 1 .. Len(sql)
  BY DraftFacts
<1>2. n \in S /\ S \subseteq Nat /\ \A i \in S : i <= n
  <2>1. S \subseteq Nat /\ S # {} /\ \A i \in S : i <= Len(sql)
    BY <1>1
  <2> HIDE DEF S
  <2> QED BY <1>1, <2>1, MaxExists
<1>3. n \in Positions(sql) /\ ~Is(sql, n, "semi")
  <2>1. 1 \in S
    BY DEF StartsAsQuery, Is, Where
  <2>2. n # 0
    BY <1>2, <2>1
  <2> QED BY <1>2, <2>2
<1> HIDE DEF n, S
<1>4. /\ SubSeq(sql, 1, n) \in Seq(X) /\ Len(SubSeq(sql, 1, n)) = n
      /\ \A i \in 1 .. n : SubSeq(sql, 1, n)[i] = sql[i]
  <2>1. sql \in Seq(X)
    BY <1>1
  <2> HIDE DEF X
  <2> QED BY <1>1, <1>3, <2>1
<1>6. m = SubSeq(sql, 1, n) \o tail
  BY DEF WithoutSemicolon, n, S
<1> HIDE DEF tail, X
<1>7. /\ Len(m) = n + 3
      /\ \A i \in 1 .. n : m[i] = sql[i]
      /\ m[n + 1] = Limit /\ m[n + 2] = Number(MaxQueryRows) /\ m[n + 3] = Semicolon
  <2>1. /\ SubSeq(sql, 1, n) \in Seq(X)
        /\ Limit \in X /\ Number(MaxQueryRows) \in X /\ Semicolon \in X
    BY <1>4 DEF X
  <2>2. n \in Nat
    BY <1>1, <1>3
  <2> DEFINE head == SubSeq(sql, 1, n)
  <2>3. /\ head \in Seq(X) /\ Len(head) = n /\ \A i \in 1 .. n : head[i] = sql[i]
        /\ m = head \o <<Limit, Number(MaxQueryRows), Semicolon>>
    BY <1>4, <1>6 DEF tail
  <2> HIDE DEF head
  <2>4. /\ Len(m) = Len(head) + 3
        /\ \A i \in 1 .. Len(head) : m[i] = head[i]
        /\ m[Len(head) + 1] = Limit /\ m[Len(head) + 2] = Number(MaxQueryRows)
        /\ m[Len(head) + 3] = Semicolon
    BY <2>1, <2>3, ThreeMore
  <2> QED BY <2>2, <2>3, <2>4
<1> QED BY <1>3, <1>7

(* A statement without a LIMIT of its own gets one, unless a parenthesis   *)
(* or a comment swallows it.                                               *)
LEMMA AppendedIsBounded ==
  ASSUME NEW sql \in Drafts, ReadOnly(sql), NEW m, NEW n \in Positions(sql),
         Len(m) = n + 3, ~Is(sql, n, "semi"), \A i \in 1 .. n : m[i] = sql[i],
         m[n + 1] = Limit, m[n + 2] = Number(MaxQueryRows), m[n + 3] = Semicolon
  PROVE  Bounded(m)
<1>1. /\ Len(m) = n + 3 /\ ~Is(sql, n, "semi") /\ \A i \in 1 .. n : m[i] = sql[i]
      /\ m[n + 1] = Limit /\ m[n + 2] = Number(MaxQueryRows) /\ m[n + 3] = Semicolon
  OBVIOUS
<1>2. /\ Len(sql) \in Nat /\ n \in 1 .. Len(sql) /\ Positions(m) = 1 .. n + 3
      /\ Positions(sql) = 1 .. Len(sql)
  BY <1>1 , DraftFacts DEF Positions
<1>3. \A i \in Positions(m),
         kind \in {"semi", "write", "limit", "int", "open", "close", "select", "more"} :
        Is(m, i, kind) <=> \/ i <= n /\ Is(sql, i, kind)
                           \/ i = n + 1 /\ kind = "limit"
                           \/ i = n + 2 /\ kind = "int"
                           \/ i = n + 3 /\ kind = "semi"
  <2> SUFFICES ASSUME NEW i \in Positions(m),
                      NEW kind \in {"semi", "write", "limit", "int", "open", "close",
                                    "select", "more"}
               PROVE  m[i].kind = kind <=> \/ i <= n /\ sql[i].kind = kind
                                           \/ i = n + 1 /\ kind = "limit"
                                           \/ i = n + 2 /\ kind = "int"
                                           \/ i = n + 3 /\ kind = "semi"
    BY <1>2 DEF Is, Where
  <2>1. /\ Limit.kind = "limit" /\ Number(MaxQueryRows).kind = "int" /\ Semicolon.kind = "semi"
        /\ n \in Nat /\ i \in 1 .. n + 3
    BY <1>2 DEF Limit, Number, Semicolon
  <2>2. CASE i <= n
    BY <1>1, <2>1, <2>2
  <2>3. CASE i = n + 1
    BY <1>1, <2>1, <2>3
  <2>4. CASE i = n + 2
    BY <1>1, <2>1, <2>4
  <2>5. CASE i = n + 3
    BY <1>1, <2>1, <2>5
  <2> QED BY <2>1, <2>2, <2>3, <2>4, <2>5
<1>4. StatementCount(m) = 1
  <2>1. StartsAsQuery(m)
    BY <1>2, <1>3 DEF ReadOnly, StartsAsQuery
  <2>2. \A i \in Positions(sql) :
           i # 1 /\ Is(sql, i - 1, "semi") => sql[i].kind \in {"semi", "note"}
    BY <1>2, BeginsOnce DEF ReadOnly
  <2>3. ASSUME NEW i \in Positions(m), i # 1, Is(m, i - 1, "semi")
        PROVE  m[i].kind \in {"semi", "note"}
    <3>1. i - 1 \in Positions(m) /\ i - 1 # n + 3
      BY <1>2, <2>3
    <3>2. i - 1 <= n /\ Is(sql, i - 1, "semi")
      BY <1>2, <1>3, <2>3, <3>1
    <3>3. i \in Positions(sql) /\ i \in 1 .. n
      BY <1>1, <1>2, <3>2
    <3> QED BY <1>1, <2>2, <2>3, <3>2, <3>3
  <2> QED BY <2>1, <2>3, OneStatement
<1>5. Changes(m) => Has(m, "effect")
  <2>1. \A i \in Positions(m) : ~Is(m, i, "write")
    BY <1>2, <1>3 DEF ReadOnly, Writes, Has, Is
  <2>2. ~Writes(m)
    BY <2>1 DEF Writes, Has, Is, Where
  <2> QED BY <2>2 DEF Changes
<1>6. ASSUME WellFormed(m), ~Has(m, "note")
      PROVE  RowsAtMost(m) <= MaxQueryRows
  <2>1. Is(m, n + 1, "limit") /\ Is(m, n + 2, "int") /\ m[n + 2].value = MaxQueryRows
    <3>1. n \in Nat /\ n + 1 \in Positions(m) /\ n + 2 \in Positions(m)
      BY <1>2
    <3>2. m[n + 2].value = MaxQueryRows
      BY <1>1 DEF Number
    <3> QED BY <1>3, <3>1, <3>2
  <2>2. Depth(m, n + 1) = Depth(m, Len(m) + 1)
    <3>1. {j \in Where(m, "open") : j < n + 1} = {j \in Where(m, "open") : j < Len(m) + 1}
      <4>1. \A j \in Where(m, "open") : j \in 1 .. n
        BY <1>2, <1>3 DEF Where, Is
      <4> QED BY <1>1, <1>2, <4>1
    <3>2. {j \in Where(m, "close") : j < n + 1} = {j \in Where(m, "close") : j < Len(m) + 1}
      <4>1. \A j \in Where(m, "close") : j \in 1 .. n
        BY <1>2, <1>3 DEF Where, Is
      <4> QED BY <1>1, <1>2, <4>1
    <3> QED BY <3>1, <3>2 DEF Depth
  <2>3. n + 1 \in OwnLimits(m)
    <3>1. n + 1 \in Read(m)
      BY <1>2, <1>6 DEF Read, Has
    <3> QED BY <1>6, <2>1, <2>2, <3>1 DEF WellFormed, OwnLimits
  <2>4. Len(m) \in Nat /\ n + 1 + 1 = n + 2
    BY <1>1, <1>2
  <2>5. /\ IsWhole(m, (n + 1) + 1) /\ m[(n + 1) + 1].value \in Nat
        /\ m[(n + 1) + 1].value <= MaxQueryRows
    <3>1. n \in Nat /\ n + 2 + 1 = n + 3 /\ n + 3 \in Positions(m)
      BY <1>2
    <3>2. ~Is(m, n + 2 + 1, "more")
      BY <1>3, <3>1
    <3> QED BY <2>1, <2>4, <3>2, RowsAssumption DEF IsWhole
  <2> QED BY <1>6, <2>3, <2>4, <2>5, RowsOfLimit DEF WellFormed
<1> QED BY <1>4, <1>5, <1>6 DEF Bounded, ReadAlike

(* The number of a LIMIT is replaced where it is too large.                *)
LEMMA ClampedIsBounded ==
  ASSUME NEW sql \in Drafts, ReadOnly(sql), LimitAt(Shown(sql)) # {},
         NEW m, m = [i \in Positions(sql) |->
            IF i \in LimitAt(Shown(sql)) /\ sql[i].value > MaxQueryRows
            THEN [sql[i] EXCEPT !.value = MaxQueryRows] ELSE sql[i]]
  PROVE  Bounded(m)
<1>1. /\ sql \in Seq({sql[i] : i \in Positions(sql)}) /\ Len(sql) \in Nat
      /\ Positions(sql) = 1 .. Len(sql)
      /\ \A i \in Positions(sql) : "kind" \in DOMAIN sql[i]
  BY DraftFacts
<1>2. PICK s : s = Shown(sql)
  OBVIOUS
<1>3. Positions(s) = Positions(sql) /\ \A i \in Positions(sql) : s[i].kind = Seen(sql[i])
  BY <1>2, ShownFacts
<1>4. TopLevelLimits(s) # {}
  BY <1>2 DEF LimitAt
<1>5. PICK at : at = Min(TopLevelLimits(s)) + 1 /\ LimitAt(s) = {at} /\ Is(s, at, "int")
  BY <1>2, <1>4 DEF LimitAt
<1>6. at \in Positions(sql) /\ sql[at].value \in Nat /\ "value" \in DOMAIN sql[at]
  <2>1. at \in Positions(sql) /\ Seen(sql[at]) = "int"
    BY <1>3, <1>5 DEF Is, Where
  <2> QED BY <2>1, DraftFacts
<1>7. m = [i \in 1 .. Len(sql) |->
            IF i = at /\ sql[i].value > MaxQueryRows
            THEN [sql[i] EXCEPT !.value = MaxQueryRows] ELSE sql[i]]
  BY <1>1, <1>2, <1>5
<1>8. Len(m) = Len(sql) /\ Positions(m) = Positions(sql)
  <2>1. m \in Seq({m[i] : i \in 1 .. Len(sql)})
    BY <1>1, <1>7
  <2> QED BY <1>1, <1>7, <2>1 DEF Positions
<1>9. ASSUME NEW i \in Positions(sql)
      PROVE  m[i].kind = sql[i].kind /\ Seen(m[i]) = Seen(sql[i])
  <2>1. CASE m[i] = sql[i]
    BY <2>1
  <2>2. CASE m[i] = [sql[i] EXCEPT !.value = MaxQueryRows]
    <3>1. "kind" \in DOMAIN sql[i]
      BY <1>1
    <3> QED BY <2>2, <3>1 DEF Seen
  <2> QED BY <1>1, <1>7, <2>1, <2>2
<1>10. m[at].value \in Nat /\ m[at].value <= MaxQueryRows
  <2>1. CASE sql[at].value > MaxQueryRows
    <3>1. m[at] = [sql[at] EXCEPT !.value = MaxQueryRows]
      BY <1>1, <1>6, <1>7, <2>1
    <3>2. m[at].value = MaxQueryRows
      BY <1>6, <3>1
    <3> QED BY <3>2, RowsAssumption
  <2>2. CASE ~(sql[at].value > MaxQueryRows)
    <3>1. m[at] = sql[at]
      BY <1>1, <1>6, <1>7, <2>2
    <3> QED BY <1>6, <2>2, <3>1, RowsAssumption
  <2> QED BY <2>1, <2>2
<1>11. \A kind : Where(m, kind) = Where(sql, kind)
  BY <1>8, <1>9 DEF Where
<1>12. StatementCount(m) = 1 /\ (Changes(m) => Has(m, "effect"))
  <2>1. StartsAsQuery(m)
    BY <1>11 DEF ReadOnly, StartsAsQuery, Is
  <2>2. \A i \in Positions(m) : i # 1 /\ Is(m, i - 1, "semi") => m[i].kind \in {"semi", "note"}
    BY <1>1, <1>8, <1>9, <1>11, BeginsOnce DEF ReadOnly, Is
  <2>3. ~Writes(m)
    BY <1>11 DEF ReadOnly, Writes, Has
  <2> QED BY <2>1, <2>2, <2>3, OneStatement DEF Changes
<1>13. ASSUME WellFormed(m), ReadAlike(m)
       PROVE  RowsAtMost(m) <= MaxQueryRows
  <2>1. ASSUME NEW i \in Positions(sql)
        PROVE  s[i].kind = m[i].kind
    <3>1. i \in Positions(m) /\ Decoys(m) = {}
      BY <1>8, <1>13, <2>1 DEF ReadAlike
    <3>2. Seen(m[i]) = m[i].kind
      BY <3>1 DEF Decoys
    <3>3. Seen(m[i]) = Seen(sql[i]) /\ s[i].kind = Seen(sql[i])
      BY <1>3, <1>9, <2>1
    <3> QED BY <3>2, <3>3
  <2>2. \A kind : Where(m, kind) = Where(s, kind)
    BY <1>3, <1>8, <2>1 DEF Where
  <2>3. \A i : Depth(m, i) = Depth(s, i)
    BY <2>2 DEF Depth
  <2>4. OwnLimits(m) = TopLevelLimits(s)
    <3>1. Where(m, "note") = {}
      BY <1>13 DEF ReadAlike, Has
    <3>2. Read(m) = Positions(m)
      BY <3>1 DEF Read
    <3> QED BY <2>2, <2>3, <3>2 DEF OwnLimits, TopLevelLimits, Is, Where
  <2>5. IsFiniteSet(OwnLimits(m))
    <3>1. Len(sql) \in Nat
      BY <1>1
    <3>2. IsFiniteSet(1 .. Len(sql))
      BY <3>1, FinitelyMany
    <3>3. OwnLimits(m) \subseteq 1 .. Len(sql)
      BY <1>1, <1>8 DEF OwnLimits, Read
    <3> QED BY <3>2, <3>3, FS_Subset
  <2>6. PICK x \in OwnLimits(m) : TRUE
    BY <1>4, <2>4
  <2>7. OwnLimits(m) = {x}
    BY <1>13, <2>5, TwoElements DEF WellFormed
  <2>8. x \in Nat
    BY <1>1, <1>8 DEF OwnLimits, Read
  <2>9. at = x + 1
    BY <1>5, <2>4, <2>7, <2>8 DEF Min
  <2>10. Is(m, x + 1, "int")
    BY <1>5, <2>2, <2>9 DEF Is
  <2>11. ~Is(m, x + 2, "more") /\ x + 1 + 1 = x + 2
    BY <1>13, <2>6, <2>8, <2>10 DEF ReadAlike, ExtendsLimit
  <2>12. IsWhole(m, x + 1)
    BY <2>10, <2>11 DEF IsWhole
  <2> QED BY <1>1, <1>8, <1>10, <1>13, <2>9, <2>12, RowsOfLimit DEF WellFormed
<1> QED BY <1>12, <1>13 DEF Bounded

(* Whatever the model writes, what validate lets through is bounded.       *)
LEMMA LimitedIsBounded ==
  ASSUME NEW sql \in Drafts, ReadOnly(sql)
  PROVE  Bounded(Limited(sql))
<1>1. CASE HasAggregation(Shown(sql))
  <2>1. Len(sql) \in Nat
    BY DraftFacts
  <2>2. StatementCount(sql) = 1 /\ ~Writes(sql)
    BY <2>1, BeginsOnce, OneStatement DEF ReadOnly
  <2>3. ~ReadAlike(sql)
    <3>1. SUFFICES ASSUME Decoys(sql) = {} PROVE HasAggregation(sql)
      BY DEF ReadAlike
    <3>2. PICK i \in Positions(sql) : Shown(sql)[i].kind = "group"
      BY <1>1, ShownFacts DEF HasAggregation, Has, Where
    <3>3. sql[i].kind = "group"
      BY <3>1, <3>2, ShownFacts DEF Decoys
    <3> QED BY <3>3 DEF HasAggregation, Has, Where
  <2> QED BY <1>1, <2>2, <2>3 DEF Limited, Bounded, Changes
<1>2. CASE ~HasAggregation(Shown(sql)) /\ LimitAt(Shown(sql)) = {}
  <2> DEFINE m == WithoutSemicolon(sql) \o <<Limit, Number(MaxQueryRows), Semicolon>>
  <2>1. Limited(sql) = m
    BY <1>2 DEF Limited
  <2> HIDE DEF m
  <2>2. \E n \in Positions(sql) :
           /\ Len(m) = n + 3 /\ ~Is(sql, n, "semi")
           /\ \A i \in 1 .. n : m[i] = sql[i]
           /\ m[n + 1] = Limit /\ m[n + 2] = Number(MaxQueryRows) /\ m[n + 3] = Semicolon
    BY LimitAppended DEF ReadOnly, m
  <2> QED BY <2>1, <2>2, AppendedIsBounded
<1>3. CASE ~HasAggregation(Shown(sql)) /\ LimitAt(Shown(sql)) # {}
  BY <1>3, ClampedIsBounded DEF Limited
<1> QED BY <1>1, <1>2, <1>3

----------------------------------------------------------------------------
(* Corrector.                                                              *)

Stages == {"new", "model", "pause", "queued", "running", "answered", "failed"}

\* The stages of a call that is under way.
Busy == {"model", "pause", "queued", "running"}

\* A statement that a call may hold.
Statements == {<<>>} \union {Limited(sql) : sql \in Drafts}

Call == [pc : Stages, sql : Statements, attempt : Nat, consumed : Nat,
         refreshed : BOOLEAN, need : Nat, learned : Nat, excused : BOOLEAN]

\* The statement has been validated.
Checked(sql) == \E draft \in Drafts : ReadOnly(draft) /\ sql = Limited(draft)

\* What is known of a call when the schema is at the version now and was read
\* at the version read: it keeps to its attempts, and the inspector has read what the
\* call needs to know, or will, unless the refresh failed.
Sound(c, now, read) ==
  /\ c.attempt <= MaxRetries
  /\ c.need <= read \/ c.excused
  /\ c.need <= now /\ c.learned <= now
  /\ c.pc = "new" => c.attempt = 0
  /\ c.pc = "model" => c.need <= c.learned \/ c.excused
  /\ c.pc \in {"pause", "queued", "running", "answered"} => c.attempt > 0
  /\ c.pc \in {"queued", "running"} => Checked(c.sql)

InspectorOK ==
  /\ dialect \in Dialects /\ tables \subseteq Tables
  /\ version \in 0 .. MaxChanges /\ readAt \in 0 .. version
  /\ names = Unread \/ names \subseteq Tables
  /\ text \in BOOLEAN /\ described \in BOOLEAN
  /\ (text => described) /\ (described => names # Unread)

PoolOK ==
  /\ late \in Nat /\ IsFiniteSet(Running)
  /\ Cardinality(Running) + late <= PoolSize

CallsOK ==
  /\ ask \in [Questions -> Call]
  /\ \A q \in Questions : Sound(ask[q], version, readAt)

Inv == InspectorOK /\ PoolOK /\ CallsOK

----------------------------------------------------------------------------
(* The inspector.                                                          *)

\* It learns of the schema, or forgets it in order to read it anew.
Inspects ==
  /\ InspectorOK'
  /\ UNCHANGED <<dialect, tables, version>>
  /\ readAt \in 0 .. readAt'

(* Reading the names.                                                      *)
LEMMA NamesFacts ==
  ASSUME InspectorOK
  PROVE  /\ NamesRead \subseteq Tables /\ NamesRead # Unread
         /\ VersionRead \in 0 .. version /\ readAt \in 0 .. VersionRead
<1>1. /\ version \in Nat /\ readAt \in Nat /\ readAt <= version
      /\ tables \subseteq Tables /\ (names = Unread \/ names \subseteq Tables)
  BY LimitsAssumption DEF InspectorOK
<1>2. "unread" \notin Tables
  BY TablesAssumption DEF Unread
<1>3. tables # Unread
  BY <1>1, <1>2 DEF Unread
<1>4. CASE names = Unread
  BY <1>1, <1>3, <1>4 DEF NamesRead, VersionRead
<1>5. CASE names # Unread
  BY <1>1, <1>5 DEF NamesRead, VersionRead
<1> QED BY <1>4, <1>5

(* The names alone are read, by the validator or by another tool.          *)
LEMMA ReadNamesInspects ==
  ASSUME InspectorOK, ReadNames \/ UNCHANGED <<names, readAt>>,
         UNCHANGED <<dialect, tables, version, described, text>>
  PROVE  Inspects
<1>1. readAt \in Nat /\ version \in Nat
  BY LimitsAssumption DEF InspectorOK
<1>2. CASE ReadNames
  BY <1>1, <1>2, NamesFacts DEF InspectorOK, Inspects, ReadNames
<1>3. CASE UNCHANGED <<names, readAt>>
  BY <1>1, <1>3 DEF InspectorOK, Inspects
<1> QED BY <1>2, <1>3

(* The schema is read as text.                                             *)
LEMMA GetFullSchemaInspects ==
  ASSUME InspectorOK, GetFullSchema, UNCHANGED <<dialect, tables, version>>
  PROVE  Inspects
<1>1. readAt \in Nat /\ version \in Nat /\ SchemaReadable \in BOOLEAN
  BY LimitsAssumption DEF InspectorOK, SchemaReadable
<1>2. CASE UNCHANGED <<names, readAt, described, text>>
  BY <1>1, <1>2 DEF InspectorOK, Inspects
<1>3. CASE text' \in {SchemaReadable, FALSE} /\ ReadNames /\ described' = (described \/ text')
  <2>1. /\ names' \subseteq Tables /\ names' # Unread
        /\ readAt' \in 0 .. version /\ readAt \in 0 .. readAt'
    BY <1>3, NamesFacts DEF ReadNames
  <2>2. text' \in BOOLEAN
    BY <1>1, <1>3
  <2>3. described' \in BOOLEAN /\ (text' => described')
    BY <1>3, <2>2 DEF InspectorOK
  <2> QED BY <2>1, <2>2, <2>3 DEF InspectorOK, Inspects
<1>4. \/ UNCHANGED <<names, readAt, described, text>>
      \/ text' \in {SchemaReadable, FALSE} /\ ReadNames /\ described' = (described \/ text')
  BY DEF GetFullSchema
<1> QED BY <1>2, <1>3, <1>4

(* A refresh succeeds, fails, or does not happen.                          *)
LEMMA RefreshInspects ==
  ASSUME InspectorOK, UNCHANGED <<dialect, tables, version>>,
         Refresh \/ RefreshFails \/ UNCHANGED <<names, readAt, described, text>>
  PROVE  Inspects
<1>1. readAt \in Nat /\ version \in Nat /\ readAt <= version
  BY LimitsAssumption DEF InspectorOK
<1>2. CASE Refresh
  <2>1. text' = FALSE /\ described' = FALSE /\ names' = Unread /\ readAt' = version
    BY <1>2 DEF Refresh
  <2>2. readAt' \in 0 .. version /\ readAt \in 0 .. readAt'
    BY <1>1, <2>1
  <2> QED BY <2>1, <2>2 DEF InspectorOK, Inspects
<1>3. CASE RefreshFails
  <2>1. text' = FALSE /\ UNCHANGED <<names, readAt, described>>
    BY <1>3 DEF RefreshFails
  <2>2. readAt \in 0 .. readAt'
    BY <1>1, <2>1
  <2> QED BY <2>1, <2>2 DEF InspectorOK, Inspects
<1>4. CASE UNCHANGED <<names, readAt, described, text>>
  BY <1>1, <1>4 DEF InspectorOK, Inspects
<1> QED BY <1>2, <1>3, <1>4

----------------------------------------------------------------------------
(* The calls.                                                              *)

\* The call of q goes on as c, which is what CorrectionLoop calls work.
Works(q, c) ==
  /\ c \in Call /\ Becomes(q, c) /\ Sound(c, version, readAt')
  /\ ask[q].pc \in Busy /\ c.pc \in Busy \union {"answered", "failed"}
  /\ \/ c.attempt = ask[q].attempt
     \/ c.attempt = ask[q].attempt + 1 /\ ask[q].pc = "model"
  /\ c.need \in {ask[q].need, version}
  /\ c.learned \in 0 .. version
  /\ c.excused => ask[q].excused \/ (c.need = version /\ c.attempt = ask[q].attempt)

(* Only the call that moves changes; what the others know stays true.      *)
LEMMA CallMoves ==
  ASSUME Inv, Inspects, NEW q \in Questions, NEW c \in Call, Becomes(q, c),
         Sound(c, version, readAt')
  PROVE  /\ CallsOK'
         /\ \A p \in Questions : ask'[p] = IF p = q THEN c ELSE ask[p]
<1>1. \A p \in Questions : ask'[p] = IF p = q THEN c ELSE ask[p]
  BY DEF Inv, CallsOK, Becomes
<1>2. ask' \in [Questions -> Call]
  BY DEF Inv, CallsOK, Becomes
<1>3. version' = version /\ readAt' >= readAt /\ readAt' \in Nat /\ readAt \in Nat
  BY LimitsAssumption DEF Inspects, InspectorOK
<1>4. ASSUME NEW p \in Questions
      PROVE  Sound(ask'[p], version', readAt')
  <2>1. CASE p = q
    BY <1>1, <1>3, <2>1
  <2>2. CASE p # q
    <3>1. ask'[p] = ask[p] /\ ask[p].need \in Nat /\ Sound(ask[p], version, readAt)
      BY <1>1, <2>2 DEF Inv, CallsOK, Call
    <3> QED BY <1>3, <3>1 DEF Sound
  <2> QED BY <2>1, <2>2
<1> QED BY <1>1, <1>2, <1>4 DEF CallsOK

(* The call that ends keeps its counts.                                    *)
LEMMA Endings ==
  ASSUME NEW c \in Call, NEW verdict \in {"answered", "failed"}
  PROVE  /\ Ended(c, verdict) \in Call /\ Ended(c, verdict).pc = verdict
         /\ Ended(c, verdict).attempt = c.attempt
         /\ Ended(c, verdict).need = c.need /\ Ended(c, verdict).learned = c.learned
         /\ Ended(c, verdict).excused = c.excused
<1>1. <<>> \in Statements /\ verdict \in Stages
  BY DEF Statements, Stages
<1> QED BY <1>1 DEF Ended, Call

(* So does the one that goes on to a repair.                               *)
LEMMA Repairing ==
  ASSUME NEW q \in Questions, NEW c \in Call, RepairOrGiveUp(q, c)
  PROVE  \E d \in Call : /\ Becomes(q, d) /\ d.pc \in {"pause", "failed"}
                         /\ d.attempt = c.attempt /\ d.need = c.need /\ d.learned = c.learned
                         /\ d.excused = c.excused
<1>1. CASE Becomes(q, Failed(c))
  <2>1. PICK d : d = Failed(c)
    OBVIOUS
  <2>2. /\ d \in Call /\ d.pc = "failed" /\ d.attempt = c.attempt
        /\ d.need = c.need /\ d.learned = c.learned /\ d.excused = c.excused
    BY <2>1, Endings DEF Failed
  <2> QED BY <1>1, <2>1, <2>2
<1>2. CASE Becomes(q, [c EXCEPT !.pc = "pause", !.sql = <<>>])
  <2>1. "pause" \in Stages /\ <<>> \in Statements
    BY DEF Stages, Statements
  <2>2. PICK d : d = [c EXCEPT !.pc = "pause", !.sql = <<>>]
    OBVIOUS
  <2>3. /\ d \in Call /\ d.pc = "pause" /\ d.attempt = c.attempt
        /\ d.need = c.need /\ d.learned = c.learned /\ d.excused = c.excused
    BY <2>1, <2>2 DEF Call
  <2> QED BY <1>2, <2>2, <2>3
<1> QED BY <1>1, <1>2 DEF RepairOrGiveUp

(* A call of the inspector's text puts the prompt together, or fails.      *)
LEMMA Prompting ==
  ASSUME Inv, NEW q \in Questions, ask[q].pc \in {"new", "pause"},
         Becomes(q, IF text'
                    THEN [ask[q] EXCEPT !.pc = "model", !.learned = VersionRead]
                    ELSE Failed(ask[q]))
  PROVE  \E c \in Call : /\ Becomes(q, c) /\ c.pc \in {"model", "failed"}
                         /\ c.attempt = ask[q].attempt /\ c.need = ask[q].need
                         /\ c.excused = ask[q].excused
                         /\ \/ c.learned = VersionRead
                            \/ c.pc = "failed" /\ c.learned = ask[q].learned
<1>1. ask[q] \in Call
  BY DEF Inv, CallsOK
<1>2. VersionRead \in Nat
  BY NamesFacts, LimitsAssumption DEF Inv, InspectorOK
<1>3. CASE text'
  <2>1. "model" \in Stages
    BY DEF Stages
  <2>2. PICK c : c = [ask[q] EXCEPT !.pc = "model", !.learned = VersionRead]
    OBVIOUS
  <2>3. /\ c \in Call /\ c.pc = "model" /\ c.attempt = ask[q].attempt
        /\ c.need = ask[q].need /\ c.learned = VersionRead /\ c.excused = ask[q].excused
    BY <1>1, <1>2, <2>1, <2>2 DEF Call
  <2> QED BY <1>3, <2>2, <2>3
<1>4. CASE ~text'
  <2>1. PICK c : c = Failed(ask[q])
    OBVIOUS
  <2>2. /\ c \in Call /\ c.pc = "failed" /\ c.attempt = ask[q].attempt
        /\ c.need = ask[q].need /\ c.learned = ask[q].learned
        /\ c.excused = ask[q].excused
    BY <1>1, <2>1, Endings DEF Failed
  <2> QED BY <1>4, <2>1, <2>2
<1> QED BY <1>3, <1>4

(* The numbers of a call.                                                  *)
LEMMA CallFacts ==
  ASSUME Inv, NEW q \in Questions
  PROVE  /\ ask[q] \in Call /\ Sound(ask[q], version, readAt)
         /\ ask[q].attempt \in Nat /\ ask[q].need \in Nat /\ ask[q].learned \in Nat
         /\ version \in Nat /\ readAt \in Nat /\ readAt <= version
         /\ MaxRetries \in Nat
         /\ ask[q].need <= version /\ ask[q].learned <= version /\ ask[q].attempt <= MaxRetries
         /\ (ask[q].need <= readAt \/ ask[q].excused) /\ ask[q].excused \in BOOLEAN
BY LimitsAssumption DEF Inv, CallsOK, Call, Sound, InspectorOK

(* The question is asked: a draft is requested on the schema as it is read *)
(* now.                                                                    *)
LEMMA GenerateMoves ==
  ASSUME Inv, NEW q \in Questions, Generate(q)
  PROVE  /\ Inspects /\ late' = late /\ ask[q].pc = "new"
         /\ \E c \in Call : /\ Becomes(q, c) /\ Sound(c, version, readAt')
                            /\ c.pc \in {"model", "failed"}
                            /\ c.attempt = ask[q].attempt /\ c.need = ask[q].need
                            /\ c.excused = ask[q].excused /\ c.learned \in 0 .. version
<1>1. Inspects /\ late' = late /\ ask[q].pc = "new"
  BY GetFullSchemaInspects DEF Generate, At, Inv
<1>2. PICK c \in Call : /\ Becomes(q, c) /\ c.pc \in {"model", "failed"}
                        /\ c.attempt = ask[q].attempt /\ c.need = ask[q].need
                        /\ c.excused = ask[q].excused
                        /\ \/ c.learned = VersionRead
                           \/ c.pc = "failed" /\ c.learned = ask[q].learned
  BY <1>1, Prompting DEF Generate
<1>3. VersionRead \in 0 .. version /\ readAt \in 0 .. VersionRead /\ readAt <= readAt'
  BY <1>1, NamesFacts, CallFacts DEF Inv, Inspects
<1>4. readAt' \in Nat
  BY <1>1, LimitsAssumption DEF Inspects, InspectorOK
<1>5. c.learned \in 0 .. version /\ (c.pc = "model" => c.need <= c.learned \/ c.excused)
  BY <1>2, <1>3, CallFacts
<1>6. Sound(c, version, readAt')
  BY <1>2, <1>3, <1>4, <1>5, CallFacts DEF Sound
<1> QED BY <1>1, <1>2, <1>5, <1>6

(* After a schema error the prompt of the repair is put together on what   *)
(* was read since.                                                         *)
LEMMA RepairMoves ==
  ASSUME Inv, NEW q \in Questions, Repair(q)
  PROVE  Inspects /\ late' = late /\ \E c \in Call : Works(q, c) /\ c.pc # "running"
<1>1. Inspects /\ late' = late /\ ask[q].pc = "pause"
  BY GetFullSchemaInspects DEF Repair, At, Inv
<1>2. PICK c \in Call : /\ Becomes(q, c) /\ c.pc \in {"model", "failed"}
                        /\ c.attempt = ask[q].attempt /\ c.need = ask[q].need
                        /\ c.excused = ask[q].excused
                        /\ \/ c.learned = VersionRead
                           \/ c.pc = "failed" /\ c.learned = ask[q].learned
  BY <1>1, Prompting DEF Repair
<1>3. VersionRead \in 0 .. version /\ readAt \in 0 .. VersionRead /\ readAt <= readAt'
  BY <1>1, NamesFacts, CallFacts DEF Inv, Inspects
<1>4. readAt' \in Nat
  BY <1>1, LimitsAssumption DEF Inspects, InspectorOK
<1>5. c.learned \in 0 .. version /\ (c.pc = "model" => c.need <= c.learned \/ c.excused)
  BY <1>2, <1>3, CallFacts
<1>6. Sound(c, version, readAt')
  BY <1>1, <1>2, <1>3, <1>4, <1>5, CallFacts DEF Sound
<1> QED BY <1>1, <1>2, <1>5, <1>6 DEF Works, Busy

(* A call that is under way ends, or goes on to a repair.                  *)
LEMMA QuietMoves ==
  ASSUME Inv, NEW q \in Questions, ask[q].pc \in Busy, Inspects, NEW c \in Call, Becomes(q, c),
         c.pc \in {"pause", "answered", "failed"},
         \/ c.attempt = ask[q].attempt
         \/ c.attempt = ask[q].attempt + 1 /\ ask[q].pc = "model" /\ c.attempt <= MaxRetries,
         c.pc # "failed" => c.attempt > 0,
         \/ c.need = ask[q].need /\ c.excused = ask[q].excused
         \/ /\ c.need = version /\ c.attempt = ask[q].attempt
            /\ readAt' = version \/ c.excused,
         c.learned = ask[q].learned
  PROVE  Works(q, c) /\ c.pc # "running"
<1>1. readAt <= readAt' /\ readAt' \in Nat
  BY LimitsAssumption DEF Inspects, InspectorOK
<1>2. Sound(c, version, readAt')
  BY <1>1, CallFacts DEF Sound
<1>3. c.learned \in 0 .. version
  BY CallFacts
<1> QED BY <1>2, <1>3 DEF Works, Busy

(* A model that does not answer ends the call.                             *)
LEMMA ModelFailsMoves ==
  ASSUME Inv, NEW q \in Questions, ModelFails(q)
  PROVE  Inspects /\ late' = late /\ \E c \in Call : Works(q, c) /\ c.pc # "running"
<1>1. Inspects /\ late' = late /\ ask[q].pc = "model" /\ Becomes(q, Failed(ask[q]))
  BY ReadNamesInspects DEF ModelFails, At, Inv
<1>2. PICK c : c = Failed(ask[q])
  OBVIOUS
<1>3. /\ c \in Call /\ c.pc = "failed" /\ c.attempt = ask[q].attempt
      /\ c.need = ask[q].need /\ c.learned = ask[q].learned
      /\ c.excused = ask[q].excused
  BY <1>2, CallFacts, Endings DEF Failed
<1> QED BY <1>1, <1>2, <1>3, QuietMoves DEF Busy

(* A statement is tried only if there is a turn left, and only as the      *)
(* validator has modified it.                                              *)
LEMMA ModelAnswersMoves ==
  ASSUME Inv, NEW q \in Questions, NEW sql \in Drafts, NEW used \in Costs(q),
         ModelAnswers(q, sql, used)
  PROVE  Inspects /\ late' = late /\ \E c \in Call : Works(q, c) /\ c.pc # "running"
<1> DEFINE a == ask[q]
           c == [a EXCEPT !.consumed = @ + used]
           turn == [c EXCEPT !.attempt = @ + 1]
<1>1. Inspects /\ late' = late /\ ask[q].pc = "model"
  BY ReadNamesInspects DEF ModelAnswers, At, Inv
<1>2. used \in Nat /\ a \in Call
  BY CallFacts, LimitsAssumption DEF Costs
<1>3. /\ c \in Call /\ c.attempt = a.attempt /\ c.need = a.need /\ c.learned = a.learned
      /\ c.excused = a.excused
  <2> DEFINE d == [pc |-> a.pc, sql |-> a.sql, attempt |-> a.attempt,
                   consumed |-> a.consumed + used, refreshed |-> a.refreshed,
                   need |-> a.need, learned |-> a.learned, excused |-> a.excused]
  <2>1. c = d
    BY <1>2 DEF Call
  <2>2. d \in Call
    BY <1>2 DEF Call
  <2> QED BY <2>1, <2>2
<1>4. /\ turn \in Call /\ turn.attempt = a.attempt + 1
      /\ turn.need = a.need /\ turn.learned = a.learned /\ turn.excused = a.excused
  <2> HIDE DEF c
  <2> DEFINE d == [pc |-> c.pc, sql |-> c.sql, attempt |-> c.attempt + 1, consumed |-> c.consumed,
                   refreshed |-> c.refreshed, need |-> c.need, learned |-> c.learned,
                   excused |-> c.excused]
  <2>1. turn = d
    BY <1>3 DEF Call
  <2>2. d \in Call
    BY <1>3 DEF Call
  <2> QED BY <1>3, <2>1, <2>2
<1>5. \/ Becomes(q, Failed(c))
      \/ TurnsLeft(c) /\ Becomes(q, Failed(turn))
      \/ /\ TurnsLeft(c)
         /\ IF IsValid(sql, NamesRead)
            THEN Becomes(q, [turn EXCEPT !.pc = "queued", !.sql = Modified(sql)])
            ELSE RepairOrGiveUp(q, turn)
  BY DEF ModelAnswers
<1> HIDE DEF c, turn
<1>6. CASE Becomes(q, Failed(c))
  <2>1. PICK d : d = Failed(c)
    OBVIOUS
  <2>2. /\ d \in Call /\ d.pc = "failed" /\ d.attempt = a.attempt
        /\ d.need = a.need /\ d.learned = a.learned /\ d.excused = a.excused
    BY <1>3, <2>1, Endings DEF Failed
  <2> QED BY <1>1, <1>6, <2>1, <2>2, QuietMoves DEF Busy
<1>7. TurnsLeft(c) => a.attempt + 1 <= MaxRetries /\ a.attempt + 1 > 0
  BY <1>3, CallFacts DEF TurnsLeft
<1>8. CASE TurnsLeft(c) /\ RepairOrGiveUp(q, turn)
  <2>1. PICK d \in Call : /\ Becomes(q, d) /\ d.pc \in {"pause", "failed"}
                          /\ d.attempt = turn.attempt /\ d.need = turn.need
                          /\ d.learned = turn.learned /\ d.excused = turn.excused
    BY <1>4, <1>8, Repairing
  <2> QED BY <1>1, <1>4, <1>7, <1>8, <2>1, QuietMoves DEF Busy
<1>9. CASE /\ TurnsLeft(c) /\ IsValid(sql, NamesRead)
           /\ Becomes(q, [turn EXCEPT !.pc = "queued", !.sql = Modified(sql)])
  <2>1. "queued" \in Stages /\ Modified(sql) \in Statements /\ Checked(Modified(sql))
    BY <1>9 DEF Stages, Statements, Modified, Checked, IsValid
  <2>2. PICK d : d = [turn EXCEPT !.pc = "queued", !.sql = Modified(sql)]
    OBVIOUS
  <2>3. /\ d \in Call /\ d.pc = "queued" /\ Checked(d.sql) /\ d.attempt = a.attempt + 1
        /\ d.need = a.need /\ d.learned = a.learned /\ d.excused = a.excused
    BY <1>4, <2>1, <2>2 DEF Call
  <2>4. readAt <= readAt' /\ readAt' \in Nat
    BY <1>1, LimitsAssumption DEF Inspects, InspectorOK
  <2>5. Sound(d, version, readAt')
    BY <1>7, <1>9, <2>3, <2>4, CallFacts DEF Sound
  <2>6. d.learned \in 0 .. version
    BY <2>3, CallFacts
  <2> QED BY <1>1, <1>9, <2>2, <2>3, <2>5, <2>6 DEF Works, Busy
<1>10. CASE TurnsLeft(c) /\ Becomes(q, Failed(turn))
  <2>1. PICK d : d = Failed(turn)
    OBVIOUS
  <2>2. /\ d \in Call /\ d.pc = "failed" /\ d.attempt = a.attempt + 1
        /\ d.need = a.need /\ d.learned = a.learned /\ d.excused = a.excused
    BY <1>4, <2>1, Endings DEF Failed
  <2> QED BY <1>1, <1>7, <1>10, <2>1, <2>2, QuietMoves DEF Busy
<1> QED BY <1>5, <1>6, <1>8, <1>9, <1>10

(* After a failed execution the call goes on to a repair, after at most    *)
(* one refresh, or ends.                                                   *)
LEMMA RecoverMoves ==
  ASSUME Inv, NEW q \in Questions, ask[q].pc \in {"queued", "running"}, NEW outcome,
         Recover(q, outcome), UNCHANGED <<dialect, tables, version>>
  PROVE  Inspects /\ \E c \in Call : Works(q, c) /\ c.pc # "running"
<1>1. Inspects
  BY RefreshInspects DEF Recover, Inv
<1>2. ask[q].attempt > 0 /\ ask[q].pc \in Busy
  BY CallFacts DEF Sound, Busy
<1> DEFINE noted == [ask[q] EXCEPT !.need = version, !.excused = FALSE]
<1>3. \/ Becomes(q, Failed(ask[q]))
      \/ RepairOrGiveUp(q, ask[q])
      \/ RepairOrGiveUp(q, [noted EXCEPT !.refreshed = TRUE]) /\ readAt' = version
      \/ RepairOrGiveUp(q, [noted EXCEPT !.excused = TRUE])
  BY DEF Recover, Refresh, Noted
<1>7. PICK e : e = noted
  OBVIOUS
<1>8. /\ e \in Call /\ e.attempt = ask[q].attempt /\ e.need = version
      /\ e.learned = ask[q].learned
  BY <1>7, CallFacts DEF Call
<1> HIDE DEF noted
<1>4. CASE Becomes(q, Failed(ask[q]))
  <2>1. PICK c : c = Failed(ask[q])
    OBVIOUS
  <2>2. /\ c \in Call /\ c.pc = "failed" /\ c.attempt = ask[q].attempt
        /\ c.need = ask[q].need /\ c.learned = ask[q].learned
        /\ c.excused = ask[q].excused
    BY <2>1, CallFacts, Endings DEF Failed
  <2> QED BY <1>1, <1>2, <1>4, <2>1, <2>2, QuietMoves
<1>5. CASE RepairOrGiveUp(q, ask[q])
  <2>1. PICK c \in Call : /\ Becomes(q, c) /\ c.pc \in {"pause", "failed"}
                          /\ c.attempt = ask[q].attempt /\ c.need = ask[q].need
                          /\ c.learned = ask[q].learned /\ c.excused = ask[q].excused
    BY <1>5, CallFacts, Repairing
  <2> QED BY <1>1, <1>2, <2>1, QuietMoves
<1>6. ASSUME NEW d \in Call, RepairOrGiveUp(q, d), d.attempt = ask[q].attempt,
             d.need = version, d.learned = ask[q].learned, readAt' = version \/ d.excused
      PROVE  \E c \in Call : Works(q, c) /\ c.pc # "running"
  <2>1. PICK c \in Call : /\ Becomes(q, c) /\ c.pc \in {"pause", "failed"}
                          /\ c.attempt = d.attempt /\ c.need = d.need /\ c.learned = d.learned
                          /\ c.excused = d.excused
    BY <1>6, Repairing
  <2> QED BY <1>1, <1>2, <1>6, <2>1, QuietMoves
<1>9. CASE RepairOrGiveUp(q, [noted EXCEPT !.refreshed = TRUE]) /\ readAt' = version
  <2>1. PICK d : d = [e EXCEPT !.refreshed = TRUE]
    OBVIOUS
  <2>2. /\ d \in Call /\ d.attempt = ask[q].attempt /\ d.need = version
        /\ d.learned = ask[q].learned
    BY <1>8, <2>1 DEF Call
  <2> QED BY <1>1, <1>6, <1>7, <1>9, <2>1, <2>2
<1>10. CASE RepairOrGiveUp(q, [noted EXCEPT !.excused = TRUE])
  <2>1. PICK d : d = [e EXCEPT !.excused = TRUE]
    OBVIOUS
  <2>2. /\ d \in Call /\ d.attempt = ask[q].attempt /\ d.need = version
        /\ d.learned = ask[q].learned /\ d.excused = TRUE
    BY <1>8, <2>1 DEF Call
  <2> QED BY <1>1, <1>6, <1>7, <1>10, <2>1, <2>2
<1> QED BY <1>1, <1>3, <1>4, <1>5, <1>9, <1>10

(* The database answers.                                                   *)
LEMMA ExecutesMoves ==
  ASSUME Inv, NEW q \in Questions, Executes(q)
  PROVE  /\ Inspects /\ late' = late /\ ask[q].pc = "running"
         /\ \E c \in Call : Works(q, c) /\ c.pc # "running"
<1>1. late' = late /\ ask[q].pc = "running" /\ UNCHANGED <<dialect, tables, version>>
  BY DEF Executes, At
<1>2. CASE Becomes(q, Answered(ask[q])) /\ UNCHANGED <<names, readAt, described, text>>
  <2>1. Inspects
    BY <1>1, <1>2, RefreshInspects DEF Inv
  <2>2. PICK c : c = Answered(ask[q])
    OBVIOUS
  <2>3. /\ c \in Call /\ c.pc = "answered" /\ c.attempt = ask[q].attempt
        /\ c.need = ask[q].need /\ c.learned = ask[q].learned
        /\ c.excused = ask[q].excused
    BY <2>2, CallFacts, Endings DEF Answered
  <2>4. ask[q].attempt > 0 /\ ask[q].pc \in Busy
    BY <1>1, CallFacts DEF Sound, Busy
  <2> QED BY <1>1, <1>2, <2>1, <2>2, <2>3, <2>4, QuietMoves
<1>3. ASSUME NEW outcome, Recover(q, outcome)
      PROVE  Inspects /\ \E c \in Call : Works(q, c) /\ c.pc # "running"
  BY <1>1, <1>3, RecoverMoves
<1> QED BY <1>1, <1>2, <1>3 DEF Executes

(* The query takes too long.                                               *)
LEMMA TimesOutMoves ==
  ASSUME Inv, NEW q \in Questions, TimesOut(q)
  PROVE  /\ Inspects /\ (late' = late \/ (ask[q].pc = "running" /\ late' = late + 1))
         /\ \E c \in Call : Works(q, c) /\ c.pc # "running"
<1>1. /\ ask[q].pc \in {"queued", "running"} /\ UNCHANGED <<dialect, tables, version>>
      /\ late' = late \/ (ask[q].pc = "running" /\ late' = late + 1)
  BY DEF TimesOut, At
<1> QED BY <1>1, RecoverMoves DEF TimesOut

(* Whatever the work on a question is.                                     *)
LEMMA ProceedsMoves ==
  ASSUME Inv, NEW q \in Questions, Proceeds(q)
  PROVE  /\ Inspects /\ (late' = late \/ (ask[q].pc = "running" /\ late' = late + 1))
         /\ \E c \in Call : Works(q, c) /\ c.pc # "running"
BY RepairMoves, ModelAnswersMoves, ModelFailsMoves, ExecutesMoves, TimesOutMoves DEF Proceeds

(* A thread that a call gives up is free, or works on as a late one.       *)
LEMMA PoolMoves ==
  ASSUME Inv, NEW q \in Questions, NEW c, c.pc # "running",
         \A p \in Questions : ask'[p] = IF p = q THEN c ELSE ask[p],
         late' = late \/ (ask[q].pc = "running" /\ late' = late + 1)
  PROVE  PoolOK'
<1>1. Running' = Running \ {q}
  BY DEF Running, At
<1>2. /\ late \in Nat /\ IsFiniteSet(Running) /\ Cardinality(Running) \in Nat
      /\ Cardinality(Running) + late <= PoolSize /\ PoolSize \in Nat
  BY FS_CardinalityType, LimitsAssumption DEF Inv, PoolOK
<1>3. /\ IsFiniteSet(Running \ {q})
      /\ Cardinality(Running \ {q}) = IF q \in Running THEN Cardinality(Running) - 1
                                      ELSE Cardinality(Running)
  BY <1>2, FS_RemoveElement
<1>4. q \in Running <=> ask[q].pc = "running"
  BY DEF Running, At
<1>5. late' \in Nat /\ Cardinality(Running \ {q}) + late' <= PoolSize
  BY <1>2, <1>3, <1>4
<1> QED BY <1>1, <1>3, <1>5 DEF PoolOK

(* A thread takes up a query if one is free.                               *)
LEMMA StartMoves ==
  ASSUME Inv, NEW q \in Questions, Start(q)
  PROVE  /\ Inspects /\ \E c \in Call : Works(q, c)
         /\ PoolOK'
<1>1. Inspects /\ late' = late /\ ask[q].pc = "queued"
  BY RefreshInspects DEF Start, At, Inv
<1>2. PICK c : c = [ask[q] EXCEPT !.pc = "running"]
  OBVIOUS
<1>3. /\ c \in Call /\ c.pc = "running" /\ c.sql = ask[q].sql /\ c.attempt = ask[q].attempt
      /\ c.need = ask[q].need /\ c.learned = ask[q].learned
      /\ c.excused = ask[q].excused
  BY <1>2, CallFacts DEF Call, Stages
<1>4. Becomes(q, c)
  BY <1>2 DEF Start
<1>5. readAt' = readAt
  BY DEF Start
<1>6. Sound(c, version, readAt')
  BY <1>1, <1>3, <1>5, CallFacts DEF Sound
<1>7. Works(q, c)
  <2>1. c.learned \in 0 .. version
    BY <1>3, CallFacts
  <2> QED BY <1>1, <1>3, <1>4, <1>6, <2>1 DEF Works, Busy
<1>8. \A p \in Questions : ask'[p] = IF p = q THEN c ELSE ask[p]
  BY <1>1, <1>3, <1>4, <1>6, CallMoves
<1>9. Running' = Running \union {q}
  BY <1>3, <1>8 DEF Running, At
<1>10. /\ late \in Nat /\ IsFiniteSet(Running) /\ Cardinality(Running) \in Nat
       /\ Cardinality(Running) + late < PoolSize /\ PoolSize \in Nat
  BY FS_CardinalityType, LimitsAssumption DEF Inv, PoolOK, Start
<1>11. q \notin Running
  BY <1>1 DEF Running, At
<1>12. /\ IsFiniteSet(Running \union {q})
       /\ Cardinality(Running \union {q}) = Cardinality(Running) + 1
  BY <1>10, <1>11, FS_AddElement
<1>13. PoolOK'
  BY <1>1, <1>9, <1>10, <1>12 DEF PoolOK
<1> QED BY <1>1, <1>3, <1>7, <1>13

(* The steps of the environment leave the calls alone.                     *)
LEMMA OthersMove ==
  ASSUME Inv, \/ \E t \in Tables : Alter(t)
              \/ TextExpires \/ Browse \/ LateEnds
              \/ UNCHANGED vars
  PROVE  Inv' /\ ask' = ask /\ (version' = version \/ version' = version + 1)
<1>1. /\ version \in Nat /\ readAt \in Nat /\ readAt <= version /\ MaxChanges \in Nat
  BY LimitsAssumption DEF Inv, InspectorOK
<1>2. CASE /\ ask' = ask /\ late' = late /\ InspectorOK'
           /\ readAt' \in Nat /\ readAt <= readAt'
           /\ version' = version \/ version' = version + 1
  <2>1. PoolOK'
    BY <1>2 DEF Inv, PoolOK, Running, At
  <2>2. ASSUME NEW q \in Questions
        PROVE  Sound(ask[q], version', readAt')
    <3>1. Sound(ask[q], version, readAt) /\ ask[q].need \in Nat /\ ask[q].learned \in Nat
      BY CallFacts
    <3> QED BY <1>1, <1>2, <3>1 DEF Sound
  <2>3. CallsOK'
    BY <1>2, <2>2 DEF Inv, CallsOK
  <2> QED BY <1>2, <2>1, <2>3 DEF Inv
<1>3. ASSUME NEW t \in Tables, Alter(t)
      PROVE  Inv' /\ ask' = ask /\ version' = version + 1
  <2>1. InspectorOK'
    BY <1>1, <1>3 DEF Inv, InspectorOK, Alter
  <2> QED BY <1>1, <1>2, <1>3, <2>1 DEF Alter
<1>4. CASE TextExpires
  <2>1. InspectorOK'
    BY <1>1, <1>4 DEF Inv, InspectorOK, TextExpires
  <2> QED BY <1>1, <1>2, <1>4, <2>1 DEF TextExpires
<1>5. CASE Browse
  <2>1. Inspects
    BY <1>5, ReadNamesInspects DEF Browse, Inv
  <2>2. InspectorOK' /\ readAt' \in Nat /\ readAt <= readAt'
    BY <2>1, LimitsAssumption DEF Inspects, InspectorOK
  <2> QED BY <1>1, <1>2, <1>5, <2>2 DEF Browse
<1>6. CASE LateEnds
  <2>1. UNCHANGED <<dialect, tables, version, names, readAt, described, text, ask>>
    BY <1>6 DEF LateEnds
  <2>2. InspectorOK' /\ CallsOK'
    BY <2>1 DEF Inv, InspectorOK, CallsOK
  <2>3. /\ late \in Nat /\ IsFiniteSet(Running) /\ Cardinality(Running) \in Nat
        /\ Cardinality(Running) + late <= PoolSize /\ PoolSize \in Nat
    BY FS_CardinalityType, LimitsAssumption DEF Inv, PoolOK
  <2>4. late' \in Nat /\ Cardinality(Running) + late' <= PoolSize
    BY <1>6, <2>3 DEF LateEnds
  <2>5. Running' = Running
    BY <2>1 DEF Running, At
  <2>6. PoolOK'
    BY <2>3, <2>4, <2>5 DEF PoolOK
  <2> QED BY <2>1, <2>2, <2>6 DEF Inv
<1>7. CASE UNCHANGED vars
  <2>1. InspectorOK'
    BY <1>7 DEF Inv, InspectorOK, vars
  <2> QED BY <1>1, <1>2, <1>7, <2>1 DEF vars
<1> QED BY <1>3, <1>4, <1>5, <1>6, <1>7

(* The calls and the pool keep to their bounds after a step of q.          *)
LEMMA QuestionMoves ==
  ASSUME Inv, NEW q \in Questions, Generate(q) \/ Start(q) \/ Proceeds(q)
  PROVE  /\ Inv' /\ version' = version
         /\ \E c \in Call :
              /\ \A p \in Questions : ask'[p] = IF p = q THEN c ELSE ask[p]
              /\ Sound(c, version, readAt')
              /\ \/ Works(q, c)
                 \/ /\ ask[q].pc = "new" /\ c.pc \in {"model", "failed"}
                    /\ c.attempt = ask[q].attempt /\ c.need = ask[q].need
                    /\ c.excused = ask[q].excused /\ c.learned \in 0 .. version
<1>1. CASE Generate(q)
  <2>1. Inspects /\ late' = late
    BY <1>1, GenerateMoves
  <2>2. PICK c \in Call : /\ Becomes(q, c) /\ Sound(c, version, readAt')
                          /\ ask[q].pc = "new" /\ c.pc \in {"model", "failed"}
                          /\ c.attempt = ask[q].attempt /\ c.need = ask[q].need
                          /\ c.excused = ask[q].excused /\ c.learned \in 0 .. version
    BY <1>1, GenerateMoves
  <2>3. CallsOK' /\ \A p \in Questions : ask'[p] = IF p = q THEN c ELSE ask[p]
    BY <2>1, <2>2, CallMoves
  <2>4. PoolOK'
    BY <2>1, <2>2, <2>3, PoolMoves
  <2> QED BY <2>1, <2>2, <2>3, <2>4 DEF Inv, Inspects
<1>2. CASE Start(q)
  <2>1. PICK c \in Call : Inspects /\ Works(q, c) /\ PoolOK'
    BY <1>2, StartMoves
  <2>2. CallsOK' /\ \A p \in Questions : ask'[p] = IF p = q THEN c ELSE ask[p]
    BY <2>1, CallMoves DEF Works
  <2> QED BY <2>1, <2>2 DEF Inv, Inspects, Works
<1>3. CASE Proceeds(q)
  <2>1. PICK c \in Call : /\ Inspects /\ Works(q, c) /\ c.pc # "running"
                          /\ late' = late \/ (ask[q].pc = "running" /\ late' = late + 1)
    BY <1>3, ProceedsMoves
  <2>2. CallsOK' /\ \A p \in Questions : ask'[p] = IF p = q THEN c ELSE ask[p]
    BY <2>1, CallMoves DEF Works
  <2>3. PoolOK'
    BY <2>1, <2>2, PoolMoves
  <2> QED BY <2>1, <2>2, <2>3 DEF Inv, Inspects, Works
<1> QED BY <1>1, <1>2, <1>3

----------------------------------------------------------------------------
(* The invariant and what follows from it.                                 *)

(* Init establishes the invariant.                                         *)
LEMMA InitInv == Init => Inv
<1> SUFFICES ASSUME Init PROVE Inv
  OBVIOUS
<1>1. InspectorOK
  <2>1. text \in BOOLEAN /\ described \in BOOLEAN
    BY DEF Init
  <2>2. version \in 0 .. MaxChanges /\ readAt \in 0 .. version
    BY LimitsAssumption DEF Init
  <2>3. text = FALSE /\ described = FALSE /\ names = Unread /\ dialect \in Dialects
    BY DEF Init
  <2>4. tables \subseteq Tables
    BY DEF Init
  <2> QED BY <2>1, <2>2, <2>3, <2>4 DEF InspectorOK
<1>2. \A q \in Questions : ask[q] = Waiting("new", <<>>)
  BY DEF Init
<1>3. Waiting("new", <<>>) \in Call
  BY DEF Waiting, Call, Stages, Statements
<1>4. Sound(Waiting("new", <<>>), 0, 0)
  BY LimitsAssumption DEF Sound, Waiting
<1>5. CallsOK
  BY <1>2, <1>3, <1>4 DEF CallsOK, Init
<1>6. Running = {}
  BY <1>2 DEF Running, At, Waiting
<1>7. PoolOK
  BY <1>6, FS_EmptySet, LimitsAssumption DEF PoolOK, Init
<1> QED BY <1>1, <1>5, <1>7 DEF Inv

(* Every step preserves it.                                                *)
LEMMA NextKeepsInv == Inv /\ [Next]_vars => Inv'
<1> SUFFICES ASSUME Inv, [Next]_vars PROVE Inv'
  OBVIOUS
<1>1. ASSUME NEW q \in Questions, Generate(q) \/ Start(q) \/ Proceeds(q)
      PROVE  Inv'
  BY <1>1, QuestionMoves
<1>2. CASE (\E t \in Tables : Alter(t)) \/ TextExpires \/ Browse \/ LateEnds \/ UNCHANGED vars
  BY <1>2, OthersMove
<1> QED BY <1>1, <1>2 DEF Next

(* The inspector, the pool and the calls keep to their bounds, and what    *)
(* waits for a thread or runs has passed the validator.                    *)
THEOREM Invariance == Spec => []Inv
<1> QED BY InitInv, NextKeepsInv, PTL DEF Spec

(* The pool, the retries and what is known of the schema stay within their *)
(* limits, for any number of questions, tables, threads and retries.       *)
THEOREM CorrectorTypes == Spec => []TypeOK
<1>1. Inv => TypeOK
  <2> SUFFICES ASSUME Inv PROVE TypeOK
    OBVIOUS
  <2>1. /\ Cardinality(Running) \in Nat /\ late \in Nat /\ PoolSize \in Nat
        /\ Cardinality(Running) + late <= PoolSize
    BY FS_CardinalityType, LimitsAssumption DEF Inv, PoolOK
  <2>2. late \in 0 .. PoolSize
    BY <2>1
  <2>3. ASSUME NEW q \in Questions
        PROVE  /\ ask[q].pc \in Stages /\ ask[q].attempt \in 0 .. MaxRetries
               /\ ask[q].need \in 0 .. version /\ ask[q].learned \in 0 .. version
               /\ ask[q].excused \in BOOLEAN
    BY CallFacts DEF Call
  <2>4. {text, described} \subseteq BOOLEAN
    BY DEF Inv, InspectorOK
  <2> QED BY <2>1, <2>2, <2>3, <2>4 DEF Inv, InspectorOK, TypeOK, Stages
<1> QED BY <1>1, Invariance, PTL

(* Whatever runs on the database is one statement without a refused word,  *)
(* and wherever the database reads it as the validator does, and it does   *)
(* not aggregate, its own LIMIT is at most MaxQueryRows, for any set of    *)
(* statements a model may write.                                           *)
THEOREM BoundedQueries == Spec => []OnlyBoundedQueriesRun
<1>1. Inv => OnlyBoundedQueriesRun
  <2> SUFFICES ASSUME Inv, NEW q \in Running
               PROVE  Bounded(ask[q].sql)
    BY DEF OnlyBoundedQueriesRun, Bounded
  <2>1. q \in Questions /\ ask[q].pc = "running"
    BY DEF Running, At
  <2>2. Checked(ask[q].sql)
    BY <2>1, CallFacts DEF Sound
  <2> QED BY <2>2, LimitedIsBounded DEF Checked
<1> QED BY <1>1, Invariance, PTL

----------------------------------------------------------------------------
(* The refinement.                                                         *)

\* The promise of CorrectionLoop but for the verdict that must come.
CorrectionLoopSafety == Loop!LoopInit /\ [][Loop!LoopNext]_(Loop!loopVars)

(* What CorrectionLoop sees of a call.                                     *)
LEMMA PhaseFacts ==
  ASSUME NEW q \in Questions
  PROVE  /\ ask[q].pc = "new" => Phase[q] = "idle"
         /\ ask[q].pc \in Busy => Phase[q] = "busy"
         /\ ask[q].pc \in {"answered", "failed"} => Phase[q] = ask[q].pc
         /\ ask'[q].pc \in Busy => Phase'[q] = "busy"
         /\ ask'[q].pc \in {"answered", "failed"} => Phase'[q] = ask'[q].pc
<1>1. Phase[q] = CASE ask[q].pc = "new" -> "idle"
                   [] ask[q].pc \in {"model", "pause", "queued", "running"} -> "busy"
                   [] OTHER -> ask[q].pc
  BY DEF Phase, At
<1>2. Phase'[q] = CASE ask'[q].pc = "new" -> "idle"
                    [] ask'[q].pc \in {"model", "pause", "queued", "running"} -> "busy"
                    [] OTHER -> ask'[q].pc
  BY DEF Phase, At
<1> QED BY <1>1, <1>2 DEF Busy

(* The other questions notice nothing.                                     *)
LEMMA OnlyOne ==
  ASSUME NEW q \in Questions, \A p \in Questions \ {q} : ask'[p] = ask[p]
  PROVE  Loop!Only(q)
<1>1. Phase' = [Phase EXCEPT ![q] = Phase'[q]]
  BY DEF Phase, At
<1>2. [p \in Questions |-> ask'[p].attempt]
        = [[p \in Questions |-> ask[p].attempt] EXCEPT ![q] = ask'[q].attempt]
  OBVIOUS
<1>3. [p \in Questions |-> ask'[p].need]
        = [[p \in Questions |-> ask[p].need] EXCEPT ![q] = ask'[q].need]
  OBVIOUS
<1>4. [p \in Questions |-> ask'[p].learned]
        = [[p \in Questions |-> ask[p].learned] EXCEPT ![q] = ask'[q].learned]
  OBVIOUS
<1>5. [p \in Questions |-> ask'[p].excused]
        = [[p \in Questions |-> ask[p].excused] EXCEPT ![q] = ask'[q].excused]
  OBVIOUS
<1> QED BY <1>1, <1>2, <1>3, <1>4, <1>5 DEF Loop!Only

(* A step of a question is a step of CorrectionLoop.                       *)
LEMMA QuestionRefines ==
  ASSUME Inv, NEW q \in Questions, Generate(q) \/ Start(q) \/ Proceeds(q)
  PROVE  Loop!LoopNext
<1>1. PICK c \in Call :
        /\ \A p \in Questions : ask'[p] = IF p = q THEN c ELSE ask[p]
        /\ Sound(c, version, readAt')
        /\ \/ Works(q, c)
           \/ /\ ask[q].pc = "new" /\ c.pc \in {"model", "failed"}
              /\ c.attempt = ask[q].attempt /\ c.need = ask[q].need
              /\ c.excused = ask[q].excused /\ c.learned \in 0 .. version
  BY QuestionMoves
<1>2. version' = version /\ ask'[q] = c /\ Loop!Only(q)
  BY <1>1, QuestionMoves, OnlyOne
<1>3. CASE Works(q, c)
  <2>1. Phase[q] = "busy" /\ Phase'[q] \in {"busy", "answered", "failed"}
    BY <1>2, <1>3, PhaseFacts DEF Works
  <2>2. \/ c.attempt = ask[q].attempt
        \/ /\ c.attempt = ask[q].attempt + 1 /\ c.attempt <= MaxRetries
           /\ ask[q].need <= ask[q].learned \/ ask[q].excused
    BY <1>1, <1>3, CallFacts DEF Works, Sound
  <2>3. Phase'[q] = "answered" => c.attempt > 0
    BY <1>1, <1>2, <1>3, PhaseFacts DEF Works, Sound
  <2>4. /\ c.need \in {ask[q].need, version} /\ c.learned \in 0 .. version
        /\ c.excused => ask[q].excused \/ (c.need = version /\ c.attempt = ask[q].attempt)
    BY <1>3 DEF Works
  <2>5. Loop!Work(q)
    BY <1>2, <2>1, <2>2, <2>3, <2>4 DEF Loop!Work
  <2> QED BY <2>5 DEF Loop!LoopNext
<1>4. CASE /\ ask[q].pc = "new" /\ c.pc \in {"model", "failed"}
           /\ c.attempt = ask[q].attempt /\ c.need = ask[q].need
           /\ c.excused = ask[q].excused /\ c.learned \in 0 .. version
  <2>1. Phase[q] = "idle" /\ Phase'[q] \in {"busy", "failed"}
    BY <1>2, <1>4, PhaseFacts DEF Busy
  <2>2. \A p \in Questions : /\ ask'[p].attempt = ask[p].attempt /\ ask'[p].need = ask[p].need
                            /\ ask'[p].excused = ask[p].excused
    BY <1>1, <1>4
  <2>3. Loop!Ask(q)
    BY <1>2, <1>4, <2>1, <2>2 DEF Loop!Ask
  <2> QED BY <2>3 DEF Loop!LoopNext
<1> QED BY <1>1, <1>3, <1>4

(* The correction loop keeps its promise, the coming of the verdict apart: *)
(* at most MaxRetries attempts, and after a schema error no statement that *)
(* was not drafted on a schema read since, although other questions use    *)
(* the same inspector; but for an error whose refresh raised, and for one  *)
(* after the refresh of the call.                                          *)
THEOREM Refinement == Spec => CorrectionLoopSafety
<1>1. Init => Loop!LoopInit
  <2> SUFFICES ASSUME Init PROVE Loop!LoopInit
    OBVIOUS
  <2>1. version = 0 /\ \A q \in Questions : ask[q] = Waiting("new", <<>>)
    BY DEF Init
  <2>2. \A q \in Questions : /\ ask[q].pc = "new" /\ ask[q].attempt = 0
                            /\ ask[q].need = 0 /\ ask[q].learned = 0
                            /\ ask[q].excused = FALSE
    BY <2>1 DEF Waiting
  <2>3. Phase = [q \in Questions |-> "idle"]
    BY <2>2 DEF Phase, At
  <2> QED BY <2>1, <2>2, <2>3 DEF Loop!LoopInit
<1>2. Inv /\ [Next]_vars => [Loop!LoopNext]_(Loop!loopVars)
  <2> SUFFICES ASSUME Inv, [Next]_vars
               PROVE  [Loop!LoopNext]_(Loop!loopVars)
    OBVIOUS
  <2>1. ASSUME NEW q \in Questions, Generate(q) \/ Start(q) \/ Proceeds(q)
        PROVE  Loop!LoopNext
    BY <2>1, QuestionRefines
  <2>2. CASE (\E t \in Tables : Alter(t)) \/ TextExpires \/ Browse \/ LateEnds \/ UNCHANGED vars
    <3>1. ask' = ask /\ (version' = version \/ version' = version + 1)
      BY <2>2, OthersMove
    <3>2. Phase' = Phase
      BY <3>1 DEF Phase, At
    <3>3. CASE version' = version
      BY <3>1, <3>2, <3>3 DEF Loop!loopVars
    <3>4. CASE version' = version + 1
      BY <3>1, <3>2, <3>4 DEF Loop!LoopNext, Loop!SchemaChanges
    <3> QED BY <3>1, <3>3, <3>4
  <2> QED BY <2>1, <2>2 DEF Next
<1> QED BY <1>1, <1>2, Invariance, PTL DEF Spec, CorrectionLoopSafety

=============================================================================
