---------------------------- MODULE QuotaProofs ----------------------------
(***************************************************************************)
(* What Quota guarantees for any number of workers, any zones with their   *)
(* midnights, any plans with their limits, and any bounds.                 *)
(***************************************************************************)
EXTENDS Quota, TLAPS

\* What an open transaction read lies in the past.
TxPast == \A w \in Workers : tx[w] # Idle => tx[w].at <= now

\* The count covers the admissions, and exactly those under a single plan.
Accounting ==
  /\ row.plan \in heldPlans
  /\ admitted <= row.count
  /\ \A p \in Plans : heldPlans = {p} =>
       admitted = IF row.count <= DailyLimit[p] THEN row.count ELSE DailyLimit[p]

\* The inductive invariant.
QInv == TypeOK /\ TxPast /\ Accounting

----------------------------------------------------------------------------

(* The transaction values are disjoint kinds of records: a transaction is  *)
(* never Idle once it has read.                                            *)
LEMMA TxKinds ==
  /\ \A c \in Consuming : c # Idle /\ c.op = "consume"
  /\ \A r \in Realigning : r # Idle /\ r.op = "realign"
  /\ Idle.op = "idle"
BY DEF Consuming, Realigning, Idle

(* What a charge writes: the window rolls over at its boundary only.       *)
LEMMA ChargeFacts ==
  ASSUME NEW r \in Row, NEW at \in Nat, NEW next \in Nat
  PROVE  /\ Charge(r, at, next) \in Row
         /\ Charge(r, at, next).plan = r.plan
         /\ Charge(r, at, next).tz = r.tz
         /\ at >= r.resetAt => /\ Charge(r, at, next).count = 1
                               /\ Charge(r, at, next).resetAt = next
         /\ at < r.resetAt => /\ Charge(r, at, next).count = r.count + 1
                              /\ Charge(r, at, next).resetAt = r.resetAt
<1>0. /\ r.resetAt \in Nat /\ r.count \in Nat
      /\ r = [tz |-> r.tz, count |-> r.count, resetAt |-> r.resetAt, plan |-> r.plan]
      /\ r.tz \in Zones /\ r.plan \in Plans
  BY DEF Row
<1>1. CASE at >= r.resetAt
  <2>1. Charge(r, at, next) = [r EXCEPT !.count = 1, !.resetAt = next]
    BY <1>1 DEF Charge
  <2>2. ~ (at < r.resetAt)
    BY <1>0, <1>1
  <2>3. Charge(r, at, next) =
          [tz |-> r.tz, count |-> 1, resetAt |-> next, plan |-> r.plan]
    BY <1>0, <2>1
  <2> QED BY <1>0, <2>2, <2>3 DEF Row
<1>2. CASE at < r.resetAt
  <2>1. ~ (at >= r.resetAt)
    BY <1>0, <1>2
  <2>2. Charge(r, at, next) = [r EXCEPT !.count = r.count + 1]
    BY <2>1 DEF Charge
  <2>3. Charge(r, at, next) =
          [tz |-> r.tz, count |-> r.count + 1, resetAt |-> r.resetAt, plan |-> r.plan]
    BY <1>0, <2>2
  <2> QED BY <1>0, <2>1, <2>3 DEF Row
<1> QED BY <1>0, <1>1, <1>2

(* The plan check of ask_database on a count that is at least one.         *)
LEMMA AllowedFacts ==
  ASSUME NEW p \in Plans, NEW c \in Nat, c >= 1
  PROVE  Allowed(p, c) <=> c <= DailyLimit[p]
BY PlansAssumption DEF Allowed

(* A realignment gives a natural number, and never less than the boundary  *)
(* it read when it read a used and running window.                         *)
LEMMA RealignedFacts ==
  ASSUME NEW c \in Nat, NEW reset \in Nat, NEW at \in 0 .. MaxTime,
         NEW z \in Zones
  PROVE  /\ Realigned(c, reset, at, z) \in Nat
         /\ c > 0 => Realigned(c, reset, at, z) >= reset
<1>1. NextMidnight(z, at) \in Nat
  BY MidnightAssumption
<1> QED BY <1>1 DEF Realigned

----------------------------------------------------------------------------

LEMMA InitQInv == Init => QInv
<1> SUFFICES ASSUME Init PROVE QInv
  OBVIOUS
<1>1. PICK z \in Zones, p \in Plans :
        row = [tz |-> z, count |-> 0, resetAt |-> NextMidnight(z, 0), plan |-> p]
  BY DEF Init
<1>2. NextMidnight(z, 0) \in Nat
  BY MidnightAssumption, BoundsAssumption
<1>3. TypeOK
  BY <1>1, <1>2, BoundsAssumption DEF Init, TypeOK, Row
<1>4. TxPast
  BY DEF Init, TxPast
<1>5. Accounting
  BY <1>1, PlansAssumption DEF Init, Accounting
<1> QED BY <1>3, <1>4, <1>5 DEF QInv

LEMMA TickQInv ==
  ASSUME QInv, Tick
  PROVE  QInv'
<1>1. now \in Nat /\ now' \in 0 .. MaxTime /\ now' > now
  BY BoundsAssumption DEF QInv, TypeOK, Tick
<1>2. TypeOK'
  BY <1>1 DEF QInv, TypeOK, Tick
<1>3. TxPast'
  <2> SUFFICES ASSUME NEW w \in Workers, tx[w] # Idle
               PROVE  tx[w].at <= now'
    BY DEF Tick, TxPast
  <2>1. tx[w] \in Consuming \union Realigning /\ tx[w].at <= now
    BY DEF QInv, TypeOK, TxPast
  <2>2. tx[w].at \in Nat
    BY <2>1 DEF Consuming, Realigning
  <2> QED BY <1>1, <2>1, <2>2
<1>4. Accounting'
  BY DEF QInv, Accounting, Tick
<1> QED BY <1>2, <1>3, <1>4 DEF QInv

(* The two reads change nothing but the transaction they open.             *)
LEMMA ReadQInv ==
  ASSUME QInv, NEW w \in Workers,
         ConsumeRead(w) \/ \E z \in Zones : RealignRead(w, z)
  PROVE  QInv'
<1>1. /\ now \in 0 .. MaxTime /\ now \in Nat /\ row \in Row
      /\ UNCHANGED <<now, row, lastReply, admitted, heldPlans>>
  BY BoundsAssumption DEF QInv, TypeOK, ConsumeRead, RealignRead
<1>2. PICK t \in Consuming \union Realigning :
        t.at = now /\ tx' = [tx EXCEPT ![w] = t]
  <2>1. CASE ConsumeRead(w)
    <3>1. NextMidnight(row.tz, now) \in Nat
      BY <1>1, MidnightAssumption DEF Row
    <3> DEFINE t == [op |-> "consume", at |-> now, next |-> NextMidnight(row.tz, now)]
    <3>2. t \in Consuming /\ t.at = now
      BY <1>1, <3>1 DEF Consuming
    <3> QED BY <2>1, <3>2 DEF ConsumeRead
  <2>2. CASE \E z \in Zones : RealignRead(w, z)
    <3>1. PICK z \in Zones : RealignRead(w, z)
      BY <2>2
    <3> DEFINE t == [op |-> "realign", at |-> now, tz |-> z, oldTz |-> row.tz,
                     count |-> row.count, resetAt |-> row.resetAt]
    <3>2. t \in Realigning /\ t.at = now
      BY <1>1 DEF Realigning, Row
    <3> QED BY <3>1, <3>2 DEF RealignRead
  <2> QED BY <2>1, <2>2
<1>3. TypeOK'
  BY <1>1, <1>2 DEF QInv, TypeOK
<1>4. TxPast'
  BY <1>1, <1>2 DEF QInv, TypeOK, TxPast
<1>5. Accounting'
  BY <1>1 DEF QInv, Accounting
<1> QED BY <1>3, <1>4, <1>5 DEF QInv

(* Closing a transaction keeps the types and the past of the others.       *)
LEMMA CloseTx ==
  ASSUME QInv, NEW w \in Workers, tx' = [tx EXCEPT ![w] = Idle], now' = now
  PROVE  /\ tx' \in [Workers -> {Idle} \union Consuming \union Realigning]
         /\ TxPast'
BY DEF QInv, TypeOK, TxPast

(* What a charge does, spelled out: the facts every property of it uses.   *)
LEMMA ConsumeFacts ==
  ASSUME QInv, NEW w \in Workers, ConsumeWrite(w)
  PROVE  /\ row' \in Row /\ row'.plan = row.plan /\ row'.plan \in Plans
         /\ tx[w].at \in Nat /\ tx[w].at <= now
         /\ lastReply' = IF row'.count <= DailyLimit[row.plan]
                           THEN "admitted" ELSE "denied"
         /\ tx[w].at >= row.resetAt =>
              /\ row'.count = 1 /\ admitted' = 1 /\ heldPlans' = {row.plan}
              /\ lastReply' = "admitted"
         /\ tx[w].at < row.resetAt =>
              /\ row'.count = row.count + 1 /\ row'.resetAt = row.resetAt
              /\ heldPlans' = heldPlans
              /\ admitted' = IF row'.count <= DailyLimit[row.plan]
                               THEN admitted + 1 ELSE admitted
<1> DEFINE charged == Charge(row, tx[w].at, tx[w].next)
<1>1. /\ row \in Row /\ row.plan \in Plans /\ row.count \in Nat
      /\ row.resetAt \in Nat /\ admitted \in Nat
      /\ tx[w] \in Consuming /\ tx[w] # Idle
  BY TxKinds DEF QInv, TypeOK, ConsumeWrite, Row
<1>2. tx[w].at \in Nat /\ tx[w].next \in Nat
  BY <1>1 DEF Consuming
<1>3. tx[w].at <= now
  BY <1>1 DEF QInv, TxPast
<1>4. /\ charged \in Row /\ charged.plan = row.plan
      /\ tx[w].at >= row.resetAt => charged.count = 1
      /\ tx[w].at < row.resetAt => /\ charged.count = row.count + 1
                                   /\ charged.resetAt = row.resetAt
  BY <1>1, <1>2, ChargeFacts
<1>5. charged.count \in Nat /\ charged.count >= 1
  BY <1>1, <1>2, <1>4
<1>6. Allowed(charged.plan, charged.count) <=> charged.count <= DailyLimit[row.plan]
  BY <1>1, <1>4, <1>5, AllowedFacts
<1>7. DailyLimit[row.plan] \in Nat /\ DailyLimit[row.plan] >= 1
  BY <1>1, PlansAssumption
<1>8. /\ row' = charged
      /\ lastReply' = (IF Allowed(charged.plan, charged.count)
                         THEN "admitted" ELSE "denied")
      /\ admitted' = (IF tx[w].at >= row.resetAt THEN 0 ELSE admitted)
                     + (IF Allowed(charged.plan, charged.count) THEN 1 ELSE 0)
      /\ heldPlans' = IF tx[w].at >= row.resetAt THEN {row.plan} ELSE heldPlans
  BY DEF ConsumeWrite
<1> HIDE DEF charged
<1>9. CASE tx[w].at >= row.resetAt
  <2>1. Allowed(charged.plan, charged.count)
    BY <1>4, <1>6, <1>7, <1>9
  <2>2. ~ (tx[w].at < row.resetAt)
    BY <1>1, <1>2, <1>9
  <2> QED BY <1>1, <1>2, <1>3, <1>4, <1>6, <1>7, <1>8, <1>9, <2>1, <2>2
<1>10. CASE tx[w].at < row.resetAt
  <2>1. ~ (tx[w].at >= row.resetAt)
    BY <1>1, <1>2, <1>10
  <2>2. admitted' = IF charged.count <= DailyLimit[row.plan]
                      THEN admitted + 1 ELSE admitted
    BY <1>1, <1>6, <1>8, <2>1
  <2> QED BY <1>1, <1>2, <1>3, <1>4, <1>6, <1>8, <1>10, <2>1, <2>2
<1> QED BY <1>1, <1>2, <1>9, <1>10

LEMMA ConsumeQInv ==
  ASSUME QInv, NEW w \in Workers, ConsumeWrite(w)
  PROVE  QInv'
<1>1. /\ row \in Row /\ row.count \in Nat /\ row.resetAt \in Nat
      /\ row.plan \in Plans /\ admitted \in Nat /\ heldPlans \in SUBSET Plans
      /\ now \in 0 .. MaxTime /\ row'.count \in Nat /\ tx[w].at \in Nat
  BY ConsumeFacts DEF QInv, TypeOK, Row
<1>2. now' = now /\ tx' = [tx EXCEPT ![w] = Idle]
  BY DEF ConsumeWrite
<1>3. DailyLimit[row.plan] \in Nat /\ DailyLimit[row.plan] >= 1
  BY <1>1, PlansAssumption
<1>4. CASE tx[w].at >= row.resetAt
  <2>1. /\ row' \in Row /\ row'.plan = row.plan /\ row'.count = 1 /\ admitted' = 1
        /\ heldPlans' = {row.plan} /\ lastReply' = "admitted"
    BY <1>4, ConsumeFacts
  <2>2. TypeOK'
    <3>1. /\ now' \in 0 .. MaxTime
          /\ lastReply' \in {"none", "admitted", "denied"}
          /\ admitted' \in Nat
          /\ heldPlans' \in SUBSET Plans
      BY <1>1, <1>2, <2>1
    <3>2. tx' \in [Workers -> {Idle} \union Consuming \union Realigning]
      BY <1>2, CloseTx
    <3> QED BY <2>1, <3>1, <3>2 DEF TypeOK
  <2>3. Accounting'
    <3>1. \A p \in Plans : {row.plan} = {p} => DailyLimit[p] >= 1
      BY <1>3
    <3> QED BY <2>1, <3>1 DEF Accounting
  <2> QED BY <1>2, <2>2, <2>3, CloseTx DEF QInv
<1>5. CASE tx[w].at < row.resetAt
  <2>1. /\ row' \in Row /\ row'.plan = row.plan /\ row'.count = row.count + 1
        /\ heldPlans' = heldPlans /\ lastReply' \in {"admitted", "denied"}
        /\ admitted' = IF row.count + 1 <= DailyLimit[row.plan]
                         THEN admitted + 1 ELSE admitted
    BY <1>5, ConsumeFacts
  <2>2. TypeOK'
    <3>1. /\ now' \in 0 .. MaxTime
          /\ admitted' \in Nat
          /\ heldPlans' \in SUBSET Plans
      BY <1>1, <1>2, <2>1
    <3>2. tx' \in [Workers -> {Idle} \union Consuming \union Realigning]
      BY <1>2, CloseTx
    <3>3. lastReply' \in {"none", "admitted", "denied"}
      BY <2>1
    <3> QED BY <2>1, <3>1, <3>2, <3>3 DEF TypeOK
  <2>3. Accounting'
    <3>1. row.plan \in heldPlans /\ admitted <= row.count
      BY DEF QInv, Accounting
    <3>2. admitted' <= row.count + 1
      BY <1>1, <2>1, <3>1
    <3>3. ASSUME NEW p \in Plans, heldPlans = {p}
          PROVE  admitted' = IF row.count + 1 <= DailyLimit[p]
                               THEN row.count + 1 ELSE DailyLimit[p]
      <4>1. row.plan = p
        BY <3>1, <3>3
      <4>2. admitted = IF row.count <= DailyLimit[p] THEN row.count ELSE DailyLimit[p]
        BY <3>3 DEF QInv, Accounting
      <4> QED BY <1>1, <1>3, <2>1, <4>1, <4>2
    <3> QED BY <2>1, <3>1, <3>2, <3>3 DEF Accounting
  <2> QED BY <1>2, <2>2, <2>3, CloseTx DEF QInv
<1> QED BY <1>1, <1>4, <1>5

LEMMA RealignQInv ==
  ASSUME QInv, NEW w \in Workers, RealignWrite(w)
  PROVE  QInv'
<1>1. /\ row \in Row /\ tx[w] \in Realigning /\ now \in 0 .. MaxTime /\ now \in Nat
      /\ UNCHANGED <<now, lastReply, admitted, heldPlans>>
      /\ tx' = [tx EXCEPT ![w] = Idle]
  BY BoundsAssumption DEF QInv, TypeOK, RealignWrite
<1> DEFINE new == Realigned(tx[w].count, tx[w].resetAt, tx[w].at, tx[w].tz)
<1>2. new \in Nat
  <2>1. tx[w].at \in Nat /\ tx[w].at <= now
    BY <1>1, TxKinds DEF QInv, TxPast, Realigning
  <2>2. tx[w].at \in 0 .. MaxTime
    BY <1>1, <2>1, BoundsAssumption
  <2> QED BY <1>1, <2>2, RealignedFacts DEF Realigning
<1>3. row' = [row EXCEPT
        !.tz = IF tx[w].tz = tx[w].oldTz THEN @ ELSE tx[w].tz,
        !.resetAt = IF new = tx[w].resetAt THEN @ ELSE new]
  BY DEF RealignWrite
<1> HIDE DEF new
<1>4. row' \in Row /\ row'.count = row.count /\ row'.plan = row.plan
  BY <1>1, <1>2, <1>3 DEF Row, Realigning
<1>5. TypeOK'
  BY <1>1, <1>4, CloseTx DEF QInv, TypeOK
<1>6. Accounting'
  BY <1>1, <1>4 DEF QInv, Accounting
<1> QED BY <1>1, <1>5, <1>6, CloseTx DEF QInv

LEMMA SetPlanQInv ==
  ASSUME QInv, NEW w \in Workers, NEW p \in Plans, SetPlan(w, p)
  PROVE  QInv'
<1>1. /\ row' \in Row /\ row'.count = row.count /\ row'.plan = p
      /\ heldPlans' = heldPlans \union {p}
      /\ UNCHANGED <<now, tx, lastReply, admitted>>
  BY DEF QInv, TypeOK, SetPlan, Row
<1>2. TypeOK'
  BY <1>1 DEF QInv, TypeOK
<1>3. Accounting'
  <2>1. \A q \in Plans : heldPlans \union {p} = {q} => heldPlans = {q}
    BY DEF QInv, Accounting
  <2> QED BY <1>1, <2>1 DEF QInv, Accounting
<1> QED BY <1>1, <1>2, <1>3 DEF QInv, TxPast

LEMMA StepQInv == QInv /\ [Next]_vars => QInv'
<1> SUFFICES ASSUME QInv, [Next]_vars PROVE QInv'
  OBVIOUS
<1>1. CASE Tick
  BY <1>1, TickQInv
<1>2. ASSUME NEW w \in Workers, ConsumeRead(w) \/ ConsumeWrite(w)
      PROVE QInv'
  BY <1>2, ReadQInv, ConsumeQInv
<1>3. ASSUME NEW w \in Workers, NEW z \in Zones, RealignRead(w, z)
      PROVE QInv'
  BY <1>3, ReadQInv
<1>4. ASSUME NEW w \in Workers, RealignWrite(w)
      PROVE QInv'
  BY <1>4, RealignQInv
<1>5. ASSUME NEW w \in Workers, NEW p \in Plans, SetPlan(w, p)
      PROVE QInv'
  BY <1>5, SetPlanQInv
<1>6. CASE UNCHANGED vars
  BY <1>6 DEF vars, QInv, TypeOK, TxPast, Accounting
<1> QED BY <1>1, <1>2, <1>3, <1>4, <1>5, <1>6 DEF Next

----------------------------------------------------------------------------

(* Quota bookkeeping (consume_daily_query_quota and update_timezone): the  *)
(* rows and open transactions stay well formed and the count always covers *)
(* the admissions, for any number of workers.                              *)
THEOREM QuotaInvariance == Spec => []QInv
<1>1. Init => QInv
  BY InitQInv
<1>2. QInv /\ [Next]_vars => QInv'
  BY StepQInv
<1> QED BY <1>1, <1>2, PTL DEF Spec

(* The row and the open transactions are always of their types.            *)
THEOREM QuotaTypes == Spec => []TypeOK
<1>1. QInv => TypeOK
  BY DEF QInv
<1> QED BY <1>1, QuotaInvariance, PTL

(* The steps other than a charge, as far as the properties look at them.   *)
LEMMA OtherSteps ==
  ASSUME QInv, [Next]_vars, \A w \in Workers : ~ ConsumeWrite(w)
  PROVE  row'.count = row.count /\ admitted' = admitted
<1>1. row \in Row
  BY DEF QInv, TypeOK
<1>2. ASSUME NEW w \in Workers, RealignWrite(w)
      PROVE  row'.count = row.count /\ admitted' = admitted
  BY <1>1, <1>2 DEF RealignWrite, Row
<1>3. ASSUME NEW w \in Workers, NEW p \in Plans, SetPlan(w, p)
      PROVE  row'.count = row.count /\ admitted' = admitted
  BY <1>1, <1>3 DEF SetPlan, Row
<1>4. CASE Tick \/ UNCHANGED vars
  BY <1>4 DEF Tick, vars
<1>5. ASSUME NEW w \in Workers, ConsumeRead(w)
      PROVE  row'.count = row.count /\ admitted' = admitted
  BY <1>5 DEF ConsumeRead
<1>6. ASSUME NEW w \in Workers, NEW z \in Zones, RealignRead(w, z)
      PROVE  row'.count = row.count /\ admitted' = admitted
  BY <1>6 DEF RealignRead
<1> QED BY <1>2, <1>3, <1>4, <1>5, <1>6 DEF Next

(* No interleaving of charges, timezone changes and plan changes over any  *)
(* number of workers admits more queries in a window than the plan that    *)
(* the charging UPDATE returned allows.                                    *)
THEOREM AdmissionsWithinPlan == Spec => AdmittedWithinPlan
<1>1. QInv /\ [Next]_vars =>
        [admitted' > admitted => admitted' <= DailyLimit[row'.plan]]_vars
  <2> SUFFICES ASSUME QInv, [Next]_vars, admitted' > admitted
               PROVE  admitted' <= DailyLimit[row'.plan]
    OBVIOUS
  <2>1. admitted \in Nat
    BY DEF QInv, TypeOK
  <2>2. PICK w \in Workers : ConsumeWrite(w)
    BY <2>1, OtherSteps
  <2>3. /\ row.count \in Nat /\ row.resetAt \in Nat /\ row.plan \in Plans
        /\ admitted <= row.count
        /\ DailyLimit[row.plan] \in Nat /\ DailyLimit[row.plan] >= 1
    BY PlansAssumption DEF QInv, TypeOK, Row, Accounting
  <2>4. tx[w].at \in Nat /\ row'.plan = row.plan
    BY <2>2, ConsumeFacts
  <2>5. CASE tx[w].at >= row.resetAt
    BY <2>2, <2>3, <2>4, <2>5, ConsumeFacts
  <2>6. CASE tx[w].at < row.resetAt
    <3>1. /\ row'.count = row.count + 1
          /\ admitted' = IF row'.count <= DailyLimit[row.plan]
                           THEN admitted + 1 ELSE admitted
      BY <2>2, <2>6, ConsumeFacts
    <3> QED BY <2>1, <2>3, <2>4, <3>1
  <2> QED BY <2>3, <2>4, <2>5, <2>6
<1> QED BY <1>1, QuotaInvariance, PTL DEF Spec, AdmittedWithinPlan

(* Under one plan, a denial means the whole limit was admitted: concurrent *)
(* charges and timezone changes never lose a query of the user's.          *)
THEOREM DenialsAreDeserved == Spec => DenialMeansSpent
<1>1. QInv /\ [Next]_vars =>
        [row'.count # row.count /\ lastReply' = "denied" =>
           \A p \in Plans : heldPlans' = {p} => admitted' = DailyLimit[p]]_vars
  <2> SUFFICES ASSUME QInv, [Next]_vars, row'.count # row.count,
                      lastReply' = "denied", NEW p \in Plans, heldPlans' = {p}
               PROVE  admitted' = DailyLimit[p]
    OBVIOUS
  <2>1. PICK w \in Workers : ConsumeWrite(w)
    BY OtherSteps
  <2>2. /\ row.count \in Nat /\ row.resetAt \in Nat /\ row.plan \in heldPlans
        /\ admitted \in Nat /\ DailyLimit[p] \in Nat
    BY PlansAssumption DEF QInv, TypeOK, Row, Accounting
  <2>3. tx[w].at \in Nat
    BY <2>1, ConsumeFacts
  <2>4. ~ (tx[w].at >= row.resetAt)
    BY <2>1, ConsumeFacts
  <2>5. /\ row'.count = row.count + 1 /\ heldPlans' = heldPlans
        /\ ~ (row'.count <= DailyLimit[row.plan]) /\ admitted' = admitted
    <3>1. tx[w].at < row.resetAt
      BY <2>2, <2>3, <2>4
    <3>2. ~ (row'.count <= DailyLimit[row.plan])
      BY <2>1, ConsumeFacts
    <3> QED BY <2>1, <3>1, <3>2, ConsumeFacts
  <2>6. row.plan = p /\ heldPlans = {p}
    BY <2>2, <2>5
  <2>7. admitted = IF row.count <= DailyLimit[p] THEN row.count ELSE DailyLimit[p]
    BY <2>6 DEF QInv, Accounting
  <2> QED BY <2>2, <2>5, <2>6, <2>7
<1> QED BY <1>1, QuotaInvariance, PTL DEF Spec, DenialMeansSpent

(* The daily count is not reset before the boundary it was counted under.  *)
THEOREM CountIsKept == Spec => CountKeptUntilReset
<1>1. QInv /\ [Next]_vars =>
        [row'.count < row.count => now >= row.resetAt]_vars
  <2> SUFFICES ASSUME QInv, [Next]_vars, row'.count < row.count
               PROVE  now >= row.resetAt
    OBVIOUS
  <2>1. row.count \in Nat /\ row.resetAt \in Nat /\ now \in Nat
    BY BoundsAssumption DEF QInv, TypeOK, Row
  <2>2. PICK w \in Workers : ConsumeWrite(w)
    BY <2>1, OtherSteps
  <2>3. tx[w].at \in Nat /\ tx[w].at <= now
    BY <2>2, ConsumeFacts
  <2>4. CASE tx[w].at < row.resetAt
    BY <2>1, <2>2, <2>4, ConsumeFacts
  <2> QED BY <2>1, <2>3, <2>4
<1> QED BY <1>1, QuotaInvariance, PTL DEF Spec, CountKeptUntilReset

(* The displayed quota is the one the next charge enforces.                *)
THEOREM DisplayedQuotaIsEnforced == Spec => []SnapshotPredictsCharge
<1>1. QInv => SnapshotPredictsCharge
  <2> SUFFICES ASSUME QInv PROVE SnapshotPredictsCharge
    OBVIOUS
  <2>1. row \in Row /\ now \in 0 .. MaxTime
    BY DEF QInv, TypeOK
  <2>2. NextMidnight(row.tz, now) \in Nat
    BY <2>1, MidnightAssumption DEF Row
  <2> QED BY <2>1, <2>2, BoundsAssumption
          DEF SnapshotPredictsCharge, EffectiveSnapshot, Charge, Row
<1> QED BY <1>1, QuotaInvariance, PTL

----------------------------------------------------------------------------

(* A step that moves the boundary of a used, running window forward is the *)
(* write of a realignment that read another window.                        *)
LEMMA EarlierBoundary ==
  ASSUME QInv, [Next]_vars, row.count > 0, now < row.resetAt,
         row'.resetAt < row.resetAt
  PROVE  \E w \in Workers : RealignWrite(w) /\ ~ ReadsCurrent(w)
<1>1. row \in Row /\ row.resetAt \in Nat /\ now \in Nat
  BY BoundsAssumption DEF QInv, TypeOK, Row
<1>2. ASSUME NEW w \in Workers, ConsumeWrite(w)
      PROVE FALSE
  <2>1. tx[w].at \in Nat /\ tx[w].at <= now
    BY <1>2, ConsumeFacts
  <2>2. tx[w].at < row.resetAt
    BY <1>1, <2>1
  <2>3. row'.resetAt = row.resetAt
    BY <1>2, <2>2, ConsumeFacts
  <2> QED BY <1>1, <2>3
<1>3. ASSUME NEW w \in Workers, RealignWrite(w), ReadsCurrent(w)
      PROVE FALSE
  <2> DEFINE new == Realigned(tx[w].count, tx[w].resetAt, tx[w].at, tx[w].tz)
  <2>1. tx[w] \in Realigning
    BY <1>3 DEF RealignWrite
  <2>2. tx[w].at \in Nat /\ tx[w].at <= now /\ now \in 0 .. MaxTime
    BY <2>1, TxKinds DEF QInv, TypeOK, TxPast, Realigning
  <2>3. tx[w].at \in 0 .. MaxTime /\ tx[w].count \in Nat /\ tx[w].resetAt \in Nat
        /\ tx[w].tz \in Zones
    BY <2>1, <2>2, BoundsAssumption DEF Realigning
  <2>4. tx[w].count > 0 /\ tx[w].resetAt = row.resetAt
    BY <1>3 DEF ReadsCurrent
  <2>5. new \in Nat /\ new >= row.resetAt
    BY <2>3, <2>4, RealignedFacts
  <2>6. row' = [row EXCEPT
          !.tz = IF tx[w].tz = tx[w].oldTz THEN @ ELSE tx[w].tz,
          !.resetAt = IF new = tx[w].resetAt THEN @ ELSE new]
    BY <1>3 DEF RealignWrite
  <2> HIDE DEF new
  <2>7. row'.resetAt = IF new = tx[w].resetAt THEN row.resetAt ELSE new
    BY <1>1, <2>6 DEF Row
  <2> QED BY <1>1, <2>5, <2>7
<1>4. ASSUME row'.resetAt = row.resetAt
      PROVE FALSE
  BY <1>1, <1>4
<1>5. ASSUME NEW w \in Workers, NEW p \in Plans, SetPlan(w, p)
      PROVE FALSE
  <2>1. row'.resetAt = row.resetAt
    BY <1>1, <1>5 DEF SetPlan, Row
  <2> QED BY <2>1, <1>4
<1>6. CASE Tick \/ UNCHANGED vars
  BY <1>4, <1>6 DEF Tick, vars
<1>7. ASSUME NEW w \in Workers, ConsumeRead(w) \/ \E z \in Zones : RealignRead(w, z)
      PROVE FALSE
  BY <1>4, <1>7 DEF ConsumeRead, RealignRead
<1> QED BY <1>2, <1>3, <1>5, <1>6, <1>7 DEF Next

(* Any number of workers: only a lost update of update_timezone brings the *)
(* boundary of a used window forward.                                      *)
THEOREM ResetMovesOnlyLater == Spec => NoEarlyResetUnlessStale
<1>1. QInv /\ [Next]_vars =>
        [row.count > 0 /\ now < row.resetAt
         /\ (\A w \in Workers : tx[w].op = "realign" => ReadsCurrent(w))
           => row'.resetAt >= row.resetAt]_vars
  <2> SUFFICES ASSUME QInv, [Next]_vars, row.count > 0, now < row.resetAt,
                      \A w \in Workers : tx[w].op = "realign" => ReadsCurrent(w),
                      ~ (row'.resetAt >= row.resetAt)
               PROVE  FALSE
    OBVIOUS
  <2>1. row.resetAt \in Nat /\ row'.resetAt \in Nat
    BY StepQInv DEF QInv, TypeOK, Row
  <2>2. PICK w \in Workers : RealignWrite(w) /\ ~ ReadsCurrent(w)
    BY <2>1, EarlierBoundary
  <2>3. tx[w].op = "realign"
    BY <2>2, TxKinds DEF RealignWrite
  <2> QED BY <2>2, <2>3
<1> QED BY <1>1, QuotaInvariance, PTL DEF Spec, NoEarlyResetUnlessStale

\* With one worker, what the open realignment read is what the row holds.
AloneInv == \A w \in Workers : tx[w].op = "realign" => ReadsCurrent(w)

(* A single worker keeps the contract of update_timezone as documented:    *)
(* once queries are counted the reset never moves earlier.                 *)
THEOREM SingleWorkerKeepsContract ==
  ASSUME \A v, w \in Workers : v = w
  PROVE  Spec => NoEarlyReset
<1>1. Init => AloneInv
  BY TxKinds DEF Init, AloneInv
<1>2. QInv /\ AloneInv /\ [Next]_vars => AloneInv'
  <2> SUFFICES ASSUME QInv, AloneInv, [Next]_vars,
                      NEW w \in Workers, tx'[w].op = "realign"
               PROVE  ReadsCurrent(w)'
    BY DEF AloneInv
  <2>0. tx \in [Workers -> {Idle} \union Consuming \union Realigning]
    BY DEF QInv, TypeOK
  <2>1. CASE Tick \/ UNCHANGED vars
    BY <2>1 DEF Tick, vars, AloneInv, ReadsCurrent
  <2>2. ASSUME NEW v \in Workers, ConsumeRead(v) \/ ConsumeWrite(v) \/ RealignWrite(v)
        PROVE  FALSE
    <3>1. tx'[w].op # "realign"
      BY <2>0, <2>2, TxKinds DEF ConsumeRead, ConsumeWrite, RealignWrite
    <3> QED BY <3>1
  <2>3. ASSUME NEW v \in Workers, NEW z \in Zones, RealignRead(v, z)
        PROVE  ReadsCurrent(w)'
    BY <2>0, <2>3 DEF RealignRead, ReadsCurrent
  <2>4. ASSUME NEW v \in Workers, NEW p \in Plans, SetPlan(v, p)
        PROVE  FALSE
    BY <2>4, TxKinds DEF SetPlan
  <2> QED BY <2>1, <2>2, <2>3, <2>4 DEF Next
<1>3. QInv /\ AloneInv /\ [Next]_vars =>
        [row.count > 0 /\ now < row.resetAt => row'.resetAt >= row.resetAt]_vars
  <2> SUFFICES ASSUME QInv, AloneInv, [Next]_vars, row.count > 0,
                      now < row.resetAt, ~ (row'.resetAt >= row.resetAt)
               PROVE  FALSE
    OBVIOUS
  <2>1. row.resetAt \in Nat /\ row'.resetAt \in Nat
    BY StepQInv DEF QInv, TypeOK, Row
  <2>2. PICK w \in Workers : RealignWrite(w) /\ ~ ReadsCurrent(w)
    BY <2>1, EarlierBoundary
  <2> QED BY <2>2, TxKinds DEF AloneInv, RealignWrite
<1> QED BY <1>1, <1>2, <1>3, QuotaInvariance, PTL DEF Spec, NoEarlyReset
=============================================================================
