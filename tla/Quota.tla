------------------------------- MODULE Quota -------------------------------
(***************************************************************************)
(* The daily query quota of one user: the columns daily_query_count,       *)
(* daily_quota_reset_at, timezone and plan_code of the user's row, and the *)
(* transactions of UserStore that touch them.  Rows of different users do  *)
(* not interact (every statement has WHERE id = :user_id), so one row is   *)
(* enough.  The workers are the uvicorn processes (the Dockerfile starts   *)
(* four).  A handler calls the store from its event loop with no await, so *)
(* a worker runs one such transaction at a time; the transactions of two   *)
(* workers interleave between their statements (READ COMMITTED, no row     *)
(* lock is taken by the SELECTs of these two methods).                     *)
(***************************************************************************)
EXTENDS Integers

CONSTANTS
  Workers,          \* the server processes
  Zones,            \* the IANA timezones a user may choose
  Plans,            \* plan codes: the free plan and the pro plan
  DailyLimit,       \* DailyLimit[p]: ask_database_per_day of plan p
  NextMidnight(_, _), \* NextMidnight(z, t): the first local midnight of z after t
  MaxTime,          \* bound: the last instant of the clock
  MaxCount          \* bound: no charge starts once the count has reached it

ASSUME PlansAssumption == Plans # {} /\ DailyLimit \in [Plans -> Nat \ {0}]
ASSUME ZonesAssumption == Zones # {}
ASSUME BoundsAssumption == MaxTime \in Nat /\ MaxCount \in Nat

\* _next_local_midnight(now, tz) is an instant later than now.
ASSUME MidnightAssumption ==
  \A z \in Zones : \A t \in 0 .. MaxTime :
    NextMidnight(z, t) \in Nat /\ NextMidnight(z, t) > t

VARIABLES
  now,       \* the wall clock, UTC
  row,       \* the user's row: [tz, count, resetAt, plan]
  tx,        \* tx[w]: what the transaction open at worker w has read, or Idle
  lastReply, \* history: verdict of the last charge
  admitted,  \* history: queries admitted since the window was opened
  heldPlans  \* history: the plans held since the window was opened

vars == <<now, row, tx, lastReply, admitted, heldPlans>>

Row == [tz : Zones, count : Nat, resetAt : Nat, plan : Plans]

Idle == [op |-> "idle"]

\* consume_daily_query_quota after its SELECT: the instant and the next reset.
Consuming == [op : {"consume"}, at : Nat, next : Nat]

\* update_timezone after its SELECT: the row as it read it, and its input.
Realigning == [op : {"realign"}, at : Nat, tz : Zones,
               oldTz : Zones, count : Nat, resetAt : Nat]

----------------------------------------------------------------------------
(* The row-level operations.                                               *)

\* Mutant: a new window opens one tick before the boundary.
ChargeEarly(r, at, next) ==
  IF at + 1 >= r.resetAt THEN [r EXCEPT !.count = 1, !.resetAt = next]
                         ELSE [r EXCEPT !.count = @ + 1]

\* The UPDATE of consume_daily_query_quota, on the row it finds.
Charge(r, at, next) ==
  IF at >= r.resetAt THEN [r EXCEPT !.count = 1, !.resetAt = next]
                     ELSE [r EXCEPT !.count = @ + 1]

\* Mutant: the count is compared as if the present call were not in it.
AllowedOneMore(plan, count) == count - 1 <= DailyLimit[plan]

\* Mutant: the count is compared as if it did not hold the present call.
AllowedOneLess(plan, count) == count < DailyLimit[plan]

\* check_query_quota, called by ask_database with max(daily_count - 1, 0).
Allowed(plan, count) ==
  (IF count - 1 >= 0 THEN count - 1 ELSE 0) < DailyLimit[plan]

\* Mutant: the reset boundary follows the new zone whatever was counted.
RealignedAlways(count, resetAt, at, z) == NextMidnight(z, at)

\* Mutant: the boundary that is kept is stored as a distance from now.
RealignedRelative(count, resetAt, at, z) ==
  LET computed == NextMidnight(z, at) IN
    IF count = 0 THEN computed
    ELSE IF resetAt <= at THEN resetAt - at
    ELSE IF computed > resetAt THEN computed ELSE resetAt

\* The three cases of update_timezone, on what it read.
Realigned(count, resetAt, at, z) ==
  LET computed == NextMidnight(z, at) IN
    IF count = 0 THEN computed
    ELSE IF resetAt <= at THEN resetAt
    ELSE IF computed > resetAt THEN computed ELSE resetAt

\* Mutant: the display keeps the old window at the very instant it ends.
SnapshotLate(r, at) ==
  IF at > r.resetAt
    THEN [count |-> 0, resetAt |-> NextMidnight(r.tz, at)]
    ELSE [count |-> r.count, resetAt |-> r.resetAt]

\* get_effective_quota_snapshot: the count and the boundary the UI displays.
EffectiveSnapshot(r, at) ==
  IF at >= r.resetAt
    THEN [count |-> 0, resetAt |-> NextMidnight(r.tz, at)]
    ELSE [count |-> r.count, resetAt |-> r.resetAt]

----------------------------------------------------------------------------

\* create_user: an empty window that ends at the next local midnight.
Init ==
  /\ now = 0
  /\ \E z \in Zones, p \in Plans :
       row = [tz |-> z, count |-> 0, resetAt |-> NextMidnight(z, 0), plan |-> p]
  /\ tx = [w \in Workers |-> Idle]
  /\ lastReply = "none"
  /\ admitted = 0
  /\ heldPlans = {row.plan}

Tick ==
  /\ now' \in (now + 1) .. MaxTime
  /\ UNCHANGED <<row, tx, lastReply, admitted, heldPlans>>

\* consume_daily_query_quota: now, then SELECT timezone.
ConsumeRead(w) ==
  /\ tx[w] = Idle
  /\ row.count < MaxCount
  /\ tx' = [tx EXCEPT ![w] =
       [op |-> "consume", at |-> now, next |-> NextMidnight(row.tz, now)]]
  /\ UNCHANGED <<now, row, lastReply, admitted, heldPlans>>

\* UPDATE ... RETURNING plan_code, daily_query_count; then the plan check.
ConsumeWrite(w) ==
  /\ tx[w] \in Consuming
  /\ LET opened == tx[w].at >= row.resetAt
         charged == Charge(row, tx[w].at, tx[w].next)
         ok == Allowed(charged.plan, charged.count)
     IN /\ row' = charged
        /\ lastReply' = IF ok THEN "admitted" ELSE "denied"
        /\ admitted' = (IF opened THEN 0 ELSE admitted) + (IF ok THEN 1 ELSE 0)
        /\ heldPlans' = IF opened THEN {row.plan} ELSE heldPlans
  /\ tx' = [tx EXCEPT ![w] = Idle]
  /\ UNCHANGED now

\* update_timezone: now, then SELECT the row.
RealignRead(w, z) ==
  /\ tx[w] = Idle
  /\ tx' = [tx EXCEPT ![w] =
       [op |-> "realign", at |-> now, tz |-> z,
        oldTz |-> row.tz, count |-> row.count, resetAt |-> row.resetAt]]
  /\ UNCHANGED <<now, row, lastReply, admitted, heldPlans>>

\* The commit: the ORM writes the columns whose value differs from what it
\* read, so an unchanged zone or boundary is not part of the UPDATE.
RealignWrite(w) ==
  /\ tx[w] \in Realigning
  /\ LET new == Realigned(tx[w].count, tx[w].resetAt, tx[w].at, tx[w].tz) IN
       row' = [row EXCEPT !.tz = IF tx[w].tz = tx[w].oldTz THEN @ ELSE tx[w].tz,
                          !.resetAt = IF new = tx[w].resetAt THEN @ ELSE new]
  /\ tx' = [tx EXCEPT ![w] = Idle]
  /\ UNCHANGED <<now, lastReply, admitted, heldPlans>>

\* apply_billing_update and activate_user: the plan of the row is replaced,
\* in a transaction that touches none of the quota columns.
SetPlan(w, p) ==
  /\ tx[w] = Idle
  /\ row' = [row EXCEPT !.plan = p]
  /\ heldPlans' = heldPlans \union {p}
  /\ UNCHANGED <<now, tx, lastReply, admitted>>

Next ==
  \/ Tick
  \/ \E w \in Workers : ConsumeRead(w) \/ ConsumeWrite(w)
  \/ \E w \in Workers, z \in Zones : RealignRead(w, z)
  \/ \E w \in Workers : RealignWrite(w)
  \/ \E w \in Workers, p \in Plans : SetPlan(w, p)

Spec == Init /\ [][Next]_vars

----------------------------------------------------------------------------

\* Type invariant: the row and what the open transactions hold are well formed.
TypeOK ==
  /\ now \in 0 .. MaxTime
  /\ row \in Row
  /\ tx \in [Workers -> {Idle} \union Consuming \union Realigning]
  /\ lastReply \in {"none", "admitted", "denied"}
  /\ admitted \in Nat
  /\ heldPlans \in SUBSET Plans

(* The quota: an admission brings the queries admitted in the current      *)
(* window at most to the limit of the plan the UPDATE returned, whatever   *)
(* the workers, timezone changes and plan changes in between.              *)
AdmittedWithinPlan ==
  [][admitted' > admitted => admitted' <= DailyLimit[row'.plan]]_vars

(* The quota is not stingy either: in a window that knew one plan only,    *)
(* update_timezone and concurrent charges never cost a query: a denial     *)
(* means the plan's limit was admitted.                                    *)
DenialMeansSpent ==
  [][row'.count # row.count /\ lastReply' = "denied" =>
       \A p \in Plans : heldPlans' = {p} => admitted' = DailyLimit[p]]_vars

(* The count only falls once the boundary it was counted under has passed. *)
CountKeptUntilReset ==
  [][row'.count < row.count => now >= row.resetAt]_vars

(* update_timezone's contract: "Once queries have been counted in the      *)
(* current window, a timezone change may push the reset later but never    *)
(* earlier", and a charge never moves the boundary of a running window.    *)
NoEarlyReset ==
  [][row.count > 0 /\ now < row.resetAt => row'.resetAt >= row.resetAt]_vars

\* The realignment open at w read the window the row still holds.
ReadsCurrent(w) ==
  /\ tx[w].resetAt = row.resetAt
  /\ row.count > 0 => tx[w].count > 0

(* The lost update is the only exception to that contract: as long as the  *)
(* realignments in progress have read the window the row still holds, no   *)
(* step of any worker brings the boundary of a used window forward.        *)
NoEarlyResetUnlessStale ==
  [][row.count > 0 /\ now < row.resetAt
     /\ (\A w \in Workers : tx[w].op = "realign" => ReadsCurrent(w))
       => row'.resetAt >= row.resetAt]_vars

(* The dashboard and the enforcement agree: the next charge gives the      *)
(* displayed count plus one and the displayed boundary, at every instant.  *)
SnapshotPredictsCharge ==
  LET shown == EffectiveSnapshot(row, now)
      next == Charge(row, now, NextMidnight(row.tz, now))
  IN next.count = shown.count + 1 /\ next.resetAt = shown.resetAt
=============================================================================
