------------------------------ MODULE MCQuota ------------------------------
(* Instance of Quota for TLC.  A day is Day ticks; a zone is its offset,   *)
(* so that different zones have their midnights at different instants.     *)
EXTENDS Quota

CONSTANT Day

\* The zones of the instance: offsets of zero and of half a day.
MCZones == {0, Day \div 2}

\* Zone z has its midnights at the instants that are z modulo Day.
MCNextMidnight(z, t) == t + Day - ((t + Day - z) % Day)

\* Two plans, the second with the higher limit.
MCPlans == {"free", "pro"}
MCDailyLimit == [p \in MCPlans |-> IF p = "free" THEN 1 ELSE 2]
=============================================================================
