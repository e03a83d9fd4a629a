--------------------------- MODULE SlidingWindow ---------------------------
(***************************************************************************)
(* What a per-user sliding-window burst limit promises, with no mention of *)
(* how it is kept: a call is granted exactly when fewer than Capacity      *)
(* earlier grants of the same user lie in the closed window                *)
(* [now - Window, now].  RateLimiter is shown to implement it.             *)
(***************************************************************************)
EXTENDS Integers, Sequences, FiniteSets

CONSTANTS Users, Capacity, Window, MaxTime

VARIABLES
  now,      \* the monotonic clock
  granted,  \* granted[u]: the instants of all the grants u ever got, in order
  reply     \* reply[u]: the answer to u's last call, "none" before the first

absVars == <<now, granted, reply>>

\* The indices of u's grants that lie in the window ending at instant t.
InWindow(u, t) == {i \in DOMAIN granted[u] : granted[u][i] >= t - Window}

AbsInit ==
  /\ now = 0
  /\ granted = [u \in Users |-> <<>>]
  /\ reply = [u \in Users |-> "none"]

AbsTick ==
  /\ now' \in (now + 1) .. MaxTime
  /\ UNCHANGED <<granted, reply>>

Grant(u) ==
  /\ Cardinality(InWindow(u, now)) < Capacity
  /\ granted' = [granted EXCEPT ![u] = Append(@, now)]
  /\ reply' = [reply EXCEPT ![u] = "granted"]
  /\ UNCHANGED now

Refuse(u) ==
  /\ Cardinality(InWindow(u, now)) >= Capacity
  /\ reply' = [reply EXCEPT ![u] = "refused"]
  /\ UNCHANGED <<now, granted>>

AbsNext == AbsTick \/ \E u \in Users : Grant(u) \/ Refuse(u)

AbsSpec == AbsInit /\ [][AbsNext]_absVars
=============================================================================
