-------------------------- MODULE BoundedStaleness --------------------------
(***************************************************************************)
(* What a service that may consult caches promises: whoever is served on   *)
(* the claim c had the right to it at most Bound[c] ago.  For ApiKeys a    *)
(* claim is a pair of a credential and the account it speaks for, for      *)
(* Pipeline a database that the user has connected.  Nothing is said of    *)
(* caches, threads or workers; both modules are shown to implement this.   *)
(***************************************************************************)
EXTENDS Integers

CONSTANTS Claims, Bound, MaxTime

VARIABLES
  now,       \* the clock
  valid,     \* valid[c]: c is good at present
  lastValid, \* lastValid[c]: the last instant at which c was good
  served     \* the claim a request was served on in the step just made, if any

absVars == <<now, valid, lastValid, served>>

AbsInit ==
  /\ now = 0
  /\ valid \in [Claims -> BOOLEAN]
  /\ lastValid = [c \in Claims |-> IF valid[c] THEN 0 ELSE 0 - Bound[c] - 1]
  /\ served = {}

AbsTick ==
  /\ now < MaxTime
  /\ now' = now + 1
  /\ lastValid' = [c \in Claims |-> IF valid[c] THEN now + 1 ELSE lastValid[c]]
  /\ served' = {}
  /\ UNCHANGED valid

\* Keys are created, revoked and rotated, accounts suspended, databases connected.
AbsChange ==
  /\ valid' \in [Claims -> BOOLEAN]
  /\ lastValid' = [c \in Claims |-> IF valid[c] \/ valid'[c] THEN now ELSE lastValid[c]]
  /\ served' = {}
  /\ UNCHANGED now

AbsServe(c) ==
  /\ now - lastValid[c] <= Bound[c]
  /\ served' = {c}
  /\ UNCHANGED <<now, valid, lastValid>>

AbsNext == AbsTick \/ AbsChange \/ \E c \in Claims : AbsServe(c)

AbsSpec == AbsInit /\ [][AbsNext]_absVars
=============================================================================
