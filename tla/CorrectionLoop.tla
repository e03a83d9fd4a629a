--------------------------- MODULE CorrectionLoop ---------------------------
(***************************************************************************)
(* What the self-correction loop promises for each question q: at most     *)
(* MaxRetries attempts, then one verdict, and it does come; and after a    *)
(* schema error no statement is tried that was not drafted on a schema     *)
(* read since the error.  It does not promise that of an error for which   *)
(* the refresh fails, nor of one after the refresh, which is made once.    *)
(* Corrector is shown to implement this.                                   *)
(***************************************************************************)
EXTENDS Integers

CONSTANTS Questions, MaxRetries

VARIABLES
  version,  \* how often the schema of the database has changed
  phase,    \* phase[q]: "idle", "busy", "answered" or "failed"
  attempts, \* attempts[q]: how many statements were tried
  need,     \* need[q]: the schema version at q's last error before its refresh
  learned,  \* learned[q]: the schema version behind q's latest draft
  excused   \* excused[q]: the refresh after that error failed

loopVars == <<version, phase, attempts, need, learned, excused>>

LoopInit ==
  /\ version = 0
  /\ phase = [q \in Questions |-> "idle"]
  /\ attempts = [q \in Questions |-> 0]
  /\ need = [q \in Questions |-> 0]
  /\ learned = [q \in Questions |-> 0]
  /\ excused = [q \in Questions |-> FALSE]

\* The step concerns q alone.
Only(q) ==
  /\ phase' = [phase EXCEPT ![q] = phase'[q]]
  /\ attempts' = [attempts EXCEPT ![q] = attempts'[q]]
  /\ need' = [need EXCEPT ![q] = need'[q]]
  /\ learned' = [learned EXCEPT ![q] = learned'[q]]
  /\ excused' = [excused EXCEPT ![q] = excused'[q]]

SchemaChanges ==
  /\ version' = version + 1
  /\ UNCHANGED <<phase, attempts, need, learned, excused>>

\* The question is asked and a first draft requested, unless that fails.
Ask(q) ==
  /\ phase[q] = "idle" /\ phase'[q] \in {"busy", "failed"}
  /\ learned'[q] \in 0 .. version
  /\ Only(q)
  /\ UNCHANGED <<version, attempts, need, excused>>

\* One step of the work on q: a draft is made, an attempt counted, the schema
\* found to be outdated, the verdict given, or several of these.
Work(q) ==
  /\ phase[q] = "busy" /\ phase'[q] \in {"busy", "answered", "failed"}
  /\ \/ attempts'[q] = attempts[q]
     \/ /\ attempts'[q] = attempts[q] + 1 /\ attempts'[q] <= MaxRetries
        /\ need[q] <= learned[q] \/ excused[q]
  /\ phase'[q] = "answered" => attempts'[q] > 0
  /\ need'[q] \in {need[q], version}
  /\ learned'[q] \in 0 .. version
  /\ excused'[q] => excused[q] \/ (need'[q] = version /\ attempts'[q] = attempts[q])
  /\ Only(q)
  /\ UNCHANGED version

LoopNext ==
  \/ SchemaChanges
  \/ \E q \in Questions : Ask(q) \/ Work(q)

\* The liveness is stated outright: it does not depend on how the steps of an
\* implementation are scheduled.
LoopSpec ==
  /\ LoopInit /\ [][LoopNext]_loopVars
  /\ \A q \in Questions : phase[q] = "busy" ~> phase[q] \in {"answered", "failed"}
=============================================================================
