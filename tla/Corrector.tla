------------------------------ MODULE Corrector ------------------------------
(***************************************************************************)
(* SelfCorrector.execute_with_correction of core/self_corrector.py, with   *)
(* the SchemaInspector, SQLExecutor and thread pool that the questions of  *)
(* one cached pipeline share.  What happens between two awaits (the model, *)
(* the pause, the query) is one action; validation is SqlValidator's.  The *)
(* owner of the database creates and drops tables at any time; a table     *)
(* stands for any name a statement can miss.                               *)
(***************************************************************************)
EXTENDS SqlValidator

CONSTANTS
  Tables,
  Sampled,     \* those with a text column, whose values the schema text samples
  Questions,
  Dialects,    \* subset of {"sqlite", "postgresql"}
  Drafts,      \* the statements a model may answer with
  MaxRetries,  \* settings.max_self_correction_retries
  MaxChars,    \* settings.max_llm_chars_per_request, in prompts
  PoolSize,    \* threads for queries
  MaxChanges   \* bound: how often the schema changes

\* What names is before the Inspector has read any.
Unread == {"unread"}

ASSUME TablesAssumption == Sampled \subseteq Tables /\ Unread \intersect Tables = {}
ASSUME DialectsAssumption == Dialects \subseteq {"sqlite", "postgresql"}
ASSUME DraftsAssumption == \A sql \in Drafts :
  /\ sql \in Seq({sql[i] : i \in Positions(sql)})
  /\ \A i \in Positions(sql) :
       /\ "kind" \in DOMAIN sql[i]
       /\ "int" \in {sql[i].kind, Seen(sql[i])}
            => "value" \in DOMAIN sql[i] /\ sql[i].value \in Nat
ASSUME LimitsAssumption ==
  /\ PoolSize \in Nat \ {0}
  /\ {MaxRetries, MaxChars, MaxChanges} \subseteq Nat

VARIABLES
  dialect,  \* the dialect of the database
  tables,   \* its tables
  version,  \* how often they have changed
  names,    \* the Inspector's info_cache: the table names it has read, or Unread
  readAt,   \* history: the version at which it read them
  described,\* the info_cache: it has read the columns of these tables
  text,     \* _schema_cache holds the schema as text and has not expired
  ask,      \* ask[q]: the call of execute_with_correction for q
  late      \* how many threads work for calls that have timed out

vars == <<dialect, tables, version, names, readAt, described, text, ask, late>>

\* history: need is the schema version at the last schema error before the
\* refresh, learned the one behind the latest draft; it is excused if the
\* refresh failed.
Waiting(pc, sql) == [pc |-> pc, sql |-> sql, attempt |-> 0, consumed |-> 0,
                     refreshed |-> FALSE, need |-> 0, learned |-> 0, excused |-> FALSE]

Init ==
  /\ dialect \in Dialects
  /\ tables = Tables
  /\ version = 0
  /\ names = Unread
  /\ readAt = 0
  /\ described = FALSE
  /\ text = FALSE
  /\ ask = [q \in Questions |-> Waiting("new", <<>>)]
  /\ late = 0

At(q, pc) == ask[q].pc = pc
Running == {q \in Questions : At(q, "running")}

\* The call goes on as c, or ends.
Becomes(q, c) == ask' = [ask EXCEPT ![q] = c]
Ended(c, verdict) ==
  [c EXCEPT !.pc = verdict, !.sql = <<>>, !.consumed = 0, !.refreshed = FALSE]
Answered(c) == Ended(c, "answered")
Failed(c) == Ended(c, "failed")

----------------------------------------------------------------------------
(* SchemaInspector.                                                        *)

\* get_table_names: what was read once is not read again.
NamesRead == IF names = Unread THEN tables ELSE names
VersionRead == IF names = Unread THEN version ELSE readAt
ReadNames == names' = NamesRead /\ readAt' = VersionRead

\* get_full_schema: the text is cached.  Building it anew reads the columns of
\* every table the Inspector knows of, unless it has them, and asks for the
\* values of text columns; it raises if the table is gone, and wherever the
\* database cannot be reached.  It has returned if text' holds.
SchemaReadable ==
  text \/ (IF described THEN NamesRead \intersect Sampled ELSE NamesRead) \subseteq tables

GetFullSchema ==
  \/ text /\ UNCHANGED <<names, readAt, described, text>>
  \/ /\ ~text /\ text' \in {SchemaReadable, FALSE}
     /\ ReadNames
     /\ described' = (described \/ text')
  \/ ~text /\ UNCHANGED <<names, readAt, described, text>>

\* Mutant: refresh drops the text and keeps the Inspector.
RefreshText == text' = FALSE /\ UNCHANGED <<names, readAt, described>>

\* refresh
Refresh == text' = FALSE /\ names' = Unread /\ readAt' = version /\ described' = FALSE

\* inspect connects and raises: the text is gone, the old Inspector stays.
RefreshFails == text' = FALSE /\ UNCHANGED <<names, readAt, described>>

\* schema_cache_ttl_seconds pass.
TextExpires ==
  /\ text /\ text' = FALSE
  /\ UNCHANGED <<dialect, tables, version, names, readAt, described, ask, late>>

\* list_tables, describe_schema, get_sample_data.
Browse ==
  /\ names = Unread /\ ReadNames
  /\ UNCHANGED <<dialect, tables, version, described, text, ask, late>>

\* The owner creates or drops a table.
Alter(t) ==
  /\ version < MaxChanges /\ version' = version + 1
  /\ tables' = (tables \ {t}) \union ({t} \ tables)
  /\ UNCHANGED <<dialect, names, readAt, described, text, ask, late>>

----------------------------------------------------------------------------
(* The loop.                                                               *)

\* The call, whose budget is checked, pauses before the repair or gives up.
RepairOrGiveUp(q, c) ==
  IF c.consumed > MaxChars THEN Becomes(q, Failed(c))
  ELSE Becomes(q, [c EXCEPT !.pc = "pause", !.sql = <<>>])

\* generate builds the prompt; when that raises so does the call.
Generate(q) ==
  /\ At(q, "new")
  /\ GetFullSchema
  /\ Becomes(q, IF text'
                THEN [ask[q] EXCEPT !.pc = "model", !.learned = VersionRead]
                ELSE Failed(ask[q]))
  /\ UNCHANGED <<dialect, tables, version, late>>

\* Mutant: one more turn of the loop.
TurnsLeftOneMore(c) == c.attempt <= MaxRetries

\* while attempt < self._max_retries
TurnsLeft(c) == c.attempt < MaxRetries

\* Mutant: the validator's version of the statement is not taken over.
AsWritten(sql) == sql

\* validation.modified_sql
Modified(sql) == Limited(sql)

\* Only repairs count, with the length of the prompt and the answer.
Costs(q) == IF ask[q].attempt = 0 THEN {0} ELSE {1, MaxChars + 1}

\* validate comes as far as get_table_names, which connects if it has to.
AsksForNames(sql) == ReadOnly(sql) /\ ReferencedTables(sql) # {}

\* The model answers with sql, the first time or as a repair; the next turn
\* of the loop begins and validates it.  If the connection fails, the call
\* raises.
ModelAnswers(q, sql, used) ==
  LET c == [ask[q] EXCEPT !.consumed = @ + used]
      turn == [c EXCEPT !.attempt = @ + 1]
  IN
  /\ At(q, "model")
  /\ \/ /\ ~TurnsLeft(c)
        /\ Becomes(q, Failed(c))
        /\ UNCHANGED <<names, readAt>>
     \/ /\ TurnsLeft(c) /\ AsksForNames(sql) /\ names = Unread
        /\ Becomes(q, Failed(turn))
        /\ UNCHANGED <<names, readAt>>
     \/ /\ TurnsLeft(c)
        /\ IF AsksForNames(sql) THEN ReadNames
           ELSE UNCHANGED <<names, readAt>>
        /\ IF IsValid(sql, NamesRead)
           THEN Becomes(q, [turn EXCEPT !.pc = "queued", !.sql = Modified(sql)])
           ELSE RepairOrGiveUp(q, turn)
  /\ UNCHANGED <<dialect, tables, version, described, text, late>>

\* The model does not answer: the first call raises, a repair ends the loop.
ModelFails(q) ==
  /\ At(q, "model")
  /\ Becomes(q, Failed(ask[q]))
  /\ UNCHANGED <<dialect, tables, version, names, readAt, described, text, late>>

\* After the pause _fix_sql builds its prompt, on the schema as it is now.
Repair(q) ==
  /\ At(q, "pause")
  /\ GetFullSchema
  /\ Becomes(q, IF text'
                THEN [ask[q] EXCEPT !.pc = "model", !.learned = VersionRead]
                ELSE Failed(ask[q]))
  /\ UNCHANGED <<dialect, tables, version, late>>

\* A thread of the pool takes up the query.
Start(q) ==
  /\ At(q, "queued")
  /\ Cardinality(Running) + late < PoolSize
  /\ Becomes(q, [ask[q] EXCEPT !.pc = "running"])
  /\ UNCHANGED <<dialect, tables, version, names, readAt, described, text, late>>

\* What the database says of the statement.
Missing(sql) == ReferencedTables(sql) \ (CteNames(sql) \union tables) # {}
Outcomes(sql) ==
  IF ~WellFormed(sql) THEN {"fatal"}
  ELSE IF Missing(sql) THEN {"missing"}
  ELSE {"rows", "mismatch", "fatal"}

\* _is_schema_drift: SQLite's message is among the markers; PostgreSQL names
\* the table between the words of the marker, and the class without a space.
IsSchemaDrift(outcome) == outcome = "missing" /\ dialect = "sqlite"

\* _is_llm_repairable
IsRepairable(outcome) == outcome \in {"mismatch", "timeout"} \/ IsSchemaDrift(outcome)

\* A schema error before the refresh of the call has to be made good.
Noted(q, outcome) ==
  IF IsSchemaDrift(outcome) /\ ~ask[q].refreshed
  THEN [ask[q] EXCEPT !.need = version, !.excused = FALSE] ELSE ask[q]

\* Mutant: no refresh.
RecoverBlind(q, outcome) ==
  /\ IF IsRepairable(outcome) THEN RepairOrGiveUp(q, Noted(q, outcome))
     ELSE Becomes(q, Failed(ask[q]))
  /\ UNCHANGED <<names, readAt, described, text>>

\* The except branch of an execution: at most one refresh per call.
Recover(q, outcome) ==
  IF ~IsRepairable(outcome)
  THEN Becomes(q, Failed(ask[q])) /\ UNCHANGED <<names, readAt, described, text>>
  ELSE IF IsSchemaDrift(outcome) /\ ~ask[q].refreshed
  THEN \/ Refresh /\ RepairOrGiveUp(q, [Noted(q, outcome) EXCEPT !.refreshed = TRUE])
       \/ RefreshFails /\ RepairOrGiveUp(q, [Noted(q, outcome) EXCEPT !.excused = TRUE])
  ELSE RepairOrGiveUp(q, ask[q]) /\ UNCHANGED <<names, readAt, described, text>>

Executes(q) ==
  /\ At(q, "running")
  /\ \E outcome \in Outcomes(ask[q].sql) :
       \/ /\ outcome = "rows" /\ Becomes(q, Answered(ask[q]))
          /\ UNCHANGED <<names, readAt, described, text>>
       \/ outcome # "rows" /\ Recover(q, outcome)
  /\ UNCHANGED <<dialect, tables, version, late>>

\* wait_for: a query that has not started is cancelled, the thread of one that
\* has goes on; str(exc) is empty, which is taken for "Query timed out".
TimesOut(q) ==
  /\ At(q, "queued") \/ At(q, "running")
  /\ Recover(q, "timeout")
  /\ late' = IF At(q, "running") THEN late + 1 ELSE late
  /\ UNCHANGED <<dialect, tables, version>>

\* statement_timeout, or the timer's interrupt, ends a query nobody waits for.
LateEnds ==
  /\ late > 0 /\ late' = late - 1
  /\ UNCHANGED <<dialect, tables, version, names, readAt, described, text, ask>>

Proceeds(q) ==
  \/ Repair(q)
  \/ ModelFails(q)
  \/ Executes(q)
  \/ TimesOut(q)
  \/ At(q, "model") /\ \E sql \in Drafts, used \in Costs(q) : ModelAnswers(q, sql, used)

Next ==
  \/ \E q \in Questions : Generate(q) \/ Start(q) \/ Proceeds(q)
  \/ \E t \in Tables : Alter(t)
  \/ TextExpires
  \/ Browse
  \/ LateEnds

Spec == Init /\ [][Next]_vars

\* The pause and wait_for end by the clock, a call of the model by the
\* timeout of its client.  No thread has to become free.
FairSpec == Spec /\ \A q \in Questions : WF_(ask[q])(Proceeds(q))

----------------------------------------------------------------------------

(* Type invariant: the pool, the retries and what is known of the schema   *)
(* stay within their limits.                                               *)
TypeOK ==
  /\ dialect \in Dialects /\ tables \subseteq Tables
  /\ version \in 0 .. MaxChanges /\ readAt \in 0 .. version
  /\ names = Unread \/ names \subseteq Tables
  /\ {text, described} \subseteq BOOLEAN /\ (text => described) /\ (described => names # Unread)
  /\ late \in 0 .. PoolSize /\ Cardinality(Running) + late <= PoolSize
  /\ \A q \in Questions :
       /\ ask[q].pc \in {"new", "model", "pause", "queued", "running", "answered", "failed"}
       /\ ask[q].attempt \in 0 .. MaxRetries
       /\ {ask[q].need, ask[q].learned} \subseteq 0 .. version /\ ask[q].excused \in BOOLEAN

(* What runs on the customer's database is one statement without a word    *)
(* the validator refuses: if it changes anything, then by means that no    *)
(* list of the validator names (REPLACE, INTO with a quoted name).  It     *)
(* returns at most max_query_rows rows unless it aggregates, ends in a     *)
(* comment, goes on after the number of its LIMIT, or has a token that the *)
(* scans of the masked text mistake: but for these, the LIMIT they find,   *)
(* or append, is the LIMIT the database goes by.                           *)
OnlyBoundedQueriesRun ==
  \A q \in Running : LET sql == ask[q].sql IN
    /\ StatementCount(sql) = 1
    /\ Changes(sql) => Has(sql, "effect")
    /\ WellFormed(sql) /\ ReadAlike(sql) => RowsAtMost(sql) <= MaxQueryRows

Phase == [q \in Questions |->
  CASE At(q, "new") -> "idle"
    [] ask[q].pc \in {"model", "pause", "queued", "running"} -> "busy"
    [] OTHER -> ask[q].pc]

Loop == INSTANCE CorrectionLoop
  WITH Questions <- Questions, MaxRetries <- MaxRetries, version <- version, phase <- Phase,
       attempts <- [q \in Questions |-> ask[q].attempt],
       need <- [q \in Questions |-> ask[q].need],
       learned <- [q \in Questions |-> ask[q].learned],
       excused <- [q \in Questions |-> ask[q].excused]

(* The correction loop keeps its promise: at most MaxRetries attempts and  *)
(* a verdict that comes although threads of timed-out queries fill the     *)
(* pool; and what is tried after a schema error was drafted on a schema    *)
(* read since, although other questions use the same inspector meanwhile.  *)
(* Two schema errors are excepted: one whose refresh raised, and one after *)
(* the call's refresh, which there is only once.                           *)
ImplementsCorrectionLoop == Loop!LoopSpec
=============================================================================
