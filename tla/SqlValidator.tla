---------------------------- MODULE SqlValidator ----------------------------
(***************************************************************************)
(* SQLValidator.validate of core/sql_validator.py, on statements that are  *)
(* sequences of tokens.  A token is a record; its kind is                  *)
(*   "select"   SELECT or WITH                                             *)
(*   "write"    a word of the two lists of refused words                   *)
(*   "effect"   changes data or a table by means neither list names:       *)
(*              REPLACE, INTO with a quoted name, a function               *)
(*   "table"    FROM or JOIN with a name  "cte"    the definition of a name*)
(*   "limit", "int", "comma", "open", "close", "semi"                      *)
(*   "more"     continues the number before it: * 1000, an exponent        *)
(*   "group"    GROUP BY or an aggregate  "call"   a forbidden construct   *)
(*   "text"     a string literal, whatever it reads                        *)
(*   "note"     a line comment at the end                                  *)
(*   "word"     anything else                                              *)
(* The masking of literals and comments is that no scan of the masked text *)
(* asks for the kinds "text" and "note".  Such a scan compares characters, *)
(* so it may take a token for another: a quoted name that reads LIMIT, the *)
(* end of discount( for COUNT(.  Then the token has a second field, shows, *)
(* the kind it is taken for.  Where literals and comments end the database *)
(* and the validator are assumed to agree.                                 *)
(***************************************************************************)
EXTENDS Integers, Sequences, FiniteSets, FiniteSetsExt

CONSTANTS
  MaxQueryRows,  \* settings.max_query_rows
  BigResult      \* bound: how many rows an unlimited query returns

ASSUME RowsAssumption ==
  /\ MaxQueryRows \in Nat \ {0}
  /\ BigResult \in Nat
  /\ BigResult > MaxQueryRows

Positions(sql) == 1 .. Len(sql)

\* The positions of the tokens of a kind.
Where(sql, kind) == {i \in Positions(sql) : sql[i].kind = kind}

Has(sql, kind) == Where(sql, kind) # {}

Is(sql, i, kind) == i \in Where(sql, kind)

\* How many statements sqlparse finds that are not empty: each begins where no
\* other token since the last semicolon does.
StatementCount(sql) ==
  Cardinality({i \in Positions(sql) :
    /\ sql[i].kind \notin {"semi", "note"}
    /\ i = 1 \/ Is(sql, i - 1, "semi")})

\* _first_sql_keyword is one of _ALLOWED_FIRST_KEYWORDS.
StartsAsQuery(sql) == Is(sql, 1, "select")

\* A word of _FORBIDDEN_DML or _FORBIDDEN_KEYWORD_ONLY.
Writes(sql) == Has(sql, "write")

\* _extract_table_names and _extract_cte_names.
ReferencedTables(sql) == {sql[i].name : i \in Where(sql, "table")}
CteNames(sql) == {sql[i].name : i \in Where(sql, "cte")}

\* The statement as the scans of its masked text see it.
Seen(token) == IF "shows" \in DOMAIN token THEN token.shows ELSE token.kind
Shown(sql) == [i \in Positions(sql) |-> [sql[i] EXCEPT !.kind = Seen(sql[i])]]

\* The three operators below are applied to Shown(sql).
HasAggregation(sql) == Has(sql, "group")

\* How many parentheses are open before position i.
Depth(sql, i) ==
  Cardinality({j \in Where(sql, "open") : j < i})
    - Cardinality({j \in Where(sql, "close") : j < i})

\* Mutant: a LIMIT inside a subquery passes for the outer query's.
AnyLimits(sql) == Where(sql, "limit")

TopLevelLimits(sql) == {i \in Where(sql, "limit") : Depth(sql, i) = 0}

\* _extract_top_level_limit: the position of the digits after the first
\* top-level LIMIT; there is none for LIMIT ALL and for LIMIT offset, count.
\* That the number may go on after the digits is not looked at.
LimitAt(sql) ==
  IF TopLevelLimits(sql) = {} THEN {}
  ELSE LET at == Min(TopLevelLimits(sql)) + 1 IN
         IF Is(sql, at, "int") /\ ~Is(sql, at + 1, "comma") THEN {at} ELSE {}

Limit == [kind |-> "limit"]
Number(n) == [kind |-> "int", value |-> n]
Semicolon == [kind |-> "semi"]

\* sql.rstrip(";")
WithoutSemicolon(sql) ==
  SubSeq(sql, 1, Max({0} \union {i \in Positions(sql) : ~Is(sql, i, "semi")}))

\* Checks 0a to 1c: what is refused whatever the schema.
ReadOnly(sql) ==
  /\ StatementCount(sql) <= 1
  /\ StartsAsQuery(sql)
  /\ ~Has(sql, "call")
  /\ ~Writes(sql)

\* Check 2: get_table_names is asked only if there is a reference.
KnowsTables(sql, names) == ReferencedTables(sql) \subseteq names \union CteNames(sql)

IsValid(sql, names) == ReadOnly(sql) /\ KnowsTables(sql, names)

\* Check 3: the statement that is executed.
Limited(sql) ==
  IF HasAggregation(Shown(sql)) THEN sql
  ELSE IF LimitAt(Shown(sql)) = {}
  THEN WithoutSemicolon(sql) \o <<Limit, Number(MaxQueryRows), Semicolon>>
  ELSE [i \in Positions(sql) |->
          IF i \in LimitAt(Shown(sql)) /\ sql[i].value > MaxQueryRows
          THEN [sql[i] EXCEPT !.value = MaxQueryRows] ELSE sql[i]]

----------------------------------------------------------------------------
(* What a database makes of a statement.                                   *)

\* It reads nothing from a comment on.
Read(sql) == {i \in Positions(sql) : ~\E j \in Where(sql, "note") : j <= i}

\* The LIMITs of the query itself, not of its subqueries.
OwnLimits(sql) == {i \in Read(sql) : Is(sql, i, "limit") /\ Depth(sql, i) = 0}

\* Two of them are a syntax error, and so is a parenthesis left open.
WellFormed(sql) == Cardinality(OwnLimits(sql)) <= 1 /\ Depth(sql, Len(sql) + 1) = 0

\* It knows more ways to change something than the two lists name.
Changes(sql) == Writes(sql) \/ Has(sql, "effect")

\* It evaluates what follows LIMIT; only a number that stands alone is known.
IsWhole(sql, i) == Is(sql, i, "int") /\ ~Is(sql, i + 1, "more")

\* How many rows it returns at most.
RowsAtMost(sql) ==
  Min({sql[i + 1].value : i \in {j \in OwnLimits(sql) : IsWhole(sql, j + 1)}} \union {BigResult})

----------------------------------------------------------------------------
(* Where the validator and a database read a statement differently.        *)

\* The tokens the scans of the masked text mistake for others.
Decoys(sql) == {i \in Positions(sql) : Seen(sql[i]) # sql[i].kind}

\* The number of its LIMIT only begins an expression.
ExtendsLimit(sql) == \E i \in OwnLimits(sql) : Is(sql, i + 1, "int") /\ Is(sql, i + 2, "more")

\* None of the four, the aggregates that are exempt included.
ReadAlike(sql) ==
  /\ ~HasAggregation(sql) /\ ~Has(sql, "note")
  /\ Decoys(sql) = {} /\ ~ExtendsLimit(sql)
=============================================================================
