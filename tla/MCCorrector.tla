---------------------------- MODULE MCCorrector ----------------------------
(* Instance of Corrector for TLC: two questions, two tables, and the kinds *)
(* of statement a model answers with.                                      *)
EXTENDS Corrector

Select == [kind |-> "select"]
Word == [kind |-> "word"]
Open == [kind |-> "open"]
Close == [kind |-> "close"]
Comma == [kind |-> "comma"]
More == [kind |-> "more"]
Posing(kind) == [kind |-> "word", shows |-> kind]
From(t) == [kind |-> "table", name |-> t]

OverCap == Number(MaxQueryRows + 1)
WithinCap == Number(MaxQueryRows)

MCTables == {"orders", "users"}
MCSampled == {"users"}

MCDrafts == {
  <<Select, From("users")>>,
  <<Select, From("users"), [kind |-> "text"], Limit, OverCap, Semicolon>>,
  <<Select, From("orders"), Limit, WithinCap>>,
  <<Select, From("users"), Limit, WithinCap, More>>,
  <<Select, Posing("limit"), [kind |-> "word", shows |-> "int", value |-> 2], From("users")>>,
  <<Select, Posing("group"), [kind |-> "effect"], From("users")>>,
  <<Select, Open, Select, From("orders"), Limit, WithinCap, Close>>,
  <<Select, From("users"), [kind |-> "group"]>>,
  <<Select, From("users"), [kind |-> "note"]>>,
  <<Select, From("users"), Limit, Word>>,
  <<Select, From("users"), Limit, OverCap, Comma, OverCap>>,
  <<Select, [kind |-> "cte", name |-> "recent"], From("recent")>>,
  <<Select, From("users"), Semicolon, Select, From("orders")>>,
  <<Select, Open, [kind |-> "write"], From("users"), Close>>,
  <<[kind |-> "write"], From("users")>>}
=============================================================================
