----------------------------- MODULE MCAccounts -----------------------------
(* Instance of Accounts for TLC: workers are interchangeable, and so are   *)
(* the ids of tokens of one purpose.                                       *)
EXTENDS Accounts, TLC

Interchangeable ==
  Permutations(Workers) \union Permutations(EmailTokens) \union Permutations(LoginTokens)
=============================================================================
