----------------------------- MODULE MCApiKeys -----------------------------
(* Instance of ApiKeys for TLC: workers and users are interchangeable. *)
EXTENDS ApiKeys, TLC

Interchangeable == Permutations(Workers) \union Permutations(Users)
=============================================================================
