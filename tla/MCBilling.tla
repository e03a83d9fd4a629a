----------------------------- MODULE MCBilling -----------------------------
(* Instance of Billing for TLC: the slots of the jobs are interchangeable, *)
(* and so are the checkout sessions.                                       *)
EXTENDS Billing, TLC

Symmetry == Permutations(Jobs) \union Permutations(Sessions)
=============================================================================
