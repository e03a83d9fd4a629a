--------------------------- MODULE MCAskDatabase ---------------------------
(* Instance of AskDatabase for TLC: three calls, two of which ask the same *)
(* question, and one health probe.                                         *)
EXTENDS AskDatabase, TLC

CONSTANTS a1, a2, a3, q1, q2

MCQuestion == (a1 :> q1) @@ (a2 :> q1) @@ (a3 :> q2)
=============================================================================
