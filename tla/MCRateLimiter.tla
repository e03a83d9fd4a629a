--------------------------- MODULE MCRateLimiter ---------------------------
(* Instance of RateLimiter for TLC: two users, so that one user's calls    *)
(* interleave with the other's; a window shorter than the run, so that     *)
(* grants expire while others are still live.                              *)
EXTENDS RateLimiter
=============================================================================
