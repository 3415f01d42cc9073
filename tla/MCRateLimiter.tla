---------------------------- MODULE MCRateLimiter ----------------------------
(* Instances of RateLimiter for TLC.                                        *)
EXTENDS RateLimiter, TLC

(* Calls with a connection that may break are alike, and so are the others. *)
Symmetry == Permutations(Lossy) \cup Permutations(Requests \ Lossy)
=============================================================================
