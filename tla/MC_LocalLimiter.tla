-------------------------- MODULE MC_LocalLimiter --------------------------
(* Instances of LocalLimiter for TLC. *)
EXTENDS LocalLimiter, TLC

CONSTANTS g1, g2, g3, a1

MCRequests == {g1, g2, g3}
MCIPs == {a1}

\* Goroutines are interchangeable.
RequestSymmetry == Permutations(Requests)
=============================================================================
