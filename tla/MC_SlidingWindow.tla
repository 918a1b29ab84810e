-------------------------- MODULE MC_SlidingWindow --------------------------
(* Instances of SlidingWindow for TLC. *)
EXTENDS SlidingWindow, TLC

CONSTANTS c1, c2, n1, n2, n3

MCClients == {c1, c2}
MCNanos == {n1, n2, n3}

\* The clock of c2's replica is a tick ahead.
MCAhead == (c1 :> 0) @@ (c2 :> 1)

\* Nanoseconds are only compared for equality.
NanoSymmetry == Permutations(Nanos)
=============================================================================
