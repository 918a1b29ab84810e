--------------------------- MODULE MC_Scheduler ---------------------------
(* Instances of Scheduler for TLC. *)
EXTENDS Scheduler, TLC

CONSTANTS collect, train, health, r1, r2, r3

MCJobs == {collect, train, health}
MCPlain == {health}
MCOverlap == {collect}
MCRuns == {r1, r2}
MCRuns3 == {r1, r2, r3}

\* Goroutines are interchangeable.
RunSymmetry == Permutations(Runs)
=============================================================================
