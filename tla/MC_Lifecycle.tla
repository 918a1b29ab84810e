---------------------------- MODULE MC_Lifecycle ----------------------------
(* Instances of Lifecycle for TLC. *)
EXTENDS Lifecycle

CONSTANTS job1, job2, req1, req2

MCJobs == {job1, job2}
MCHealthChecks == {job2}
MCRequests == {req1, req2}
NoneAtAll == {}
=============================================================================
