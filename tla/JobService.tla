----------------------------- MODULE JobService -----------------------------
(***************************************************************************)
(* What the rest of the process may expect of the job scheduler            *)
(* (internal/scheduler/jobs.go:105-169): jobs run between Start and Stop,  *)
(* none starts once Stop was called, Stop returns when the last has        *)
(* returned, and a running job may take the process down.  Scheduler       *)
(* implements it; Lifecycle is composed with it.                           *)
(***************************************************************************)
CONSTANT Runs

VARIABLES cron, running

vars == << cron, running >>

Init == cron = "new" /\ running = {}

Start ==
    /\ cron = "new"
    /\ cron' = "running"
    /\ UNCHANGED running

Fire(r) ==
    /\ cron = "running"
    /\ r \notin running
    /\ running' = running \union {r}
    /\ UNCHANGED cron

Return(r) ==
    /\ cron # "dead"
    /\ r \in running
    /\ running' = running \ {r}
    /\ UNCHANGED cron

Stop ==
    /\ cron = "running"
    /\ cron' = "stopping"
    /\ UNCHANGED running

StopDone ==
    /\ cron = "stopping"
    /\ running = {}
    /\ cron' = "stopped"
    /\ UNCHANGED running

Die ==
    /\ cron # "dead"
    /\ running # {}
    /\ cron' = "dead"
    /\ UNCHANGED running

Next ==
    \/ Start
    \/ \E r \in Runs : Fire(r) \/ Return(r)
    \/ Stop
    \/ StopDone
    \/ Die

Spec == Init /\ [][Next]_vars
=============================================================================
