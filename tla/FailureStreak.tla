--------------------------- MODULE FailureStreak ---------------------------
(***************************************************************************)
(* What executeWithRetry (internal/scheduler/jobs.go:172-256) promises of  *)
(* a job.  An attempt leaves something to be done, and nothing else may    *)
(* happen to that job before it is: a failure is counted once, a success   *)
(* starts the count again, and after MaxRetries failures the run gives up, *)
(* with an alert exactly when the job has failed 3 * MaxRetries times in a *)
(* row.                                                                    *)
(***************************************************************************)
EXTENDS Integers

CONSTANTS Jobs, MaxRetries

VARIABLES
    streak,  \* failures in a row that are counted
    tries,   \* failed attempts of the present run that are counted
    due,     \* what the last attempt has left to be done
    alerts   \* how many alerts were logged

vars == << streak, tries, due, alerts >>

Init ==
    /\ streak = [j \in Jobs |-> 0]
    /\ tries = [j \in Jobs |-> 0]
    /\ due = [j \in Jobs |-> "nothing"]
    /\ alerts = [j \in Jobs |-> 0]

\* An attempt ends ...
Attempt(j) ==
    /\ due[j] = "nothing"
    /\ \E outcome \in {"count", "reset"} : due' = [due EXCEPT ![j] = outcome]
    /\ UNCHANGED << streak, tries, alerts >>

\* ... with an error: it is counted, and the last one that is allowed leaves
\* the run to give up;
Count(j) ==
    /\ due[j] = "count"
    /\ streak' = [streak EXCEPT ![j] = @ + 1]
    /\ tries' = [tries EXCEPT ![j] = @ + 1]
    /\ due' = [due EXCEPT ![j] =
                 IF tries[j] + 1 = MaxRetries THEN "give up" ELSE "nothing"]
    /\ UNCHANGED alerts

\* ... or with success: the count and the run are over.
Reset(j) ==
    /\ due[j] = "reset"
    /\ streak' = [streak EXCEPT ![j] = 0]
    /\ tries' = [tries EXCEPT ![j] = 0]
    /\ due' = [due EXCEPT ![j] = "nothing"]
    /\ UNCHANGED alerts

GiveUp(j) ==
    /\ due[j] = "give up"
    /\ alerts' = IF streak[j] >= 3 * MaxRetries
                   THEN [alerts EXCEPT ![j] = @ + 1]
                   ELSE alerts
    /\ tries' = [tries EXCEPT ![j] = 0]
    /\ due' = [due EXCEPT ![j] = "nothing"]
    /\ UNCHANGED streak

Next == \E j \in Jobs : Attempt(j) \/ Count(j) \/ Reset(j) \/ GiveUp(j)

Spec == Init /\ [][Next]_vars
=============================================================================
