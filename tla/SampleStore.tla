---------------------------- MODULE SampleStore ----------------------------
(***************************************************************************)
(* What Collect (internal/collector/collector.go:160-234) and StoreMetrics *)
(* (internal/storage/timescale/client.go:110-282) promise together: the    *)
(* rows of a sample come into the database in one step, at the end of the  *)
(* call, with all that the gatherers of this call have supplied and that   *)
(* has a table, but for what may be left out; and a success is never       *)
(* reported without them.  A failure leaves it open whether they came.     *)
(***************************************************************************)
EXTENDS Naturals

CONSTANTS
    Parts,       \* what the gatherers may supply
    Always,      \* the tables that get a row whatever they supply
    Stored,      \* the parts that have a table
    Optional     \* the tables that may be left out of a sample

VARIABLES
    call,        \* "idle", "working", "ok" or "failed"
    sample,      \* the number of the call
    supplied,    \* the parts supplied in this call
    rows         \* the rows of the database, as <<sample, table>>

vars == << call, sample, supplied, rows >>

Init ==
    /\ call = "idle"
    /\ sample = 0
    /\ supplied = {}
    /\ rows = {}

\* A firing calls Collect, or a retry after a failure.
Start ==
    /\ call \in {"idle", "failed"}
    /\ call' = "working"
    /\ sample' = sample + 1
    /\ supplied' = {}
    /\ UNCHANGED rows

Supply(p) ==
    /\ call = "working"
    /\ supplied' = supplied \union {p}
    /\ UNCHANGED << call, sample, rows >>

Store ==
    \E left \in SUBSET Optional :
        rows' = rows \union
                ({sample} \X ((Always \union (supplied \intersect Stored)) \ left))

Succeed ==
    /\ call = "working"
    /\ call' = "ok"
    /\ Store
    /\ UNCHANGED << sample, supplied >>

Fail ==
    /\ call = "working"
    /\ call' = "failed"
    /\ Store \/ UNCHANGED rows
    /\ UNCHANGED << sample, supplied >>

\* The job gives up or is content.
Return ==
    /\ call \in {"ok", "failed"}
    /\ call' = "idle"
    /\ UNCHANGED << sample, supplied, rows >>

Next ==
    \/ Start
    \/ \E p \in Parts : Supply(p)
    \/ Succeed
    \/ Fail
    \/ Return

Spec == Init /\ [][Next]_vars
=============================================================================
