---------------------------- MODULE LocalLimiter ----------------------------
(***************************************************************************)
(* The local tier of the rate limiter: checkLocalLimit and cleanupLoop of  *)
(* internal/api/middleware/rate_limiter.go.  One map, under localMu, holds *)
(* a token bucket for each client IP; requests take a bucket out of the    *)
(* map and use it without the lock, while the cleanup deletes those that   *)
(* were not used for a while.                                              *)
(*                                                                         *)
(* The write of lastUsed races with cleanupLoop's read of it.  Both orders *)
(* are steps here; a torn time is not, as the read uses one word of it.    *)
(* A request is held up between two steps by MaxDelay ticks at most.       *)
(*                                                                         *)
(* External: golang.org/x/time/rate.  A bucket starts full, gains a token  *)
(* with every tick up to its burst, and Allow takes one if there is one.   *)
(***************************************************************************)
EXTENDS Integers, FiniteSets

CONSTANTS
    Requests,      \* goroutines that serve requests
    IPs,
    Burst,         \* localBurst
    StaleTimeout,  \* of cleanupLoop, in ticks
    MaxDelay,
    MaxTime,       \* bound of the clock
    MaxBuckets     \* bound: buckets made in a behaviour

ASSUME RequestsAssumption == IsFiniteSet(Requests)
ASSUME BurstAssumption == Burst \in Nat \ {0}
ASSUME StaleAssumption == StaleTimeout \in Nat /\ MaxDelay \in Nat

\* 15 minutes refill any bucket, even one used MaxDelay after lastUsed.
ASSUME RefillAssumption == Burst + MaxDelay <= StaleTimeout
ASSUME BoundsAssumption == MaxTime \in Nat \ {0} /\ MaxBuckets \in Nat

VARIABLES
    clock,
    localLimiters,  \* the bucket of an IP, 0 when it has none
    buckets,        \* how many were made
    tokens, lastUsed,
    pc, entry, ip,
    since,          \* the time of a request's last step
    deletedInUse,   \* history: by IP, requests with the bucket that was deleted
                    \* while they held it
    admitted,       \* history: admissions, by IP
    before          \* history: what admitted was when a tick began

requestVars == << pc, entry, ip, since >>
historyVars == << deletedInUse, admitted, before >>
vars == << clock, localLimiters, buckets, tokens, lastUsed, requestVars, historyVars >>

Buckets == 1..MaxBuckets
Points == {"idle", "lookup", "create", "touch", "allow"}

Init ==
    /\ clock = 1
    /\ localLimiters = [a \in IPs |-> 0]
    /\ buckets = 0
    /\ tokens = [b \in Buckets |-> Burst]
    /\ lastUsed = [b \in Buckets |-> 0]
    /\ pc = [r \in Requests |-> "idle"]
    /\ entry = [r \in Requests |-> 0]
    /\ ip \in [Requests -> IPs]
    /\ since = [r \in Requests |-> 0]
    /\ deletedInUse = [a \in IPs |-> {}]
    /\ admitted = [a \in IPs |-> 0]
    /\ before = [a \in IPs |-> [t \in 1..MaxTime |-> 0]]

Goto(r, point) ==
    /\ pc' = [pc EXCEPT ![r] = point]
    /\ since' = [since EXCEPT ![r] = clock]

-----------------------------------------------------------------------------

Tick ==
    /\ clock < MaxTime
    /\ \A r \in Requests : pc[r] # "idle" => clock < since[r] + MaxDelay
    /\ clock' = clock + 1
    /\ tokens' = [b \in Buckets |-> IF tokens[b] < Burst THEN tokens[b] + 1 ELSE Burst]
    /\ before' = [a \in IPs |-> [before[a] EXCEPT ![clock'] = admitted[a]]]
    /\ UNCHANGED << localLimiters, buckets, lastUsed, requestVars, deletedInUse, admitted >>

\* RateLimit is called for a request of address a.
Arrive(r, a) ==
    /\ pc[r] = "idle"
    /\ ip' = [ip EXCEPT ![r] = a]
    /\ Goto(r, "lookup")
    /\ UNCHANGED << clock, localLimiters, buckets, tokens, lastUsed, entry, historyVars >>

\* Under RLock
Lookup(r) ==
    /\ pc[r] = "lookup"
    /\ entry' = [entry EXCEPT ![r] = localLimiters[ip[r]]]
    /\ Goto(r, IF localLimiters[ip[r]] = 0 THEN "create" ELSE "touch")
    /\ UNCHANGED << clock, localLimiters, buckets, tokens, lastUsed, ip, historyVars >>

\* Mutant: a new bucket is given the burst on top of a first token.
NewBucketOverfull(r) ==
    /\ buckets < MaxBuckets
    /\ buckets' = buckets + 1
    /\ lastUsed' = [lastUsed EXCEPT ![buckets'] = clock]
    /\ tokens' = [tokens EXCEPT ![buckets'] = Burst + 1]
    /\ localLimiters' = [localLimiters EXCEPT ![ip[r]] = buckets']

NewBucket(r) ==
    /\ buckets < MaxBuckets
    /\ buckets' = buckets + 1
    /\ lastUsed' = [lastUsed EXCEPT ![buckets'] = clock]
    /\ tokens' = [tokens EXCEPT ![buckets'] = Burst]
    /\ localLimiters' = [localLimiters EXCEPT ![ip[r]] = buckets']

\* Mutant: no second look at the map under the write lock.
CreateUnchecked(r) ==
    /\ pc[r] = "create"
    /\ NewBucket(r)
    /\ entry' = [entry EXCEPT ![r] = localLimiters'[ip[r]]]
    /\ Goto(r, "touch")
    /\ UNCHANGED << clock, ip, historyVars >>

\* Under Lock, with a second look at the map
Create(r) ==
    /\ pc[r] = "create"
    /\ IF localLimiters[ip[r]] = 0
         THEN NewBucket(r)
         ELSE UNCHANGED << localLimiters, buckets, tokens, lastUsed >>
    /\ entry' = [entry EXCEPT ![r] = localLimiters'[ip[r]]]
    /\ Goto(r, "touch")
    /\ UNCHANGED << clock, ip, historyVars >>

\* Mutant: lastUsed stays what it was when the bucket was made.
TouchNothing(r) ==
    /\ pc[r] = "touch"
    /\ Goto(r, "allow")
    /\ UNCHANGED << clock, localLimiters, buckets, tokens, lastUsed, entry, ip, historyVars >>

\* entry.lastUsed = time.Now(), without the lock
Touch(r) ==
    /\ pc[r] = "touch"
    /\ lastUsed' = [lastUsed EXCEPT ![entry[r]] = clock]
    /\ Goto(r, "allow")
    /\ UNCHANGED << clock, localLimiters, buckets, tokens, entry, ip, historyVars >>

\* Mutant: the token is looked at and not taken.
AllowForNothing(r) ==
    /\ pc[r] = "allow"
    /\ IF tokens[entry[r]] > 0
         THEN admitted' = [admitted EXCEPT ![ip[r]] = @ + 1]
         ELSE UNCHANGED admitted
    /\ entry' = [entry EXCEPT ![r] = 0]
    /\ Goto(r, "idle")
    /\ UNCHANGED << clock, localLimiters, buckets, tokens, lastUsed, ip, deletedInUse, before >>

\* return entry.limiter.Allow()
Allow(r) ==
    /\ pc[r] = "allow"
    /\ IF tokens[entry[r]] > 0
         THEN /\ tokens' = [tokens EXCEPT ![entry[r]] = @ - 1]
              /\ admitted' = [admitted EXCEPT ![ip[r]] = @ + 1]
         ELSE UNCHANGED << tokens, admitted >>
    /\ entry' = [entry EXCEPT ![r] = 0]
    /\ Goto(r, "idle")
    /\ UNCHANGED << clock, localLimiters, buckets, lastUsed, ip, deletedInUse, before >>

Stale(b) == clock - lastUsed[b] > StaleTimeout

\* One round of cleanupLoop, under Lock
Cleanup ==
    /\ \E a \in IPs : localLimiters[a] # 0 /\ Stale(localLimiters[a])
    /\ localLimiters' = [a \in IPs |->
          IF localLimiters[a] # 0 /\ Stale(localLimiters[a]) THEN 0 ELSE localLimiters[a]]
    /\ deletedInUse' = [a \in IPs |-> deletedInUse[a] \union
          {<< r, localLimiters[a] >> : r \in
              {q \in Requests : localLimiters'[a] # localLimiters[a]
                                  /\ entry[q] = localLimiters[a]}}]
    /\ UNCHANGED << clock, buckets, tokens, lastUsed, requestVars, admitted, before >>

Step(r) == Lookup(r) \/ Create(r) \/ Touch(r) \/ Allow(r)

Next ==
    \/ Tick \/ Cleanup
    \/ \E r \in Requests : Step(r) \/ \E a \in IPs : Arrive(r, a)

Spec == Init /\ [][Next]_vars

-----------------------------------------------------------------------------
\* Properties

HistoryOK ==
    /\ deletedInUse \in [IPs -> SUBSET (Requests \X Buckets)]
    /\ admitted \in [IPs -> Nat]
    /\ before \in [IPs -> [1..MaxTime -> Nat]]

\* The type invariant.
TypeOK ==
    /\ clock \in Nat
    /\ localLimiters \in [IPs -> 0..buckets]
    /\ buckets \in 0..MaxBuckets
    /\ tokens \in [Buckets -> 0..Burst]
    /\ lastUsed \in [Buckets -> 0..clock]
    /\ pc \in [Requests -> Points]
    /\ entry \in [Requests -> 0..buckets]
    /\ ip \in [Requests -> IPs]
    /\ since \in [Requests -> 0..clock]
    /\ HistoryOK

Holds(r) == pc[r] \in {"touch", "allow"}

\* The double-checked creation (rate_limiter.go:134-144): requests of one
\* address share one bucket, unless the cleanup has taken it from one of
\* them.
OneBucketPerIP ==
    \A r \in Requests :
        Holds(r) /\ << r, entry[r] >> \notin deletedInUse[ip[r]]
            => localLimiters[ip[r]] = entry[r]

\* A bucket that the cleanup forgets is full, so that the new one in its
\* place grants nothing that the old one would not have (rate_limiter.go:241).
CleanupForgetsNothing ==
    \A a \in IPs :
        localLimiters[a] # 0 /\ Stale(localLimiters[a]) => tokens[localLimiters[a]] = Burst

\* LocalBurst is the "Burst size for local token bucket" (line 54): from the
\* beginning of any tick an address is admitted a burst, a request for every
\* tick since, and one for each request whose bucket was deleted in use.
BurstRespected ==
    \A a \in IPs, from \in 1..clock :
        admitted[a] - before[a][from]
            <= Burst + (clock - from) + Cardinality(deletedInUse[a])
=============================================================================
