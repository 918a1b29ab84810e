--------------------------- MODULE SlidingWindow ---------------------------
(***************************************************************************)
(* The distributed tier of the rate limiter: checkRedisRateLimit in        *)
(* internal/api/middleware/rate_limiter.go, called by the requests of all  *)
(* replicas on one Redis key.                                              *)
(*                                                                         *)
(* The four commands are sent in a pipeline, which is not a transaction:   *)
(* Redis may execute commands of other clients in between.  A request is   *)
(* stamped with its replica's clock when it arrives; the stamp is the      *)
(* member of the sorted set, so two requests may have the same one, and    *)
(* its tick is the score.  "clock" is that of the slowest replica.         *)
(*                                                                         *)
(* External: go-redis sends the pipeline again, with the same stamp, when  *)
(* a reply is lost, and gives up in the end.  A pipeline that Redis has    *)
(* begun is executed within a tick, one that was given up no further.      *)
(***************************************************************************)
EXTENDS Integers, FiniteSets

CONSTANTS
    Clients,      \* goroutines that serve requests, in all replicas
    Limit,        \* globalRPS
    Window,       \* a second, in ticks
    Ahead,        \* ticks each client's replica is ahead of the slowest
    MaxSkew,      \* the most of them
    MaxDelay,     \* ticks after which a request begins no more pipelines
    Nanos,        \* the nanoseconds of a tick
    MaxTime,      \* bound of the clock
    MaxRequests   \* bound: requests in a behaviour

ASSUME SetsAssumption == IsFiniteSet(Clients) /\ IsFiniteSet(Nanos)
ASSUME LimitAssumption == Limit \in Nat \ {0}
ASSUME TimesAssumption == Window \in Nat /\ MaxSkew \in Nat /\ MaxDelay \in Nat
ASSUME AheadAssumption == Ahead \in [Clients -> 0..MaxSkew]
ASSUME BoundsAssumption == MaxTime \in Nat \ {0} /\ MaxRequests \in Nat

VARIABLES
    clock,
    zset,       \* the sorted set: stamps, by their ticks
    ttl,        \* when the key expires, 0 when it has no expiry
    pc, req, count,
    since,      \* the clock when the request of a client arrived
    resent,     \* whether the pipeline of a client was sent again
    arrived,    \* history: the requests so far
    executed,   \* history: stamps of pipelines executed to their end
    admitted,   \* history: requests that were let through
    failedOpen  \* history: those of them that were not counted

historyVars == << arrived, executed, admitted, failedOpen >>
vars == << clock, zset, ttl, pc, req, since, count, resent, historyVars >>

Points == {"idle", "zrem", "zcard", "zadd", "expire", "decide"}
InPipeline == {"zcard", "zadd", "expire"}

Ticks == 1..(MaxTime + MaxSkew)
Stamps == Ticks \X Nanos
Requests == [id : 1..MaxRequests, stamp : Stamps]
NoRequest == [id |-> 0, stamp |-> << 0, 0 >>]

TickOf(r) == r.stamp[1]
StampsOf(S) == {r.stamp : r \in S}

Init ==
    /\ clock = 1
    /\ zset = {}
    /\ ttl = 0
    /\ pc = [c \in Clients |-> "idle"]
    /\ req = [c \in Clients |-> NoRequest]
    /\ since = [c \in Clients |-> 0]
    /\ count = [c \in Clients |-> 0]
    /\ resent = [c \in Clients |-> FALSE]
    /\ arrived = {}
    /\ executed = {}
    /\ admitted = {}
    /\ failedOpen = {}

-----------------------------------------------------------------------------

\* Time passes, and Redis drops the key when it is due.
Tick ==
    /\ clock < MaxTime
    /\ \A c \in Clients :
          /\ pc[c] \notin InPipeline
          /\ pc[c] = "zrem" => clock < since[c] + MaxDelay
    /\ clock' = clock + 1
    /\ IF ttl # 0 /\ clock' >= ttl
         THEN zset' = {} /\ ttl' = 0
         ELSE UNCHANGED << zset, ttl >>
    /\ UNCHANGED << pc, req, since, count, resent, historyVars >>

\* now := time.Now()
Arrive(c) ==
    /\ pc[c] = "idle"
    /\ Cardinality(arrived) < MaxRequests
    /\ \E n \in Nanos :
          LET r == [id |-> Cardinality(arrived) + 1, stamp |-> << clock + Ahead[c], n >>]
          IN  req' = [req EXCEPT ![c] = r] /\ arrived' = arrived \union {r}
    /\ since' = [since EXCEPT ![c] = clock]
    /\ pc' = [pc EXCEPT ![c] = "zrem"]
    /\ UNCHANGED << clock, zset, ttl, count, resent, executed, admitted, failedOpen >>

\* Mutant: the window is a tick short.
RemoveTooMuch(c) ==
    /\ pc[c] = "zrem"
    /\ zset' = {s \in zset : s[1] > TickOf(req[c]) - (Window - 1)}
    /\ pc' = [pc EXCEPT ![c] = "zcard"]
    /\ UNCHANGED << clock, ttl, req, since, count, resent, historyVars >>

\* Mutant: no ZREMRANGEBYSCORE.
RemoveNothing(c) ==
    /\ pc[c] = "zrem"
    /\ pc' = [pc EXCEPT ![c] = "zcard"]
    /\ UNCHANGED << clock, zset, ttl, req, since, count, resent, historyVars >>

\* ZREMRANGEBYSCORE key 0 windowStart; Redis drops a key that is empty, and
\* its expiry with it.
RemoveExpired(c) ==
    /\ pc[c] = "zrem"
    /\ zset' = {s \in zset : s[1] > TickOf(req[c]) - Window}
    /\ ttl' = IF zset' = {} THEN 0 ELSE ttl
    /\ pc' = [pc EXCEPT ![c] = "zcard"]
    /\ UNCHANGED << clock, req, since, count, resent, historyVars >>

\* Mutant: the request itself is taken off the count.
CountLessOwn(c) ==
    /\ pc[c] = "zcard"
    /\ count' = [count EXCEPT ![c] = Cardinality(zset) - 1]
    /\ pc' = [pc EXCEPT ![c] = "zadd"]
    /\ UNCHANGED << clock, zset, ttl, req, since, resent, historyVars >>

\* ZCARD key
Count(c) ==
    /\ pc[c] = "zcard"
    /\ count' = [count EXCEPT ![c] = Cardinality(zset)]
    /\ pc' = [pc EXCEPT ![c] = "zadd"]
    /\ UNCHANGED << clock, zset, ttl, req, since, resent, historyVars >>

\* ZADD key now, whatever the count
Add(c) ==
    /\ pc[c] = "zadd"
    /\ zset' = zset \union {req[c].stamp}
    /\ pc' = [pc EXCEPT ![c] = "expire"]
    /\ UNCHANGED << clock, ttl, req, since, count, resent, historyVars >>

\* EXPIRE key 2s
Expire(c) ==
    /\ pc[c] = "expire"
    /\ ttl' = clock + 2 * Window
    /\ executed' = executed \union {req[c].stamp}
    /\ pc' = [pc EXCEPT ![c] = "decide"]
    /\ UNCHANGED << clock, zset, req, since, count, resent, arrived, admitted, failedOpen >>

\* checkRedisRateLimit returns.
Return(c) ==
    /\ pc' = [pc EXCEPT ![c] = "idle"]
    /\ req' = [req EXCEPT ![c] = NoRequest]
    /\ since' = [since EXCEPT ![c] = 0]
    /\ count' = [count EXCEPT ![c] = 0]
    /\ resent' = [resent EXCEPT ![c] = FALSE]
    /\ UNCHANGED << clock, zset, ttl, arrived, executed >>

\* Mutant: <= for <.
DecideTooMany(c) ==
    /\ pc[c] = "decide"
    /\ admitted' = IF count[c] <= Limit THEN admitted \union {req[c]} ELSE admitted
    /\ Return(c)
    /\ UNCHANGED failedOpen

\* return currentCount < int64(limit)
Decide(c) ==
    /\ pc[c] = "decide"
    /\ admitted' = IF count[c] < Limit THEN admitted \union {req[c]} ELSE admitted
    /\ Return(c)
    /\ UNCHANGED failedOpen

\* A reply is lost, after any number of the commands: go-redis sends all of
\* them again.
Resend(c) ==
    /\ pc[c] # "idle"
    /\ clock <= since[c] + MaxDelay
    /\ resent' = [resent EXCEPT ![c] = TRUE]
    /\ pc' = [pc EXCEPT ![c] = "zrem"]
    /\ count' = [count EXCEPT ![c] = 0]
    /\ UNCHANGED << clock, zset, ttl, req, since, historyVars >>

\* pipe.Exec returns an error, after any number of the commands: the request
\* is let through uncounted (fail open).
ExecFails(c) ==
    /\ pc[c] # "idle"
    /\ admitted' = admitted \union {req[c]}
    /\ failedOpen' = failedOpen \union {req[c]}
    /\ Return(c)

Step(c) ==
    \/ RemoveExpired(c)
    \/ Count(c)
    \/ Add(c)
    \/ Expire(c)
    \/ Decide(c)
    \/ Resend(c)
    \/ ExecFails(c)

Next == Tick \/ \E c \in Clients : Arrive(c) \/ Step(c)

Spec == Init /\ [][Next]_vars

-----------------------------------------------------------------------------
\* Properties

\* The type invariant.
TypeOK ==
    /\ clock \in 1..MaxTime
    /\ zset \in SUBSET Stamps
    /\ ttl \in Nat
    /\ pc \in [Clients -> Points]
    /\ req \in [Clients -> Requests \union {NoRequest}]
    /\ since \in [Clients -> 0..MaxTime]
    /\ count \in [Clients -> Nat]
    /\ resent \in [Clients -> BOOLEAN]
    /\ arrived \in SUBSET Requests
    /\ executed \in SUBSET Stamps
    /\ admitted \in SUBSET arrived
    /\ failedOpen \in SUBSET admitted

\* A request whose pipeline was executed counts for a whole window on every
\* replica's clock, whether it was admitted, refused, sent again, let through
\* because its reply was lost, or is not decided: neither the removal by a
\* replica whose clock is ahead nor the expiry of the key takes it out before.
CountsForAWindow ==
    \A s \in executed : clock + MaxSkew < s[1] + Window => s \in zset

\* The requests of S whose stamps are of the n ticks that end with tick t.
Within(S, n, t) == {r \in S : t - n < TickOf(r) /\ TickOf(r) <= t}

\* The pipeline is not atomic, a request may be late and clocks differ, and
\* what that costs is bounded: a window, less the delay and the skew, admits by
\* count requests of at most the limit of nanoseconds and one for every other
\* client.  Requests of one nanosecond share their entry, and those let through
\* as Redis failed are in no count.
OvershootBounded ==
    \A t \in Ticks :
        Cardinality(StampsOf(Within(admitted \ failedOpen, Window - MaxDelay - MaxSkew, t)))
            <= Limit + Cardinality(Clients) - 1

\* How far back the requests may date that are counted: a window, or further if
\* one may be added while another counts that is later than that.
Horizon ==
    IF MaxDelay + MaxSkew < Window THEN Window ELSE MaxDelay + MaxSkew + 1

\* A request is refused for other arrivals up to the horizon, never for those
\* of the past (rate_limiter.go:164-165): as many as the limit, or one less if
\* it was sent again and has counted itself.
RefusalJustified ==
    \A c \in Clients :
        pc[c] = "decide" /\ count[c] >= Limit =>
            Cardinality({r \in arrived \ {req[c]} : TickOf(r) > TickOf(req[c]) - Horizon})
                >= (IF resent[c] THEN Limit - 1 ELSE Limit)
=============================================================================
