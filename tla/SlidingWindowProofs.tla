------------------------- MODULE SlidingWindowProofs -------------------------
(***************************************************************************)
(* Theorems about SlidingWindow, for any clients and nanoseconds, any      *)
(* limit and window, and any delay and skew of the clocks.                 *)
(***************************************************************************)
EXTENDS SlidingWindow, FiniteSetTheorems, TLAPS

-----------------------------------------------------------------------------
\* Type correctness

\* A function of a finite set has no more values than arguments.
LEMMA ImageBound ==
    ASSUME NEW S, IsFiniteSet(S), NEW T, NEW f \in [S -> T]
    PROVE  /\ IsFiniteSet({f[x] : x \in S})
           /\ Cardinality({f[x] : x \in S}) <= Cardinality(S)
<1>1. f \in Surjection(S, {f[x] : x \in S})  BY DEF Surjection
<1> QED  BY <1>1, FS_Surjection

\* Sets of stamps are finite.
LEMMA StampsFinite ==
    ASSUME NEW S \in SUBSET Stamps
    PROVE  IsFiniteSet(S) /\ Cardinality(S) \in Nat
<1>1. IsFiniteSet(Ticks)  BY BoundsAssumption, TimesAssumption, FS_Interval DEF Ticks
<1>2. IsFiniteSet(Stamps)  BY <1>1, SetsAssumption, FS_Product DEF Stamps
<1> QED  BY <1>2, FS_Subset, FS_CardinalityType

\* So are sets of requests, as their ids are bounded.
LEMMA RequestsFinite ==
    ASSUME NEW S \in SUBSET Requests
    PROVE  IsFiniteSet(S) /\ Cardinality(S) \in Nat
<1> DEFINE Pairs == (1..MaxRequests) \X Stamps
           F == [p \in Pairs |-> [id |-> p[1], stamp |-> p[2]]]
<1>1. IsFiniteSet(1..MaxRequests) /\ IsFiniteSet(Stamps)
      BY BoundsAssumption, FS_Interval, StampsFinite
<1>2. IsFiniteSet(Pairs)  BY <1>1, FS_Product
<1>3. Requests \subseteq {F[p] : p \in Pairs}
  <2> SUFFICES ASSUME NEW r \in Requests PROVE \E p \in Pairs : r = F[p]  OBVIOUS
  <2>1. << r.id, r.stamp >> \in Pairs /\ r = F[<< r.id, r.stamp >>]  BY DEF Requests
  <2> QED  BY <2>1
<1>4. F \in [Pairs -> Requests]  BY DEF Requests
<1>5. IsFiniteSet({F[p] : p \in Pairs})
  <2> HIDE DEF F, Pairs
  <2> QED  BY <1>2, <1>4, ImageBound
<1>6. IsFiniteSet(Requests)  BY <1>3, <1>5, FS_Subset
<1> QED  BY <1>6, FS_Subset, FS_CardinalityType

\* There are no more stamps than requests that have them.
LEMMA StampsBound ==
    ASSUME NEW S \in SUBSET Requests
    PROVE  /\ StampsOf(S) \in SUBSET Stamps
           /\ Cardinality(StampsOf(S)) <= Cardinality(S)
<1> DEFINE f == [r \in S |-> r.stamp]
<1>1. f \in [S -> Stamps]  BY DEF Requests
<1>2. StampsOf(S) = {f[r] : r \in S}  BY DEF StampsOf
<1>3. IsFiniteSet(S)  BY RequestsFinite
<1>4. Cardinality({f[r] : r \in S}) <= Cardinality(S)
  <2> HIDE DEF f
  <2> QED  BY <1>1, <1>3, ImageBound
<1>5. StampsOf(S) \in SUBSET Stamps  BY DEF StampsOf, Requests
<1> QED  BY <1>2, <1>4, <1>5

\* Between two steps of its pipeline a client has a request that has arrived.
BusyInv == \A c \in Clients : pc[c] # "idle" => req[c] \in arrived

TypeInv == TypeOK /\ BusyInv

\* A request that arrives is none that has arrived before.
LEMMA ArriveNew ==
    ASSUME TypeInv, \A r \in arrived : r.id <= Cardinality(arrived),
           NEW c \in Clients, Arrive(c)
    PROVE  \E r \in Requests \ arrived :
              /\ r.id = Cardinality(arrived) + 1 /\ TickOf(r) = clock + Ahead[c]
              /\ req' = [req EXCEPT ![c] = r] /\ arrived' = arrived \union {r}
              /\ Cardinality(arrived') = Cardinality(arrived) + 1
<1>1. Cardinality(arrived) \in Nat /\ IsFiniteSet(arrived)
      BY RequestsFinite DEF TypeInv, TypeOK
<1>2. PICK n \in Nanos :
         LET r == [id |-> Cardinality(arrived) + 1, stamp |-> << clock + Ahead[c], n >>]
         IN  req' = [req EXCEPT ![c] = r] /\ arrived' = arrived \union {r}
      BY DEF Arrive
<1> DEFINE r == [id |-> Cardinality(arrived) + 1, stamp |-> << clock + Ahead[c], n >>]
<1>3. clock + Ahead[c] \in Ticks
      BY AheadAssumption, TimesAssumption, BoundsAssumption DEF TypeInv, TypeOK, Ticks
<1>4. Cardinality(arrived) + 1 \in 1..MaxRequests
      BY <1>1, BoundsAssumption DEF Arrive
<1>5. r \in Requests  BY <1>3, <1>4 DEF Requests, Stamps
<1>6. r.id = Cardinality(arrived) + 1 /\ TickOf(r) = clock + Ahead[c]  BY DEF TickOf
<1>7. req' = [req EXCEPT ![c] = r] /\ arrived' = arrived \union {r}  BY <1>2
<1> HIDE DEF r
<1>8. r \notin arrived  BY <1>1, <1>6
<1>9. Cardinality(arrived') = Cardinality(arrived) + 1
      BY <1>1, <1>7, <1>8, FS_AddElement
<1> QED  BY <1>5, <1>6, <1>7, <1>8, <1>9

\* Requests are numbered.
NumberInv == \A r \in arrived : r.id <= Cardinality(arrived)

\* The steps of one client keep the types and the numbers.
LEMMA TypeStep ==
    ASSUME TypeInv, NumberInv, NEW c \in Clients, Arrive(c) \/ Step(c)
    PROVE  TypeInv' /\ NumberInv'
<1> USE TimesAssumption, BoundsAssumption DEF TypeInv, TypeOK, BusyInv, Points, historyVars
<1>0. Cardinality(arrived) \in Nat /\ Cardinality(zset) \in Nat
      BY RequestsFinite, StampsFinite
<1>a. \A r \in arrived : r.stamp \in Stamps /\ r.id \in Nat  BY DEF Requests
<1>b. UNCHANGED arrived => NumberInv'  BY DEF NumberInv
<1>1. CASE Arrive(c)
  <2>1. PICK r \in Requests \ arrived :
              /\ r.id = Cardinality(arrived) + 1
              /\ req' = [req EXCEPT ![c] = r] /\ arrived' = arrived \union {r}
              /\ Cardinality(arrived') = Cardinality(arrived) + 1
        BY <1>1, ArriveNew DEF NumberInv
  <2>2. NumberInv'  BY <1>0, <1>a, <2>1 DEF NumberInv
  <2>3. req' \in [Clients -> Requests \union {NoRequest}] /\ arrived' \in SUBSET Requests
        BY <2>1
  <2>4. since' \in [Clients -> 0..MaxTime]  BY <1>1 DEF Arrive
  <2>5. BusyInv'  BY <1>1, <2>1 DEF Arrive
  <2> QED  BY <1>1, <2>1, <2>2, <2>3, <2>4, <2>5 DEF Arrive
<1>2. CASE RemoveExpired(c)
  <2>1. ttl' \in Nat /\ zset' \in SUBSET Stamps  BY <1>2 DEF RemoveExpired
  <2> QED  BY <1>2, <1>b, <2>1 DEF RemoveExpired
<1>3. CASE Count(c)
  <2>1. count' \in [Clients -> Nat]  BY <1>0, <1>3 DEF Count
  <2>2. pc' \in [Clients -> Points]  BY <1>3 DEF Count
  <2>3. UNCHANGED << clock, zset, ttl, req, since, resent, arrived, executed,
                     admitted, failedOpen >>
        BY <1>3 DEF Count
  <2>4. BusyInv'  BY <1>3 DEF Count
  <2> QED  BY <1>b, <2>1, <2>2, <2>3, <2>4
<1>4. CASE Add(c)
  <2>1. req[c] \in arrived  BY <1>4 DEF Add
  <2> QED  BY <1>4, <1>a, <1>b, <2>1 DEF Add
<1>5. CASE Expire(c)
  <2>1. req[c] \in arrived  BY <1>5 DEF Expire
  <2>2. executed' \in SUBSET Stamps /\ ttl' \in Nat  BY <1>5, <1>a, <2>1 DEF Expire
  <2> QED  BY <1>5, <1>b, <2>2 DEF Expire
<1>6. CASE Decide(c)
  <2>1. req[c] \in arrived  BY <1>6 DEF Decide
  <2>2. admitted' \in SUBSET arrived /\ failedOpen' \in SUBSET admitted'
        BY <1>6, <2>1 DEF Decide
  <2> QED  BY <1>6, <1>b, <2>2 DEF Decide, Return
<1>7. CASE ExecFails(c)
  <2>1. req[c] \in arrived  BY <1>7 DEF ExecFails
  <2> QED  BY <1>7, <1>b, <2>1 DEF ExecFails, Return
<1>8. CASE Resend(c)  BY <1>8, <1>b DEF Resend
<1> QED  BY <1>1, <1>2, <1>3, <1>4, <1>5, <1>6, <1>7, <1>8 DEF Step

\* Every step keeps the types and the numbers.
LEMMA TypeNext == TypeInv /\ NumberInv /\ [Next]_vars => TypeInv' /\ NumberInv'
<1> SUFFICES ASSUME TypeInv, NumberInv, [Next]_vars PROVE TypeInv' /\ NumberInv'  OBVIOUS
<1>1. CASE Tick
      BY <1>1, BoundsAssumption DEF Tick, TypeInv, TypeOK, BusyInv, NumberInv, historyVars
<1>2. CASE UNCHANGED vars
      BY <1>2 DEF vars, historyVars, TypeInv, TypeOK, BusyInv, NumberInv
<1> QED  BY <1>1, <1>2, TypeStep DEF Next

\* The types hold at first.
LEMMA TypeInit == Init => TypeInv /\ NumberInv
BY BoundsAssumption DEF Init, TypeInv, TypeOK, BusyInv, NumberInv, Points

\* Every variable keeps its type; only requests that have arrived are ever
\* let through.
THEOREM TypeCorrect == Spec => []TypeOK
<1>1. TypeInv => TypeOK  BY DEF TypeInv
<1> QED  BY <1>1, TypeInit, TypeNext, PTL DEF Spec
-----------------------------------------------------------------------------
\* The requests

\* The requests that have not been sent to their end and not sent again.
Unsent ==
    {req[c] : c \in {q \in Clients : pc[q] \in {"zrem", "zcard", "zadd"} /\ ~resent[q]}}

\* Clients have requests of their own, stamped when they arrived, and begin
\* their pipelines in time; an entry of the set is that of a request whose
\* ZADD has been executed.
ReqInv ==
    /\ TypeInv /\ NumberInv
    /\ \A c \in Clients : pc[c] # "idle" =>
          since[c] <= clock /\ TickOf(req[c]) \in since[c]..(since[c] + MaxSkew)
    /\ \A c \in Clients :
          pc[c] \in {"zrem"} \union InPipeline => clock <= since[c] + MaxDelay
    /\ \A c, q \in Clients :
          c # q /\ pc[c] # "idle" /\ pc[q] # "idle" => req[c] # req[q]
    /\ \A s \in zset : \E r \in arrived \ Unsent : r.stamp = s

\* The times are numbers.
LEMMA ReqTypes ==
    ASSUME TypeInv
    PROVE  /\ clock \in Nat /\ Window \in Nat /\ MaxDelay \in Nat /\ MaxSkew \in Nat
           /\ ttl \in Nat /\ Cardinality(arrived) \in Nat
           /\ \A r \in arrived : TickOf(r) \in Nat /\ r.id \in Nat /\ r.stamp \in Stamps
           /\ \A s \in Stamps : s[1] \in Nat
           /\ \A c \in Clients : since[c] \in Nat /\ Ahead[c] \in 0..MaxSkew
           /\ \A c \in Clients : pc[c] # "idle" => req[c] \in arrived
<1>1. Cardinality(arrived) \in Nat  BY RequestsFinite DEF TypeInv, TypeOK
<1>2. \A s \in Stamps : s[1] \in Nat
      BY TimesAssumption, BoundsAssumption DEF Stamps, Ticks
<1>3. \A r \in arrived : r.stamp \in Stamps /\ r.id \in Nat
      BY BoundsAssumption DEF TypeInv, TypeOK, Requests
<1> QED  BY <1>1, <1>2, <1>3, TimesAssumption, BoundsAssumption, AheadAssumption
         DEF TypeInv, TypeOK, BusyInv, TickOf

\* The steps of one client.
LEMMA ReqStep ==
    ASSUME ReqInv, NEW c \in Clients, Arrive(c) \/ Step(c)
    PROVE  ReqInv'
<1>0. TypeInv /\ TypeInv' /\ NumberInv'  BY TypeStep DEF ReqInv
<1>a. /\ clock \in Nat /\ MaxDelay \in Nat /\ MaxSkew \in Nat /\ Cardinality(arrived) \in Nat
      /\ \A r \in arrived : TickOf(r) \in Nat /\ r.id \in Nat
      /\ \A q \in Clients : since[q] \in Nat /\ Ahead[q] \in 0..MaxSkew
      /\ \A q \in Clients : pc[q] # "idle" => req[q] \in arrived
      BY <1>0, ReqTypes
<1>b. /\ pc \in [Clients -> Points] /\ req \in [Clients -> Requests \union {NoRequest}]
      /\ since \in [Clients -> 0..MaxTime] /\ resent \in [Clients -> BOOLEAN]
      BY <1>0 DEF TypeInv, TypeOK
<1>c. ASSUME UNCHANGED << clock, arrived >>, Unsent' \subseteq Unsent, zset' \subseteq zset,
             \A q \in Clients : pc'[q] # "idle" =>
                pc[q] # "idle" /\ req'[q] = req[q] /\ since'[q] = since[q],
             \A q \in Clients : pc'[q] \in {"zrem"} \union InPipeline =>
                \/ pc[q] \in {"zrem"} \union InPipeline
                \/ clock <= since[q] + MaxDelay
      PROVE  ReqInv'
  <2>1. \A q \in Clients : pc'[q] # "idle" =>
           since'[q] <= clock' /\ TickOf(req'[q]) \in since'[q]..(since'[q] + MaxSkew)
        BY <1>c DEF ReqInv
  <2>2. \A q \in Clients :
           pc'[q] \in {"zrem"} \union InPipeline => clock' <= since'[q] + MaxDelay
        BY <1>c DEF ReqInv, InPipeline
  <2>3. \A p, q \in Clients :
           p # q /\ pc'[p] # "idle" /\ pc'[q] # "idle" => req'[p] # req'[q]
        BY <1>c DEF ReqInv
  <2>4. \A s \in zset' : \E r \in arrived' \ Unsent' : r.stamp = s
        BY <1>c DEF ReqInv
  <2> QED  BY <1>0, <2>1, <2>2, <2>3, <2>4 DEF ReqInv
<1>1. CASE Arrive(c)
  <2>1. PICK r \in Requests \ arrived :
              /\ r.id = Cardinality(arrived) + 1 /\ TickOf(r) = clock + Ahead[c]
              /\ req' = [req EXCEPT ![c] = r] /\ arrived' = arrived \union {r}
        BY <1>0, <1>1, ArriveNew DEF NumberInv, ReqInv
  <2>2. /\ pc' = [pc EXCEPT ![c] = "zrem"] /\ pc[c] = "idle"
        /\ since' = [since EXCEPT ![c] = clock] /\ UNCHANGED << clock, zset, resent >>
        BY <1>1 DEF Arrive
  <2>3. \A q \in Clients : q # c =>
           pc'[q] = pc[q] /\ req'[q] = req[q] /\ since'[q] = since[q]
        BY <1>b, <2>1, <2>2
  <2>4. pc'[c] = "zrem" /\ req'[c] = r /\ since'[c] = clock  BY <1>b, <2>1, <2>2
  <2>5. \A q \in Clients : pc'[q] # "idle" =>
           since'[q] <= clock' /\ TickOf(req'[q]) \in since'[q]..(since'[q] + MaxSkew)
    <3>1. TickOf(req'[c]) \in since'[c]..(since'[c] + MaxSkew)  BY <1>a, <2>1, <2>4
    <3> QED  BY <1>a, <2>2, <2>3, <2>4, <3>1 DEF ReqInv
  <2>6. \A q \in Clients :
           pc'[q] \in {"zrem"} \union InPipeline => clock' <= since'[q] + MaxDelay
        BY <1>a, <2>2, <2>3, <2>4 DEF ReqInv
  <2>7. ASSUME NEW p \in Clients, NEW q \in Clients,
               p # q, pc'[p] # "idle", pc'[q] # "idle"
        PROVE  req'[p] # req'[q]
        BY <1>a, <2>1, <2>3, <2>4, <2>7 DEF ReqInv
  <2>8. Unsent' \subseteq Unsent \union {r}
        BY <2>2, <2>3, <2>4 DEF Unsent
  <2>9. \A s \in zset' : \E x \in arrived' \ Unsent' : x.stamp = s
        BY <2>1, <2>2, <2>8 DEF ReqInv
  <2> QED  BY <1>0, <2>5, <2>6, <2>7, <2>9 DEF ReqInv
<1>2. CASE RemoveExpired(c)
  <2>1. Unsent' \subseteq Unsent /\ zset' \subseteq zset
        BY <1>2, <1>b DEF RemoveExpired, Unsent
  <2>2. /\ UNCHANGED << clock, arrived, req, since >>
        /\ pc' = [pc EXCEPT ![c] = "zcard"] /\ pc[c] = "zrem"
        BY <1>2 DEF RemoveExpired, historyVars
  <2> QED  BY <1>b, <1>c, <2>1, <2>2 DEF InPipeline
<1>3. CASE Count(c)
  <2>1. Unsent' \subseteq Unsent /\ zset' \subseteq zset  BY <1>3, <1>b DEF Count, Unsent
  <2>2. /\ UNCHANGED << clock, arrived, req, since >>
        /\ pc' = [pc EXCEPT ![c] = "zadd"] /\ pc[c] = "zcard"
        BY <1>3 DEF Count, historyVars
  <2> QED  BY <1>b, <1>c, <2>1, <2>2 DEF InPipeline
<1>4. CASE Add(c)
  <2>1. /\ UNCHANGED << clock, arrived, req, since, resent >>
        /\ zset' = zset \union {req[c].stamp}
        /\ pc' = [pc EXCEPT ![c] = "expire"] /\ pc[c] = "zadd"
        BY <1>4 DEF Add, historyVars
  <2>2. \A q \in Clients : q # c => pc'[q] = pc[q]  BY <1>b, <2>1
  <2>3. pc'[c] = "expire"  BY <1>b, <2>1
  <2>4. Unsent' \subseteq Unsent  BY <2>1, <2>2, <2>3 DEF Unsent
  <2>5. req[c] \in arrived' \ Unsent'
    <3>1. ASSUME req[c] \in Unsent' PROVE FALSE
      <4>1. PICK q \in Clients : pc'[q] \in {"zrem", "zcard", "zadd"} /\ req[c] = req[q]
            BY <2>1, <3>1 DEF Unsent
      <4>2. q # c /\ pc[q] # "idle"  BY <2>2, <2>3, <4>1
      <4> QED  BY <2>1, <4>1, <4>2 DEF ReqInv
    <3>2. req[c] \in arrived  BY <1>a, <2>1
    <3> QED  BY <2>1, <3>1, <3>2
  <2>6. \A s \in zset' : \E r \in arrived' \ Unsent' : r.stamp = s
        BY <2>1, <2>4, <2>5 DEF ReqInv
  <2>7. \A q \in Clients :
           pc'[q] \in {"zrem"} \union InPipeline => clock' <= since'[q] + MaxDelay
        BY <2>1, <2>2 DEF ReqInv, InPipeline
  <2> QED  BY <1>0, <2>1, <2>2, <2>6, <2>7 DEF ReqInv
<1>5. CASE Expire(c)
  <2>1. Unsent' \subseteq Unsent /\ zset' \subseteq zset  BY <1>5, <1>b DEF Expire, Unsent
  <2>2. /\ UNCHANGED << clock, arrived, req, since >>
        /\ pc' = [pc EXCEPT ![c] = "decide"] /\ pc[c] = "expire"
        BY <1>5 DEF Expire
  <2> QED  BY <1>b, <1>c, <2>1, <2>2 DEF InPipeline
<1>6. CASE Decide(c) \/ ExecFails(c)
  <2>1. /\ UNCHANGED << clock, zset, arrived >>
        /\ pc' = [pc EXCEPT ![c] = "idle"]
        /\ req' = [req EXCEPT ![c] = NoRequest] /\ since' = [since EXCEPT ![c] = 0]
        /\ resent' = [resent EXCEPT ![c] = FALSE]
        BY <1>6 DEF Decide, ExecFails, Return
  <2>2. pc'[c] = "idle" /\ \A q \in Clients : q # c =>
           /\ pc'[q] = pc[q] /\ req'[q] = req[q] /\ since'[q] = since[q]
           /\ resent'[q] = resent[q]
        BY <1>b, <2>1
  <2>3. Unsent' \subseteq Unsent  BY <2>2 DEF Unsent
  <2> QED  BY <1>c, <2>1, <2>2, <2>3 DEF InPipeline
<1>7. CASE Resend(c)
  <2>1. /\ UNCHANGED << clock, zset, arrived, req, since >>
        /\ pc' = [pc EXCEPT ![c] = "zrem"] /\ resent' = [resent EXCEPT ![c] = TRUE]
        /\ pc[c] # "idle" /\ clock <= since[c] + MaxDelay
        BY <1>7 DEF Resend, historyVars
  <2>2. resent'[c] = TRUE /\ \A q \in Clients : q # c =>
           pc'[q] = pc[q] /\ resent'[q] = resent[q]
        BY <1>b, <2>1
  <2>3. Unsent' \subseteq Unsent  BY <2>1, <2>2 DEF Unsent
  <2> QED  BY <1>b, <1>c, <2>1, <2>2, <2>3
<1> QED  BY <1>1, <1>2, <1>3, <1>4, <1>5, <1>6, <1>7 DEF Step

\* Every step.
LEMMA ReqNext == ReqInv /\ [Next]_vars => ReqInv'
<1> SUFFICES ASSUME ReqInv, [Next]_vars PROVE ReqInv'  OBVIOUS
<1>0. TypeInv /\ TypeInv' /\ NumberInv'  BY TypeNext DEF ReqInv
<1>1. CASE Tick
  <2>a. /\ clock \in Nat /\ MaxDelay \in Nat
        /\ \A q \in Clients : since[q] \in Nat
        BY <1>0, ReqTypes
  <2>1. clock' = clock + 1 /\ zset' \subseteq zset  BY <1>1 DEF Tick
  <2>2. UNCHANGED << pc, req, since, resent, arrived >>  BY <1>1 DEF Tick, historyVars
  <2>3. \A c \in Clients : /\ pc[c] \notin InPipeline
                           /\ pc[c] = "zrem" => clock < since[c] + MaxDelay
        BY <1>1 DEF Tick
  <2>4. Unsent' = Unsent  BY <2>2 DEF Unsent
  <2>5. \A c \in Clients :
           pc'[c] \in {"zrem"} \union InPipeline => clock' <= since'[c] + MaxDelay
        BY <2>a, <2>1, <2>2, <2>3
  <2>6. \A c \in Clients : pc'[c] # "idle" =>
          since'[c] <= clock' /\ TickOf(req'[c]) \in since'[c]..(since'[c] + MaxSkew)
        BY <2>a, <2>1, <2>2 DEF ReqInv
  <2> QED  BY <1>0, <2>1, <2>2, <2>4, <2>5, <2>6 DEF ReqInv
<1>2. CASE UNCHANGED vars
  <2>1. UNCHANGED << clock, zset, pc, req, since, resent, arrived >>
        BY <1>2 DEF vars, historyVars
  <2>2. Unsent' = Unsent  BY <2>1 DEF Unsent
  <2> QED  BY <1>0, <2>1, <2>2 DEF ReqInv
<1> QED  BY <1>1, <1>2, ReqStep DEF Next

\* At first there are none.
LEMMA ReqInit == Init => ReqInv
<1>1. Init => TypeInv /\ NumberInv  BY TypeInit
<1> QED  BY <1>1 DEF Init, ReqInv, InPipeline

-----------------------------------------------------------------------------
\* A request counts for a window

\* The stamps whose ZADD was executed, in a pipeline that is done or is about
\* to be.
Added == executed \union {req[c].stamp : c \in {q \in Clients : pc[q] = "expire"}}

\* What was added stays for its window, and the key is not due before; what is
\* admitted by count was executed.
KeepInv ==
    /\ ReqInv
    /\ \A s \in Added : clock + MaxSkew < s[1] + Window => s \in zset
    /\ \A s \in executed : s[1] <= clock + MaxSkew
    /\ \A s \in executed : ttl = 0 \/ s[1] + Window <= ttl + MaxSkew
    /\ \A c \in Clients : pc[c] = "decide" => req[c].stamp \in executed
    /\ \A r \in admitted \ failedOpen : r.stamp \in executed

\* The steps of one client.
LEMMA KeepStep ==
    ASSUME KeepInv, NEW c \in Clients, Arrive(c) \/ Step(c)
    PROVE  KeepInv'
<1>0. ReqInv /\ ReqInv' /\ TypeInv /\ TypeInv'  BY ReqStep DEF KeepInv, ReqInv
<1>a. /\ clock \in Nat /\ Window \in Nat /\ MaxSkew \in Nat /\ ttl \in Nat
      /\ \A s \in Stamps : s[1] \in Nat
      /\ \A r \in arrived : r.stamp \in Stamps
      /\ \A q \in Clients : pc[q] # "idle" => req[q] \in arrived
      /\ executed \in SUBSET Stamps
      BY <1>0, ReqTypes DEF TypeInv, TypeOK
<1>b. pc \in [Clients -> Points] /\ req \in [Clients -> Requests \union {NoRequest}]
      BY <1>0 DEF TypeInv, TypeOK
<1>c. Added \subseteq Stamps  BY <1>a DEF Added
<1>e. ASSUME NEW q \in Clients, pc[q] # "idle"
      PROVE  TickOf(req[q]) \in Nat /\ TickOf(req[q]) <= clock + MaxSkew
  <2>1. since[q] <= clock /\ TickOf(req[q]) \in since[q]..(since[q] + MaxSkew)
        BY <1>0, <1>e DEF ReqInv
  <2>2. since[q] \in Nat /\ TickOf(req[q]) \in Nat  BY <1>0, <1>e, ReqTypes
  <2> QED  BY <1>a, <2>1, <2>2
<1>d. ASSUME Added' \subseteq Added, UNCHANGED << clock, zset, ttl, executed >>,
             \A q \in Clients : pc'[q] = "decide" => pc[q] = "decide" /\ req'[q] = req[q],
             \A r \in admitted' \ failedOpen' :
                r \in admitted \ failedOpen \/ r.stamp \in executed
      PROVE  KeepInv'
      BY <1>0, <1>d DEF KeepInv
<1>1. CASE Arrive(c)
  <2>1. PICK r : req' = [req EXCEPT ![c] = r]  BY <1>1 DEF Arrive
  <2>2. /\ pc' = [pc EXCEPT ![c] = "zrem"]
        /\ UNCHANGED << clock, zset, ttl, executed, admitted, failedOpen >>
        BY <1>1 DEF Arrive
  <2>3. pc'[c] = "zrem" /\ \A q \in Clients : q # c => pc'[q] = pc[q] /\ req'[q] = req[q]
        BY <1>b, <2>1, <2>2
  <2>4. Added' \subseteq Added  BY <2>2, <2>3 DEF Added
  <2> QED  BY <1>d, <2>2, <2>3, <2>4
<1>2. CASE RemoveExpired(c)
  <2>1. /\ zset' = {s \in zset : s[1] > TickOf(req[c]) - Window} /\ pc[c] = "zrem"
        /\ (ttl' = 0 \/ ttl' = ttl) /\ pc' = [pc EXCEPT ![c] = "zcard"]
        /\ UNCHANGED << clock, req, executed, admitted, failedOpen >>
        BY <1>2 DEF RemoveExpired, historyVars
  <2>2. Added' \subseteq Added  BY <1>b, <2>1 DEF Added
  <2>3. TickOf(req[c]) \in Nat /\ TickOf(req[c]) <= clock + MaxSkew  BY <1>e, <2>1
  <2>4. ASSUME NEW s \in Added, clock + MaxSkew < s[1] + Window PROVE s \in zset'
    <3>1. s \in zset /\ s[1] \in Nat  BY <1>a, <1>c, <2>4 DEF KeepInv
    <3> QED  BY <1>a, <2>1, <2>3, <2>4, <3>1
  <2>5. \A q \in Clients : pc'[q] = "decide" => pc[q] = "decide"  BY <1>b, <2>1
  <2>6. \A s \in executed' : /\ s[1] <= clock' + MaxSkew
                             /\ ttl' = 0 \/ s[1] + Window <= ttl' + MaxSkew
        BY <2>1 DEF KeepInv
  <2>7. \A s \in Added' : clock' + MaxSkew < s[1] + Window => s \in zset'
        BY <2>1, <2>2, <2>4
  <2> QED  BY <1>0, <2>1, <2>5, <2>6, <2>7 DEF KeepInv
<1>3. CASE Count(c)
  <2>1. /\ pc' = [pc EXCEPT ![c] = "zadd"]
        /\ UNCHANGED << clock, zset, ttl, req, executed, admitted, failedOpen >>
        BY <1>3 DEF Count, historyVars
  <2>2. Added' \subseteq Added  BY <1>b, <2>1 DEF Added
  <2> QED  BY <1>b, <1>d, <2>1, <2>2
<1>4. CASE Add(c)
  <2>1. /\ pc' = [pc EXCEPT ![c] = "expire"] /\ zset' = zset \union {req[c].stamp}
        /\ UNCHANGED << clock, ttl, req, executed, admitted, failedOpen >>
        BY <1>4 DEF Add, historyVars
  <2>2. Added' \subseteq Added \union {req[c].stamp}  BY <1>b, <2>1 DEF Added
  <2>3. \A q \in Clients : pc'[q] = "decide" => pc[q] = "decide"  BY <1>b, <2>1
  <2> QED  BY <1>0, <2>1, <2>2, <2>3 DEF KeepInv
<1>5. CASE Expire(c)
  <2>1. /\ pc[c] = "expire" /\ pc' = [pc EXCEPT ![c] = "decide"]
        /\ ttl' = clock + 2 * Window /\ executed' = executed \union {req[c].stamp}
        /\ UNCHANGED << clock, zset, req, admitted, failedOpen >>
        BY <1>5 DEF Expire
  <2>2. Added' \subseteq Added  BY <1>b, <2>1 DEF Added
  <2>3. ASSUME NEW s \in executed'
        PROVE  s[1] <= clock' + MaxSkew /\ s[1] + Window <= ttl' + MaxSkew
    <3>1. CASE s = req[c].stamp
      <4>1. s[1] \in Nat /\ s[1] <= clock + MaxSkew  BY <1>e, <2>1, <3>1 DEF TickOf
      <4> QED  BY <1>a, <2>1, <4>1
    <3>2. CASE s \in executed
      <4>1. s[1] \in Nat  BY <1>a, <3>2
      <4>2. s[1] <= clock + MaxSkew  BY <3>2 DEF KeepInv
      <4> QED  BY <1>a, <2>1, <4>1, <4>2
    <3> QED  BY <2>1, <3>1, <3>2
  <2>4. \A q \in Clients : pc'[q] = "decide" => q = c \/ pc[q] = "decide"  BY <1>b, <2>1
  <2> QED  BY <1>0, <2>1, <2>2, <2>3, <2>4 DEF KeepInv
<1>6. CASE Decide(c)
  <2>1. /\ pc[c] = "decide" /\ pc' = [pc EXCEPT ![c] = "idle"]
        /\ req' = [req EXCEPT ![c] = NoRequest]
        /\ UNCHANGED << clock, zset, ttl, executed, failedOpen >>
        /\ admitted' \subseteq admitted \union {req[c]}
        BY <1>6 DEF Decide, Return
  <2>2. pc'[c] = "idle" /\ \A q \in Clients : q # c => pc'[q] = pc[q] /\ req'[q] = req[q]
        BY <1>b, <2>1
  <2>3. Added' \subseteq Added  BY <2>1, <2>2 DEF Added
  <2>4. req[c].stamp \in executed  BY <2>1 DEF KeepInv
  <2> QED  BY <1>d, <2>1, <2>2, <2>3, <2>4
<1>7. CASE ExecFails(c)
  <2>1. /\ pc' = [pc EXCEPT ![c] = "idle"] /\ req' = [req EXCEPT ![c] = NoRequest]
        /\ UNCHANGED << clock, zset, ttl, executed >>
        /\ admitted' = admitted \union {req[c]} /\ failedOpen' = failedOpen \union {req[c]}
        BY <1>7 DEF ExecFails, Return
  <2>2. pc'[c] = "idle" /\ \A q \in Clients : q # c => pc'[q] = pc[q] /\ req'[q] = req[q]
        BY <1>b, <2>1
  <2>3. Added' \subseteq Added  BY <2>1, <2>2 DEF Added
  <2> QED  BY <1>d, <2>1, <2>2, <2>3
<1>8. CASE Resend(c)
  <2>1. /\ pc' = [pc EXCEPT ![c] = "zrem"]
        /\ UNCHANGED << clock, zset, ttl, req, executed, admitted, failedOpen >>
        BY <1>8 DEF Resend, historyVars
  <2>2. Added' \subseteq Added  BY <1>b, <2>1 DEF Added
  <2> QED  BY <1>b, <1>d, <2>1, <2>2
<1> QED  BY <1>1, <1>2, <1>3, <1>4, <1>5, <1>6, <1>7, <1>8 DEF Step

\* Every step; a tick finds no pipeline between its ZADD and its EXPIRE.
LEMMA KeepNext == KeepInv /\ [Next]_vars => KeepInv'
<1> SUFFICES ASSUME KeepInv, [Next]_vars PROVE KeepInv'  OBVIOUS
<1>0. ReqInv /\ ReqInv' /\ TypeInv  BY ReqNext DEF KeepInv, ReqInv
<1>1. CASE Tick
  <2>1. UNCHANGED << pc, req, executed, admitted, failedOpen >> /\ clock' = clock + 1
        BY <1>1 DEF Tick, historyVars
  <2>2. Added' = executed /\ executed \subseteq Added
        BY <1>1, <2>1 DEF Tick, Added, InPipeline
  <2>3. /\ clock \in Nat /\ Window \in Nat /\ ttl \in Nat /\ MaxSkew \in Nat
        /\ \A s \in executed : s[1] \in Nat
        BY <1>0, ReqTypes DEF TypeInv, TypeOK
  <2>a. \A s \in executed : s[1] <= clock' + MaxSkew
    <3>1. \A s \in executed : s[1] <= clock + MaxSkew  BY DEF KeepInv
    <3> QED  BY <2>1, <2>3, <3>1
  <2>4. /\ \A s \in executed : clock' + MaxSkew < s[1] + Window => s \in zset'
        /\ \A s \in executed : ttl' = 0 \/ s[1] + Window <= ttl' + MaxSkew
    <3>1. CASE ttl # 0 /\ clock' >= ttl
      <4>1. zset' = {} /\ ttl' = 0  BY <1>1, <3>1 DEF Tick
      <4>2. \A s \in executed : s[1] + Window <= ttl + MaxSkew  BY <3>1 DEF KeepInv
      <4> QED  BY <2>1, <2>3, <3>1, <4>1, <4>2
    <3>2. CASE ~(ttl # 0 /\ clock' >= ttl)
      <4>1. UNCHANGED << zset, ttl >>  BY <1>1, <3>2 DEF Tick
      <4>2. \A s \in executed : clock + MaxSkew < s[1] + Window => s \in zset
            BY <2>2 DEF KeepInv
      <4>3. \A s \in executed : ttl = 0 \/ s[1] + Window <= ttl + MaxSkew  BY DEF KeepInv
      <4> QED  BY <2>1, <2>3, <4>1, <4>2, <4>3
    <3> QED  BY <3>1, <3>2
  <2> QED  BY <1>0, <2>1, <2>2, <2>4, <2>a DEF KeepInv
<1>2. CASE UNCHANGED vars
  <2>1. /\ UNCHANGED << clock, zset, ttl, pc, req, executed, admitted, failedOpen >>
        /\ Added' = Added
        BY <1>2 DEF vars, historyVars, Added
  <2> QED  BY <1>0, <2>1 DEF KeepInv
<1> QED  BY <1>1, <1>2, KeepStep DEF Next

\* At first nothing was added.
LEMMA KeepInit == Init => KeepInv
<1>1. Init => ReqInv  BY ReqInit
<1>2. Init => Added = {}  BY DEF Init, Added
<1> QED  BY <1>1, <1>2 DEF Init, KeepInv

\* Neither the ZREMRANGEBYSCORE of another client, late or ahead of the others,
\* nor the expiry of the key takes the stamp of an executed pipeline out of the
\* set before its window has passed on every clock.
THEOREM CountedForAWindow == Spec => []CountsForAWindow
<1>1. KeepInv => CountsForAWindow  BY DEF KeepInv, Added, CountsForAWindow
<1> QED  BY <1>1, KeepInit, KeepNext, PTL DEF Spec
-----------------------------------------------------------------------------
\* Refusals

\* The arrivals up to the horizon of a client's request, without its own.
Rivals(c) == {r \in arrived \ {req[c]} : TickOf(r) > TickOf(req[c]) - Horizon}

\* A request that was sent again counts itself.
Most(c) == Cardinality(Rivals(c)) + (IF resent[c] THEN 1 ELSE 0)

\* What a client counts, or has counted, is no older than the horizon: whoever
\* adds a late request between its first two commands is late by no more.
RefusalInv ==
    /\ ReqInv
    /\ \A c \in Clients : pc[c] = "zcard" =>
          \A s \in zset : s[1] > TickOf(req[c]) - Horizon
    /\ \A c \in Clients :
          pc[c] \in {"zadd", "expire", "decide"} => count[c] <= Most(c)

\* The horizon is at least a window, and beyond any delay.
LEMMA HorizonType ==
    Horizon \in Nat /\ Window <= Horizon /\ MaxDelay + MaxSkew < Horizon
BY TimesAssumption DEF Horizon

\* Later arrivals only add to the rivals.
LEMMA RivalsGrow ==
    ASSUME TypeInv, TypeInv', arrived \subseteq arrived', NEW c \in Clients,
           req'[c] = req[c]
    PROVE  /\ Cardinality(Rivals(c)) <= Cardinality(Rivals(c)')
           /\ Cardinality(Rivals(c)) \in Nat /\ Cardinality(Rivals(c)') \in Nat
<1>1. Rivals(c) \subseteq Rivals(c)'  BY DEF Rivals
<1>2. IsFiniteSet(Rivals(c)') /\ Cardinality(Rivals(c)') \in Nat
      BY RequestsFinite DEF Rivals, TypeInv, TypeOK
<1>3. Cardinality(Rivals(c)) \in Nat  BY RequestsFinite DEF Rivals, TypeInv, TypeOK
<1> QED  BY <1>1, <1>2, <1>3, FS_Subset

\* Nor do they take from what a request may count.
LEMMA MostGrows ==
    ASSUME TypeInv, TypeInv', arrived \subseteq arrived', NEW c \in Clients,
           req'[c] = req[c], resent'[c] = resent[c], count'[c] = count[c],
           count[c] \in Nat, count[c] <= Most(c)
    PROVE  count'[c] <= Most(c)'
<1>1. /\ Cardinality(Rivals(c)) <= Cardinality(Rivals(c)')
      /\ Cardinality(Rivals(c)) \in Nat /\ Cardinality(Rivals(c)') \in Nat
      BY RivalsGrow
<1>2. Most(c)' = Cardinality(Rivals(c)') + (IF resent[c] THEN 1 ELSE 0)  BY DEF Most
<1>3. CASE resent[c]  BY <1>1, <1>2, <1>3 DEF Most
<1>4. CASE ~resent[c]  BY <1>1, <1>2, <1>4 DEF Most
<1> QED  BY <1>3, <1>4

\* The entries that a client finds are of its rivals, but for its own.
LEMMA CountIsOfRivals ==
    ASSUME ReqInv, NEW c \in Clients, pc[c] = "zcard",
           \A s \in zset : s[1] > TickOf(req[c]) - Horizon
    PROVE  Cardinality(zset) <= Most(c)
<1>0. TypeInv  BY DEF ReqInv
<1>1. Rivals(c) \in SUBSET Requests  BY <1>0 DEF Rivals, TypeInv, TypeOK
<1>2. /\ IsFiniteSet(StampsOf(Rivals(c))) /\ Cardinality(StampsOf(Rivals(c))) \in Nat
      /\ Cardinality(StampsOf(Rivals(c))) <= Cardinality(Rivals(c))
      /\ Cardinality(Rivals(c)) \in Nat
      BY <1>1, StampsBound, StampsFinite, RequestsFinite
<1>3. Cardinality(zset) \in Nat  BY <1>0, StampsFinite DEF TypeInv, TypeOK
<1>4. \A s \in zset : \E r \in arrived : r.stamp = s /\ (r = req[c] => resent[c])
  <2> SUFFICES ASSUME NEW s \in zset
               PROVE  \E r \in arrived : r.stamp = s /\ (r = req[c] => resent[c])
      OBVIOUS
  <2>1. PICK r \in arrived \ Unsent : r.stamp = s  BY DEF ReqInv
  <2>2. r = req[c] => resent[c]  BY <2>1 DEF Unsent
  <2> QED  BY <2>1, <2>2
<1>5. \A s \in zset :
         s \in StampsOf(Rivals(c)) \/ (resent[c] /\ s = req[c].stamp)
  <2> SUFFICES ASSUME NEW s \in zset, s \notin StampsOf(Rivals(c))
               PROVE  resent[c] /\ s = req[c].stamp
      OBVIOUS
  <2>1. PICK r \in arrived : r.stamp = s /\ (r = req[c] => resent[c])  BY <1>4
  <2>2. TickOf(r) > TickOf(req[c]) - Horizon  BY <2>1 DEF TickOf
  <2>3. r = req[c]  BY <2>1, <2>2 DEF StampsOf, Rivals
  <2> QED  BY <2>1, <2>3
<1>6. CASE ~resent[c]
  <2>1. zset \subseteq StampsOf(Rivals(c))  BY <1>5, <1>6
  <2>2. Cardinality(zset) <= Cardinality(StampsOf(Rivals(c)))  BY <1>2, <2>1, FS_Subset
  <2>3. Most(c) = Cardinality(Rivals(c))  BY <1>2, <1>6 DEF Most
  <2> QED  BY <1>2, <1>3, <2>2, <2>3
<1>7. CASE resent[c]
  <2> DEFINE all == StampsOf(Rivals(c)) \union {req[c].stamp}
  <2>1. zset \subseteq all  BY <1>5
  <2>2. IsFiniteSet(all) /\ Cardinality(all) <= Cardinality(StampsOf(Rivals(c))) + 1
    <3>1. CASE req[c].stamp \in StampsOf(Rivals(c))
      <4>1. all = StampsOf(Rivals(c))  BY <3>1
      <4> HIDE DEF all
      <4>2. IsFiniteSet(all)  BY <1>2, <4>1
      <4>3. Cardinality(all) <= Cardinality(StampsOf(Rivals(c))) + 1  BY <1>2, <4>1
      <4> QED  BY <4>2, <4>3
    <3>2. CASE req[c].stamp \notin StampsOf(Rivals(c))
      <4>1. IsFiniteSet(all) /\ Cardinality(all) = Cardinality(StampsOf(Rivals(c))) + 1
            BY <1>2, <3>2, FS_AddElement
      <4> QED  BY <1>2, <4>1
    <3> QED  BY <3>1, <3>2
  <2>3. Cardinality(zset) <= Cardinality(all)  BY <2>1, <2>2, FS_Subset
  <2>4. Cardinality(all) \in Nat  BY <2>2, FS_CardinalityType
  <2>5. Most(c) = Cardinality(Rivals(c)) + 1  BY <1>7 DEF Most
  <2> HIDE DEF all
  <2> QED  BY <1>2, <1>3, <2>2, <2>3, <2>4, <2>5
<1> QED  BY <1>6, <1>7

\* The steps of one client.
LEMMA RefusalStep ==
    ASSUME RefusalInv, NEW c \in Clients, Arrive(c) \/ Step(c)
    PROVE  RefusalInv'
<1>0. ReqInv /\ ReqInv' /\ TypeInv /\ TypeInv'  BY ReqStep DEF RefusalInv, ReqInv
<1>a. /\ clock \in Nat /\ Window \in Nat /\ MaxDelay \in Nat /\ MaxSkew \in Nat
      /\ \A r \in arrived : TickOf(r) \in Nat
      /\ \A q \in Clients : since[q] \in Nat
      /\ \A q \in Clients : pc[q] # "idle" => req[q] \in arrived
      BY <1>0, ReqTypes
<1>b. /\ pc \in [Clients -> Points] /\ count \in [Clients -> Nat]
      /\ req \in [Clients -> Requests \union {NoRequest}]
      /\ resent \in [Clients -> BOOLEAN]
      BY <1>0 DEF TypeInv, TypeOK
<1>c. arrived \subseteq arrived'
      BY DEF Arrive, Step, RemoveExpired, Count, Add, Expire, Decide, Resend, ExecFails,
             Return, historyVars
<1>d. ASSUME NEW q \in Clients, pc[q] \in {"zadd", "expire", "decide"},
             req'[q] = req[q], resent'[q] = resent[q], count'[q] = count[q]
      PROVE  count'[q] <= Most(q)'
  <2>1. count[q] \in Nat /\ count[q] <= Most(q)  BY <1>b, <1>d DEF RefusalInv
  <2> QED  BY <1>0, <1>c, <1>d, <2>1, MostGrows
<1>e. ASSUME zset' \subseteq zset,
             \A q \in Clients :
                /\ pc'[q] = "zcard" => pc[q] = "zcard" /\ req'[q] = req[q]
                /\ pc'[q] \in {"zadd", "expire", "decide"} =>
                      /\ pc[q] \in {"zadd", "expire", "decide"}
                      /\ req'[q] = req[q] /\ resent'[q] = resent[q] /\ count'[q] = count[q]
      PROVE  RefusalInv'
  <2>1. ASSUME NEW q \in Clients, pc'[q] \in {"zadd", "expire", "decide"}
        PROVE  count'[q] <= Most(q)'
        BY <1>d, <1>e, <2>1
  <2>2. \A q \in Clients : pc'[q] = "zcard" =>
           \A s \in zset' : s[1] > TickOf(req'[q]) - Horizon
        BY <1>e DEF RefusalInv
  <2> QED  BY <1>0, <2>1, <2>2 DEF RefusalInv
<1>1. CASE Arrive(c)
  <2>1. PICK r : req' = [req EXCEPT ![c] = r]  BY <1>1 DEF Arrive
  <2>2. /\ pc' = [pc EXCEPT ![c] = "zrem"] /\ UNCHANGED << zset, count, resent >>
        BY <1>1 DEF Arrive
  <2> QED  BY <1>b, <1>e, <2>1, <2>2
<1>2. CASE RemoveExpired(c)
  <2>1. /\ zset' = {s \in zset : s[1] > TickOf(req[c]) - Window} /\ pc[c] = "zrem"
        /\ pc' = [pc EXCEPT ![c] = "zcard"] /\ UNCHANGED << req, count, resent >>
        BY <1>2 DEF RemoveExpired
  <2>2. ASSUME NEW q \in Clients, pc'[q] = "zcard", NEW s \in zset'
        PROVE  s[1] > TickOf(req'[q]) - Horizon
    <3>1. CASE q = c
      <4>1. s[1] \in Nat /\ TickOf(req[c]) \in Nat
            BY <1>0, <1>a, <2>1, <2>2, ReqTypes DEF TypeInv, TypeOK
      <4>2. s[1] > TickOf(req[c]) - Window  BY <2>1, <2>2
      <4> QED  BY <1>a, <2>1, <3>1, <4>1, <4>2, HorizonType
    <3>2. CASE q # c  BY <1>b, <2>1, <2>2, <3>2 DEF RefusalInv
    <3> QED  BY <3>1, <3>2
  <2>3. ASSUME NEW q \in Clients, pc'[q] \in {"zadd", "expire", "decide"}
        PROVE  count'[q] <= Most(q)'
        BY <1>b, <1>d, <2>1, <2>3
  <2> QED  BY <1>0, <2>2, <2>3 DEF RefusalInv
<1>3. CASE Count(c)
  <2>1. /\ pc[c] = "zcard" /\ count' = [count EXCEPT ![c] = Cardinality(zset)]
        /\ pc' = [pc EXCEPT ![c] = "zadd"]
        /\ UNCHANGED << clock, zset, req, resent, arrived >>
        BY <1>3 DEF Count, historyVars
  <2>2. Cardinality(zset) <= Most(c)
        BY <1>0, <2>1, CountIsOfRivals DEF RefusalInv
  <2>3. Most(c)' = Most(c)  BY <2>1 DEF Most, Rivals
  <2>4. ASSUME NEW q \in Clients, pc'[q] \in {"zadd", "expire", "decide"}
        PROVE  count'[q] <= Most(q)'
    <3>1. CASE q = c  BY <1>b, <2>1, <2>2, <2>3, <3>1
    <3>2. CASE q # c  BY <1>b, <1>d, <2>1, <2>4, <3>2
    <3> QED  BY <3>1, <3>2
  <2>5. \A q \in Clients : pc'[q] = "zcard" =>
           \A s \in zset' : s[1] > TickOf(req'[q]) - Horizon
        BY <1>b, <2>1 DEF RefusalInv
  <2> QED  BY <1>0, <2>4, <2>5 DEF RefusalInv
<1>4. CASE Add(c)
  <2>1. /\ pc[c] = "zadd" /\ zset' = zset \union {req[c].stamp}
        /\ pc' = [pc EXCEPT ![c] = "expire"] /\ UNCHANGED << req, count, resent >>
        BY <1>4 DEF Add
  <2>2. ASSUME NEW q \in Clients, pc'[q] = "zcard", NEW s \in zset'
        PROVE  s[1] > TickOf(req'[q]) - Horizon
    <3>0. pc[q] = "zcard" /\ req'[q] = req[q]  BY <1>b, <2>1, <2>2
    <3>1. CASE s \in zset  BY <3>0, <3>1 DEF RefusalInv
    <3>2. CASE s = req[c].stamp
      <4>1. clock <= since[c] + MaxDelay /\ TickOf(req[c]) \in since[c]..(since[c] + MaxSkew)
            BY <1>0, <2>1 DEF ReqInv, InPipeline
      <4>2. since[q] <= clock /\ TickOf(req[q]) \in since[q]..(since[q] + MaxSkew)
            BY <1>0, <3>0 DEF ReqInv
      <4>3. TickOf(req[q]) \in Nat /\ TickOf(req[c]) \in Nat  BY <1>a, <2>1, <3>0
      <4>4. s[1] = TickOf(req[c])  BY <3>2 DEF TickOf
      <4>5. since[c] \in Nat /\ since[q] \in Nat  BY <1>a
      <4> QED  BY <1>a, <3>0, <4>1, <4>2, <4>3, <4>4, <4>5, HorizonType
    <3> QED  BY <2>1, <2>2, <3>1, <3>2
  <2>3. ASSUME NEW q \in Clients, pc'[q] \in {"zadd", "expire", "decide"}
        PROVE  count'[q] <= Most(q)'
        BY <1>b, <1>d, <2>1, <2>3
  <2> QED  BY <1>0, <2>2, <2>3 DEF RefusalInv
<1>5. CASE Expire(c)  BY <1>5, <1>b, <1>e DEF Expire
<1>6. CASE Decide(c)  BY <1>6, <1>b, <1>e DEF Decide, Return
<1>7. CASE ExecFails(c)  BY <1>7, <1>b, <1>e DEF ExecFails, Return
<1>8. CASE Resend(c)  BY <1>8, <1>b, <1>e DEF Resend
<1> QED  BY <1>1, <1>2, <1>3, <1>4, <1>5, <1>6, <1>7, <1>8 DEF Step

\* Every step.
LEMMA RefusalNext == RefusalInv /\ [Next]_vars => RefusalInv'
<1> SUFFICES ASSUME RefusalInv, [Next]_vars PROVE RefusalInv'  OBVIOUS
<1>0. ReqInv /\ ReqInv'  BY ReqNext DEF RefusalInv
<1>1. CASE Tick
  <2>1. UNCHANGED << pc, req, count, resent, arrived >> /\ zset' \subseteq zset
        BY <1>1 DEF Tick, historyVars
  <2>2. \A c : Most(c)' = Most(c)  BY <2>1 DEF Most, Rivals
  <2> QED  BY <1>0, <2>1, <2>2 DEF RefusalInv
<1>2. CASE UNCHANGED vars
  <2>1. UNCHANGED << pc, req, count, resent, arrived, zset >>
        BY <1>2 DEF vars, historyVars
  <2>2. \A c : Most(c)' = Most(c)  BY <2>1 DEF Most, Rivals
  <2> QED  BY <1>0, <2>1, <2>2 DEF RefusalInv
<1> QED  BY <1>1, <1>2, RefusalStep DEF Next

\* At first no one counts.
LEMMA RefusalInit == Init => RefusalInv
<1>1. Init => ReqInv  BY ReqInit
<1> QED  BY <1>1 DEF Init, RefusalInv

\* A refused request has the limit of other arrivals up to its horizon against
\* it, or one less when it was sent again, whatever the other clients do between
\* the four commands of its pipeline.
THEOREM RefusalsJustified == Spec => []RefusalJustified
<1>1. ASSUME RefusalInv PROVE RefusalJustified
  <2>1. SUFFICES ASSUME NEW c \in Clients, pc[c] = "decide", count[c] >= Limit
                 PROVE  Cardinality(Rivals(c)) >= (IF resent[c] THEN Limit - 1 ELSE Limit)
        BY DEF RefusalJustified, Rivals
  <2>2. count[c] <= Most(c) /\ count[c] \in Nat
        BY <1>1, <2>1 DEF RefusalInv, ReqInv, TypeInv, TypeOK
  <2>3. Cardinality(Rivals(c)) \in Nat
        BY <1>1, RequestsFinite DEF Rivals, RefusalInv, ReqInv, TypeInv, TypeOK
  <2>4. CASE resent[c]  BY <2>1, <2>2, <2>3, <2>4, LimitAssumption DEF Most
  <2>5. CASE ~resent[c]  BY <2>1, <2>2, <2>3, <2>5, LimitAssumption DEF Most
  <2> QED  BY <2>4, <2>5
<1> QED  BY <1>1, RefusalInit, RefusalNext, PTL DEF Spec
-----------------------------------------------------------------------------
\* The overshoot

\* The requests that were admitted by count, or will be unless their pipeline
\* fails or is sent again.
Passing == (admitted \ failedOpen) \union
    {req[c] : c \in {q \in Clients :
                        pc[q] \in {"zadd", "expire", "decide"} /\ count[q] < Limit}}

Bound == Limit + Cardinality(Clients) - 1

PassingAt(t) == StampsOf(Within(Passing, Window - MaxDelay - MaxSkew, t))

OvershootInv ==
    /\ KeepInv
    /\ \A t \in Ticks : Cardinality(PassingAt(t)) <= Bound

\* Requests that pass have arrived, and their stamps are finitely many.
LEMMA PassingFinite ==
    ASSUME TypeInv
    PROVE  /\ Passing \subseteq arrived
           /\ \A t \in Ticks :
                 IsFiniteSet(PassingAt(t)) /\ Cardinality(PassingAt(t)) \in Nat
<1>1. Passing \subseteq arrived /\ arrived \subseteq Requests
      BY DEF TypeInv, TypeOK, BusyInv, Passing
<1>2. \A t \in Ticks : PassingAt(t) \subseteq Stamps
      BY <1>1 DEF PassingAt, Within, StampsOf, Requests
<1> QED  BY <1>1, <1>2, StampsFinite

\* So after a step.
LEMMA PassingFiniteNext ==
    ASSUME TypeInv', NEW t \in Ticks
    PROVE  IsFiniteSet(PassingAt(t)') /\ Cardinality(PassingAt(t)') \in Nat
<1>1. Passing' \subseteq arrived' /\ arrived' \subseteq Requests
      BY DEF TypeInv, TypeOK, BusyInv, Passing
<1>2. PassingAt(t)' \subseteq Stamps
      BY <1>1 DEF PassingAt, Within, StampsOf, Requests
<1> QED  BY <1>2, StampsFinite

\* The limit and the number of clients are numbers.
LEMMA BoundType == Bound \in Nat /\ Cardinality(Clients) \in Nat
<1>1. Cardinality(Clients) \in Nat  BY SetsAssumption, FS_CardinalityType
<1> QED  BY <1>1, LimitAssumption DEF Bound

\* A client that counts fewer than the limit finds in the set the stamps of the
\* window that pass, but for those of the clients in their pipelines.
LEMMA PassingCounted ==
    ASSUME KeepInv, NEW c \in Clients, Count(c), KeepInv', NEW t \in Ticks,
           Cardinality(zset) < Limit, TickOf(req[c]) <= t
    PROVE  Cardinality(PassingAt(t)') <= Bound
<1> DEFINE Own == {req[q].stamp : q \in Clients}
<1>0. ReqInv /\ TypeInv /\ TypeInv'  BY DEF KeepInv, ReqInv
<1>1. /\ clock \in Nat /\ Window \in Nat /\ MaxDelay \in Nat /\ MaxSkew \in Nat
      /\ \A r \in arrived : TickOf(r) \in Nat
      /\ req[c] \in arrived /\ since[c] \in Nat /\ t \in Nat
      BY <1>0, ReqTypes, BoundsAssumption, TimesAssumption DEF Count, Ticks
<1>2. UNCHANGED << clock, zset, req, arrived, admitted, failedOpen >>
      BY DEF Count, historyVars
<1>3. clock <= t + MaxDelay
  <2>1. clock <= since[c] + MaxDelay  BY <1>0 DEF ReqInv, InPipeline, Count
  <2>2. TickOf(req[c]) \in since[c]..(since[c] + MaxSkew)  BY <1>0 DEF ReqInv, Count
  <2> QED  BY <1>1, <2>1, <2>2
<1>4. PassingAt(t)' \subseteq zset \union Own
  <2> SUFFICES ASSUME NEW s \in PassingAt(t)', s \notin Own PROVE s \in zset
      OBVIOUS
  <2>1. PICK r \in Passing' : /\ r.stamp = s
                              /\ t - (Window - MaxDelay - MaxSkew) < TickOf(r)
        BY DEF PassingAt, Within, StampsOf
  <2>2. r \in admitted \ failedOpen  BY <1>2, <2>1 DEF Passing
  <2>3. TickOf(r) \in Nat  BY <1>0, <1>1, <2>2 DEF TypeInv, TypeOK
  <2>4. clock + MaxSkew < TickOf(r) + Window  BY <1>1, <1>3, <2>1, <2>3
  <2>5. s \in Added /\ clock + MaxSkew < s[1] + Window
        BY <2>1, <2>2, <2>4 DEF KeepInv, Added, TickOf
  <2> QED  BY <2>5 DEF KeepInv
<1>5. IsFiniteSet(zset) /\ Cardinality(zset) \in Nat
      BY <1>0, StampsFinite DEF TypeInv, TypeOK
<1>6. IsFiniteSet(Own) /\ Cardinality(Own) <= Cardinality(Clients)
  <2> DEFINE f == [q \in Clients |-> req[q].stamp]
  <2>1. f \in [Clients -> Own] /\ Own = {f[q] : q \in Clients}  OBVIOUS
  <2> HIDE DEF f, Own
  <2>2. /\ IsFiniteSet({f[q] : q \in Clients})
        /\ Cardinality({f[q] : q \in Clients}) <= Cardinality(Clients)
        BY <2>1, SetsAssumption, ImageBound
  <2> QED  BY <2>1, <2>2
<1>7. /\ IsFiniteSet(zset \union Own)
      /\ Cardinality(zset \union Own) <= Cardinality(zset) + Cardinality(Own)
  <2> HIDE DEF Own
  <2>1. Cardinality(zset \cap Own) \in Nat /\ Cardinality(Own) \in Nat
        BY <1>5, <1>6, FS_Subset, FS_CardinalityType
  <2>2. /\ IsFiniteSet(zset \union Own)
        /\ Cardinality(zset \union Own)
              = Cardinality(zset) + Cardinality(Own) - Cardinality(zset \cap Own)
        BY <1>5, <1>6, FS_Union
  <2> QED  BY <1>5, <2>1, <2>2
<1>8. Cardinality(PassingAt(t)') <= Cardinality(zset \union Own)
      BY <1>4, <1>7, FS_Subset
<1>9. /\ Cardinality(Own) \in Nat /\ Cardinality(zset \union Own) \in Nat
      /\ Cardinality(PassingAt(t)') \in Nat
      BY <1>0, <1>6, <1>7, PassingFiniteNext, FS_CardinalityType
<1> HIDE DEF Own
<1> QED  BY <1>5, <1>6, <1>7, <1>8, <1>9, BoundType, LimitAssumption DEF Bound

\* The steps of one client.
LEMMA OvershootStep ==
    ASSUME OvershootInv, NEW c \in Clients, Arrive(c) \/ Step(c)
    PROVE  OvershootInv'
<1>0. KeepInv /\ KeepInv' /\ TypeInv /\ TypeInv'
      BY KeepStep DEF OvershootInv, KeepInv, ReqInv
<1>b. /\ pc \in [Clients -> Points] /\ count \in [Clients -> Nat]
      /\ req \in [Clients -> Requests \union {NoRequest}]
      BY <1>0 DEF TypeInv, TypeOK
<1>d. ASSUME NEW t \in Ticks, PassingAt(t)' \subseteq PassingAt(t)
      PROVE  Cardinality(PassingAt(t)') <= Bound
  <2>1. Cardinality(PassingAt(t)') <= Cardinality(PassingAt(t))
        BY <1>0, <1>d, PassingFinite, FS_Subset
  <2>2. Cardinality(PassingAt(t)) <= Bound  BY DEF OvershootInv
  <2>3. Cardinality(PassingAt(t)) \in Nat /\ Cardinality(PassingAt(t)') \in Nat
        BY <1>0, PassingFinite, PassingFiniteNext
  <2> QED  BY <2>1, <2>2, <2>3, BoundType
<1>e. ASSUME Passing' \subseteq Passing PROVE OvershootInv'
  <2>1. \A t \in Ticks : PassingAt(t)' \subseteq PassingAt(t)
        BY <1>e DEF PassingAt, Within, StampsOf
  <2> QED  BY <1>0, <1>d, <2>1 DEF OvershootInv
<1>1. CASE Arrive(c)
  <2>1. Passing' \subseteq Passing  BY <1>1, <1>b DEF Arrive, Passing
  <2> QED  BY <1>e, <2>1
<1>2. CASE RemoveExpired(c)
  <2>1. Passing' \subseteq Passing  BY <1>2, <1>b DEF RemoveExpired, Passing, historyVars
  <2> QED  BY <1>e, <2>1
<1>3. CASE Count(c)
  <2>1. /\ pc' = [pc EXCEPT ![c] = "zadd"] /\ UNCHANGED << req, admitted, failedOpen >>
        /\ count' = [count EXCEPT ![c] = Cardinality(zset)]
        BY <1>3 DEF Count, historyVars
  <2>2. Passing' \subseteq Passing \union {req[c]}  BY <1>b, <2>1 DEF Passing
  <2>3. ~(Cardinality(zset) < Limit) => Passing' \subseteq Passing
        BY <1>b, <2>1 DEF Passing
  <2>4. ASSUME NEW t \in Ticks PROVE Cardinality(PassingAt(t)') <= Bound
    <3>1. CASE Cardinality(zset) < Limit /\ TickOf(req[c]) <= t
          BY <1>0, <1>3, <3>1, PassingCounted
    <3>2. CASE ~(Cardinality(zset) < Limit)
      <4>1. PassingAt(t)' \subseteq PassingAt(t)  BY <2>3, <3>2 DEF PassingAt, Within, StampsOf
      <4> QED  BY <1>d, <4>1
    <3>3. CASE ~(TickOf(req[c]) <= t)
      <4>1. PassingAt(t)' \subseteq PassingAt(t)
            BY <2>2, <3>3 DEF PassingAt, Within, StampsOf
      <4> QED  BY <1>d, <4>1
    <3> QED  BY <3>1, <3>2, <3>3
  <2> QED  BY <1>0, <2>4 DEF OvershootInv
<1>4. CASE Add(c)
  <2>1. Passing' \subseteq Passing  BY <1>4, <1>b DEF Add, Passing, historyVars
  <2> QED  BY <1>e, <2>1
<1>5. CASE Expire(c)
  <2>1. Passing' \subseteq Passing  BY <1>5, <1>b DEF Expire, Passing, historyVars
  <2> QED  BY <1>e, <2>1
<1>6. CASE Decide(c)
  <2>1. Passing' \subseteq Passing  BY <1>6, <1>b DEF Decide, Return, Passing
  <2> QED  BY <1>e, <2>1
<1>7. CASE ExecFails(c)
  <2>1. Passing' \subseteq Passing  BY <1>7, <1>b DEF ExecFails, Return, Passing
  <2> QED  BY <1>e, <2>1
<1>8. CASE Resend(c)
  <2>1. Passing' \subseteq Passing  BY <1>8, <1>b DEF Resend, Passing, historyVars
  <2> QED  BY <1>e, <2>1
<1> QED  BY <1>1, <1>2, <1>3, <1>4, <1>5, <1>6, <1>7, <1>8 DEF Step

\* Every step.
LEMMA OvershootNext == OvershootInv /\ [Next]_vars => OvershootInv'
<1> SUFFICES ASSUME OvershootInv, [Next]_vars PROVE OvershootInv'  OBVIOUS
<1>0. KeepInv'  BY KeepNext DEF OvershootInv
<1>1. CASE Tick
      BY <1>0, <1>1 DEF Tick, historyVars, OvershootInv, PassingAt, Within, StampsOf, Passing
<1>2. CASE UNCHANGED vars
      BY <1>0, <1>2 DEF vars, historyVars, OvershootInv, PassingAt, Within, StampsOf, Passing
<1> QED  BY <1>1, <1>2, OvershootStep DEF Next

\* At first nothing passes.
LEMMA OvershootInit == Init => OvershootInv
<1> SUFFICES ASSUME Init PROVE OvershootInv  OBVIOUS
<1>1. KeepInv  BY KeepInit
<1>2. Passing = {}  BY DEF Init, Passing
<1>3. \A t \in Ticks : PassingAt(t) = {}  BY <1>2 DEF PassingAt, Within, StampsOf
<1> QED  BY <1>1, <1>3, FS_EmptySet, BoundType DEF OvershootInv

\* However the pipelines are interleaved, however late a request is, within
\* MaxDelay, and however far apart the clocks are, within MaxSkew: a window less
\* both admits by count the requests of no more nanoseconds than the limit and
\* one for each other client.
THEOREM OvershootIsBounded == Spec => []OvershootBounded
<1>1. ASSUME OvershootInv PROVE OvershootBounded
  <2> DEFINE S(t) == StampsOf(Within(admitted \ failedOpen, Window - MaxDelay - MaxSkew, t))
  <2>1. SUFFICES ASSUME NEW t \in Ticks PROVE Cardinality(S(t)) <= Bound
        BY DEF OvershootBounded, Bound
  <2>2. S(t) \subseteq PassingAt(t)  BY DEF PassingAt, Within, StampsOf, Passing
  <2>3. IsFiniteSet(PassingAt(t)) /\ Cardinality(PassingAt(t)) \in Nat
        BY <1>1, PassingFinite DEF OvershootInv, KeepInv, ReqInv
  <2> HIDE DEF S
  <2>4. Cardinality(S(t)) <= Cardinality(PassingAt(t)) /\ Cardinality(S(t)) \in Nat
        BY <2>2, <2>3, FS_Subset, FS_CardinalityType
  <2> QED  BY <1>1, <2>3, <2>4, BoundType DEF OvershootInv
<1> QED  BY <1>1, OvershootInit, OvershootNext, PTL DEF Spec
=============================================================================
