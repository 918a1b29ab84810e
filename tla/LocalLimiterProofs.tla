------------------------- MODULE LocalLimiterProofs -------------------------
(***************************************************************************)
(* Theorems about LocalLimiter, for any number of requests and addresses,  *)
(* and any burst, timeout and delay the assumptions allow.                 *)
(***************************************************************************)
EXTENDS LocalLimiter, FiniteSetTheorems, TLAPS

-----------------------------------------------------------------------------
\* Type correctness

\* A request's step keeps the histories' types, as it counts one admission at
\* most.
LEMMA HistoryStep ==
    ASSUME TypeOK, NEW r \in Requests, Step(r)
    PROVE  HistoryOK'
<1>1. CASE Allow(r)
  <2>1. admitted' \in [IPs -> Nat]
    <3>1. ip[r] \in IPs /\ admitted \in [IPs -> Nat]  BY DEF TypeOK, HistoryOK
    <3>2. \/ admitted' = admitted
          \/ admitted' = [admitted EXCEPT ![ip[r]] = admitted[ip[r]] + 1]
          BY <1>1 DEF Allow
    <3> QED  BY <3>1, <3>2
  <2> QED  BY <1>1, <2>1 DEF Allow, TypeOK, HistoryOK
<1>2. CASE ~Allow(r)
      BY <1>2 DEF Step, Lookup, Create, Touch, TypeOK, HistoryOK, historyVars
<1> QED  BY <1>1, <1>2

\* The steps of one request keep the types.
LEMMA TypeStep ==
    ASSUME TypeOK, NEW r \in Requests, Step(r)
    PROVE  TypeOK'
<1> USE BurstAssumption, BoundsAssumption DEF TypeOK, Points, Goto, requestVars, historyVars
<1>0. HistoryOK'  BY HistoryStep
<1>1. CASE Lookup(r)  BY <1>0, <1>1 DEF Lookup
<1>2. CASE Create(r)
  <2>1. CASE localLimiters[ip[r]] = 0
    <3>1. buckets' \in 1..MaxBuckets /\ buckets' = buckets + 1
          BY <1>2, <2>1 DEF Create, NewBucket
    <3>2. 0..buckets \subseteq 0..buckets' /\ buckets' \in 0..buckets'  BY <3>1
    <3>3. localLimiters' = [localLimiters EXCEPT ![ip[r]] = buckets']
          BY <1>2, <2>1 DEF Create, NewBucket
    <3>4. localLimiters' \in [IPs -> 0..buckets']  BY <3>2, <3>3
    <3>5. entry' \in [Requests -> 0..buckets']  BY <1>2, <3>2, <3>4 DEF Create
    <3>6. Burst \in 0..Burst /\ clock \in 0..clock  OBVIOUS
    <3>7. tokens' = [tokens EXCEPT ![buckets'] = Burst]
          BY <1>2, <2>1 DEF Create, NewBucket
    <3>8. tokens' \in [Buckets -> 0..Burst]  BY <3>6, <3>7
    <3>9. lastUsed' = [lastUsed EXCEPT ![buckets'] = clock]
          BY <1>2, <2>1 DEF Create, NewBucket
    <3>10. lastUsed' \in [Buckets -> 0..clock]  BY <3>6, <3>9
    <3>11. pc' \in [Requests -> Points] /\ since' \in [Requests -> 0..clock]
           BY <1>2, <3>6 DEF Create
    <3>12. UNCHANGED << clock, ip >>  BY <1>2 DEF Create
    <3>13. clock' \in Nat /\ ip' \in [Requests -> IPs]
           BY <3>12
    <3>14. buckets' \in 0..MaxBuckets /\ clock' = clock  BY <3>1, <3>12
    <3> QED  BY <1>0, <3>4, <3>5, <3>8, <3>10, <3>11, <3>13, <3>14
  <2>2. CASE localLimiters[ip[r]] # 0
    <3>1. entry' \in [Requests -> 0..buckets]  BY <1>2, <2>2 DEF Create
    <3>2. UNCHANGED << clock, localLimiters, buckets, tokens, lastUsed, ip >>
          BY <1>2, <2>2 DEF Create
    <3>3. pc' \in [Requests -> Points] /\ since' \in [Requests -> 0..clock]
          BY <1>2 DEF Create
    <3> QED  BY <1>0, <3>1, <3>2, <3>3
  <2> QED  BY <2>1, <2>2
<1>3. CASE Touch(r)
  <2>1. clock \in 0..clock  OBVIOUS
  <2>2. lastUsed' \in [Buckets -> 0..clock]  BY <1>3, <2>1 DEF Touch
  <2>3. pc' \in [Requests -> Points] /\ since' \in [Requests -> 0..clock]
        BY <1>3, <2>1 DEF Touch
  <2>4. UNCHANGED << clock, localLimiters, buckets, tokens, entry, ip >>
        BY <1>3 DEF Touch
  <2> QED  BY <1>0, <2>2, <2>3, <2>4
<1>4. CASE Allow(r)
  <2>0. /\ UNCHANGED << clock, localLimiters, buckets, lastUsed, ip >>
        /\ pc' \in [Requests -> Points]
        /\ entry' \in [Requests -> 0..buckets]
        /\ since' \in [Requests -> 0..clock]
        BY <1>4 DEF Allow
  <2>1. CASE tokens[entry[r]] > 0
    <3>1. tokens' \in [Buckets -> 0..Burst]
      <4>1. tokens' = [tokens EXCEPT ![entry[r]] = tokens[entry[r]] - 1]
            BY <1>4, <2>1 DEF Allow
      <4>2. entry[r] \in Buckets => tokens[entry[r]] - 1 \in 0..Burst  BY <2>1
      <4> QED  BY <4>1, <4>2
    <3> QED  BY <1>0, <2>0, <3>1
  <2>2. CASE ~(tokens[entry[r]] > 0)  BY <1>0, <1>4, <2>0, <2>2 DEF Allow
  <2> QED  BY <2>1, <2>2
<1> QED  BY <1>1, <1>2, <1>3, <1>4 DEF Step

\* Every step keeps the types.
LEMMA TypeNext == TypeOK /\ [Next]_vars => TypeOK'
<1> SUFFICES ASSUME TypeOK, [Next]_vars PROVE TypeOK'  OBVIOUS
<1> USE DEF TypeOK
<1>1. CASE Tick
  <2>1. clock' \in Nat /\ clock' = clock + 1  BY <1>1 DEF Tick
  <2>2. HistoryOK'
    <3>1. \A a \in IPs : before'[a] \in [1..MaxTime -> Nat]
          BY <1>1 DEF Tick, HistoryOK
    <3> QED  BY <1>1, <3>1 DEF Tick, HistoryOK
  <2>3. tokens' \in [Buckets -> 0..Burst]  BY <1>1, BurstAssumption DEF Tick
  <2>4. UNCHANGED << localLimiters, buckets, lastUsed, requestVars >>
        BY <1>1 DEF Tick
  <2> QED  BY <2>1, <2>2, <2>3, <2>4 DEF requestVars
<1>2. CASE Cleanup
  <2>1. localLimiters' \in [IPs -> 0..buckets]  BY <1>2 DEF Cleanup
  <2>2. HistoryOK'
    <3>1. ASSUME NEW a \in IPs, localLimiters'[a] # localLimiters[a]
          PROVE  localLimiters[a] \in Buckets
          BY <1>2, <3>1, BoundsAssumption DEF Cleanup, Buckets
    <3>2. ASSUME NEW a \in IPs
          PROVE  {<< r, localLimiters[a] >> : r \in
                    {q \in Requests : localLimiters'[a] # localLimiters[a]
                                        /\ entry[q] = localLimiters[a]}}
                    \in SUBSET (Requests \X Buckets)
          BY <3>1
    <3>3. deletedInUse' \in [IPs -> SUBSET (Requests \X Buckets)]
          BY <1>2, <3>2 DEF Cleanup, HistoryOK
    <3> QED  BY <1>2, <3>3 DEF Cleanup, HistoryOK
  <2> QED  BY <1>2, <2>1, <2>2 DEF Cleanup, requestVars
<1>3. ASSUME NEW r \in Requests, Step(r) PROVE TypeOK'  BY <1>3, TypeStep
<1>4. ASSUME NEW r \in Requests, NEW a \in IPs, Arrive(r, a) PROVE TypeOK'
  <2>1. HistoryOK'  BY <1>4 DEF Arrive, HistoryOK, historyVars
  <2> QED  BY <1>4, <2>1 DEF Arrive, Goto, Points
<1>5. CASE UNCHANGED vars
      BY <1>5 DEF vars, requestVars, historyVars, HistoryOK
<1> QED  BY <1>1, <1>2, <1>3, <1>4, <1>5 DEF Next

\* The types hold at first.
LEMMA TypeInit == Init => TypeOK
BY BurstAssumption, BoundsAssumption DEF Init, TypeOK, HistoryOK, Points, Buckets

\* Every variable keeps its type: no bucket ever holds more than the burst,
\* and a request only ever holds a bucket that was made.
THEOREM TypeCorrect == Spec => []TypeOK
BY TypeInit, TypeNext, PTL DEF Spec

-----------------------------------------------------------------------------
\* One bucket for each address

\* What OneBucketPerIP needs to be inductive: a request that has passed the
\* map holds a bucket, and a bucket made later is none of those deleted.
DeletedWereMade ==
    \A a \in IPs : \A p \in deletedInUse[a] : p[2] \in 1..buckets

BucketInv ==
    /\ TypeOK
    /\ OneBucketPerIP
    /\ \A r \in Requests : Holds(r) => entry[r] # 0
    /\ DeletedWereMade

\* The steps of one request.
LEMMA BucketStep ==
    ASSUME BucketInv, NEW r \in Requests, Step(r), TypeOK'
    PROVE  BucketInv'
<1> USE DEF BucketInv, DeletedWereMade, TypeOK, OneBucketPerIP, Holds, Goto, historyVars, Points
<1>1. CASE Lookup(r)  BY <1>1 DEF Lookup
<1>2. CASE Create(r)
  <2>1. CASE localLimiters[ip[r]] = 0
    <3>1. \A a \in IPs : \A p \in deletedInUse'[a] : p[2] \in 1..buckets'
          BY <1>2, <2>1 DEF Create, NewBucket
    <3>2. entry'[r] = buckets + 1 /\ localLimiters'[ip[r]] = buckets + 1
          BY <1>2, <2>1 DEF Create, NewBucket
    <3>3. ASSUME NEW q \in Requests, Holds(q)'
          PROVE  /\ entry'[q] # 0
                 /\ << q, entry'[q] >> \notin deletedInUse'[ip'[q]]
                       => localLimiters'[ip'[q]] = entry'[q]
      <4>1. CASE q = r  BY <1>2, <3>2, <4>1 DEF Create
      <4>2. CASE q # r
        <5>1. Holds(q) /\ entry'[q] = entry[q] /\ ip'[q] = ip[q]
              BY <1>2, <3>3, <4>2 DEF Create
        <5>2. CASE ip[q] = ip[r]  BY <1>2, <2>1, <5>1, <5>2 DEF Create
        <5>3. CASE ip[q] # ip[r]
          <6>1. localLimiters'[ip[q]] = localLimiters[ip[q]]
                BY <1>2, <2>1, <5>3 DEF Create, NewBucket
          <6> QED  BY <1>2, <5>1, <6>1 DEF Create
        <5> QED  BY <5>2, <5>3
      <4> QED  BY <4>1, <4>2
    <3> QED  BY <3>1, <3>3
  <2>2. CASE localLimiters[ip[r]] # 0  BY <1>2, <2>2 DEF Create
  <2> QED  BY <2>1, <2>2
<1>3. CASE Touch(r)  BY <1>3 DEF Touch
<1>4. CASE Allow(r)  BY <1>4 DEF Allow
<1> QED  BY <1>1, <1>2, <1>3, <1>4 DEF Step

\* Every step.
LEMMA BucketNext == BucketInv /\ [Next]_vars => BucketInv'
<1> SUFFICES ASSUME BucketInv, [Next]_vars PROVE BucketInv'  OBVIOUS
<1>0. TypeOK'  BY TypeNext DEF BucketInv
<1> USE <1>0 DEF BucketInv, DeletedWereMade, TypeOK, OneBucketPerIP, Holds
<1>1. CASE Tick  BY <1>1 DEF Tick, requestVars, historyVars
<1>2. CASE Cleanup
  <2>1. ASSUME NEW a \in IPs, localLimiters'[a] # localLimiters[a]
        PROVE  localLimiters[a] \in 1..buckets
        BY <1>2, <2>1 DEF Cleanup
  <2>2. ASSUME NEW a \in IPs, NEW p \in deletedInUse'[a]
        PROVE  p[2] \in 1..buckets'
    <3>1. CASE p \in deletedInUse[a]  BY <1>2, <3>1 DEF Cleanup
    <3>2. CASE p \notin deletedInUse[a]
      <4>1. p[2] = localLimiters[a] /\ localLimiters'[a] # localLimiters[a]
            BY <1>2, <2>2, <3>2 DEF Cleanup
      <4> QED  BY <1>2, <2>1, <4>1 DEF Cleanup
    <3> QED  BY <3>1, <3>2
  <2>3. ASSUME NEW q \in Requests, Holds(q)', << q, entry'[q] >> \notin deletedInUse'[ip'[q]]
        PROVE  localLimiters'[ip'[q]] = entry'[q]
    <3>1. Holds(q) /\ entry'[q] = entry[q] /\ ip'[q] = ip[q] /\ ip[q] \in IPs
          BY <1>2, <2>3 DEF Cleanup, requestVars
    <3>2. << q, entry[q] >> \notin deletedInUse[ip[q]]  BY <1>2, <2>3, <3>1 DEF Cleanup
    <3>3. localLimiters[ip[q]] = entry[q]  BY <3>1, <3>2
    <3>4. localLimiters'[ip[q]] = localLimiters[ip[q]]
          BY <1>2, <2>3, <3>1, <3>3 DEF Cleanup
    <3> QED  BY <3>1, <3>3, <3>4
  <2> QED  BY <1>2, <2>2, <2>3 DEF Cleanup, requestVars
<1>3. ASSUME NEW r \in Requests, Step(r) PROVE BucketInv'  BY <1>3, BucketStep
<1>4. ASSUME NEW r \in Requests, NEW a \in IPs, Arrive(r, a) PROVE BucketInv'
      BY <1>4 DEF Arrive, Goto, Points, historyVars
<1>5. CASE UNCHANGED vars  BY <1>5 DEF vars, requestVars, historyVars
<1> QED  BY <1>1, <1>2, <1>3, <1>4, <1>5 DEF Next

\* At first no request holds a bucket.
LEMMA BucketInit == Init => BucketInv
<1>1. Init => TypeOK  BY TypeInit
<1>2. Init => /\ OneBucketPerIP
              /\ \A r \in Requests : ~Holds(r)
              /\ \A a \in IPs : deletedInUse[a] = {}
      BY DEF Init, OneBucketPerIP, Holds
<1> QED  BY <1>1, <1>2 DEF BucketInv, DeletedWereMade

\* However the requests of an address and the cleanup interleave, the second
\* look at the map under the write lock leaves the address one bucket in use,
\* but for those deleted while a request held them.
THEOREM OneBucket == Spec => []OneBucketPerIP
<1>1. BucketInv => OneBucketPerIP  BY DEF BucketInv
<1> QED  BY <1>1, BucketInit, BucketNext, PTL DEF Spec

-----------------------------------------------------------------------------
\* The cleanup forgets nothing

\* A request that is about to take a token has marked its bucket as used
\* since its last step, which was MaxDelay ago at most.
FreshInv ==
    \A r \in Requests :
        /\ pc[r] # "idle" => clock <= since[r] + MaxDelay
        /\ pc[r] = "allow" => entry[r] \in 1..buckets /\ since[r] <= lastUsed[entry[r]]

\* A bucket has gained a token for every tick since it was last used, except
\* for MaxDelay of them, or is full.
RefillInv ==
    \A b \in 1..buckets :
        tokens[b] < Burst => clock - lastUsed[b] - MaxDelay <= tokens[b]

CleanupInv == BucketInv /\ FreshInv /\ RefillInv

\* The steps of one request keep both.
LEMMA CleanupStep ==
    ASSUME CleanupInv, NEW r \in Requests, Step(r), BucketInv'
    PROVE  CleanupInv'
<1> USE BurstAssumption, StaleAssumption, BoundsAssumption
    DEF CleanupInv, BucketInv, FreshInv, RefillInv, TypeOK, Goto, Points, Buckets
<1>1. CASE Lookup(r)
  <2>1. FreshInv'  BY <1>1 DEF Lookup
  <2>2. RefillInv'  BY <1>1 DEF Lookup
  <2> QED  BY <2>1, <2>2
<1>2. CASE Create(r)
  <2>1. CASE localLimiters[ip[r]] = 0
    <3>1. RefillInv'
      <4>1. buckets' \in Buckets /\ buckets' = buckets + 1 /\ clock' = clock
            BY <1>2, <2>1 DEF Create, NewBucket
      <4>2. tokens' = [tokens EXCEPT ![buckets'] = Burst]
            BY <1>2, <2>1 DEF Create, NewBucket
      <4>3. \A b \in 1..buckets : tokens'[b] = tokens[b] /\ lastUsed'[b] = lastUsed[b]
        <5>1. lastUsed' = [lastUsed EXCEPT ![buckets'] = clock]
              BY <1>2, <2>1 DEF Create, NewBucket
        <5>2. tokens \in [Buckets -> 0..Burst] /\ lastUsed \in [Buckets -> 0..clock]
              OBVIOUS
        <5>3. \A b \in 1..buckets : b \in Buckets /\ b # buckets'  BY <4>1
        <5> HIDE DEF CleanupInv, BucketInv, FreshInv, RefillInv, TypeOK, Buckets
        <5> QED  BY <4>2, <5>1, <5>2, <5>3
      <4>4. tokens'[buckets'] = Burst  BY <4>1, <4>2
      <4>5. \A b \in 1..buckets' : b \in 1..buckets \/ b = buckets'  BY <4>1
      <4>6. ~(Burst < Burst)  OBVIOUS
      <4> QED  BY <4>1, <4>3, <4>4, <4>5, <4>6
    <3>2. FreshInv'
      <4>1. \A b \in 1..buckets : lastUsed'[b] = lastUsed[b]
        <5>1. lastUsed' = [lastUsed EXCEPT ![buckets'] = clock] /\ buckets' = buckets + 1
              BY <1>2, <2>1 DEF Create, NewBucket
        <5> QED  BY <5>1
      <4>2. buckets' = buckets + 1 /\ clock' = clock
            BY <1>2, <2>1 DEF Create, NewBucket
      <4> QED  BY <1>2, <4>1, <4>2 DEF Create
    <3> QED  BY <3>1, <3>2
  <2>2. CASE localLimiters[ip[r]] # 0
    <3>1. RefillInv'  BY <1>2, <2>2 DEF Create
    <3>2. FreshInv'  BY <1>2, <2>2 DEF Create
    <3> QED  BY <3>1, <3>2
  <2> QED  BY <2>1, <2>2
<1>3. CASE Touch(r)
  <2>1. entry[r] \in 1..buckets  BY <1>3 DEF Touch, Holds
  <2>2. lastUsed'[entry[r]] = clock /\ clock' = clock  BY <1>3, <2>1 DEF Touch
  <2>3. \A b \in 1..buckets : lastUsed[b] <= lastUsed'[b]  BY <1>3 DEF Touch
  <2>4. RefillInv'
    <3>1. UNCHANGED << clock, buckets, tokens >>  BY <1>3 DEF Touch
    <3>2. ASSUME NEW b \in 1..buckets, tokens[b] < Burst
          PROVE  clock - lastUsed'[b] - MaxDelay <= tokens[b]
      <4>1. /\ lastUsed[b] \in Nat /\ lastUsed'[b] \in Nat /\ tokens[b] \in Nat
            /\ clock \in Nat /\ MaxDelay \in Nat
            BY <1>3 DEF Touch
      <4>2. clock - lastUsed[b] - MaxDelay <= tokens[b]  BY <3>2
      <4>3. lastUsed[b] <= lastUsed'[b]  BY <2>3
      <4> HIDE DEF CleanupInv, BucketInv, FreshInv, RefillInv, TypeOK
      <4> QED  BY <4>1, <4>2, <4>3
    <3> QED  BY <3>1, <3>2
  <2>5. FreshInv'  BY <1>3, <2>1, <2>2, <2>3 DEF Touch
  <2> QED  BY <2>4, <2>5
<1>4. CASE Allow(r)
  <2>1. FreshInv'  BY <1>4 DEF Allow
  <2>2. RefillInv'
    <3>1. CASE tokens[entry[r]] > 0
      <4> DEFINE e == entry[r]
      <4>1. e \in Buckets /\ e \in 1..buckets  BY <1>4 DEF Allow
      <4>2. lastUsed[e] \in Nat /\ since[r] \in Nat /\ tokens[e] \in Nat  BY <4>1
      <4>3. clock <= since[r] + MaxDelay /\ since[r] <= lastUsed[e]  BY <1>4 DEF Allow
      <4>4. clock - lastUsed[e] - MaxDelay <= 0
        <5>1. clock \in Nat /\ MaxDelay \in Nat  OBVIOUS
        <5> HIDE DEF e, CleanupInv, BucketInv, FreshInv, RefillInv, TypeOK
        <5> QED  BY <4>2, <4>3, <5>1
      <4>5. tokens' = [tokens EXCEPT ![e] = @ - 1]  BY <1>4, <3>1 DEF Allow
      <4>6. buckets' = buckets /\ clock' = clock /\ lastUsed' = lastUsed
            BY <1>4 DEF Allow
      <4>7. tokens'[e] >= 0  BY <3>1, <4>1, <4>2, <4>5
      <4>8. ASSUME NEW b \in 1..buckets, tokens'[b] < Burst
            PROVE  clock - lastUsed[b] - MaxDelay <= tokens'[b]
        <5>1. CASE b = e
          <6>1. clock \in Nat /\ MaxDelay \in Nat  OBVIOUS
          <6>2. tokens'[e] \in Int  BY <4>1, <4>2, <4>5
          <6> HIDE DEF e, CleanupInv, BucketInv, FreshInv, RefillInv, TypeOK
          <6> QED  BY <4>2, <4>4, <4>7, <5>1, <6>1, <6>2
        <5>2. CASE b # e
          <6>1. b \in Buckets  OBVIOUS
          <6>2. tokens'[b] = tokens[b]  BY <4>1, <4>5, <5>2, <6>1
          <6> QED  BY <4>8, <6>2
        <5> QED  BY <5>1, <5>2
      <4> QED  BY <4>6, <4>8
    <3>2. CASE ~(tokens[entry[r]] > 0)  BY <1>4, <3>2 DEF Allow
    <3> QED  BY <3>1, <3>2
  <2> QED  BY <2>1, <2>2
<1> QED  BY <1>1, <1>2, <1>3, <1>4 DEF Step

\* Every step keeps both.
LEMMA CleanupNext == CleanupInv /\ [Next]_vars => CleanupInv'
<1> SUFFICES ASSUME CleanupInv, [Next]_vars PROVE CleanupInv'  OBVIOUS
<1>0. BucketInv'  BY BucketNext DEF CleanupInv
<1> USE <1>0, BurstAssumption, StaleAssumption, BoundsAssumption
    DEF CleanupInv, BucketInv, FreshInv, RefillInv, TypeOK
<1>1. CASE Tick
  <2>1. FreshInv'  BY <1>1 DEF Tick, requestVars
  <2>2. RefillInv'  BY <1>1 DEF Tick, Buckets
  <2> QED  BY <2>1, <2>2
<1>2. CASE Cleanup  BY <1>2 DEF Cleanup, requestVars
<1>3. ASSUME NEW r \in Requests, Step(r) PROVE CleanupInv'  BY <1>3, CleanupStep
<1>4. ASSUME NEW r \in Requests, NEW a \in IPs, Arrive(r, a) PROVE CleanupInv'
  <2>1. FreshInv'  BY <1>4 DEF Arrive, Goto
  <2>2. RefillInv'  BY <1>4 DEF Arrive
  <2> QED  BY <2>1, <2>2
<1>5. CASE UNCHANGED vars  BY <1>5 DEF vars, requestVars
<1> QED  BY <1>1, <1>2, <1>3, <1>4, <1>5 DEF Next

\* At first there is neither a bucket nor a request.
LEMMA CleanupInit == Init => CleanupInv
<1>1. Init => BucketInv  BY BucketInit
<1>2. Init => FreshInv /\ RefillInv  BY DEF Init, FreshInv, RefillInv
<1> QED  BY <1>1, <1>2 DEF CleanupInv

\* A bucket that is stale for the cleanup is full.
LEMMA StaleIsFull == CleanupInv => CleanupForgetsNothing
<1> SUFFICES ASSUME CleanupInv, NEW a \in IPs,
                    localLimiters[a] # 0, Stale(localLimiters[a])
             PROVE  tokens[localLimiters[a]] = Burst
    BY DEF CleanupForgetsNothing
<1>1. localLimiters[a] \in 1..buckets /\ localLimiters[a] \in Buckets
      BY BoundsAssumption DEF CleanupInv, BucketInv, TypeOK, Buckets
<1>2. lastUsed[localLimiters[a]] \in Nat /\ tokens[localLimiters[a]] \in 0..Burst
      BY <1>1 DEF CleanupInv, BucketInv, TypeOK
<1> DEFINE used == lastUsed[localLimiters[a]]
           left == tokens[localLimiters[a]]
<1>3. left < Burst => clock - used - MaxDelay <= left  BY <1>1 DEF CleanupInv, RefillInv
<1>4. clock - used > StaleTimeout  BY DEF Stale
<1>5. clock \in Nat  BY DEF CleanupInv, BucketInv, TypeOK
<1> HIDE DEF used, left
<1>6. used \in Nat /\ left \in 0..Burst  BY <1>2 DEF used, left
<1>7. left = Burst
      BY <1>3, <1>4, <1>5, <1>6, BurstAssumption, StaleAssumption, RefillAssumption
<1> QED  BY <1>7 DEF left

\* The write of lastUsed without the lock costs an address nothing and gains
\* it nothing: whatever the cleanup deletes is as good as new, as long as the
\* timeout refills a bucket used MaxDelay after its mark.
THEOREM NothingForgotten == Spec => []CleanupForgetsNothing
BY StaleIsFull, CleanupInit, CleanupNext, PTL DEF Spec

-----------------------------------------------------------------------------
\* The burst

\* No two addresses share a bucket, a deleted bucket never comes back, and a
\* request has a bucket only while it uses it.
MapInv ==
    /\ \A x, y \in IPs : localLimiters[x] = localLimiters[y] /\ localLimiters[x] # 0 => x = y
    /\ \A x, y \in IPs : \A p \in deletedInUse[x] : localLimiters[y] # p[2]
    /\ \A r \in Requests : ~Holds(r) => entry[r] = 0

\* What the next request of an address can take.
Available(a) == IF localLimiters[a] = 0 THEN Burst ELSE tokens[localLimiters[a]]

\* The requests that have returned from a bucket deleted under them.
Returned(a) == {p \in deletedInUse[a] : entry[p[1]] # p[2]}

\* What BurstRespected needs to be inductive: what is still available counts as
\* admitted, and a deletion only when its request has returned.
BurstInv ==
    /\ CleanupInv /\ MapInv
    /\ clock \in 1..MaxTime
    /\ \A a \in IPs, from \in 1..clock :
          admitted[a] - before[a][from] + Available(a)
              <= Burst + (clock - from) + Cardinality(Returned(a))

\* Types of the parts of BurstInv.
LEMMA BurstTypes ==
    ASSUME TypeOK, NEW a \in IPs
    PROVE  /\ localLimiters[a] \in 0..buckets
           /\ Available(a) \in 0..Burst
           /\ admitted[a] \in Nat
           /\ Cardinality(Returned(a)) \in Nat /\ Cardinality(deletedInUse[a]) \in Nat
           /\ IsFiniteSet(Returned(a))
           /\ Cardinality(Returned(a)) <= Cardinality(deletedInUse[a])
<1>1. localLimiters[a] \in 0..buckets  BY DEF TypeOK
<1>2. Available(a) \in 0..Burst
      BY <1>1, BurstAssumption, BoundsAssumption DEF TypeOK, Available, Buckets
<1>3. admitted[a] \in Nat  BY DEF TypeOK, HistoryOK
<1>4. IsFiniteSet(Requests \X Buckets)
  <2>1. IsFiniteSet(Buckets)  BY FS_Interval, BoundsAssumption DEF Buckets
  <2> QED  BY <2>1, FS_Product, RequestsAssumption
<1>5. deletedInUse[a] \in SUBSET (Requests \X Buckets)  BY DEF TypeOK, HistoryOK
<1>6. IsFiniteSet(deletedInUse[a])  BY <1>4, <1>5, FS_Subset
<1>7. Returned(a) \in SUBSET deletedInUse[a]  BY DEF Returned
<1>8. /\ IsFiniteSet(Returned(a))
      /\ Cardinality(Returned(a)) <= Cardinality(deletedInUse[a])
      BY <1>6, <1>7, FS_Subset
<1> QED  BY <1>1, <1>2, <1>3, <1>6, <1>8, FS_CardinalityType

\* The same after a step.
PartsTyped ==
    \A a \in IPs :
        /\ Available(a) \in 0..Burst
        /\ admitted[a] \in Nat
        /\ Cardinality(Returned(a)) \in Nat

LEMMA PartsTypedNext == TypeOK' => PartsTyped'
<1>1. TypeOK => PartsTyped  BY BurstTypes DEF PartsTyped
<1> QED  BY <1>1, PTL

\* The burst follows.
LEMMA BurstFollows == BurstInv => BurstRespected
<1> SUFFICES ASSUME BurstInv, NEW a \in IPs, NEW from \in 1..clock
             PROVE  admitted[a] - before[a][from]
                       <= Burst + (clock - from) + Cardinality(deletedInUse[a])
    BY DEF BurstRespected
<1>1. TypeOK  BY DEF BurstInv, CleanupInv, BucketInv
<1>2. before[a][from] \in Nat
  <2>1. before \in [IPs -> [1..MaxTime -> Nat]] /\ clock \in 1..MaxTime
        BY <1>1 DEF TypeOK, HistoryOK, BurstInv
  <2>2. from \in 1..MaxTime  BY <2>1, BoundsAssumption
  <2> QED  BY <2>1, <2>2
<1>3. admitted[a] - before[a][from] + Available(a)
          <= Burst + (clock - from) + Cardinality(Returned(a))
      BY DEF BurstInv
<1>4. clock \in Nat /\ from \in Nat  BY <1>1 DEF TypeOK
<1> QED  BY <1>1, <1>2, <1>3, <1>4, BurstTypes, BurstAssumption

\* What BurstInv and MapInv say of a bucket that is in the map or was deleted.
LEMMA MapFacts ==
    ASSUME CleanupInv, MapInv, NEW x \in IPs, NEW p \in deletedInUse[x]
    PROVE  /\ p[1] \in Requests /\ p[2] \in 1..buckets
           /\ \A y \in IPs : localLimiters[y] # p[2]
<1>1. deletedInUse[x] \subseteq Requests \X Buckets
      BY DEF CleanupInv, BucketInv, TypeOK, HistoryOK
<1>2. p[2] \in 1..buckets  BY DEF CleanupInv, BucketInv, DeletedWereMade
<1> QED  BY <1>1, <1>2 DEF MapInv

\* A request's step keeps the map's buckets apart.
LEMMA MapStep ==
    ASSUME CleanupInv, MapInv, NEW r \in Requests, Step(r)
    PROVE  MapInv'
<1>1. /\ localLimiters \in [IPs -> 0..buckets] /\ ip \in [Requests -> IPs]
      /\ entry \in [Requests -> 0..buckets] /\ buckets \in Nat
      /\ pc \in [Requests -> Points]
      BY BoundsAssumption DEF CleanupInv, BucketInv, TypeOK
<1>2. CASE Lookup(r)
  <2>1. \A q \in Requests : ~Holds(q)' => entry'[q] = 0
        BY <1>1, <1>2 DEF Lookup, Goto, Holds, MapInv
  <2>2. UNCHANGED << localLimiters, deletedInUse >>  BY <1>2 DEF Lookup, historyVars
  <2> QED  BY <2>1, <2>2 DEF MapInv
<1>3. CASE Create(r)
  <2>1. \A q \in Requests : ~Holds(q)' => entry'[q] = 0
        BY <1>1, <1>3 DEF Create, Goto, Holds, MapInv
  <2>2. deletedInUse' = deletedInUse  BY <1>3 DEF Create, historyVars
  <2>3. CASE localLimiters[ip[r]] = 0
    <3>1. buckets' = buckets + 1 /\ localLimiters' = [localLimiters EXCEPT ![ip[r]] = buckets']
          BY <1>3, <2>3 DEF Create, NewBucket
    <3>2. \A x, y \in IPs :
             localLimiters'[x] = localLimiters'[y] /\ localLimiters'[x] # 0 => x = y
          BY <1>1, <3>1 DEF MapInv
    <3>3. ASSUME NEW x \in IPs, NEW y \in IPs, NEW p \in deletedInUse[x]
          PROVE  localLimiters'[y] # p[2]
      <4>1. p[2] \in 1..buckets /\ localLimiters[y] # p[2]  BY MapFacts
      <4> QED  BY <1>1, <3>1, <4>1
    <3> QED  BY <2>1, <2>2, <3>2, <3>3 DEF MapInv
  <2>4. CASE localLimiters[ip[r]] # 0
    <3>1. localLimiters' = localLimiters  BY <1>3, <2>4 DEF Create
    <3> QED  BY <2>1, <2>2, <3>1 DEF MapInv
  <2> QED  BY <2>3, <2>4
<1>4. CASE Touch(r)
  <2>1. \A q \in Requests : ~Holds(q)' => entry'[q] = 0
        BY <1>1, <1>4 DEF Touch, Goto, Holds, MapInv
  <2>2. UNCHANGED << localLimiters, deletedInUse >>  BY <1>4 DEF Touch, historyVars
  <2> QED  BY <2>1, <2>2 DEF MapInv
<1>5. CASE Allow(r)
  <2>1. \A q \in Requests : ~Holds(q)' => entry'[q] = 0
        BY <1>1, <1>5 DEF Allow, Goto, Holds, MapInv
  <2>2. UNCHANGED << localLimiters, deletedInUse >>  BY <1>5 DEF Allow
  <2> QED  BY <2>1, <2>2 DEF MapInv
<1> QED  BY <1>2, <1>3, <1>4, <1>5 DEF Step

\* So do the other steps.
LEMMA MapNext == CleanupInv /\ MapInv /\ [Next]_vars => MapInv'
<1> SUFFICES ASSUME CleanupInv, MapInv, [Next]_vars PROVE MapInv'  OBVIOUS
<1>1. CASE Tick
      BY <1>1 DEF Tick, MapInv, Holds, requestVars
<1>2. CASE Cleanup
  <2>1. \A q \in Requests : ~Holds(q)' => entry'[q] = 0
        BY <1>2 DEF Cleanup, requestVars, Holds, MapInv
  <2>2. \A x \in IPs : localLimiters'[x] \in {0, localLimiters[x]}
        BY <1>2 DEF Cleanup
  <2>3. \A x, y \in IPs :
           localLimiters'[x] = localLimiters'[y] /\ localLimiters'[x] # 0 => x = y
        BY <2>2 DEF MapInv
  <2>4. ASSUME NEW x \in IPs, NEW y \in IPs, NEW p \in deletedInUse'[x]
        PROVE  localLimiters'[y] # p[2]
    <3>1. CASE p \in deletedInUse[x]
      <4>1. p[2] # 0 /\ localLimiters[y] # p[2]  BY <3>1, MapFacts
      <4> QED  BY <2>2, <4>1
    <3>2. CASE p \notin deletedInUse[x]
      <4>1. p[2] = localLimiters[x] /\ localLimiters'[x] # localLimiters[x]
            BY <1>2, <2>4, <3>2 DEF Cleanup
      <4> QED  BY <2>2, <4>1 DEF MapInv
    <3> QED  BY <3>1, <3>2
  <2> QED  BY <2>1, <2>3, <2>4 DEF MapInv
<1>3. ASSUME NEW r \in Requests, Step(r) PROVE MapInv'  BY <1>3, MapStep
<1>4. ASSUME NEW r \in Requests, NEW a \in IPs, Arrive(r, a) PROVE MapInv'
  <2>1. pc \in [Requests -> Points]  BY DEF CleanupInv, BucketInv, TypeOK
  <2>2. \A q \in Requests : Holds(q)' <=> Holds(q)
        BY <1>4, <2>1 DEF Arrive, Goto, Holds
  <2> QED  BY <1>4, <2>2 DEF Arrive, MapInv, historyVars
<1>5. CASE UNCHANGED vars
      BY <1>5 DEF vars, requestVars, historyVars, MapInv, Holds
<1> QED  BY <1>1, <1>2, <1>3, <1>4, <1>5 DEF Next

\* A step pays for an admission with a token that was available, or with a
\* bucket deleted in use whose request returns.
Paid(a) ==
    admitted'[a] + Available(a)' + Cardinality(Returned(a))
        <= admitted[a] + Available(a) + Cardinality(Returned(a)')

\* The same bucket in the map with the same tokens, and the same requests back
\* from deleted ones.
LEMMA PaidNothing ==
    ASSUME TypeOK, NEW a \in IPs,
           admitted'[a] = admitted[a], Available(a)' = Available(a),
           Returned(a)' = Returned(a)
    PROVE  Paid(a)
<1>1. Available(a) \in Int /\ admitted[a] \in Int /\ Cardinality(Returned(a)) \in Int
  <2>1. /\ Available(a) \in 0..Burst /\ admitted[a] \in Nat
        /\ Cardinality(Returned(a)) \in Nat
        BY BurstTypes
  <2> QED  BY <2>1, BurstAssumption
<1> QED  BY <1>1 DEF Paid

\* A request that takes a bucket from the map takes none that was deleted.
LEMMA ReturnedSame ==
    ASSUME CleanupInv, MapInv, NEW r \in Requests, ~Holds(r), NEW a \in IPs,
           deletedInUse' = deletedInUse,
           NEW b, \A p \in deletedInUse[a] : b # p[2],
           entry' = [entry EXCEPT ![r] = b]
    PROVE  Returned(a)' = Returned(a)
<1>1. entry \in [Requests -> 0..buckets]  BY DEF CleanupInv, BucketInv, TypeOK
<1>2. entry[r] = 0  BY DEF MapInv
<1>3. ASSUME NEW p \in deletedInUse[a]
      PROVE  entry'[p[1]] # p[2] <=> entry[p[1]] # p[2]
  <2>1. p[1] \in Requests /\ p[2] # 0  BY MapFacts
  <2> QED  BY <1>1, <1>2, <2>1
<1> QED  BY <1>3 DEF Returned

\* Lookup, Create and Touch admit nobody, and a new bucket has what the
\* address could have had anyway.
LEMMA PaidBefore ==
    ASSUME CleanupInv, MapInv, NEW r \in Requests, NEW a \in IPs,
           Lookup(r) \/ Create(r) \/ Touch(r)
    PROVE  Paid(a)
<1>1. /\ TypeOK /\ ip[r] \in IPs /\ localLimiters \in [IPs -> 0..buckets]
      /\ buckets \in 0..MaxBuckets
      BY DEF CleanupInv, BucketInv, TypeOK
<1>2. CASE Lookup(r)
  <2>1. ~Holds(r) /\ entry' = [entry EXCEPT ![r] = localLimiters[ip[r]]]
        /\ UNCHANGED << localLimiters, tokens, deletedInUse, admitted >>
        BY <1>2 DEF Lookup, Holds, historyVars
  <2>2. \A p \in deletedInUse[a] : localLimiters[ip[r]] # p[2]
        BY <1>1, MapFacts
  <2>3. Returned(a)' = Returned(a)  BY <2>1, <2>2, ReturnedSame
  <2> QED  BY <1>1, <2>1, <2>3, PaidNothing DEF Available
<1>3. CASE Create(r)
  <2>1. ~Holds(r) /\ entry' = [entry EXCEPT ![r] = localLimiters'[ip[r]]]
        /\ UNCHANGED << deletedInUse, admitted >>
        BY <1>3 DEF Create, Holds, historyVars
  <2>2. CASE localLimiters[ip[r]] = 0
    <3>1. /\ buckets' = buckets + 1 /\ buckets' \in Buckets
          /\ localLimiters' = [localLimiters EXCEPT ![ip[r]] = buckets']
          /\ tokens' = [tokens EXCEPT ![buckets'] = Burst]
          BY <1>1, <1>3, <2>2, BoundsAssumption DEF Create, NewBucket, Buckets
    <3>2. \A p \in deletedInUse[a] : localLimiters'[ip[r]] # p[2]
      <4>1. localLimiters'[ip[r]] = buckets + 1  BY <1>1, <3>1
      <4>2. \A p \in deletedInUse[a] : p[2] \in 1..buckets  BY MapFacts
      <4> QED  BY <1>1, <4>1, <4>2, BoundsAssumption
    <3>3. Returned(a)' = Returned(a)  BY <2>1, <3>2, ReturnedSame
    <3>4. Available(a)' = Available(a)
      <4>1. tokens \in [Buckets -> 0..Burst]  BY <1>1 DEF TypeOK
      <4>2. CASE a = ip[r]
        <5>1. Available(a) = Burst  BY <2>2, <4>2 DEF Available
        <5>2. localLimiters'[a] = buckets' /\ buckets' # 0
              BY <1>1, <3>1, <4>2, BoundsAssumption
        <5>3. tokens'[buckets'] = Burst  BY <3>1, <4>1
        <5> QED  BY <5>1, <5>2, <5>3 DEF Available
      <4>3. CASE a # ip[r]
        <5>1. localLimiters'[a] = localLimiters[a]  BY <3>1, <4>3
        <5>2. localLimiters[a] # buckets'  BY <1>1, <3>1, BoundsAssumption
        <5>3. localLimiters[a] # 0 => localLimiters[a] \in Buckets
              BY <1>1, BoundsAssumption DEF Buckets
        <5>4. localLimiters[a] # 0 => tokens'[localLimiters[a]] = tokens[localLimiters[a]]
              BY <3>1, <4>1, <5>2, <5>3
        <5> QED  BY <5>1, <5>4 DEF Available
      <4> QED  BY <4>2, <4>3
    <3> QED  BY <1>1, <2>1, <3>3, <3>4, PaidNothing
  <2>3. CASE localLimiters[ip[r]] # 0
    <3>1. UNCHANGED << localLimiters, tokens >>  BY <1>3, <2>3 DEF Create
    <3>2. \A p \in deletedInUse[a] : localLimiters'[ip[r]] # p[2]
          BY <1>1, <3>1, MapFacts
    <3>3. Returned(a)' = Returned(a)  BY <2>1, <3>2, ReturnedSame
    <3> QED  BY <1>1, <2>1, <3>1, <3>3, PaidNothing DEF Available
  <2> QED  BY <2>2, <2>3
<1>4. CASE Touch(r)
  <2>1. UNCHANGED << localLimiters, tokens, entry, deletedInUse, admitted >>
        BY <1>4 DEF Touch, historyVars
  <2> QED  BY <1>1, <2>1, PaidNothing DEF Available, Returned
<1> QED  BY <1>2, <1>3, <1>4

\* Allow takes what it admits from the address's own bucket, or from one that
\* was deleted under the request.
LEMMA PaidAllow ==
    ASSUME CleanupInv, MapInv, NEW r \in Requests, NEW a \in IPs, Allow(r)
    PROVE  Paid(a)
<1> DEFINE e == entry[r]
<1>1. /\ TypeOK /\ OneBucketPerIP /\ Holds(r) /\ pc[r] = "allow"
      /\ ip[r] \in IPs /\ e \in 1..buckets /\ e \in Buckets
      /\ entry \in [Requests -> 0..buckets] /\ tokens \in [Buckets -> 0..Burst]
  <2>1. TypeOK /\ OneBucketPerIP /\ Holds(r) /\ pc[r] = "allow"
        BY DEF CleanupInv, BucketInv, Allow, Holds
  <2>2. e # 0  BY <2>1 DEF CleanupInv, BucketInv
  <2>3. /\ ip[r] \in IPs /\ e \in 0..buckets /\ buckets \in 0..MaxBuckets
        /\ entry \in [Requests -> 0..buckets] /\ tokens \in [Buckets -> 0..Burst]
        BY <2>1 DEF TypeOK
  <2>4. e \in 1..buckets /\ e \in Buckets  BY <2>2, <2>3, BoundsAssumption DEF Buckets
  <2> QED  BY <2>1, <2>3, <2>4
<1>2. /\ entry' = [entry EXCEPT ![r] = 0]
      /\ UNCHANGED << localLimiters, deletedInUse >>
      BY DEF Allow
<1>3. /\ Available(a) \in 0..Burst /\ admitted[a] \in Nat
      /\ Cardinality(Returned(a)) \in Nat /\ IsFiniteSet(Returned(a))
      BY <1>1, BurstTypes
<1>4. \A p \in deletedInUse[a] : entry'[p[1]] # p[2] <=> p[1] = r \/ entry[p[1]] # p[2]
  <2>1. \A p \in deletedInUse[a] : p[1] \in Requests /\ p[2] # 0  BY MapFacts
  <2> QED  BY <1>1, <1>2, <2>1
<1>5. /\ localLimiters[a] # 0 => localLimiters[a] \in Buckets
      /\ tokens' = tokens \/ tokens' = [tokens EXCEPT ![e] = tokens[e] - 1]
  <2>1. localLimiters[a] \in 0..buckets /\ buckets \in 0..MaxBuckets
        BY <1>1 DEF TypeOK
  <2> QED  BY <2>1, BoundsAssumption DEF Allow, Buckets
<1>6. CASE << r, e >> \in deletedInUse[a]
  <2>1. Returned(a)' = Returned(a) \union {<< r, e >>}
    <3>1. ASSUME NEW p \in deletedInUse[a]
          PROVE  p \in Returned(a)' <=> p \in Returned(a) \/ p = << r, e >>
      <4>1. p = << p[1], p[2] >>
            BY <1>1 DEF TypeOK, HistoryOK
      <4>2. p \in Returned(a)' <=> entry'[p[1]] # p[2]  BY <1>2 DEF Returned
      <4>3. p \in Returned(a) <=> entry[p[1]] # p[2]  BY DEF Returned
      <4> QED  BY <1>4, <4>1, <4>2, <4>3
    <3>2. Returned(a)' \subseteq deletedInUse[a] /\ Returned(a) \subseteq deletedInUse[a]
          BY <1>2 DEF Returned
    <3> QED  BY <1>6, <3>1, <3>2
  <2>2. << r, e >> \notin Returned(a)  BY DEF Returned
  <2>3. Cardinality(Returned(a)') = Cardinality(Returned(a)) + 1
        BY <1>3, <2>1, <2>2, FS_AddElement
  <2>4. Available(a)' = Available(a)
    <3>1. localLimiters[a] # e  BY <1>6, MapFacts
    <3>2. localLimiters[a] # 0 => tokens'[localLimiters[a]] = tokens[localLimiters[a]]
          BY <1>1, <1>5, <3>1
    <3> QED  BY <1>2, <3>2 DEF Available
  <2>5. admitted'[a] = admitted[a] \/ admitted'[a] = admitted[a] + 1
    <3>1. admitted \in [IPs -> Nat]  BY <1>1 DEF TypeOK, HistoryOK
    <3>2. \/ admitted' = admitted
          \/ admitted' = [admitted EXCEPT ![ip[r]] = admitted[ip[r]] + 1]
          BY DEF Allow
    <3> QED  BY <1>1, <3>1, <3>2
  <2>6. Available(a) \in Int  BY <1>3, BurstAssumption
  <2> QED  BY <1>3, <2>3, <2>4, <2>5, <2>6 DEF Paid
<1>7. CASE << r, e >> \notin deletedInUse[a]
  <2>1. Returned(a)' = Returned(a)
    <3>1. \A p \in deletedInUse[a] : p[1] = r => entry[p[1]] # p[2]
      <4>1. \A p \in deletedInUse[a] : p = << p[1], p[2] >>
            BY <1>1 DEF TypeOK, HistoryOK
      <4> QED  BY <1>7, <4>1
    <3> QED  BY <1>2, <1>4, <3>1 DEF Returned
  <2>2. CASE a = ip[r]
    <3>1. localLimiters[a] = e /\ e # 0  BY <1>1, <1>7, <2>2 DEF OneBucketPerIP
    <3>2. CASE tokens[e] > 0
      <4>1. /\ admitted' = [admitted EXCEPT ![a] = admitted[a] + 1]
            /\ tokens' = [tokens EXCEPT ![e] = tokens[e] - 1]
            BY <2>2, <3>2 DEF Allow
      <4>2. admitted'[a] = admitted[a] + 1  BY <1>1, <4>1 DEF TypeOK, HistoryOK
      <4>3. Available(a) = tokens[e] /\ Available(a)' = tokens[e] - 1
            BY <1>1, <1>2, <3>1, <4>1 DEF Available
      <4>4. tokens[e] \in Int  BY <1>3, <4>3, BurstAssumption
      <4> QED  BY <1>3, <2>1, <4>2, <4>3, <4>4 DEF Paid
    <3>3. CASE ~(tokens[e] > 0)
      <4>1. UNCHANGED << tokens, admitted >>  BY <3>3 DEF Allow
      <4> QED  BY <1>1, <1>2, <2>1, <4>1, PaidNothing DEF Available
    <3> QED  BY <3>2, <3>3
  <2>3. CASE a # ip[r]
    <3>1. admitted'[a] = admitted[a]  BY <1>1, <2>3 DEF Allow, TypeOK, HistoryOK
    <3>2. localLimiters[a] # e
      <4>1. CASE << r, e >> \in deletedInUse[ip[r]]  BY <1>1, <4>1, MapFacts
      <4>2. CASE << r, e >> \notin deletedInUse[ip[r]]
        <5>1. localLimiters[ip[r]] = e /\ e # 0  BY <1>1, <4>2 DEF OneBucketPerIP
        <5> QED  BY <1>1, <2>3, <5>1 DEF MapInv
      <4> QED  BY <4>1, <4>2
    <3>3. localLimiters[a] # 0 => tokens'[localLimiters[a]] = tokens[localLimiters[a]]
          BY <1>1, <1>5, <3>2
    <3>4. Available(a)' = Available(a)  BY <1>2, <3>3 DEF Available
    <3> QED  BY <1>1, <2>1, <3>1, <3>4, PaidNothing
  <2> QED  BY <2>2, <2>3
<1> QED  BY <1>6, <1>7

\* The cleanup makes no more available than there was, as what it deletes is
\* full.
LEMMA PaidCleanup ==
    ASSUME CleanupInv, MapInv, NEW a \in IPs, Cleanup
    PROVE  Paid(a)
<1>1. TypeOK /\ CleanupForgetsNothing  BY StaleIsFull DEF CleanupInv, BucketInv
<1>2. UNCHANGED << tokens, entry, admitted >>  BY DEF Cleanup, requestVars
<1>3. Available(a)' = Available(a)
  <2>1. CASE localLimiters[a] # 0 /\ Stale(localLimiters[a])
    <3>1. localLimiters'[a] = 0  BY <2>1 DEF Cleanup
    <3>2. tokens[localLimiters[a]] = Burst  BY <1>1, <2>1 DEF CleanupForgetsNothing
    <3> QED  BY <2>1, <3>1, <3>2 DEF Available
  <2>2. CASE ~(localLimiters[a] # 0 /\ Stale(localLimiters[a]))
    <3>1. localLimiters'[a] = localLimiters[a]  BY <2>2 DEF Cleanup
    <3> QED  BY <1>2, <3>1 DEF Available
  <2> QED  BY <2>1, <2>2
<1>4. Returned(a)' = Returned(a)
  <2>1. deletedInUse[a] \subseteq deletedInUse'[a]  BY DEF Cleanup
  <2>2. ASSUME NEW p \in deletedInUse'[a], p \notin deletedInUse[a]
        PROVE  entry[p[1]] = p[2]
        BY <2>2 DEF Cleanup
  <2> QED  BY <1>2, <2>1, <2>2 DEF Returned
<1> QED  BY <1>1, <1>2, <1>3, <1>4, PaidNothing

\* The bound, for one address and tick.
Bounded(a, from) ==
    admitted[a] - before[a][from] + Available(a)
        <= Burst + (clock - from) + Cardinality(Returned(a))

\* A paid step within a tick keeps the bound.
LEMMA PaidKeepsBound ==
    ASSUME TypeOK, TypeOK', clock \in 1..MaxTime,
           NEW a \in IPs, NEW from \in 1..clock, Bounded(a, from),
           Paid(a), UNCHANGED << clock, before >>
    PROVE  Bounded(a, from)'
<1>1. /\ Available(a) \in Nat /\ admitted[a] \in Nat
      /\ Cardinality(Returned(a)) \in Nat
  <2>1. /\ Available(a) \in 0..Burst /\ admitted[a] \in Nat
        /\ Cardinality(Returned(a)) \in Nat
        BY BurstTypes
  <2> QED  BY <2>1, BurstAssumption
<1>2. /\ Available(a)' \in Nat /\ admitted'[a] \in Nat
      /\ Cardinality(Returned(a)') \in Nat
  <2>1. /\ Available(a)' \in 0..Burst /\ admitted'[a] \in Nat
        /\ Cardinality(Returned(a)') \in Nat
        BY PartsTypedNext DEF PartsTyped
  <2> QED  BY <2>1, BurstAssumption
<1>3. before[a][from] \in Nat /\ clock \in Nat /\ from \in Nat
  <2>1. before \in [IPs -> [1..MaxTime -> Nat]] /\ clock \in Nat
        BY DEF TypeOK, HistoryOK
  <2>2. from \in 1..MaxTime  BY <2>1, BoundsAssumption
  <2> QED  BY <2>1, <2>2, BoundsAssumption
<1>4. admitted'[a] + Available(a)' + Cardinality(Returned(a))
          <= admitted[a] + Available(a) + Cardinality(Returned(a)')
      BY DEF Paid
<1>5. admitted[a] - before[a][from] + Available(a)
          <= Burst + (clock - from) + Cardinality(Returned(a))
      BY DEF Bounded
<1>6. admitted'[a] - before[a][from] + Available(a)'
          <= Burst + (clock - from) + Cardinality(Returned(a)')
      BY <1>1, <1>2, <1>3, <1>4, <1>5, BurstAssumption
<1> QED  BY <1>6 DEF Bounded

\* A tick makes one token more available, and a new tick begins with a burst at
\* most.
LEMMA TickKeepsBound ==
    ASSUME BurstInv, TypeOK', Tick, NEW a \in IPs, NEW from \in 1..clock'
    PROVE  Bounded(a, from)'
<1>1. TypeOK /\ clock \in 1..MaxTime /\ clock \in Nat
      BY DEF BurstInv, CleanupInv, BucketInv, TypeOK
<1>2. /\ clock' = clock + 1 /\ clock' \in 1..MaxTime
      /\ UNCHANGED << localLimiters, entry, deletedInUse, admitted >>
      /\ before'[a] = [before[a] EXCEPT ![clock'] = admitted[a]]
      BY <1>1, BoundsAssumption DEF Tick, requestVars
<1>3. Returned(a)' = Returned(a)  BY <1>2 DEF Returned
<1>4. /\ localLimiters[a] \in 0..buckets /\ Available(a) \in 0..Burst
      /\ admitted[a] \in Nat /\ Cardinality(Returned(a)) \in Nat
      BY <1>1, BurstTypes
<1>5. Available(a)' \in 0..Burst  BY PartsTypedNext DEF PartsTyped
<1>6. Available(a)' <= Available(a) + 1
  <2>1. CASE localLimiters[a] = 0  BY <1>2, <2>1, BurstAssumption DEF Available
  <2>2. CASE localLimiters[a] # 0
    <3>1. localLimiters[a] \in Buckets /\ tokens \in [Buckets -> 0..Burst]
      <4>1. buckets \in 0..MaxBuckets /\ tokens \in [Buckets -> 0..Burst]
            BY <1>1 DEF TypeOK
      <4> QED  BY <1>4, <2>2, <4>1, BoundsAssumption DEF Buckets
    <3>2. /\ Available(a) = tokens[localLimiters[a]]
          /\ Available(a)' = tokens'[localLimiters[a]]
          BY <1>2, <2>2 DEF Available
    <3>3. tokens'[localLimiters[a]] <= tokens[localLimiters[a]] + 1
          BY <3>1, BurstAssumption DEF Tick
    <3> QED  BY <3>2, <3>3
  <2> QED  BY <2>1, <2>2
<1>7. before[a] \in [1..MaxTime -> Nat]  BY <1>1 DEF TypeOK, HistoryOK
<1>8. CASE from = clock'
  <2>1. before'[a][from] = admitted[a]  BY <1>2, <1>7, <1>8
  <2> QED  BY <1>2, <1>3, <1>4, <1>5, <1>8, <2>1, BurstAssumption DEF Bounded
<1>9. CASE from # clock'
  <2>1. from \in 1..clock /\ from \in 1..MaxTime /\ from \in Nat
        BY <1>1, <1>2, <1>9, BoundsAssumption
  <2>2. before'[a][from] = before[a][from] /\ before[a][from] \in Nat
        BY <1>2, <1>7, <1>9, <2>1
  <2>3. admitted[a] - before[a][from] + Available(a)
            <= Burst + (clock - from) + Cardinality(Returned(a))
        BY <2>1 DEF BurstInv
  <2>4. Available(a) \in Nat /\ Available(a)' \in Nat  BY <1>4, <1>5, BurstAssumption
  <2>5. admitted[a] - before[a][from] + Available(a)'
            <= Burst + (clock + 1 - from) + Cardinality(Returned(a))
        BY <1>1, <1>4, <1>6, <2>1, <2>2, <2>3, <2>4, BurstAssumption
  <2> QED  BY <1>1, <1>2, <1>3, <2>1, <2>2, <2>5 DEF Bounded
<1> QED  BY <1>8, <1>9

\* Every step keeps the bound.
LEMMA BurstNext == BurstInv /\ [Next]_vars => BurstInv'
<1> SUFFICES ASSUME BurstInv, [Next]_vars PROVE BurstInv'  OBVIOUS
<1>1. CleanupInv' /\ MapInv'  BY CleanupNext, MapNext DEF BurstInv
<1>2. TypeOK /\ TypeOK' /\ CleanupInv /\ MapInv
      BY <1>1 DEF BurstInv, CleanupInv, BucketInv
<1>3. CASE Tick
  <2>1. clock' \in 1..MaxTime
        BY <1>3, BoundsAssumption DEF Tick, BurstInv
  <2>2. \A a \in IPs, from \in 1..clock' : Bounded(a, from)'
        BY <1>2, <1>3, TickKeepsBound
  <2> QED  BY <1>1, <2>1, <2>2 DEF BurstInv, Bounded
<1>4. CASE /\ UNCHANGED << clock, before >>
           /\ \A a \in IPs : Paid(a)
  <2>1. clock' \in 1..MaxTime  BY <1>4 DEF BurstInv
  <2>2. \A a \in IPs, from \in 1..clock : Bounded(a, from)  BY DEF BurstInv, Bounded
  <2>3. \A a \in IPs, from \in 1..clock : Bounded(a, from)'
        BY <1>2, <1>4, <2>2, PaidKeepsBound DEF BurstInv
  <2> QED  BY <1>1, <1>4, <2>1, <2>3 DEF BurstInv, Bounded
<1>5. CASE Cleanup
  <2>1. UNCHANGED << clock, before >>  BY <1>5 DEF Cleanup
  <2> QED  BY <1>2, <1>4, <1>5, <2>1, PaidCleanup
<1>6. ASSUME NEW r \in Requests, Step(r) PROVE BurstInv'
  <2>1. UNCHANGED << clock, before >>
        BY <1>6 DEF Step, Lookup, Create, Touch, Allow, historyVars
  <2>2. \A a \in IPs : Paid(a)  BY <1>2, <1>6, PaidBefore, PaidAllow DEF Step
  <2> QED  BY <1>4, <2>1, <2>2
<1>7. ASSUME NEW r \in Requests, NEW x \in IPs, Arrive(r, x) PROVE BurstInv'
  <2>1. UNCHANGED << clock, before, localLimiters, tokens, entry, deletedInUse, admitted >>
        BY <1>7 DEF Arrive, historyVars
  <2> QED  BY <1>2, <1>4, <2>1, PaidNothing DEF Available, Returned
<1>8. CASE UNCHANGED vars
  <2>1. UNCHANGED << clock, before, localLimiters, tokens, entry, deletedInUse, admitted >>
        BY <1>8 DEF vars, requestVars, historyVars
  <2> QED  BY <1>2, <1>4, <2>1, PaidNothing DEF Available, Returned
<1> QED  BY <1>3, <1>5, <1>6, <1>7, <1>8 DEF Next

\* At first a whole burst is available to every address.
LEMMA BurstInit == Init => BurstInv
<1> SUFFICES ASSUME Init PROVE BurstInv  OBVIOUS
<1>1. CleanupInv /\ TypeOK  BY CleanupInit DEF CleanupInv, BucketInv
<1>2. MapInv  BY DEF Init, MapInv
<1>3. clock = 1 /\ clock \in 1..MaxTime  BY BoundsAssumption DEF Init
<1>4. ASSUME NEW a \in IPs
      PROVE  admitted[a] - before[a][1] + Available(a)
                <= Burst + (1 - 1) + Cardinality(Returned(a))
  <2>1. admitted[a] = 0 /\ before[a][1] = 0 /\ Available(a) = Burst
        BY BoundsAssumption DEF Init, Available
  <2>2. Cardinality(Returned(a)) \in Nat  BY <1>1, BurstTypes
  <2> QED  BY <2>1, <2>2, BurstAssumption
<1> QED  BY <1>1, <1>2, <1>3, <1>4 DEF BurstInv

\* Whatever requests, ticks and cleanups do, from any tick on an address is
\* admitted a burst, a request for each tick, and one for each request that
\* held a bucket while it was deleted: the races of checkLocalLimit with
\* cleanupLoop cost the limit that much and no more.
THEOREM BurstCorrect == Spec => []BurstRespected
BY BurstFollows, BurstInit, BurstNext, PTL DEF Spec
=============================================================================
