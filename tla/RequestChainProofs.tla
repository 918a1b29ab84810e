------------------------- MODULE RequestChainProofs -------------------------
(***************************************************************************)
(* Theorems about RequestChain, for any number of requests and whatever    *)
(* arrives.                                                                *)
(***************************************************************************)
EXTENDS RequestChain, FiniteSetTheorems, TLAPS

-----------------------------------------------------------------------------
\* What a step of one request leaves alone

\* The types, but for the gauge: that it stays a natural number needs the
\* requests it counts.
Types ==
    /\ pc \in [Requests -> Points]
    /\ req \in [Requests -> Arrivals]
    /\ header \in [Requests -> Statuses \union {0}]
    /\ statusCode \in [Requests -> Statuses]
    /\ forecast \in [Requests -> {"none", "written", "received", "lost"}]
    /\ late \in [Requests -> BOOLEAN]
    /\ panicked \in SUBSET Requests
    /\ accepted \in SUBSET Requests
    /\ requestCounter \in [Statuses -> Nat]
    /\ forecastRequests \in Nat
    /\ forecastErrors \in Nat

\* A step is of the request r alone.
OnlyOf(r) ==
    /\ req' = req
    /\ \A q \in Requests \ {r} :
          /\ pc'[q] = pc[q]
          /\ header'[q] = header[q]
          /\ statusCode'[q] = statusCode[q]
          /\ forecast'[q] = forecast[q]
          /\ late'[q] = late[q]
          /\ q \in panicked' <=> q \in panicked
          /\ q \in accepted' <=> q \in accepted

\* A status is written to the answer of its request alone.
LEMMA WriteLocal ==
    ASSUME Types, NEW r \in Requests, NEW status \in Statuses, WriteHeader(r, status)
    PROVE  /\ header' \in [Requests -> Statuses \union {0}]
           /\ statusCode' \in [Requests -> Statuses]
           /\ \A q \in Requests \ {r} :
                 header'[q] = header[q] /\ statusCode'[q] = statusCode[q]
           /\ header[r] = 0 => header'[r] = status
           /\ header[r] # 0 => header'[r] = header[r]
           /\ statusCode'[r] = status
<1>1. header' = [header EXCEPT ![r] = IF header[r] = 0 THEN status ELSE header[r]]
      BY DEF WriteHeader
<1>2. (IF header[r] = 0 THEN status ELSE header[r]) \in Statuses \union {0}  BY DEF Types
<1>3. statusCode' = [statusCode EXCEPT ![r] = status]  BY DEF WriteHeader
<1> QED  BY <1>1, <1>2, <1>3 DEF Types

\* A whole step that only answers.
LEMMA AnswerStep ==
    ASSUME Types, NEW r \in Requests, NEW status \in Statuses, NEW point \in Points,
           Answer(r, status, point), UNCHANGED << req, fateVars, traceVars, forecastVars >>
    PROVE  Types' /\ OnlyOf(r)
<1>1. WriteHeader(r, status) /\ pc' = [pc EXCEPT ![r] = point]  BY DEF Answer, Goto
<1> QED  BY <1>1, WriteLocal DEF Types, OnlyOf, fateVars, traceVars, forecastVars

\* A step that only goes on.
LEMMA GoStep ==
    ASSUME Types, NEW r \in Requests, NEW point \in Points, Goto(r, point),
           UNCHANGED << req, answerVars, fateVars, traceVars, forecastVars >>
    PROVE  Types' /\ OnlyOf(r)
BY DEF Types, OnlyOf, Goto, answerVars, fateVars, traceVars, forecastVars

\* One that panics.
LEMMA PanicStep ==
    ASSUME Types, NEW r \in Requests, Panic(r), "panicking" \in Points,
           UNCHANGED << req, answerVars, late, traceVars, forecastVars >>
    PROVE  Types' /\ OnlyOf(r)
BY DEF Types, OnlyOf, Panic, Goto, answerVars, traceVars, forecastVars

\* One that ends a forecast with an error.
LEMMA FailsStep ==
    ASSUME Types, NEW r \in Requests, NEW status \in Statuses, ForecastFails(r, status),
           "leave" \in Points, UNCHANGED << req, late, traceVars >>
    PROVE  Types' /\ OnlyOf(r)
<1>1. WriteHeader(r, status) /\ pc' = [pc EXCEPT ![r] = "leave"]
      BY DEF ForecastFails, Answer, Goto
<1>2. /\ forecastErrors' \in Nat
      /\ UNCHANGED << panicked, forecast, accepted, forecastRequests >>
      BY DEF ForecastFails, Types
<1> QED  BY <1>1, <1>2, WriteLocal DEF Types, OnlyOf, traceVars

\* Every step keeps the types of what it changes, and is of one request.
LEMMA StepLocal ==
    ASSUME Types, NEW r \in Requests, Step(r)
    PROVE  Types' /\ OnlyOf(r)
<1>0. /\ {200, 400, 401, 403, 404, 405, 429, 500, 503, 504} \subseteq Statuses
      /\ {"trace", "aborted", "limit", "record", "route", "recover", "leave", "handler",
          "authenticate", "role", "fetch", "train", "predict", "panicking", "done"}
            \subseteq Points
      BY DEF Statuses, Points, InTrace, InTimeout
<1>1. CASE Arrive(r)  BY <1>0, <1>1, GoStep DEF Arrive
<1>2. CASE TracePanics(r)  BY <1>0, <1>2, GoStep DEF TracePanics
<1>3. CASE TraceBegin(r)
      BY <1>0, <1>3 DEF TraceBegin, Types, OnlyOf, Goto, answerVars, fateVars, forecastVars
<1>4. CASE RateLimited(r)  BY <1>0, <1>4, AnswerStep DEF RateLimited
<1>5. CASE RateAllowed(r)  BY <1>0, <1>5, GoStep DEF RateAllowed
<1>6. CASE Preflight(r)  BY <1>0, <1>6, AnswerStep DEF Preflight
<1>7. CASE Route(r)
  <2>1. CASE req[r].route \in DOMAIN Unserved
    <3>1. Unserved[req[r].route] \in Statuses  BY <1>0, <2>1 DEF Unserved
    <3> QED  BY <1>0, <1>7, <2>1, <3>1, AnswerStep DEF Route
  <2>2. CASE req[r].route \notin DOMAIN Unserved
    <3>1. UNCHANGED << req, answerVars, fateVars, traceVars, forecastVars >>
          BY <1>7, <2>2 DEF Route
    <3>2. Goto(r, IF req[r].route \in Public THEN "handler" ELSE "authenticate")
          BY <1>7, <2>2 DEF Route
    <3> QED  BY <1>0, <3>1, <3>2, GoStep
  <2> QED  BY <2>1, <2>2
<1>8. CASE Authenticate(r)
  <2>1. CASE Authentic(req[r].cred)  BY <1>0, <1>8, <2>1, GoStep DEF Authenticate
  <2>2. CASE ~Authentic(req[r].cred)  BY <1>0, <1>8, <2>2, AnswerStep DEF Authenticate
  <2> QED  BY <2>1, <2>2
<1>9. CASE RequireRole(r)
  <2>1. CASE Goto(r, "handler") /\ UNCHANGED answerVars
        BY <1>0, <1>9, <2>1, GoStep DEF RequireRole
  <2>2. CASE Answer(r, 403, "leave")  BY <1>0, <1>9, <2>2, AnswerStep DEF RequireRole
  <2> QED  BY <1>9, <2>1, <2>2 DEF RequireRole
<1>10. CASE Live(r)  BY <1>0, <1>10, AnswerStep DEF Live
<1>11. CASE Ready(r)  BY <1>0, <1>11, AnswerStep DEF Ready
<1>12. CASE OtherHandler(r)
  <2>0. UNCHANGED << req, late, traceVars, forecastVars >>  BY <1>12 DEF OtherHandler
  <2>1. CASE Panic(r) /\ UNCHANGED answerVars  BY <1>0, <2>0, <2>1, PanicStep
  <2>2. ASSUME NEW status \in {200, 400, 500}, Answer(r, status, "leave"),
               UNCHANGED panicked
        PROVE  Types' /\ OnlyOf(r)
        BY <1>0, <2>0, <2>2, AnswerStep DEF fateVars
  <2>3. ASSUME NEW status \in {200, 400, 500}, WriteHeader(r, status), Panic(r)
        PROVE  Types' /\ OnlyOf(r)
        BY <1>0, <2>0, <2>3, WriteLocal
           DEF Types, OnlyOf, Panic, Goto, traceVars, forecastVars
  <2> QED  BY <1>12, <2>1, <2>2, <2>3 DEF OtherHandler
<1>13. CASE Lookup(r)  BY <1>0, <1>13, AnswerStep DEF Lookup
<1>14. CASE Validate(r)
  <2>0. UNCHANGED << req, fateVars, traceVars, forecast, forecastRequests, forecastErrors >>
        BY <1>14 DEF Validate
  <2>1. CASE accepted' = accepted \union {r} /\ Goto(r, "fetch") /\ UNCHANGED answerVars
        BY <1>0, <2>0, <2>1 DEF Types, OnlyOf, Goto, answerVars, fateVars, traceVars
  <2>2. CASE Answer(r, 400, "leave") /\ UNCHANGED accepted
        BY <1>0, <2>0, <2>2, AnswerStep DEF forecastVars
  <2> QED  BY <1>14, <2>1, <2>2 DEF Validate
<1>15. CASE Fetch(r)
  <2>0. UNCHANGED << req, late, traceVars >>  BY <1>15 DEF Fetch
  <2>1. CASE ForecastGoes(r, "train")
        BY <1>0, <2>0, <2>1, GoStep DEF ForecastGoes, fateVars
  <2>2. CASE ForecastFails(r, 500)  BY <1>0, <2>0, <2>2, FailsStep
  <2>3. CASE ForecastFails(r, 400)  BY <1>0, <2>0, <2>3, FailsStep
  <2> QED  BY <1>15, <2>1, <2>2, <2>3 DEF Fetch
<1>16. CASE Train(r)
  <2>0. UNCHANGED << req, late, traceVars >>  BY <1>16 DEF Train
  <2>1. CASE ForecastGoes(r, "predict")
        BY <1>0, <2>0, <2>1, GoStep DEF ForecastGoes, fateVars
  <2>2. CASE ForecastPanics(r)  BY <1>0, <2>0, <2>2, PanicStep DEF ForecastPanics
  <2>3. CASE ForecastFails(r, 500)  BY <1>0, <2>0, <2>3, FailsStep
  <2> QED  BY <1>16, <2>1, <2>2, <2>3 DEF Train
<1>17. CASE PredictFails(r)
  <2>0. UNCHANGED << req, late, traceVars >>  BY <1>17 DEF PredictFails
  <2>1. CASE ForecastPanics(r)  BY <1>0, <2>0, <2>1, PanicStep DEF ForecastPanics
  <2>2. CASE ForecastFails(r, 500)  BY <1>0, <2>0, <2>2, FailsStep
  <2> QED  BY <1>17, <2>1, <2>2 DEF PredictFails
<1>18. CASE Predict(r)
  <2>1. WriteHeader(r, 200) /\ pc' = [pc EXCEPT ![r] = "leave"]
        BY <1>18 DEF Predict, Answer, Goto
  <2>2. /\ UNCHANGED << req, late, panicked, accepted, requestCounter, forecastErrors >>
        /\ forecastRequests' \in Nat
        BY <1>18 DEF Predict, Types, fateVars, traceVars
  <2>3. \E fate \in {"written", "lost"} : forecast' = [forecast EXCEPT ![r] = fate]
        BY <1>18 DEF Predict
  <2> QED  BY <1>0, <2>1, <2>2, <2>3, WriteLocal DEF Types, OnlyOf
<1>19. CASE DeadlineExceeded(r)
      BY <1>0, <1>19
         DEF DeadlineExceeded, Types, OnlyOf, answerVars, traceVars, forecastVars
<1>20. CASE Leave(r)
  <2>0. /\ UNCHANGED << req, fateVars, traceVars, forecastVars >>
        /\ Goto(r, IF pc[r] = "panicking" THEN "recover" ELSE "record")
        BY <1>20 DEF Leave
  <2>1. CASE late[r]
    <3>1. WriteHeader(r, 504)  BY <1>20, <2>1 DEF Leave
    <3>2. PICK point \in {"recover", "record"} : Answer(r, 504, point)
          BY <2>0, <3>1 DEF Answer
    <3> QED  BY <1>0, <2>0, <3>2, AnswerStep
  <2>2. CASE ~late[r]
    <3>1. UNCHANGED answerVars  BY <1>20, <2>2 DEF Leave
    <3>2. PICK point \in {"recover", "record"} : Goto(r, point)  BY <2>0
    <3> QED  BY <1>0, <2>0, <3>1, <3>2, GoStep
  <2> QED  BY <2>1, <2>2
<1>21. CASE Recover(r)
  <2>1. Answer(r, 500, "record") /\ UNCHANGED << req, fateVars, traceVars, forecastVars >>
        BY <1>21 DEF Recover, Answer
  <2> QED  BY <1>0, <2>1, AnswerStep
<1>22. CASE Record(r)
  <2>1. /\ UNCHANGED << req, answerVars, fateVars, accepted, forecastRequests, forecastErrors >>
        /\ pc' = [pc EXCEPT ![r] = "done"]
        /\ requestCounter' = [requestCounter EXCEPT ![statusCode[r]] = @ + 1]
        BY <1>22 DEF Record, Goto
  <2>2. \/ forecast' = forecast
        \/ \E fate \in {"received", "lost"} : forecast' = [forecast EXCEPT ![r] = fate]
        BY <1>22 DEF Record, Flush
  <2>3. requestCounter' \in [Statuses -> Nat]  BY <2>1 DEF Types
  <2>4. /\ forecast' \in [Requests -> {"none", "written", "received", "lost"}]
        /\ \A q \in Requests \ {r} : forecast'[q] = forecast[q]
        BY <2>2 DEF Types
  <2>5. Types'
    <3>1. pc' \in [Requests -> Points]  BY <2>1 DEF Types, Points
    <3> QED  BY <2>1, <2>3, <2>4, <3>1 DEF Types, answerVars, fateVars
  <2>6. OnlyOf(r)  BY <2>1, <2>4 DEF Types, OnlyOf, answerVars, fateVars
  <2> QED  BY <1>0, <2>5, <2>6
<1> QED  BY <1>1, <1>2, <1>3, <1>4, <1>5, <1>6, <1>7, <1>8, <1>9, <1>10, <1>11, <1>12, <1>13, <1>14, <1>15, <1>16, <1>17, <1>18, <1>19, <1>20, <1>21, <1>22 DEF Step

\* A step that stays on its side of Trace, and is not its end.
Aside(r) ==
    /\ pc[r] # "done" /\ pc'[r] # "done"
    /\ pc[r] \in InTrace <=> pc'[r] \in InTrace
    /\ UNCHANGED traceVars

\* Only the two ends of Trace touch its metrics.
LEMMA StepAside ==
    ASSUME Types, NEW r \in Requests, Step(r)
    PROVE  Aside(r) \/ TraceBegin(r) \/ Record(r)
<1> USE DEF Types, Aside, InTrace, InTimeout, Goto, Answer, Panic, ForecastGoes, ForecastPanics,
            traceVars
<1>1. CASE Arrive(r)  BY <1>1 DEF Arrive
<1>2. CASE TracePanics(r)  BY <1>2 DEF TracePanics
<1>3. CASE RateLimited(r)  BY <1>3 DEF RateLimited
<1>4. CASE RateAllowed(r)  BY <1>4 DEF RateAllowed
<1>5. CASE Route(r)  BY <1>5 DEF Route
<1>6. CASE Authenticate(r)  BY <1>6 DEF Authenticate
<1>7. CASE RequireRole(r)  BY <1>7 DEF RequireRole
<1>8. CASE Live(r)  BY <1>8 DEF Live
<1>9. CASE Ready(r)  BY <1>9 DEF Ready
<1>10. CASE OtherHandler(r)  BY <1>10 DEF OtherHandler
<1>11. CASE Lookup(r)  BY <1>11 DEF Lookup
<1>12. CASE Validate(r)  BY <1>12 DEF Validate
<1>13. CASE Fetch(r)  BY <1>13 DEF Fetch, ForecastFails
<1>14. CASE Train(r)  BY <1>14 DEF Train, ForecastFails
<1>15. CASE PredictFails(r)  BY <1>15 DEF PredictFails, ForecastFails
<1>16. CASE Predict(r)  BY <1>16 DEF Predict
<1>17. CASE DeadlineExceeded(r)  BY <1>17 DEF DeadlineExceeded
<1>18. CASE Leave(r)  BY <1>18 DEF Leave
<1>19. CASE Recover(r)  BY <1>19 DEF Recover
<1>20. CASE Preflight(r)  BY <1>20 DEF Preflight
<1> QED  BY <1>1, <1>2, <1>3, <1>4, <1>5, <1>6, <1>7, <1>8, <1>9, <1>10, <1>11, <1>12, <1>13, <1>14, <1>15, <1>16, <1>17, <1>18, <1>19, <1>20 DEF Step

-----------------------------------------------------------------------------
\* The gauge

InsideTrace == {r \in Requests : pc[r] \in InTrace}

\* Sets of requests are finite, so that they can be counted.
LEMMA CountFinite ==
    ASSUME NEW S \in SUBSET Requests
    PROVE  IsFiniteSet(S) /\ Cardinality(S) \in Nat
BY RequestsAssumption, FS_Subset, FS_CardinalityType

\* The types, and the gauge that they need.
GaugeInv == Types /\ GaugeCountsActive

\* The two ends of Trace count their request in and out, however it leaves.
LEMMA GaugeStep ==
    ASSUME GaugeInv, NEW r \in Requests, Step(r)
    PROVE  GaugeInv'
<1>1. Types' /\ OnlyOf(r)  BY StepLocal DEF GaugeInv
<1>2. activeRequests = Cardinality(InsideTrace)
      BY DEF GaugeInv, GaugeCountsActive, InsideTrace
<1>3. SUFFICES activeRequests' = Cardinality(InsideTrace')
      BY <1>1 DEF GaugeInv, GaugeCountsActive, InsideTrace
<1>4. CASE Aside(r)
  <2>1. InsideTrace' = InsideTrace  BY <1>1, <1>4 DEF OnlyOf, Aside, InsideTrace
  <2> QED  BY <1>2, <1>4, <2>1 DEF Aside, traceVars
<1>5. CASE TraceBegin(r)
  <2>1. pc[r] \notin InTrace /\ pc'[r] \in InTrace
        BY <1>5 DEF TraceBegin, Goto, GaugeInv, Types, InTrace, InTimeout
  <2>2. r \notin InsideTrace /\ InsideTrace' = InsideTrace \union {r}
        BY <1>1, <2>1 DEF OnlyOf, InsideTrace
  <2>3. IsFiniteSet(InsideTrace)  BY CountFinite DEF InsideTrace
  <2>4. Cardinality(InsideTrace') = Cardinality(InsideTrace) + 1
        BY <2>2, <2>3, FS_AddElement
  <2> QED  BY <1>2, <1>5, <2>4 DEF TraceBegin
<1>6. CASE Record(r)
  <2>1. pc[r] \in InTrace /\ pc'[r] \notin InTrace
        BY <1>6 DEF Record, Goto, GaugeInv, Types, InTrace, InTimeout
  <2>2. r \in InsideTrace /\ InsideTrace' = InsideTrace \ {r}
        BY <1>1, <2>1 DEF OnlyOf, InsideTrace
  <2>3. IsFiniteSet(InsideTrace)  BY CountFinite DEF InsideTrace
  <2>4. Cardinality(InsideTrace') = Cardinality(InsideTrace) - 1
        BY <2>2, <2>3, FS_RemoveElement
  <2> QED  BY <1>2, <1>6, <2>4 DEF Record
<1> QED  BY <1>4, <1>5, <1>6, StepAside DEF GaugeInv

\* Every step.
LEMMA GaugeNext == GaugeInv /\ [Next]_vars => GaugeInv'
<1>1. ASSUME GaugeInv, UNCHANGED vars PROVE GaugeInv'
  <2>1. UNCHANGED << pc, req, header, statusCode, forecast, late, panicked, accepted,
                     activeRequests, requestCounter, forecastRequests, forecastErrors >>
        BY <1>1 DEF vars, answerVars, fateVars, traceVars, forecastVars
  <2> QED  BY <1>1, <2>1 DEF GaugeInv, Types, GaugeCountsActive
<1> QED  BY <1>1, GaugeStep DEF Next

\* At first no request is inside Trace.
LEMMA GaugeInit == Init => GaugeInv
<1> SUFFICES ASSUME Init PROVE GaugeInv  OBVIOUS
<1>1. Types  BY InputsAssumption DEF Init, Types, Points, Statuses
<1>2. InsideTrace = {}  BY DEF Init, InsideTrace, InTrace, InTimeout
<1>3. activeRequests = Cardinality(InsideTrace)  BY <1>2, FS_EmptySet DEF Init
<1> QED  BY <1>1, <1>3 DEF GaugeInv, GaugeCountsActive, InsideTrace

\* The gauge of active requests is exact: however a request leaves Trace, by
\* a refusal, an answer, a deadline or a panic below Recoverer, and also when
\* Trace itself panics.
THEOREM GaugeCorrect == Spec => []GaugeCountsActive
<1>1. GaugeInv => GaugeCountsActive  BY DEF GaugeInv
<1> QED  BY <1>1, GaugeInit, GaugeNext, PTL DEF Spec

\* Every variable keeps its type; in particular every request has one of the
\* statuses, and the gauge is never negative.
THEOREM TypeCorrect == Spec => []TypeOK
<1>1. ASSUME GaugeInv PROVE TypeOK
  <2>1. activeRequests \in Nat
        BY <1>1, CountFinite DEF GaugeInv, GaugeCountsActive
  <2> QED  BY <1>1, <2>1 DEF GaugeInv, Types, TypeOK
<1> QED  BY <1>1, GaugeInit, GaugeNext, PTL DEF Spec

-----------------------------------------------------------------------------
\* Answers

\* Where a request has its answer, or its handler has panicked.
Over == {"leave", "panicking", "recover", "record", "done"}

\* Until then it has no status.  One that leaves a handler has the status that
\* Trace keeps; behind Timeout and Recoverer the two may differ, but only if
\* they have written it again.
AnswerOf(r) ==
    /\ pc[r] \notin Over => header[r] = 0
    /\ pc[r] = "leave" => header[r] = statusCode[r]
    /\ pc[r] \in {"panicking", "recover"} => r \in panicked
    /\ pc[r] \in {"record", "done"} =>
          header[r] = statusCode[r] \/ (statusCode[r] \in {500, 504} /\ Twice(r))
    /\ r \in panicked => pc[r] \in Over \ {"leave"}

\* A step that answers makes the two agree.
LEMMA AnswerAgrees ==
    ASSUME Types, NEW r \in Requests, NEW status \in Statuses,
           NEW point \in {"leave", "record"}, Answer(r, status, point),
           UNCHANGED fateVars, AnswerOf(r), pc[r] \notin Over
    PROVE  AnswerOf(r)'
<1>1. WriteHeader(r, status) /\ pc' = [pc EXCEPT ![r] = point]  BY DEF Answer, Goto
<1>2. header'[r] = status /\ statusCode'[r] = status  BY <1>1, WriteLocal DEF AnswerOf
<1>3. pc'[r] = point /\ r \notin panicked'  BY <1>1 DEF Types, AnswerOf, fateVars
<1> QED  BY <1>2, <1>3 DEF AnswerOf, Over

\* A step that goes on leaves a request without its answer.
LEMMA AnswerWaits ==
    ASSUME Types, NEW r \in Requests, NEW point, Goto(r, point), point \notin Over,
           UNCHANGED << answerVars, panicked >>, AnswerOf(r), pc[r] \notin Over
    PROVE  AnswerOf(r)'
BY DEF AnswerOf, Goto, answerVars, Types, Over

\* A panic leaves it to Recoverer.
LEMMA AnswerPanics ==
    ASSUME Types, NEW r \in Requests, Panic(r)
    PROVE  AnswerOf(r)'
BY DEF AnswerOf, Panic, Goto, Types, Over

\* Every step keeps that of the request it is of.
LEMMA StepAnswer ==
    ASSUME Types, NEW r \in Requests, Step(r), AnswerOf(r)
    PROVE  AnswerOf(r)'
<1>0. /\ {200, 400, 401, 403, 404, 405, 429, 500, 503} \subseteq Statuses
      /\ \A point \in {"idle", "trace", "limit", "route", "handler", "authenticate",
                       "role", "fetch", "train", "predict", "aborted"} : point \notin Over
      BY DEF Statuses, Over
<1>1. CASE Arrive(r)  BY <1>0, <1>1, AnswerWaits DEF Arrive, fateVars
<1>2. CASE TracePanics(r)  BY <1>0, <1>2, AnswerWaits DEF TracePanics, fateVars
<1>3. CASE TraceBegin(r)  BY <1>0, <1>3, AnswerWaits DEF TraceBegin, fateVars
<1>4. CASE RateLimited(r)  BY <1>0, <1>4, AnswerAgrees DEF RateLimited
<1>5. CASE RateAllowed(r)  BY <1>0, <1>5, AnswerWaits DEF RateAllowed, fateVars
<1>6. CASE Preflight(r)  BY <1>0, <1>6, AnswerAgrees DEF Preflight
<1>7. CASE Route(r)
  <2>1. CASE req[r].route \in DOMAIN Unserved
    <3>1. Unserved[req[r].route] \in Statuses  BY <1>0, <2>1 DEF Unserved
    <3> QED  BY <1>0, <1>7, <2>1, <3>1, AnswerAgrees DEF Route
  <2>2. CASE req[r].route \notin DOMAIN Unserved
        BY <1>0, <1>7, <2>2, AnswerWaits DEF Route, fateVars
  <2> QED  BY <2>1, <2>2
<1>8. CASE Authenticate(r)
      BY <1>0, <1>8, AnswerWaits, AnswerAgrees DEF Authenticate, fateVars
<1>9. CASE RequireRole(r)
      BY <1>0, <1>9, AnswerWaits, AnswerAgrees DEF RequireRole, fateVars
<1>10. CASE Live(r)  BY <1>0, <1>10, AnswerAgrees DEF Live
<1>11. CASE Ready(r)  BY <1>0, <1>11, AnswerAgrees DEF Ready
<1>12. CASE OtherHandler(r)
      BY <1>0, <1>12, AnswerPanics, AnswerAgrees DEF OtherHandler, fateVars
<1>13. CASE Lookup(r)  BY <1>0, <1>13, AnswerAgrees DEF Lookup
<1>14. CASE Validate(r)  BY <1>0, <1>14, AnswerWaits, AnswerAgrees DEF Validate, fateVars
<1>15. CASE Fetch(r)
      BY <1>0, <1>15, AnswerWaits, AnswerAgrees
         DEF Fetch, ForecastFails, ForecastGoes, fateVars
<1>16. CASE Train(r)
      BY <1>0, <1>16, AnswerWaits, AnswerAgrees, AnswerPanics
         DEF Train, ForecastFails, ForecastGoes, ForecastPanics, fateVars
<1>17. CASE PredictFails(r)
      BY <1>0, <1>17, AnswerAgrees, AnswerPanics
         DEF PredictFails, ForecastFails, ForecastPanics, fateVars
<1>18. CASE Predict(r)  BY <1>0, <1>18, AnswerAgrees DEF Predict
<1>19. CASE DeadlineExceeded(r)
  <2>1. UNCHANGED << pc, header, statusCode, panicked >> /\ late'[r] = TRUE
        BY <1>19 DEF DeadlineExceeded, answerVars, Types
  <2> QED  BY <2>1 DEF AnswerOf, Twice
<1>20. CASE Leave(r)
  <2>1. /\ pc'[r] = IF pc[r] = "panicking" THEN "recover" ELSE "record"
        /\ pc[r] \in {"leave", "panicking"} /\ UNCHANGED << late, panicked >>
        BY <1>20 DEF Leave, Goto, Types, fateVars
  <2>2. CASE pc[r] = "panicking"
        BY <2>1, <2>2 DEF AnswerOf, Over
  <2>3. CASE pc[r] = "leave" /\ ~late[r]
    <3>1. UNCHANGED << header, statusCode >>  BY <1>20, <2>3 DEF Leave, answerVars
    <3> QED  BY <2>1, <2>3, <3>1 DEF AnswerOf, Over
  <2>4. CASE pc[r] = "leave" /\ late[r]
    <3>1. statusCode'[r] = 504  BY <1>20, <2>4, WriteLocal DEF Leave, Statuses
    <3> QED  BY <2>1, <2>4, <3>1 DEF AnswerOf, Over, Twice
  <2> QED  BY <2>1, <2>2, <2>3, <2>4
<1>21. CASE Recover(r)
  <2>1. pc'[r] = "record" /\ pc[r] = "recover" /\ UNCHANGED << late, panicked >>
        BY <1>21 DEF Recover, Goto, Types, fateVars
  <2>2. statusCode'[r] = 500  BY <1>0, <1>21, WriteLocal DEF Recover
  <2> QED  BY <2>1, <2>2 DEF AnswerOf, Over, Twice
<1>22. CASE Record(r)
  <2>1. /\ UNCHANGED << header, statusCode, late, panicked >>
        /\ pc[r] = "record" /\ pc'[r] = "done"
        BY <1>22 DEF Record, Goto, answerVars, fateVars, Types
  <2> QED  BY <2>1 DEF AnswerOf, Over, Twice
<1> QED  BY <1>1, <1>2, <1>3, <1>4, <1>5, <1>6, <1>7, <1>8, <1>9, <1>10, <1>11, <1>12, <1>13, <1>14, <1>15, <1>16, <1>17, <1>18, <1>19, <1>20, <1>21, <1>22 DEF Step

Recorded(s) == {r \in Requests : pc[r] = "done" /\ statusCode[r] = s}

\* The counter of a status counts the requests that Trace recorded with it.
AnswerInv ==
    /\ Types
    /\ \A r \in Requests : AnswerOf(r)
    /\ \A s \in Statuses : requestCounter[s] = Cardinality(Recorded(s))

\* Only Record adds to a counter, the one of the status that Trace has kept.
LEMMA CounterStep ==
    ASSUME AnswerInv, NEW r \in Requests, Step(r)
    PROVE  \A s \in Statuses : requestCounter'[s] = Cardinality(Recorded(s)')
<1>1. Types /\ Types' /\ OnlyOf(r)  BY StepLocal DEF AnswerInv
<1>2. TAKE s \in Statuses
<1>3. requestCounter[s] = Cardinality(Recorded(s))  BY DEF AnswerInv
<1>4. CASE Aside(r)
  <2>1. Recorded(s)' = Recorded(s)  BY <1>1, <1>4 DEF OnlyOf, Aside, Recorded
  <2> QED  BY <1>3, <1>4, <2>1 DEF Aside, traceVars
<1>5. CASE TraceBegin(r)
  <2>1. pc[r] # "done" /\ pc'[r] # "done" /\ requestCounter' = requestCounter
        BY <1>1, <1>5 DEF TraceBegin, Goto, Types
  <2>2. Recorded(s)' = Recorded(s)  BY <1>1, <2>1 DEF OnlyOf, Recorded
  <2> QED  BY <1>3, <2>1, <2>2
<1>6. CASE Record(r)
  <2>1. /\ pc[r] # "done" /\ pc'[r] = "done" /\ statusCode' = statusCode
        /\ requestCounter' = [requestCounter EXCEPT ![statusCode[r]] = @ + 1]
        BY <1>1, <1>6 DEF Record, Goto, Types, answerVars
  <2>2. CASE statusCode[r] = s
    <3>1. r \notin Recorded(s) /\ Recorded(s)' = Recorded(s) \union {r}
          BY <1>1, <2>1, <2>2 DEF OnlyOf, Recorded
    <3>2. Cardinality(Recorded(s)') = Cardinality(Recorded(s)) + 1
          BY <3>1, CountFinite, FS_AddElement DEF Recorded
    <3> QED  BY <1>1, <1>3, <2>1, <2>2, <3>2 DEF Types
  <2>3. CASE statusCode[r] # s
    <3>1. Recorded(s)' = Recorded(s)  BY <1>1, <2>1, <2>3 DEF OnlyOf, Recorded
    <3> QED  BY <1>1, <1>3, <2>1, <2>3, <3>1 DEF Types
  <2> QED  BY <2>2, <2>3
<1> QED  BY <1>1, <1>4, <1>5, <1>6, StepAside

\* Every step.
LEMMA AnswerNext == AnswerInv /\ [Next]_vars => AnswerInv'
<1> SUFFICES ASSUME AnswerInv, [Next]_vars PROVE AnswerInv'  OBVIOUS
<1>1. CASE UNCHANGED vars
  <2>1. UNCHANGED << pc, req, header, statusCode, forecast, late, panicked, accepted,
                     requestCounter, forecastRequests, forecastErrors >>
        BY <1>1 DEF vars, answerVars, fateVars, traceVars, forecastVars
  <2> QED  BY <2>1 DEF AnswerInv, Types, AnswerOf, Twice, Recorded
<1>2. ASSUME NEW r \in Requests, Step(r) PROVE AnswerInv'
  <2>1. Types /\ Types' /\ OnlyOf(r)  BY <1>2, StepLocal DEF AnswerInv
  <2>2. \A q \in Requests \ {r} : AnswerOf(q)'
        BY <2>1 DEF AnswerInv, AnswerOf, OnlyOf, Twice
  <2>3. AnswerOf(r)'  BY <1>2, StepAnswer DEF AnswerInv
  <2>4. \A s \in Statuses : requestCounter'[s] = Cardinality(Recorded(s)')
        BY <1>2, CounterStep
  <2> QED  BY <2>1, <2>2, <2>3, <2>4 DEF AnswerInv
<1> QED  BY <1>1, <1>2 DEF Next

\* At first no request has an answer, and none was recorded.
LEMMA AnswerInit == Init => AnswerInv
<1> SUFFICES ASSUME Init PROVE AnswerInv  OBVIOUS
<1>1. Types  BY GaugeInit DEF GaugeInv
<1>2. \A r \in Requests : AnswerOf(r)  BY DEF Init, AnswerOf, Over
<1>3. \A s \in Statuses : Recorded(s) = {}  BY DEF Init, Recorded
<1>4. \A s \in Statuses : requestCounter[s] = 0  BY DEF Init
<1> QED  BY <1>1, <1>2, <1>3, <1>4, FS_EmptySet DEF AnswerInv

\* The counters of Trace agree with the statuses that net/http was given, but
\* for requests with two of them, which count as 500 or 504; for every status and
\* any number of requests.
THEOREM CountersCorrect == Spec => []CountersMatchAnswers
<1>1. ASSUME AnswerInv PROVE CountersMatchAnswers
  <2> DEFINE done == {r \in Requests : pc[r] = "done"}
             twice == {r \in done : Twice(r)}
             told(s) == {r \in done : header[r] = s}
             most(s) == IF s \in {500, 504} THEN told(s) \union twice ELSE told(s)
  <2>1. SUFFICES ASSUME NEW s \in Statuses
                 PROVE  /\ Cardinality(told(s) \ twice) <= requestCounter[s]
                        /\ requestCounter[s] <= Cardinality(most(s))
        BY DEF CountersMatchAnswers
  <2>2. told(s) \ twice \subseteq Recorded(s)
        BY <1>1 DEF AnswerInv, AnswerOf, Recorded
  <2>3. Recorded(s) \subseteq most(s)
        BY <1>1 DEF AnswerInv, AnswerOf, Recorded
  <2>4. requestCounter[s] = Cardinality(Recorded(s))  BY <1>1 DEF AnswerInv
  <2>5. /\ IsFiniteSet(Recorded(s)) /\ IsFiniteSet(most(s))
        BY CountFinite DEF Recorded
  <2> HIDE DEF told, twice, most
  <2> QED  BY <2>2, <2>3, <2>4, <2>5, FS_Subset
<1> QED  BY <1>1, AnswerInit, AnswerNext, PTL DEF Spec

-----------------------------------------------------------------------------
\* Forecasts

Succeeded == {r \in accepted \ panicked : header[r] = 200}
Failed == {r \in accepted \ panicked : header[r] \notin {0, 200}}

\* Only a request that was accepted is beyond validation, and only one that
\* has succeeded has a forecast.
ForecastOf(r) ==
    /\ pc[r] \in {"fetch", "train", "predict"} => r \in accepted
    /\ r \in accepted => pc[r] \in {"fetch", "train", "predict"} \union Over
    /\ forecast[r] # "none" => r \in Succeeded

ForecastInv ==
    /\ AnswerInv
    /\ \A r \in Requests : ForecastOf(r)
    /\ forecastRequests = Cardinality(Succeeded)
    /\ forecastErrors = Cardinality(Failed)

\* A step that counts no forecast leaves the answers of those accepted alone.
Apart(r) ==
    /\ UNCHANGED << forecastRequests, forecastErrors >>
    /\ r \in Succeeded' <=> r \in Succeeded
    /\ r \in Failed' <=> r \in Failed
    /\ ForecastOf(r)'

\* A request is counted, as a success or as an error, where it is answered.
Counts(r) ==
    /\ r \notin Succeeded \union Failed
    /\ \/ /\ r \in Succeeded' \ Failed'
          /\ forecastRequests' = forecastRequests + 1 /\ UNCHANGED forecastErrors
       \/ /\ r \in Failed' \ Succeeded'
          /\ forecastErrors' = forecastErrors + 1 /\ UNCHANGED forecastRequests
    /\ ForecastOf(r)'

Generating == {"fetch", "train", "predict"}

\* Before a request is accepted, a step that does not accept it counts nothing.
LEMMA EarlyApart ==
    ASSUME Types, NEW r \in Requests, ForecastOf(r), pc[r] \notin Generating \union Over,
           pc'[r] \notin Generating, UNCHANGED forecastVars
    PROVE  Apart(r)
<1>1. r \notin accepted /\ forecast[r] = "none"
      BY DEF ForecastOf, Generating, Succeeded
<1>2. r \notin accepted' /\ forecast'[r] = "none"
      /\ UNCHANGED << forecastRequests, forecastErrors >>
      BY <1>1 DEF forecastVars
<1> QED  BY <1>1, <1>2 DEF Apart, ForecastOf, Generating, Succeeded, Failed

\* Nor does one on the way back.
LEMMA LateApart ==
    ASSUME Types, NEW r \in Requests, ForecastOf(r), pc[r] \in Over, pc'[r] \in Over,
           UNCHANGED << panicked, accepted, forecastRequests, forecastErrors >>,
           r \in panicked \/ header'[r] = header[r],
           forecast[r] = "none" => forecast'[r] = "none"
    PROVE  Apart(r)
BY DEF Apart, ForecastOf, Over, Succeeded, Failed

\* A panic does not, and an error counts once.
LEMMA PanicApart ==
    ASSUME Types, NEW r \in Requests, ForecastOf(r), AnswerOf(r), pc[r] \in Generating,
           ForecastPanics(r)
    PROVE  Apart(r)
<1>1. header[r] = 0 /\ r \in accepted /\ forecast[r] = "none"
      BY DEF AnswerOf, Over, ForecastOf, Generating, Succeeded
<1>2. /\ pc'[r] = "panicking" /\ r \in panicked'
      /\ UNCHANGED << accepted, forecast, forecastRequests, forecastErrors >>
      BY DEF ForecastPanics, Panic, Goto, Types, forecastVars
<1> QED  BY <1>1, <1>2 DEF Apart, ForecastOf, Over, Succeeded, Failed

LEMMA FailsCounts ==
    ASSUME Types, NEW r \in Requests, ForecastOf(r), AnswerOf(r), pc[r] \in Generating,
           NEW status \in {400, 500}, ForecastFails(r, status)
    PROVE  Counts(r)
<1>1. /\ header[r] = 0 /\ r \in accepted /\ r \notin panicked /\ forecast[r] = "none"
      BY DEF AnswerOf, Over, ForecastOf, Generating, Succeeded
<1>2. WriteHeader(r, status) /\ pc' = [pc EXCEPT ![r] = "leave"]
      BY DEF ForecastFails, Answer, Goto
<1>3. header'[r] = status /\ pc'[r] = "leave"
      BY <1>1, <1>2, WriteLocal DEF Types, Statuses
<1>4. /\ UNCHANGED << panicked, accepted, forecast, forecastRequests >>
      /\ forecastErrors' = forecastErrors + 1
      BY DEF ForecastFails
<1> QED  BY <1>1, <1>3, <1>4 DEF Counts, ForecastOf, Over, Succeeded, Failed

\* Every step either counts its request, or leaves it alone.
LEMMA StepCounts ==
    ASSUME Types, NEW r \in Requests, ForecastOf(r), AnswerOf(r), Step(r)
    PROVE  Apart(r) \/ Counts(r)
<1>0. /\ \A point \in {"idle", "trace", "limit", "route", "handler", "authenticate",
                       "role", "aborted"} : point \notin Generating \union Over
      /\ {"leave", "record", "recover", "panicking", "done"} \subseteq Over \ Generating
      BY DEF Generating, Over
<1>a. \A point : Goto(r, point) => pc'[r] = point  BY DEF Goto, Types
<1>1. CASE Arrive(r)  BY <1>0, <1>a, <1>1, EarlyApart DEF Arrive
<1>2. CASE TracePanics(r)  BY <1>0, <1>a, <1>2, EarlyApart DEF TracePanics
<1>3. CASE TraceBegin(r)  BY <1>0, <1>a, <1>3, EarlyApart DEF TraceBegin
<1>4. CASE RateLimited(r)  BY <1>0, <1>a, <1>4, EarlyApart DEF RateLimited, Answer
<1>5. CASE RateAllowed(r)  BY <1>0, <1>a, <1>5, EarlyApart DEF RateAllowed
<1>6. CASE Preflight(r)  BY <1>0, <1>a, <1>6, EarlyApart DEF Preflight, Answer
<1>7. CASE Route(r)  BY <1>0, <1>a, <1>7, EarlyApart DEF Route, Answer
<1>8. CASE Authenticate(r)  BY <1>0, <1>a, <1>8, EarlyApart DEF Authenticate, Answer
<1>9. CASE RequireRole(r)  BY <1>0, <1>a, <1>9, EarlyApart DEF RequireRole, Answer
<1>10. CASE Live(r)  BY <1>0, <1>a, <1>10, EarlyApart DEF Live, Answer
<1>11. CASE Ready(r)  BY <1>0, <1>a, <1>11, EarlyApart DEF Ready, Answer
<1>12. CASE OtherHandler(r)
      BY <1>0, <1>a, <1>12, EarlyApart DEF OtherHandler, Answer, Panic
<1>13. CASE Lookup(r)  BY <1>0, <1>a, <1>13, EarlyApart DEF Lookup, Answer
<1>14. CASE Validate(r)
  <2>1. CASE Answer(r, 400, "leave") /\ UNCHANGED accepted
        BY <1>0, <1>a, <1>14, <2>1, EarlyApart DEF Validate, Answer, forecastVars
  <2>2. CASE accepted' = accepted \union {r} /\ Goto(r, "fetch") /\ UNCHANGED answerVars
    <3>1. header[r] = 0 /\ forecast[r] = "none" /\ r \notin accepted
          BY <1>0, <1>14 DEF Validate, AnswerOf, ForecastOf, Generating, Succeeded
    <3>2. /\ UNCHANGED << header, forecast, panicked, forecastRequests, forecastErrors >>
          /\ pc'[r] = "fetch" /\ r \in accepted'
          BY <1>a, <1>14, <2>2 DEF Validate, answerVars, fateVars
    <3> QED  BY <3>1, <3>2 DEF Apart, ForecastOf, Succeeded, Failed
  <2> QED  BY <1>14, <2>1, <2>2 DEF Validate
<1>15. CASE Fetch(r)
  <2>0. pc[r] = "fetch" /\ pc[r] \in Generating  BY <1>15 DEF Fetch, Generating
  <2>1. CASE ForecastGoes(r, "train")
    <3>1. /\ UNCHANGED << header, panicked, forecast, accepted, forecastRequests,
                          forecastErrors >>
          /\ pc'[r] = "train"
          BY <1>a, <2>1 DEF ForecastGoes, answerVars, forecastVars
    <3> QED  BY <2>0, <3>1 DEF Apart, ForecastOf, Succeeded, Failed
  <2> QED  BY <1>15, <2>0, <2>1, FailsCounts DEF Fetch
<1>16. CASE Train(r)
  <2>0. pc[r] = "train" /\ pc[r] \in Generating  BY <1>16 DEF Train, Generating
  <2>1. CASE ForecastGoes(r, "predict")
    <3>1. /\ UNCHANGED << header, panicked, forecast, accepted, forecastRequests,
                          forecastErrors >>
          /\ pc'[r] = "predict"
          BY <1>a, <2>1 DEF ForecastGoes, answerVars, forecastVars
    <3> QED  BY <2>0, <3>1 DEF Apart, ForecastOf, Succeeded, Failed
  <2> QED  BY <1>16, <2>0, <2>1, FailsCounts, PanicApart DEF Train
<1>17. CASE PredictFails(r)
  <2>0. pc[r] \in Generating  BY <1>17 DEF PredictFails, Generating
  <2> QED  BY <1>17, <2>0, FailsCounts, PanicApart DEF PredictFails
<1>18. CASE Predict(r)
  <2>1. header[r] = 0 /\ r \in accepted /\ r \notin panicked /\ forecast[r] = "none"
        BY <1>18 DEF Predict, AnswerOf, Over, ForecastOf, Succeeded
  <2>2. WriteHeader(r, 200) /\ pc'[r] = "leave"  BY <1>a, <1>18 DEF Predict, Answer
  <2>3. header'[r] = 200  BY <2>1, <2>2, WriteLocal DEF Statuses
  <2>4. /\ UNCHANGED << panicked, accepted, forecastErrors >>
        /\ forecastRequests' = forecastRequests + 1
        BY <1>18 DEF Predict, fateVars
  <2> QED  BY <2>1, <2>2, <2>3, <2>4 DEF Counts, ForecastOf, Over, Succeeded, Failed
<1>19. CASE DeadlineExceeded(r)
  <2>1. /\ UNCHANGED << pc, header, panicked, forecast, accepted, forecastRequests,
                        forecastErrors >>
        BY <1>19 DEF DeadlineExceeded, answerVars, forecastVars
  <2> QED  BY <2>1 DEF Apart, ForecastOf, Succeeded, Failed
<1>20. CASE Leave(r)
  <2>1. /\ pc[r] \in Over /\ pc'[r] \in Over
        /\ UNCHANGED << panicked, forecast, accepted, forecastRequests, forecastErrors >>
        BY <1>0, <1>a, <1>20 DEF Leave, fateVars, forecastVars
  <2>2. r \in panicked \/ header'[r] = header[r]
    <3>1. CASE pc[r] = "panicking"  BY <3>1 DEF AnswerOf
    <3>2. CASE pc[r] = "leave"
      <4>1. header[r] \in Statuses /\ header[r] # 0
            BY <3>2 DEF AnswerOf, Types, Statuses
      <4>2. CASE late[r]  BY <1>20, <4>1, <4>2, WriteLocal DEF Leave, Statuses
      <4>3. CASE ~late[r]  BY <1>20, <4>3 DEF Leave, answerVars
      <4> QED  BY <4>2, <4>3
    <3> QED  BY <1>20, <3>1, <3>2 DEF Leave
  <2> QED  BY <2>1, <2>2, LateApart
<1>21. CASE Recover(r)
  <2>1. /\ pc[r] \in Over /\ pc'[r] \in Over /\ r \in panicked
        /\ UNCHANGED << panicked, forecast, accepted, forecastRequests, forecastErrors >>
        BY <1>0, <1>a, <1>21 DEF Recover, AnswerOf, fateVars, forecastVars
  <2> QED  BY <2>1, LateApart
<1>22. CASE Record(r)
  <2>1. /\ pc[r] \in Over /\ pc'[r] \in Over
        /\ UNCHANGED << header, panicked, accepted, forecastRequests, forecastErrors >>
        BY <1>0, <1>a, <1>22 DEF Record, answerVars, fateVars
  <2>2. forecast[r] = "none" => forecast'[r] = "none"  BY <1>22 DEF Record, Flush
  <2> QED  BY <2>1, <2>2, LateApart
<1> QED  BY <1>1, <1>2, <1>3, <1>4, <1>5, <1>6, <1>7, <1>8, <1>9, <1>10, <1>11, <1>12, <1>13, <1>14, <1>15, <1>16, <1>17, <1>18, <1>19, <1>20, <1>21, <1>22 DEF Step

\* Every step.
LEMMA ForecastNext == ForecastInv /\ [Next]_vars => ForecastInv'
<1> SUFFICES ASSUME ForecastInv, [Next]_vars PROVE ForecastInv'  OBVIOUS
<1>0. AnswerInv /\ AnswerInv'  BY AnswerNext DEF ForecastInv
<1>1. CASE UNCHANGED vars
  <2>1. UNCHANGED << pc, header, forecast, panicked, accepted, forecastRequests,
                     forecastErrors >>
        BY <1>1 DEF vars, answerVars, fateVars, forecastVars
  <2> QED  BY <1>0, <2>1 DEF ForecastInv, ForecastOf, Succeeded, Failed
<1>2. ASSUME NEW r \in Requests, Step(r) PROVE ForecastInv'
  <2>0. Types /\ Types' /\ OnlyOf(r)  BY <1>0, <1>2, StepLocal DEF AnswerInv
  <2>1. Apart(r) \/ Counts(r)
        BY <1>0, <1>2, StepCounts DEF AnswerInv, ForecastInv
  <2>2. \A q \in Requests \ {r} :
           /\ q \in Succeeded' <=> q \in Succeeded
           /\ q \in Failed' <=> q \in Failed
        BY <2>0 DEF OnlyOf, Succeeded, Failed
  <2>3. \A q \in Requests : ForecastOf(q)'
    <3>1. ASSUME NEW q \in Requests \ {r} PROVE ForecastOf(q)'
      <4>1. ForecastOf(q)  BY DEF ForecastInv
      <4> QED  BY <2>0, <2>2, <4>1 DEF ForecastOf, OnlyOf
    <3> QED  BY <2>1, <3>1 DEF Apart, Counts
  <2>4. /\ Succeeded \subseteq Requests /\ Failed \subseteq Requests
        /\ Succeeded' \subseteq Requests /\ Failed' \subseteq Requests
        BY <2>0 DEF Types, Succeeded, Failed
  <2>5. IsFiniteSet(Succeeded) /\ IsFiniteSet(Failed)  BY <2>4, CountFinite
  <2>6. CASE Apart(r)
    <3>1. Succeeded' = Succeeded /\ Failed' = Failed  BY <2>2, <2>4, <2>6 DEF Apart
    <3> QED  BY <1>0, <2>3, <2>6, <3>1 DEF Apart, ForecastInv
  <2>7. CASE Counts(r) /\ r \in Succeeded' \ Failed'
    <3>1. r \notin Succeeded /\ Succeeded' = Succeeded \union {r} /\ Failed' = Failed
          BY <2>2, <2>4, <2>7 DEF Counts
    <3>2. Cardinality(Succeeded') = Cardinality(Succeeded) + 1
          BY <2>5, <3>1, FS_AddElement
    <3>3. forecastRequests' = forecastRequests + 1 /\ forecastErrors' = forecastErrors
          BY <2>7 DEF Counts
    <3> QED  BY <1>0, <2>3, <3>1, <3>2, <3>3 DEF ForecastInv
  <2>8. CASE Counts(r) /\ r \in Failed' \ Succeeded'
    <3>1. r \notin Failed /\ Failed' = Failed \union {r} /\ Succeeded' = Succeeded
          BY <2>2, <2>4, <2>8 DEF Counts
    <3>2. Cardinality(Failed') = Cardinality(Failed) + 1
          BY <2>5, <3>1, FS_AddElement
    <3>3. forecastErrors' = forecastErrors + 1 /\ forecastRequests' = forecastRequests
          BY <2>8 DEF Counts
    <3> QED  BY <1>0, <2>3, <3>1, <3>2, <3>3 DEF ForecastInv
  <2> QED  BY <2>1, <2>6, <2>7, <2>8 DEF Counts
<1> QED  BY <1>1, <1>2 DEF Next

\* At first no forecast was made.
LEMMA ForecastInit == Init => ForecastInv
<1> SUFFICES ASSUME Init PROVE ForecastInv  OBVIOUS
<1>1. AnswerInv /\ \A r \in Requests : ForecastOf(r)
      BY AnswerInit DEF Init, ForecastOf
<1>2. Succeeded = {} /\ Failed = {}  BY DEF Init, Succeeded, Failed
<1>3. forecastRequests = 0 /\ forecastErrors = 0  BY DEF Init
<1> QED  BY <1>1, <1>2, <1>3, FS_EmptySet DEF ForecastInv

\* Of the requests that GenerateForecast accepts, each that is answered counts
\* once and as what it is answered, past its deadline too, unless it panics; and
\* no more forecasts are received than are counted.
THEOREM ForecastsCorrect == Spec => []ForecastsCountedOnce
<1>1. ASSUME ForecastInv PROVE ForecastsCountedOnce
  <2> DEFINE answered == {r \in accepted \ panicked : header[r] # 0}
             received == {r \in Requests : forecast[r] = "received"}
  <2>1. {r \in answered : header[r] = 200} = Succeeded
        /\ {r \in answered : header[r] # 200} = Failed
        BY DEF Succeeded, Failed
  <2>2. received \subseteq Succeeded  BY <1>1 DEF ForecastInv, ForecastOf
  <2>3. IsFiniteSet(Succeeded)
        BY <1>1, CountFinite DEF ForecastInv, AnswerInv, Types, Succeeded
  <2>4. Cardinality(received) <= Cardinality(Succeeded)  BY <2>2, <2>3, FS_Subset
  <2> QED  BY <1>1, <2>1, <2>4 DEF ForecastInv, ForecastsCountedOnce
<1> QED  BY <1>1, ForecastInit, ForecastNext, PTL DEF Spec
=============================================================================
