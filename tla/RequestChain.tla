---------------------------- MODULE RequestChain ----------------------------
(***************************************************************************)
(* The way of a request through the handlers that NewRouter of             *)
(* internal/api/router.go wraps around one another: Trace, Recoverer,      *)
(* RateLimit, CORS, Timeout, then by route Authenticate and RequireRole,   *)
(* and the handler; and the way back, with the status and the metrics it   *)
(* leaves.  The middlewares without an effect on either (request id, real  *)
(* ip, logging, otelchi, response headers) are left out.                   *)
(*                                                                         *)
(* The context a request comes with is an input: MountRoutes hangs this    *)
(* router below another, which may have set the request id and the claims. *)
(* The tiers of the limiter are LocalLimiter and SlidingWindow.            *)
(***************************************************************************)
EXTENDS Integers, FiniteSets

CONSTANTS
    Requests,   \* the goroutines of net/http, one request each
    Inputs      \* what may arrive

\* A preflight is an OPTIONS request of a browser, which the CORS middleware
\* answers; "method" is a path of the router with a method it does not serve.
Routes == {"live", "ready", "ingest", "forecast", "history", "admin",
           "unknown", "method", "preflight"}
Public == {"live", "ready"}
Unserved == [unknown |-> 404, method |-> 405]

\* The groups below RequireRole, and the roles it asks for.
Allowed ==
    LET analysts == {"analyst", "admin", "operator"}
    IN  [forecast |-> analysts, history |-> analysts, admin |-> {"admin"}]

Roles == {"analyst", "admin", "operator", "viewer"}
NoClaims == "no claims"

\* A JWT is for a role.  Stale: expired, or not yet valid, within the 30 s
\* that ParseWithClaims tolerates.
Credentials ==
    [kind : {"jwt", "stale jwt", "bad jwt"}, role : Roles]
        \union [kind : {"key", "unknown key", "mesh", "bad mesh", "nothing"}, role : {NoClaims}]

Arrivals == [route : Routes, cred : Credentials, id : BOOLEAN,
             claims : Roles \union {NoClaims}]

ASSUME RequestsAssumption == IsFiniteSet(Requests)
ASSUME InputsAssumption == Inputs \subseteq Arrivals

VARIABLES
    pc, req,
    header,            \* the status net/http is given first, 0 until then
    statusCode,        \* responseWriterWrapper.statusCode
    forecast,          \* what becomes of the forecast that answers a request
    late,              \* the deadline of Timeout has passed
    panicked,          \* history: requests whose handler panicked
    accepted,          \* history: requests that GenerateForecast took as valid
    activeRequests,    \* http_requests_active
    requestCounter,    \* http_requests_total, by status
    forecastRequests,  \* forecast_requests_total, only of successes
    forecastErrors     \* forecast_errors_total

answerVars == << header, statusCode >>
fateVars == << late, panicked >>
traceVars == << activeRequests, requestCounter >>
forecastVars == << forecast, accepted, forecastRequests, forecastErrors >>
vars == << pc, req, answerVars, fateVars, traceVars, forecastVars >>

Statuses == {200, 400, 401, 403, 404, 405, 429, 500, 503, 504}
InTimeout == {"route", "authenticate", "role", "handler", "fetch", "train",
              "predict", "leave", "panicking"}
InTrace == {"limit", "recover", "record"} \union InTimeout
Points == {"idle", "trace", "done", "aborted"} \union InTrace

Init ==
    /\ pc = [r \in Requests |-> "idle"]
    /\ req \in [Requests -> Inputs]
    /\ header = [r \in Requests |-> 0]
    /\ statusCode = [r \in Requests |-> 200]
    /\ forecast = [r \in Requests |-> "none"]
    /\ late = [r \in Requests |-> FALSE]
    /\ panicked = {}
    /\ accepted = {}
    /\ activeRequests = 0
    /\ requestCounter = [s \in Statuses |-> 0]
    /\ forecastRequests = 0
    /\ forecastErrors = 0

Goto(r, point) == pc' = [pc EXCEPT ![r] = point]

\* Mutant: WriteHeader hands the status on without keeping it.
WriteHeaderUnseen(r, status) ==
    /\ header' = [header EXCEPT ![r] = IF @ = 0 THEN status ELSE @]
    /\ UNCHANGED statusCode

\* responseWriterWrapper.WriteHeader keeps the last status, net/http sends
\* the first.
WriteHeader(r, status) ==
    /\ header' = [header EXCEPT ![r] = IF @ = 0 THEN status ELSE @]
    /\ statusCode' = [statusCode EXCEPT ![r] = status]

\* A middleware or a handler answers and returns.
Answer(r, status, point) == WriteHeader(r, status) /\ Goto(r, point)

\* A handler panics.
Panic(r) ==
    /\ panicked' = panicked \union {r}
    /\ Goto(r, "panicking")

-----------------------------------------------------------------------------
\* Trace and RateLimit

Arrive(r) ==
    /\ pc[r] = "idle"
    /\ Goto(r, "trace")
    /\ UNCHANGED << req, answerVars, fateVars, traceVars, forecastVars >>

\* Mutant: the gauge is raised before the span is started, and its defer is not
\* reached.
TracePanicsCounted(r) ==
    /\ pc[r] = "trace" /\ ~req[r].id
    /\ activeRequests' = activeRequests + 1
    /\ Goto(r, "aborted")
    /\ UNCHANGED << req, answerVars, fateVars, requestCounter, forecastVars >>

\* .(string) on a request id that is not there: no Recoverer is around it,
\* and net/http drops the connection.
TracePanics(r) ==
    /\ pc[r] = "trace" /\ ~req[r].id
    /\ Goto(r, "aborted")
    /\ UNCHANGED << req, answerVars, fateVars, traceVars, forecastVars >>

\* Mutant: only the deferred half of the two calls.
TraceBeginUncounted(r) ==
    /\ pc[r] = "trace" /\ req[r].id
    /\ Goto(r, "limit")
    /\ UNCHANGED << req, answerVars, fateVars, traceVars, forecastVars >>

TraceBegin(r) ==
    /\ pc[r] = "trace" /\ req[r].id
    /\ activeRequests' = activeRequests + 1
    /\ Goto(r, "limit")
    /\ UNCHANGED << req, answerVars, fateVars, requestCounter, forecastVars >>

\* rateLimitExceeded
RateLimited(r) ==
    /\ pc[r] = "limit"
    /\ Answer(r, 429, "record")
    /\ UNCHANGED << req, fateVars, traceVars, forecastVars >>

RateAllowed(r) ==
    /\ pc[r] = "limit" /\ req[r].route # "preflight"
    /\ Goto(r, "route")
    /\ UNCHANGED << req, answerVars, fateVars, traceVars, forecastVars >>

\* RateLimit has let a preflight through, and the CORS handler answers it.
Preflight(r) ==
    /\ pc[r] = "limit" /\ req[r].route = "preflight"
    /\ Answer(r, 200, "record")
    /\ UNCHANGED << req, fateVars, traceVars, forecastVars >>

\* net/http sends what a handler has written when it returns, and not past the
\* WriteTimeout of main.go, which is as long as Timeout's and starts earlier.
\* The client may be gone before.
Flush(r) ==
    IF forecast[r] = "written"
      THEN \E fate \in {"received", "lost"} :
              /\ late[r] => fate = "lost"
              /\ forecast' = [forecast EXCEPT ![r] = fate]
      ELSE UNCHANGED forecast

\* What Trace does after next.ServeHTTP, and its deferred Add(-1).
Record(r) ==
    /\ pc[r] = "record"
    /\ requestCounter' = [requestCounter EXCEPT ![statusCode[r]] = @ + 1]
    /\ activeRequests' = activeRequests - 1
    /\ Flush(r)
    /\ Goto(r, "done")
    /\ UNCHANGED << req, answerVars, fateVars, accepted, forecastRequests, forecastErrors >>

\* chi's Recoverer, inside Trace
Recover(r) ==
    /\ pc[r] = "recover"
    /\ WriteHeader(r, 500)
    /\ Goto(r, "record")
    /\ UNCHANGED << req, fateVars, traceVars, forecastVars >>

-----------------------------------------------------------------------------
\* Timeout

\* The context's deadline passes; the handler goes on.
DeadlineExceeded(r) ==
    /\ pc[r] \in InTimeout
    /\ ~late[r]
    /\ late' = [late EXCEPT ![r] = TRUE]
    /\ UNCHANGED << pc, req, answerVars, panicked, traceVars, forecastVars >>

\* chi's Timeout as it is left, by a return or by a panic: its deferred
\* function writes 504 when the deadline has passed.
Leave(r) ==
    /\ pc[r] \in {"leave", "panicking"}
    /\ IF late[r] THEN WriteHeader(r, 504) ELSE UNCHANGED answerVars
    /\ Goto(r, IF pc[r] = "panicking" THEN "recover" ELSE "record")
    /\ UNCHANGED << req, fateVars, traceVars, forecastVars >>

-----------------------------------------------------------------------------
\* Routes and authentication

Route(r) ==
    /\ pc[r] = "route"
    /\ IF req[r].route \in DOMAIN Unserved
         THEN Answer(r, Unserved[req[r].route], "leave")
         ELSE /\ Goto(r, IF req[r].route \in Public THEN "handler" ELSE "authenticate")
              /\ UNCHANGED answerVars
    /\ UNCHANGED << req, fateVars, traceVars, forecastVars >>

\* authenticateRequest: the clock-skew tolerance of the parser is undone by
\* the comparisons with time.Now that follow it.
Authentic(cred) == cred.kind \in {"jwt", "key", "mesh"}

Authenticate(r) ==
    /\ pc[r] = "authenticate"
    /\ IF Authentic(req[r].cred)
         THEN /\ Goto(r, IF req[r].route \in DOMAIN Allowed THEN "role" ELSE "handler")
              /\ UNCHANGED answerVars
         ELSE Answer(r, 401, "leave")
    /\ UNCHANGED << req, fateVars, traceVars, forecastVars >>

\* The claims RequireRole finds are those the context came with: validateJWT
\* sets its own on a copy of the request that it does not return.
ClaimsInContext(r) == req[r].claims

RequireRole(r) ==
    /\ pc[r] = "role"
    /\ IF ClaimsInContext(r) \in Allowed[req[r].route]
         THEN Goto(r, "handler") /\ UNCHANGED answerVars
         ELSE Answer(r, 403, "leave")
    /\ UNCHANGED << req, fateVars, traceVars, forecastVars >>

-----------------------------------------------------------------------------
\* Handlers

\* LivenessCheck: isLive is never reset.
Live(r) ==
    /\ pc[r] = "handler" /\ req[r].route = "live"
    /\ Answer(r, 200, "leave")
    /\ UNCHANGED << req, fateVars, traceVars, forecastVars >>

\* ReadinessCheck: 503 before isReady and when a critical dependency fails.
Ready(r) ==
    /\ pc[r] = "handler" /\ req[r].route = "ready"
    /\ \E status \in {200, 503} : Answer(r, status, "leave")
    /\ UNCHANGED << req, fateVars, traceVars, forecastVars >>

\* The handlers of metrics and of administration, which are not in src.  They
\* may panic before or after their status is written.
OtherHandler(r) ==
    /\ pc[r] = "handler" /\ req[r].route \in {"ingest", "admin"}
    /\ \/ \E status \in {200, 400, 500} : Answer(r, status, "leave") /\ UNCHANGED panicked
       \/ \E status \in {200, 400, 500} : WriteHeader(r, status) /\ Panic(r)
       \/ Panic(r) /\ UNCHANGED answerVars
    /\ UNCHANGED << req, late, traceVars, forecastVars >>

\* GetForecastHistory and CompareForecastWithActual
Lookup(r) ==
    /\ pc[r] = "handler" /\ req[r].route = "history"
    /\ \E status \in {200, 500} : Answer(r, status, "leave")
    /\ UNCHANGED << req, fateVars, traceVars, forecastVars >>

\* GenerateForecast, up to validateForecastRequest
Validate(r) ==
    /\ pc[r] = "handler" /\ req[r].route = "forecast"
    /\ \/ Answer(r, 400, "leave") /\ UNCHANGED accepted
       \/ /\ accepted' = accepted \union {r}
          /\ Goto(r, "fetch")
          /\ UNCHANGED answerVars
    /\ UNCHANGED << req, fateVars, traceVars, forecast, forecastRequests, forecastErrors >>

ForecastFails(r, status) ==
    /\ Answer(r, status, "leave")
    /\ forecastErrors' = forecastErrors + 1
    /\ UNCHANGED << panicked, forecast, accepted, forecastRequests >>

\* GenerateForecast goes on, or panics.
ForecastGoes(r, point) ==
    /\ Goto(r, point)
    /\ UNCHANGED << answerVars, panicked, forecastVars >>

ForecastPanics(r) == Panic(r) /\ UNCHANGED << answerVars, forecastVars >>

\* GetHistoricalMetrics, which runs under the context's deadline, and the
\* check of the minimum of data points
Fetch(r) ==
    /\ pc[r] = "fetch"
    /\ \/ ForecastFails(r, 500)
       \/ ~late[r] /\ ForecastFails(r, 400)
       \/ ~late[r] /\ ForecastGoes(r, "train")
    /\ UNCHANGED << req, late, traceVars >>

\* The panic is that of a model, or of the code that combines them.
Train(r) ==
    /\ pc[r] = "train"
    /\ \/ ForecastFails(r, 500)
       \/ ForecastGoes(r, "predict")
       \/ ForecastPanics(r)
    /\ UNCHANGED << req, late, traceVars >>

PredictFails(r) ==
    /\ pc[r] = "predict"
    /\ ForecastFails(r, 500) \/ ForecastPanics(r)
    /\ UNCHANGED << req, late, traceVars >>

\* Mutant: a forecast is not counted when the deadline has passed.
PredictCountsInTime(r) ==
    /\ pc[r] = "predict"
    /\ forecastRequests' = IF late[r] THEN forecastRequests ELSE forecastRequests + 1
    /\ Answer(r, 200, "leave")
    /\ \E fate \in {"written", "lost"} : forecast' = [forecast EXCEPT ![r] = fate]
    /\ UNCHANGED << req, fateVars, traceVars, accepted, forecastErrors >>

\* The forecast is counted and its status written before it is encoded, which
\* fails if any of its numbers is NaN or infinite, such as the anomaly scores of
\* a flat history.
Predict(r) ==
    /\ pc[r] = "predict"
    /\ forecastRequests' = forecastRequests + 1
    /\ Answer(r, 200, "leave")
    /\ \E fate \in {"written", "lost"} : forecast' = [forecast EXCEPT ![r] = fate]
    /\ UNCHANGED << req, fateVars, traceVars, accepted, forecastErrors >>

-----------------------------------------------------------------------------

Step(r) ==
    \/ Arrive(r) \/ TracePanics(r) \/ TraceBegin(r)
    \/ RateLimited(r) \/ RateAllowed(r) \/ Preflight(r)
    \/ Route(r) \/ Authenticate(r) \/ RequireRole(r)
    \/ Live(r) \/ Ready(r) \/ OtherHandler(r) \/ Lookup(r)
    \/ Validate(r) \/ Fetch(r) \/ Train(r) \/ PredictFails(r) \/ Predict(r)
    \/ DeadlineExceeded(r) \/ Leave(r) \/ Recover(r) \/ Record(r)

Next == \E r \in Requests : Step(r)

Spec == Init /\ [][Next]_vars

-----------------------------------------------------------------------------
\* Properties

\* The type invariant.
TypeOK ==
    /\ pc \in [Requests -> Points]
    /\ req \in [Requests -> Arrivals]
    /\ header \in [Requests -> Statuses \union {0}]
    /\ statusCode \in [Requests -> Statuses]
    /\ forecast \in [Requests -> {"none", "written", "received", "lost"}]
    /\ late \in [Requests -> BOOLEAN]
    /\ panicked \in SUBSET Requests
    /\ accepted \in SUBSET Requests
    /\ activeRequests \in Nat
    /\ requestCounter \in [Statuses -> Nat]
    /\ forecastRequests \in Nat
    /\ forecastErrors \in Nat

\* http_requests_active (tracing.go:119-120) counts the requests inside
\* Trace, however they leave it: refused, answered, timed out, by a panic of
\* their handler, or by the panic of Trace itself.
GaugeCountsActive ==
    activeRequests = Cardinality({r \in Requests : pc[r] \in InTrace})

\* Requests whose status may have been written twice: Timeout or Recoverer
\* wrote one after the handler, and net/http had sent the first.
Twice(r) == late[r] \/ (r \in panicked /\ header[r] # 500)

\* http_requests_total (tracing.go:166) agrees with the statuses net/http was
\* given, but for requests with two of them, which it counts as 500 or 504: it
\* misses none of the others, and counts no more than those.
CountersMatchAnswers ==
    LET done == {r \in Requests : pc[r] = "done"}
        twice == {r \in done : Twice(r)}
    IN  \A s \in Statuses :
            LET told == {r \in done : header[r] = s}
            IN  /\ Cardinality(told \ twice) <= requestCounter[s]
                /\ requestCounter[s] <=
                      Cardinality(IF s \in {500, 504} THEN told \union twice ELSE told)

\* Every request that GenerateForecast accepts is counted once, when it is
\* answered and as what it is answered (forecast_handler.py:168-258), past the
\* deadline too, unless it panics; so whoever has received a forecast counts,
\* while one that is lost on its way counts as a success as well.
ForecastsCountedOnce ==
    LET answered == {r \in accepted \ panicked : header[r] # 0}
    IN  /\ forecastRequests = Cardinality({r \in answered : header[r] = 200})
        /\ forecastErrors = Cardinality({r \in answered : header[r] # 200})
        /\ Cardinality({r \in Requests : forecast[r] = "received"}) <= forecastRequests

\* "Store claims in context for downstream use" (auth.go:178): who presents
\* a valid token of a role that the route allows is not told 403.
RoleHolderServed ==
    \A r \in Requests :
        header[r] = 403 =>
            ~(req[r].cred.kind = "jwt" /\ req[r].cred.role \in Allowed[req[r].route])
=============================================================================
