---------------------------- MODULE HttpPipeline ----------------------------
(***************************************************************************)
(* A request on its way through the application of app/main.py: the rate   *)
(* limiter, the observing middleware, the router with the endpoints, and   *)
(* the error handlers, with the counters of app/observability/metrics.py.  *)
(* Starlette puts the middleware added last outermost, so the limiter      *)
(* answers before the observing middleware has seen the request; handlers  *)
(* of domain errors run inside it and that of other exceptions outside     *)
(* everything.  The endpoints run in threads, the rest on the event loop.  *)
(***************************************************************************)
EXTENDS RateLimiter, FiniteSets

CONSTANTS
    Requests,          \* requests, each also the id generated for it
    Ids,               \* values _REQUEST_ID_RE accepts
    BadId,             \* a header it does not accept, or none
    Headers,           \* X-Consumer-ID as sent; Blank when missing or blank
    Blank,
    Normalized,        \* the header trimmed and lowercased
    DefaultConsumer,   \* default_consumer_id
    EnabledConsumers,  \* consumers with an enabled policy
    Inbound,           \* what may arrive
    Global,            \* _GLOBAL_KEY
    None

Paths == {"/process", "/health", "/health/ready", "/metrics", "unmatched"}

Errors == {"CONSUMER_NOT_ALLOWED", "INVALID_PAYLOAD", "SERVICE_OVERLOADED",
           "PROCESSING_ERROR", "INTERNAL_ERROR"}

\* Mutant: a payload that does not fit is a bad request.
StatusCode_BadRequest(e) ==
    CASE e = "CONSUMER_NOT_ALLOWED" -> 403
      [] e = "INVALID_PAYLOAD" -> 400
      [] e = "SERVICE_OVERLOADED" -> 429
      [] OTHER -> 500

\* status_code of the domain exceptions; 500 for any other.
StatusCode(e) ==
    CASE e = "CONSUMER_NOT_ALLOWED" -> 403
      [] e = "INVALID_PAYLOAD" -> 422
      [] e = "SERVICE_OVERLOADED" -> 429
      [] OTHER -> 500

Statuses == {200, 404, 405, 503, 403, 422, 429, 500}

Arrivals == [path : Paths, allowed : BOOLEAN, valid : BOOLEAN,
             id : Ids \cup {BadId}, consumer : Headers \cup {Blank}]

ASSUME HttpConstants ==
    /\ IsFiniteSet(Requests)
    /\ Global \in Keys
    /\ Inbound \subseteq Arrivals
    /\ BadId \notin Ids
    /\ Requests \cap Ids = {}
    /\ None \notin Requests \cup Ids \cup Errors \cup Arrivals
    /\ Blank \notin Headers
    /\ DOMAIN Normalized = Headers

VARIABLES
    stage,             \* where each request is
    inbound,           \* the request itself
    rid,               \* request.state.request_id
    raised,            \* the exception on its way out of an endpoint
    answer,            \* the response
    inflight,          \* pii_proxy_inflight_requests
    requestsTotal,     \* pii_proxy_http_requests_total by path and status
    errorsTotal,       \* pii_proxy_errors_total by error_type
    operationsTotal    \* pii_proxy_operations_total

counters == <<requestsTotal, errorsTotal, operationsTotal>>
vars == <<limiterVars, stage, inbound, rid, raised, answer, inflight, counters>>

Init ==
    /\ LimiterInit
    /\ stage = [r \in Requests |-> "new"]
    /\ inbound = [r \in Requests |-> None]
    /\ rid = [r \in Requests |-> None]
    /\ raised = [r \in Requests |-> None]
    /\ answer = [r \in Requests |-> None]
    /\ inflight = 0
    /\ requestsTotal = [ps \in Paths \X Statuses |-> 0]
    /\ errorsTotal = [e \in Errors |-> 0]
    /\ operationsTotal = 0

Response(s, e, i, retry) == [status |-> s, error |-> e, id |-> i, retryAfter |-> retry]

\* normalize_request_id
NormalizeRequestId(r, q) == IF q.id \in Ids THEN q.id ELSE r

\* get_consumer_id
GetConsumerId(h) ==
    IF h = Blank \/ Normalized[h] = Blank THEN DefaultConsumer ELSE Normalized[h]

-----------------------------------------------------------------------------
(* The middlewares.                                                        *)

\* RateLimitMiddleware answers by itself.
Refuse(r, q) ==
    /\ stage[r] = "new"
    /\ q.path = "/process"
    /\ Deny(Global)
    /\ inbound' = [inbound EXCEPT ![r] = q]
    /\ answer' = [answer EXCEPT ![r] = Response(429, "SERVICE_OVERLOADED", None, TRUE)]
    /\ stage' = [stage EXCEPT ![r] = "answered"]
    /\ UNCHANGED <<rid, raised, inflight, counters>>

\* The limiter lets the request pass and observe_http_request calls the next.
Enter(r, q) ==
    /\ stage[r] = "new"
    /\ IF q.path = "/process" THEN Allow(Global) ELSE UNCHANGED limiterVars
    /\ inbound' = [inbound EXCEPT ![r] = q]
    /\ rid' = [rid EXCEPT ![r] = NormalizeRequestId(r, q)]
    /\ inflight' = inflight + 1
    /\ stage' = [stage EXCEPT ![r] = "routed"]
    /\ UNCHANGED <<raised, answer, counters>>

\* observe_http_request after call_next has returned a response.
Leave(r) ==
    /\ stage[r] = "responded"
    /\ inflight' = inflight - 1
    /\ answer' = [answer EXCEPT ![r].id = rid[r]]
    /\ requestsTotal' = [requestsTotal EXCEPT ![<<inbound[r].path, answer[r].status>>] = @ + 1]
    /\ stage' = [stage EXCEPT ![r] = "answered"]
    /\ UNCHANGED <<limiterVars, inbound, rid, raised, errorsTotal, operationsTotal>>

\* Mutant: the gauge is decremented only after a response.
LeaveByException_KeepsGauge(r) ==
    /\ stage[r] = "raised"
    /\ raised[r] = "INTERNAL_ERROR"
    /\ requestsTotal' = [requestsTotal EXCEPT ![<<inbound[r].path, 500>>] = @ + 1]
    /\ stage' = [stage EXCEPT ![r] = "failed"]
    /\ UNCHANGED <<limiterVars, inbound, rid, raised, answer, inflight, errorsTotal,
                   operationsTotal>>

\* observe_http_request when call_next raises: only its finally clauses run.
LeaveByException(r) ==
    /\ stage[r] = "raised"
    /\ raised[r] = "INTERNAL_ERROR"
    /\ inflight' = inflight - 1
    /\ requestsTotal' = [requestsTotal EXCEPT ![<<inbound[r].path, 500>>] = @ + 1]
    /\ stage' = [stage EXCEPT ![r] = "failed"]
    /\ UNCHANGED <<limiterVars, inbound, rid, raised, answer, errorsTotal,
                   operationsTotal>>

-----------------------------------------------------------------------------
(* The router and the endpoints.                                           *)

\* A response without an error of this application.
Respond(r, s) ==
    /\ stage[r] = "routed"
    /\ answer' = [answer EXCEPT ![r] = Response(s, None, None, FALSE)]
    /\ stage' = [stage EXCEPT ![r] = "responded"]
    /\ UNCHANGED <<limiterVars, inbound, rid, raised, inflight, requestsTotal, errorsTotal>>

Raise(r, e) ==
    /\ stage[r] = "routed"
    /\ raised' = [raised EXCEPT ![r] = e]
    /\ stage' = [stage EXCEPT ![r] = "raised"]
    /\ UNCHANGED <<limiterVars, inbound, rid, answer, inflight, counters>>

Reaches(r, path) == inbound[r].path = path /\ inbound[r].allowed

\* No route matches, or one with another method.
NoRoute(r) ==
    /\ stage[r] = "routed"
    /\ IF inbound[r].path = "unmatched" THEN Respond(r, 404)
       ELSE ~inbound[r].allowed /\ Respond(r, 405)
    /\ UNCHANGED operationsTotal

\* The factories that Depends calls may raise (a bad key, no policies).
DependencyFails(r) ==
    /\ stage[r] = "routed"
    /\ Reaches(r, "/process") \/ Reaches(r, "/health/ready")
    /\ Raise(r, "INTERNAL_ERROR")

\* The schema refuses the body.
ValidationFails(r) ==
    /\ stage[r] = "routed"
    /\ Reaches(r, "/process")
    /\ ~inbound[r].valid
    /\ Respond(r, 422)
    /\ UNCHANGED operationsTotal

\* process: get_policy ...
Serves(r) ==
    /\ stage[r] = "routed"
    /\ Reaches(r, "/process")
    /\ inbound[r].valid

Allowed(r) == GetConsumerId(inbound[r].consumer) \in EnabledConsumers

PolicyRefuses(r) ==
    /\ Serves(r)
    /\ ~Allowed(r)
    /\ Raise(r, "CONSUMER_NOT_ALLOWED")

\* ... then ProcessService.process: a domain error, another exception, ...
ServiceRaises(r, e) ==
    /\ Serves(r)
    /\ Allowed(r)
    /\ Raise(r, e)

\* ... or an outcome, which it counts.
ServiceReturns(r) ==
    /\ Serves(r)
    /\ Allowed(r)
    /\ Respond(r, 200)
    /\ operationsTotal' = operationsTotal + 1

\* /health and /metrics; readiness answers 503 to any exception of the probe.
Probe(r) ==
    /\ stage[r] = "routed"
    /\ \/ Reaches(r, "/health") /\ Respond(r, 200)
       \/ Reaches(r, "/metrics") /\ Respond(r, 200)
       \/ Reaches(r, "/health/ready") /\ Respond(r, 200)
       \/ Reaches(r, "/health/ready") /\ Respond(r, 503)
    /\ UNCHANGED operationsTotal

-----------------------------------------------------------------------------
(* The error handlers.                                                     *)

RecordError(e) == errorsTotal' = [errorsTotal EXCEPT ![e] = @ + 1]

\* Mutant: no Retry-After.
HandleDomainError_NoRetryAfter(r) ==
    /\ stage[r] = "raised"
    /\ raised[r] # "INTERNAL_ERROR"
    /\ RecordError(raised[r])
    /\ answer' = [answer EXCEPT ![r] =
           Response(StatusCode(raised[r]), raised[r], rid[r], FALSE)]
    /\ stage' = [stage EXCEPT ![r] = "responded"]
    /\ UNCHANGED <<limiterVars, inbound, rid, raised, inflight, requestsTotal, operationsTotal>>

\* handle_domain_error and handle_processing_error
HandleDomainError(r) ==
    /\ stage[r] = "raised"
    /\ raised[r] # "INTERNAL_ERROR"
    /\ RecordError(raised[r])
    /\ answer' = [answer EXCEPT ![r] =
           Response(StatusCode(raised[r]), raised[r], rid[r],
                    raised[r] = "SERVICE_OVERLOADED")]
    /\ stage' = [stage EXCEPT ![r] = "responded"]
    /\ UNCHANGED <<limiterVars, inbound, rid, raised, inflight, requestsTotal, operationsTotal>>

\* Mutant: the handler outside the middleware does not add the id.
HandleUnexpected_NoId(r) ==
    /\ stage[r] = "failed"
    /\ RecordError("INTERNAL_ERROR")
    /\ answer' = [answer EXCEPT ![r] = Response(500, "INTERNAL_ERROR", None, FALSE)]
    /\ stage' = [stage EXCEPT ![r] = "answered"]
    /\ UNCHANGED <<limiterVars, inbound, rid, raised, inflight, requestsTotal, operationsTotal>>

\* handle_unexpected
HandleUnexpected(r) ==
    /\ stage[r] = "failed"
    /\ RecordError("INTERNAL_ERROR")
    /\ answer' = [answer EXCEPT ![r] = Response(500, "INTERNAL_ERROR", rid[r], FALSE)]
    /\ stage' = [stage EXCEPT ![r] = "answered"]
    /\ UNCHANGED <<limiterVars, inbound, rid, raised, inflight, requestsTotal, operationsTotal>>

-----------------------------------------------------------------------------

Clock ==
    /\ Tick
    /\ UNCHANGED <<stage, inbound, rid, raised, answer, inflight, counters>>

Step(r) ==
    \/ \E q \in Inbound : Refuse(r, q) \/ Enter(r, q)
    \/ NoRoute(r)
    \/ DependencyFails(r)
    \/ ValidationFails(r)
    \/ PolicyRefuses(r)
    \/ \E e \in Errors \ {"CONSUMER_NOT_ALLOWED"} : ServiceRaises(r, e)
    \/ ServiceReturns(r)
    \/ Probe(r)
    \/ HandleDomainError(r)
    \/ Leave(r)
    \/ LeaveByException(r)
    \/ HandleUnexpected(r)

AllAnswered == (\A r \in Requests : stage[r] = "answered") /\ UNCHANGED vars

Next == Clock \/ (\E r \in Requests : Step(r)) \/ AllAnswered

Spec == Init /\ [][Next]_vars

-----------------------------------------------------------------------------
(* Properties.                                                             *)

Stages == {"new", "routed", "raised", "responded", "failed", "answered"}

Responses == [status : Statuses, error : Errors \cup {None},
              id : Requests \cup Ids \cup {None}, retryAfter : BOOLEAN]

\* Every variable has its type; the gauge and the counters are never negative.
HttpTypeOK ==
    /\ LimiterTypeOK
    /\ stage \in [Requests -> Stages]
    /\ inbound \in [Requests -> Arrivals \cup {None}]
    /\ rid \in [Requests -> Requests \cup Ids \cup {None}]
    /\ raised \in [Requests -> Errors \cup {None}]
    /\ answer \in [Requests -> Responses \cup {None}]
    /\ inflight \in Nat
    /\ requestsTotal \in [Paths \X Statuses -> Nat]
    /\ errorsTotal \in [Errors -> Nat]
    /\ operationsTotal \in Nat

\* The requests the observing middleware has called the next layer for.
Inside == {r \in Requests : stage[r] \in {"routed", "raised", "responded"}}

\* Answered requests, apart from those the limiter answered.
Observed == {r \in Requests : stage[r] = "answered" /\ rid[r] # None}

\* main.py:41, "record every HTTP outcome, including errors": the gauge is the
\* number of requests inside, and when all that entered are answered, the
\* counters by path and status, by error type and of operations are the numbers
\* of those answers, whichever of the ways out each request took.
MetricsMatchAnswers ==
    /\ inflight = Cardinality(Inside)
    /\ (\A r \in Requests : stage[r] \in {"new", "answered"}) =>
        /\ \A p \in Paths, s \in Statuses :
              requestsTotal[<<p, s>>] =
                 Cardinality({r \in Observed : inbound[r].path = p /\ answer[r].status = s})
        /\ \A e \in Errors :
              errorsTotal[e] = Cardinality({r \in Observed : answer[r].error = e})
        /\ operationsTotal =
              Cardinality({r \in Observed :
                              inbound[r].path = "/process" /\ answer[r].status = 200})

\* tests/unit/test_security_logging.py:100: behind the limiter every answer, that
\* of the handler outside the middleware too, carries the client's id if it is
\* acceptable and otherwise one made for this request alone.
AnswersKeepId ==
    \A r \in Observed : answer[r].id = NormalizeRequestId(r, inbound[r])

\* docs/api.md:81, "Too many requests (includes Retry-After)": so does each 429,
\* the limiter's and that of a store at its capacity.
RetryAfterOn429 ==
    \A r \in Requests :
        stage[r] = "answered" /\ answer[r].status = 429 => answer[r].retryAfter

\* ratelimit.py:28-31: a request is refused only while MaxHits others have been
\* let through within the last window.
RefusedOnlyAtLimit ==
    [][\A r \in Requests :
        stage[r] = "new" /\ stage'[r] = "answered" => AtLimit(Global)]_vars

\* docs/security.md:55, "Each HTTP response contains a validated/generated
\* X-Request-ID header".
AnswersIdentified ==
    \A r \in Requests : stage[r] = "answered" => answer[r].id # None
=============================================================================
