----------------------------- MODULE LoadReport -----------------------------
(***************************************************************************)
(* What a load step measured and how it is judged, as operators: the       *)
(* counters tests/performance/locustfile.py keeps in the roundtrip         *)
(* scenario, and build_result of scripts/run_performance.py.               *)
(*                                                                         *)
(* The work of a Locust process is the number of its tasks with each       *)
(* outcome: counters are bumped once per answer, under a lock, so that     *)
(* they are sums over the tasks, whatever the order users ran them in.     *)
(***************************************************************************)
EXTENDS Naturals, Functions

CONSTANTS
    None,
    MaxErrorRate,          \* --max-error-rate, in percent
    MaxIncompleteRatio,    \* --max-incomplete-ratio, in percent
    RequiredUsers,         \* --required-concurrent-users
    RequiredConnections    \* --required-concurrent-connections

ASSUME ReportConstants ==
    {MaxErrorRate, MaxIncompleteRatio, RequiredUsers, RequiredConnections}
        \subseteq Nat

\* How scenario_roundtrip may go: the answer to the mask, and where that is
\* valid, to the demask.  Refused is a 429, and every 429 has its Retry-After
\* (HttpPipeline); Error another status; Wrong a 200 whose body the validator
\* refuses; cut is a task stopped with the test after its mask was answered.
\* A request without an answer is lost in one of three ways: its client raises
\* before Locust has reported the request (Raised) or after (Torn), or it gives
\* a response of status 0 that has no headers (NoStatus).
MaskValid == {"pair", "cut", "demaskRefused", "demaskError", "demaskWrong",
              "demaskRaised", "demaskTorn", "demaskNoStatus"}

Outcomes == MaskValid \cup {"maskRefused", "maskError", "maskWrong",
                            "maskRaised", "maskTorn", "maskNoStatus"}

Refused == {"maskRefused", "demaskRefused"}
Error == {"maskError", "demaskError"}
Wrong == {"maskWrong", "demaskWrong"}
Raised == {"maskRaised", "demaskRaised"}
Torn == {"maskTorn", "demaskTorn"}
NoStatus == {"maskNoStatus", "demaskNoStatus"}

Works == [Outcomes -> Nat]

Tasks(w, S) == SumFunctionOnSet(w, S)

MaskRequests(w) == Tasks(w, MaskValid \cup {"maskWrong"})

DemaskRequests(w) == Tasks(w, {"pair", "demaskWrong"})

\* What scenario_roundtrip counts itself: the demask returned no result.
CountedIncomplete(w) == Tasks(w, MaskValid \ {"pair", "cut"})

\* _write_custom_metrics: a mask without a demask is an incomplete pair.
Incomplete(w) ==
    IF MaskRequests(w) > DemaskRequests(w) + CountedIncomplete(w)
    THEN MaskRequests(w) - DemaskRequests(w)
    ELSE CountedIncomplete(w)

\* Mutant: the handler returns without counting.
TransportErrors_Swallowed(w) == 0

\* _post, except Exception: what the client raised, and the AttributeError of
\* response.headers.get where there are no headers.
TransportErrors(w) == Tasks(w, Raised \cup Torn \cup NoStatus)

\* ProcessUser._post: the counters after all tasks.  Status 0 is counted as a
\* status other than 200 before its headers are asked for.
Snapshot(w) ==
    [http_2xx |-> MaskRequests(w) + DemaskRequests(w),
     http_429 |-> Tasks(w, Refused),
     http_other |-> Tasks(w, Error \cup NoStatus),
     transport_errors |-> TransportErrors(w),
     functional_errors |-> Tasks(w, Error \cup Wrong \cup NoStatus),
     mask_requests |-> MaskRequests(w),
     demask_requests |-> DemaskRequests(w),
     incomplete_roundtrips |-> Incomplete(w)]

\* An exception that leaves the block of catch_response goes past Locust's
\* report of the request: these requests are in no statistics.
Unreported == Raised \cup NoStatus

\* Locust's own statistics: the requests it reported, and those marked as
\* failures.  fast says that latency and rate are within their limits.
Statistics(w, fast) ==
    [requests |-> Tasks(w, Outcomes \ {"maskRaised", "maskNoStatus"})
                    + Tasks(w, MaskValid \ ({"cut"} \cup Unreported)),
     failures |-> Tasks(w, Error \cup Wrong \cup Torn),
     fast |-> fast]

\* empty_aggregate: no request, hence no rate.
EmptyAggregate == [requests |-> 0, failures |-> 0, fast |-> FALSE]

\* The members of S whose condition, the second component, holds.
Flagged(S) == {v[1] : v \in {u \in S : u[2]}}

\* build_result, from the exit code and the statistics.
RowViolations(code, row) ==
    Flagged({<<"exit code", code # 0>>,
            <<"error rate", IF row.requests = 0
                            THEN MaxErrorRate < 100
                            ELSE row.failures * 100 > MaxErrorRate * row.requests>>,
            <<"limits", ~row.fast>>})

\* build_result, from the custom metrics: presence, then reconciliation.
MetricsViolations(row, m) ==
    IF m = None
    THEN {"metrics missing"}
    ELSE Flagged(
        {<<"total", row.requests # 0
                    /\ m.http_2xx + m.http_429 + m.http_other + m.transport_errors
                         # row.requests>>,
         <<"kinds", m.mask_requests + m.demask_requests # m.http_2xx>>,
         <<"failures", row.failures # m.functional_errors + m.transport_errors>>,
         <<"no success", m.http_2xx = 0 \/ m.mask_requests = 0>>,
         <<"roundtrip", m.mask_requests # m.demask_requests + m.incomplete_roundtrips>>,
         <<"incomplete", /\ m.mask_requests # 0
                         /\ m.incomplete_roundtrips * 100
                              > MaxIncompleteRatio * m.mask_requests>>})

\* A counter does not agree with another one.
Mismatches == {"total", "kinds", "failures", "roundtrip"}

\* build_result, from what was observed beside the counters; elapsed says that
\* the run was long enough.
ObservedViolations(users, connections, elapsed) ==
    Flagged({<<"users", users < RequiredUsers>>,
            <<"connections", /\ RequiredConnections > 0
                             /\ \/ connections = None
                                \/ connections < RequiredConnections>>,
            <<"elapsed", ~elapsed>>})

\* The violations of a step; it has passed when there are none.
BuildResult(code, row, m, users, connections, elapsed) ==
    RowViolations(code, row) \cup MetricsViolations(row, m)
        \cup ObservedViolations(users, connections, elapsed)

Violations == {"exit code", "error rate", "limits", "metrics missing", "no success",
               "incomplete", "users", "connections", "elapsed"} \cup Mismatches
=============================================================================
