---------------------------- MODULE ProcessRedis ----------------------------
(***************************************************************************)
(* POST /process on the Redis store: threads of several worker processes   *)
(* run ProcessService.process, each a lookup, a preparation when nothing   *)
(* was found, and a compare-and-set transition of RedisStore whose         *)
(* callback is the service's and runs again on every attempt.              *)
(***************************************************************************)
EXTENDS RedisStore, ProcessService

CONSTANTS
    MaxRequests,      \* bound on the requests received
    MaxRedeploys      \* bound on the restarts with a changed policy

ASSUME RedisServiceConstants ==
    /\ MaxRequests \in Nat
    /\ MaxRedeploys \in Nat
    /\ Records = StoredStates
    /\ Decode = [r \in StoredStates |-> FromJson(r)]
    /\ Encode = [s \in States |-> ToJson(s)]
    \* records that name the key's own consumer were built by _prepare_mask
    /\ \A k \in Keys : InitialRecords[k] # None =>
          LET s == Decode[InitialRecords[k]]
          IN  s.consumer = ConsumerOf(k) => s.hash = HashPayload[s.original]

VARIABLES
    pc,            \* where a worker is in process()
    req,           \* the request a worker processes: key and payload
    prepared,      \* the local variable prepared
    prepares,      \* how often the request has run detection and masking
    reply,         \* the status code of the worker's last reply
    answers,       \* history: the 200 answers from each key's latest mapping
    received,      \* requests received so far
    demasking,     \* policy.demasking_enabled, as the running workers loaded it
    redeploys      \* restarts with a changed policy so far

policyVars == <<demasking, redeploys>>

serviceVars == <<pc, req, prepared, prepares, reply, answers, received, policyVars>>

vars == <<storeVars, serviceVars>>

Requests == [key : Keys, payload : Texts]

Init ==
    /\ StoreInit
    /\ pc = [w \in Callers |-> "idle"]
    /\ req = [w \in Callers |-> None]
    /\ prepared = [w \in Callers |-> None]
    /\ prepares = [w \in Callers |-> 0]
    /\ reply = [w \in Callers |-> None]
    /\ answers = [k \in Keys |-> {}]
    /\ received = 0
    /\ demasking = DemaskingEnabled
    /\ redeploys = 0

\* process() ends with a status code, or with the worker (None).
Reply(w, code) ==
    /\ pc' = [pc EXCEPT ![w] = "idle"]
    /\ req' = [req EXCEPT ![w] = None]
    /\ prepared' = [prepared EXCEPT ![w] = None]
    /\ prepares' = [prepares EXCEPT ![w] = 0]
    /\ reply' = [reply EXCEPT ![w] = code]
    /\ UNCHANGED <<received, policyVars>>

\* process() is called (an empty payload never reaches the store).
Receive(w, k, t) ==
    /\ pc[w] = "idle"
    /\ received < MaxRequests
    /\ received' = received + 1
    /\ pc' = [pc EXCEPT ![w] = "lookup"]
    /\ req' = [req EXCEPT ![w] = [key |-> k, payload |-> t]]
    /\ reply' = [reply EXCEPT ![w] = None]
    /\ UNCHANGED <<storeVars, prepared, prepares, answers, policyVars>>

Lookup(w) ==
    /\ pc[w] = "lookup"
    /\ pc' = [pc EXCEPT ![w] =
                IF Stored(req[w].key) = None THEN "prepare" ELSE "transition"]
    /\ UNCHANGED <<storeVars, req, prepared, prepares, reply, answers, received,
                   policyVars>>

\* The connection fails at the lookup: an unexpected error.
LookupLost(w) ==
    /\ pc[w] = "lookup"
    /\ Fault
    /\ Reply(w, 500)
    /\ UNCHANGED <<db, watch, callVars, orphan, answers>>

Prepare(w) ==
    /\ pc[w] = "prepare"
    /\ \E s \in PrepareMask(ConsumerOf(req[w].key), req[w].payload) :
        prepared' = [prepared EXCEPT ![w] = s]
    /\ prepares' = [prepares EXCEPT ![w] = @ + 1]
    /\ pc' = [pc EXCEPT ![w] = "transition"]
    /\ UNCHANGED <<storeVars, req, reply, answers, received, policyVars>>

EnterTransition(w) ==
    /\ pc[w] = "transition"
    /\ TransitionStart(w, req[w].key)
    /\ UNCHANGED serviceVars

\* What _transition may return to the store in this attempt.
Returned(w) ==
    Transition(current[w], ConsumerOf(req[w].key), req[w].payload, prepared[w],
               demasking[ConsumerOf(req[w].key)])

\* The callback prepares, in this attempt: prepared stays None outside it.
PreparesLate(w) ==
    stage[w] = "callback" /\ current[w] = None /\ prepared[w] = None

CallbackReturns(w) ==
    /\ stage[w] = "callback"
    /\ \E s \in Returned(w) : Callback(w, s)
    /\ prepares' = [prepares EXCEPT ![w] = IF PreparesLate(w) THEN @ + 1 ELSE @]
    /\ UNCHANGED <<pc, req, prepared, reply, answers, received, policyVars>>

CallbackRaises(w) ==
    /\ stage[w] = "callback"
    /\ current[w] # None
    /\ Returned(w) = {}
    /\ CallbackRaise(w)
    /\ Reply(w, TransitionError(current[w], ConsumerOf(req[w].key), req[w].payload))
    /\ UNCHANGED answers

\* Detection or masking raises, before the transition or in its callback.
PrepareRaises(w) ==
    /\ \/ pc[w] = "prepare" /\ UNCHANGED storeVars
       \/ PreparesLate(w) /\ CallbackRaise(w)
    /\ Reply(w, 500)
    /\ UNCHANGED answers

\* The state is written and the client answered from it.
Commit(w) ==
    LET k == req[w].key
        a == Outcome(newState[w], req[w].payload)
    IN  /\ stage[w] = "exec"
        /\ ExecCommit(w)
        /\ Reply(w, 200)
        /\ answers' = [answers EXCEPT ![k] =
                          IF current[w] = None THEN {a} ELSE @ \cup {a}]

Overload(w) ==
    /\ Exhausted(w)
    /\ Reply(w, 429)
    /\ UNCHANGED answers

TransitionFails(w) ==
    /\ WatchLost(w)
    /\ Reply(w, 500)
    /\ UNCHANGED answers

\* The worker dies at any point of a request: nobody is answered.
WorkerDies(w) ==
    /\ pc[w] # "idle"
    /\ \/ Crash(w)
       \/ stage[w] = "idle" /\ Fault /\ UNCHANGED <<db, watch, callVars, orphan>>
    /\ Reply(w, None)
    /\ UNCHANGED answers

\* A transaction left behind creates or changes a mapping; nobody is answered.
OrphanRuns(w) ==
    /\ OrphanCommit(w)
    /\ answers' = IF db[orphan[w].key] = None
                  THEN [answers EXCEPT ![orphan[w].key] = {}]
                  ELSE answers
    /\ UNCHANGED <<pc, req, prepared, prepares, reply, received, policyVars>>

\* An operator switches demasking in a consumer's policy and restarts the
\* service, which loads it; what Redis holds stays, transactions included.
Redeploy(c) ==
    /\ redeploys < MaxRedeploys
    /\ \A w \in Callers : pc[w] = "idle"
    /\ demasking' = [demasking EXCEPT ![c] = ~@]
    /\ redeploys' = redeploys + 1
    /\ UNCHANGED <<storeVars, pc, req, prepared, prepares, reply, answers, received>>

\* The steps of the store alone.
StoreStep(w) ==
    /\ Watch(w) \/ Read(w) \/ ExecAbort(w)
    /\ UNCHANGED serviceVars

Disturbance ==
    /\ \/ \E k \in Keys : Expire(k)
       \/ \E w \in Callers : ConnectionLost(w) \/ OrphanDrop(w)
    /\ UNCHANGED serviceVars

WorkerStep(w) ==
    \/ Lookup(w)
    \/ Prepare(w)
    \/ PrepareRaises(w)
    \/ EnterTransition(w)
    \/ StoreStep(w)
    \/ CallbackReturns(w)
    \/ CallbackRaises(w)
    \/ Commit(w)
    \/ Overload(w)

\* Every request received has been answered, and no more come.
Finished ==
    /\ received = MaxRequests
    /\ \A w \in Callers : pc[w] = "idle"
    /\ UNCHANGED vars

Next ==
    \/ Disturbance
    \/ \E c \in Consumers : Redeploy(c)
    \/ \E w \in Callers :
        \/ WorkerStep(w)
        \/ LookupLost(w)
        \/ TransitionFails(w)
        \/ WorkerDies(w)
        \/ OrphanRuns(w)
        \/ \E k \in Keys, t \in Texts : Receive(w, k, t)
    \/ Finished

Spec == Init /\ [][Next]_vars

-----------------------------------------------------------------------------
(* Properties.                                                             *)

\* Every variable has its type.
ServiceTypeOK ==
    /\ StoreTypeOK
    /\ pc \in [Callers -> {"idle", "lookup", "prepare", "transition"}]
    /\ req \in [Callers -> Requests \cup {None}]
    /\ prepared \in [Callers -> States \cup {None}]
    /\ prepares \in [Callers -> Nat]
    /\ reply \in [Callers -> Codes \cup {None}]
    /\ answers \in [Keys -> SUBSET Answers]
    /\ received \in 0..MaxRequests
    /\ demasking \in [Consumers -> BOOLEAN]
    /\ redeploys \in 0..MaxRedeploys

\* "The state belongs to a different consumer (or to no one, e.g. a legacy
\* record without consumer_id): never expose it" (process_service.py:136-137).
\* No answer is ever given from a record that was there before: answers on a
\* key that still holds it have not begun.
LegacyNeverExposed ==
    \A k \in Keys :
        Stored(k) # None /\ Stored(k).consumer # ConsumerOf(k) => answers[k] = {}

\* "demasking is disabled for this consumer" (process_service.py:182-183)
\* across restarts that change the policy: while it is disabled an original
\* is answered only from a mapping that was already demasked, by a request
\* processed or a transaction sent before the switch; one that is still
\* MASKED stays closed, whatever is retried or left behind.
DisabledOpensNothing ==
    [][\A k \in Keys : \A a \in answers'[k] \ answers[k] :
        a.op = "DEMASK" => \/ demasking[ConsumerOf(k)]
                           \/ Stored(k).status = "DEMASKED"]_vars

MappingOf(k) ==
    LET s == Stored(k)
    IN  IF s = None \/ s.consumer # ConsumerOf(k)
        THEN None
        ELSE [original |-> s.original, masked |-> s.masked, status |-> s.status]

Lifecycle == INSTANCE RestorationLifecycle
             WITH mapping <- [k \in Keys |-> MappingOf(k)]

\* Idempotency and restoration as clients see them, across processes, lost
\* acknowledgements and retries: the 200 answers from one mapping of a key
\* are a single mask for a single original, and demasking that mask gives
\* that original back.
RoundTrip == Lifecycle!RoundTrip

\* The service on this store implements the lifecycle it promises, with a
\* transaction whose acknowledgement is lost counted as an unanswered step.
ImplementsLifecycle == Lifecycle!Spec

\* process_service.py:77-79, "memoized in a closure so a CAS retry inside the
\* store's transition does not re-run the detector/masker", and :132-133,
\* "Prepare now (once)": a request runs detection and masking at most once.
PrepareOnce == \A w \in Callers : prepares[w] <= 1
=============================================================================
