--------------------------- MODULE ProcessMemory ---------------------------
(***************************************************************************)
(* POST /process on the in-memory store: worker threads run                *)
(* ProcessService.process, each a lookup, a preparation when nothing was   *)
(* found, and a transition of InMemoryStore whose callback is the          *)
(* service's.  Nothing but the stripe lock and the data lock orders them.  *)
(***************************************************************************)
EXTENDS InMemoryStore, ProcessService

CONSTANT MaxRequests       \* bound on the requests received

ASSUME MaxRequestsType == MaxRequests \in Nat

VARIABLES
    pc,            \* where a worker is in process()
    req,           \* the request a worker processes: key and payload
    prepared,      \* the local variable prepared
    prepares,      \* how often the request has run detection and masking
    reply,         \* the status code of the worker's last reply
    answers,       \* history: the 200 answers from each key's latest mapping
    received       \* requests received so far

serviceVars == <<pc, req, prepared, prepares, reply, answers, received>>

vars == <<storeVars, serviceVars>>

Requests == [key : Keys, payload : Texts \cup {NoText}]

Init ==
    /\ StoreInit
    /\ pc = [w \in Callers |-> "idle"]
    /\ req = [w \in Callers |-> None]
    /\ prepared = [w \in Callers |-> None]
    /\ prepares = [w \in Callers |-> 0]
    /\ reply = [w \in Callers |-> None]
    /\ answers = [k \in Keys |-> {}]
    /\ received = 0

\* process() ends with a status code.
Reply(w, code) ==
    /\ pc' = [pc EXCEPT ![w] = "idle"]
    /\ req' = [req EXCEPT ![w] = None]
    /\ prepared' = [prepared EXCEPT ![w] = None]
    /\ prepares' = [prepares EXCEPT ![w] = 0]
    /\ reply' = [reply EXCEPT ![w] = code]
    /\ UNCHANGED received

\* process() is called.
Receive(w, k, t) ==
    /\ pc[w] = "idle"
    /\ received < MaxRequests
    /\ received' = received + 1
    /\ pc' = [pc EXCEPT ![w] = "start"]
    /\ req' = [req EXCEPT ![w] = [key |-> k, payload |-> t]]
    /\ reply' = [reply EXCEPT ![w] = None]
    /\ UNCHANGED <<storeVars, prepared, prepares, answers>>

\* An empty payload is refused before anything else.
RefuseEmpty(w) ==
    /\ pc[w] = "start"
    /\ req[w].payload = NoText
    /\ Reply(w, 422)
    /\ UNCHANGED <<storeVars, answers>>

\* The first lookup decides whether to prepare.
Lookup(w) ==
    /\ pc[w] = "start"
    /\ req[w].payload # NoText
    /\ Get(req[w].key)
    /\ pc' = [pc EXCEPT ![w] =
                IF GetResult(req[w].key) = None THEN "prepare" ELSE "transition"]
    /\ UNCHANGED <<req, prepared, prepares, reply, answers, received>>

Prepare(w) ==
    /\ pc[w] = "prepare"
    /\ \E s \in PrepareMask(ConsumerOf(req[w].key), req[w].payload) :
        prepared' = [prepared EXCEPT ![w] = s]
    /\ prepares' = [prepares EXCEPT ![w] = @ + 1]
    /\ pc' = [pc EXCEPT ![w] = "transition"]
    /\ UNCHANGED <<storeVars, req, reply, answers, received>>

\* Detection or masking raises: the 500 of an unexpected error.
PrepareRaises(w) ==
    /\ pc[w] = "prepare"
    /\ Reply(w, 500)
    /\ UNCHANGED <<storeVars, answers>>

EnterTransition(w) ==
    /\ pc[w] = "transition"
    /\ TransitionAcquire(w, req[w].key)
    /\ UNCHANGED serviceVars

ReadState(w) ==
    /\ TransitionRead(w)
    /\ UNCHANGED serviceVars

\* What _transition may return to the store here.
Returned(w) ==
    Transition(current[w], ConsumerOf(req[w].key), req[w].payload, prepared[w],
               DemaskingEnabled[ConsumerOf(req[w].key)])

\* Mutant: the callback prepares again although the request has prepared.
PreparesLate_Again(w) ==
    stage[w] = "callback" /\ current[w] = None

\* The callback has to prepare: the state seen by the lookup is gone.
PreparesLate(w) ==
    stage[w] = "callback" /\ current[w] = None /\ prepared[w] = None

CallbackReturns(w) ==
    /\ stage[w] = "callback"
    /\ \E s \in Returned(w) : TransitionCallback(w, s)
    /\ prepares' = [prepares EXCEPT ![w] = IF PreparesLate(w) THEN @ + 1 ELSE @]
    /\ UNCHANGED <<pc, req, prepared, reply, answers, received>>

CallbackRaises(w) ==
    /\ stage[w] = "callback"
    /\ current[w] # None
    /\ Returned(w) = {}
    /\ TransitionRaise(w)
    /\ Reply(w, TransitionError(current[w], ConsumerOf(req[w].key), req[w].payload))
    /\ UNCHANGED answers

\* Detection or masking raises inside the callback.
LatePrepareRaises(w) ==
    /\ PreparesLate(w)
    /\ TransitionRaise(w)
    /\ Reply(w, 500)
    /\ UNCHANGED answers

Overload(w) ==
    /\ TransitionOverload(w)
    /\ Reply(w, 429)
    /\ UNCHANGED answers

\* The state is written and the client answered from it.
Commit(w) ==
    LET k == req[w].key
        a == Outcome(newState[w], req[w].payload)
    IN  /\ stage[w] = "write"
        /\ TransitionWrite(w)
        /\ Reply(w, 200)
        /\ answers' = [answers EXCEPT ![k] =
                          IF current[w] = None THEN {a} ELSE @ \cup {a}]

Clock == Tick /\ UNCHANGED serviceVars

WorkerStep(w) ==
    \/ RefuseEmpty(w)
    \/ Lookup(w)
    \/ Prepare(w)
    \/ PrepareRaises(w)
    \/ EnterTransition(w)
    \/ ReadState(w)
    \/ CallbackReturns(w)
    \/ CallbackRaises(w)
    \/ LatePrepareRaises(w)
    \/ Overload(w)
    \/ Commit(w)

\* Every request received has been answered, and no more come.
Finished ==
    /\ received = MaxRequests
    /\ \A w \in Callers : pc[w] = "idle"
    /\ UNCHANGED vars

Next ==
    \/ Clock
    \/ \E w \in Callers :
        \/ WorkerStep(w)
        \/ \E k \in Keys, t \in Texts \cup {NoText} : Receive(w, k, t)
    \/ Finished

Spec == Init /\ [][Next]_vars

\* The interpreter runs every thread that can run.  Requests are finitely
\* many, so a thread waiting for a stripe gets it without a fair lock.
FairSpec == Spec /\ \A w \in Callers : WF_vars(WorkerStep(w))

-----------------------------------------------------------------------------
(* Properties.                                                             *)

\* Every variable has its type.
ServiceTypeOK ==
    /\ StoreTypeOK
    /\ pc \in [Callers -> {"idle", "start", "prepare", "transition"}]
    /\ req \in [Callers -> Requests \cup {None}]
    /\ prepared \in [Callers -> States \cup {None}]
    /\ prepares \in [Callers -> Nat]
    /\ reply \in [Callers -> Codes \cup {None}]
    /\ answers \in [Keys -> SUBSET Answers]
    /\ received \in 0..MaxRequests

\* process_service.py:132-133, "Prepare now (once)": a request runs detection
\* and masking at most once, also when its state expires under it.
PrepareOnce == \A w \in Callers : prepares[w] <= 1

\* The state of key k: what a transition past its read section has in hand,
\* even if the entry expires meanwhile, and otherwise the entry.
StateOf(k) ==
    LET holders == {w \in Callers : /\ stage[w] \in {"callback", "write"}
                                    /\ keyOf[w] = k
                                    /\ current[w] # None}
    IN  IF holders # {} THEN current[CHOOSE w \in holders : TRUE]
        ELSE IF HasKey(data, k) THEN data[IndexOf(data, k)].val
        ELSE None

MappingOf(s) ==
    IF s = None
    THEN None
    ELSE [original |-> s.original, masked |-> s.masked, status |-> s.status]

Lifecycle == INSTANCE RestorationLifecycle
             WITH mapping <- [k \in Keys |-> MappingOf(StateOf(k))]

\* Idempotency and restoration as clients see them (docs/architecture.md:57-60):
\* whatever interleaving of retries, rival originals and late requests produced
\* them, the 200 answers from one mapping of a key are a single mask for a
\* single original, and demasking that mask gives that original back.
RoundTrip == Lifecycle!RoundTrip

\* The service on this store implements the lifecycle it promises: a key's
\* mapping is created once, confirmed, demasked and forgotten as a whole.
ImplementsLifecycle == Lifecycle!Spec

\* A consumer whose policy disables demasking is never answered an original.
DisabledNeverDemasked ==
    \A k \in Keys :
        ~DemaskingEnabled[ConsumerOf(k)] =>
            \A a \in answers[k] : a.op = "MASK"

\* Every request is answered: no thread waits for ever for a stripe, whoever
\* raises while holding one.
RequestsAnswered ==
    \A w \in Callers : pc[w] # "idle" ~> pc[w] = "idle"
=============================================================================
