------------------------- MODULE ProcessRedis_proofs -------------------------
(***************************************************************************)
(* POST /process on Redis, for every number of workers, consumers, keys,   *)
(* texts, retries, faults and restarts: types, what clients are answered,  *)
(* and the lifecycle it implements.                                        *)
(*                                                                         *)
(* The argument: the store lets a transaction through only on the state it *)
(* was computed from (StoreInv); the transaction, sent or left behind, is  *)
(* one _transition may return for that state (RequestInv, OrphanFollows);  *)
(* and the state's hash is that of its original (StoredMade), so that the  *)
(* payload that confirms a mask is the original.                           *)
(***************************************************************************)
EXTENDS ProcessRedis, RedisStore_proofs

\* A worker inside transition() works on the key of its request; what it has
\* prepared and what its callback returned are what _prepare_mask and
\* _transition may make of that request.
RequestOK(w) ==
    /\ pc[w] # "idle" => req[w] \in Requests
    /\ stage[w] # "idle" => pc[w] = "transition" /\ keyOf[w] = req[w].key
    /\ pc[w] \in {"idle", "lookup", "prepare"} => prepared[w] = None
    /\ prepared[w] # None =>
          prepared[w] \in PrepareMask(ConsumerOf(req[w].key), req[w].payload)
    /\ stage[w] = "exec" => newState[w] \in Returned(w)

RequestInv == \A w \in Callers : RequestOK(w)

\* State new is one that _transition may return for key k in state s, whatever
\* the payload and the policy.
Follows(k, s, new) ==
    IF s = None
    THEN \E t \in Texts : new \in PrepareMask(ConsumerOf(k), t)
    ELSE /\ s.consumer = ConsumerOf(k)
         /\ new \in {s, [s EXCEPT !.status = "DEMASKED"]}

\* A transaction left behind was one a worker might have committed.
OrphanFollows ==
    \A w \in Callers :
        orphan[w] # None => Follows(orphan[w].key, orphan[w].base, orphan[w].new)

\* A state of the key's own consumer was built by _prepare_mask.
Made(k, s) ==
    s # None /\ s.consumer = ConsumerOf(k) => s.hash = HashPayload[s.original]

StoredMade == \A k \in Keys : Made(k, Stored(k))

\* The inductive invariant.
ServiceInv ==
    /\ StoreInv
    /\ ServiceTypeOK
    /\ RequestInv
    /\ OrphanFollows
    /\ StoredMade
    /\ LegacyNeverExposed

-----------------------------------------------------------------------------
(* The decisions of the service.                                           *)

\* A key names a consumer with a policy.
LEMMA KeyConsumer == \A k \in Keys : ConsumerOf(k) \in Consumers
BY ServiceConstants DEF StateKeys, StateKey, ConsumerOf

\* The vocabularies of the store and of the service are the same.
LEMMA ValuesAreStates == Values = States /\ None \notin States
BY ServiceConstants, NoneIsNoState

\* What _prepare_mask builds of a payload.
LEMMA PreparedState ==
    ASSUME NEW c \in Consumers, NEW t \in Texts, NEW s \in PrepareMask(c, t)
    PROVE  /\ s \in States
           /\ s.original = t /\ s.hash = HashPayload[t]
           /\ s.status = "MASKED" /\ s.consumer = c
<1>1. PICK m \in MaskResults[c][t] :
        s = [hash |-> HashPayload[t], original |-> t, masked |-> m,
             status |-> "MASKED", consumer |-> c]
  BY DEF PrepareMask
<1>2. m \in Texts /\ HashPayload[t] \in Hashes
  BY ServiceConstants
<1>3. QED BY <1>1, <1>2 DEF States, Statuses

\* What _transition returns: a new state of the payload, the state it found,
\* confirmed by its original or its mask, or that state demasked by its mask.
LEMMA TransitionResult ==
    ASSUME NEW k \in Keys, NEW t \in Texts, NEW enabled \in BOOLEAN,
           NEW s \in States \cup {None},
           NEW p, p = None \/ p \in PrepareMask(ConsumerOf(k), t),
           NEW new \in Transition(s, ConsumerOf(k), t, p, enabled)
    PROVE  /\ new \in States
           /\ Follows(k, s, new)
           /\ s = None => new.status = "MASKED" /\ new.original = t
           /\ s # None /\ new.status = "MASKED" => new = s /\ HashPayload[t] = s.hash
           /\ s # None /\ new.status = "DEMASKED" =>
                 /\ new = [s EXCEPT !.status = "DEMASKED"]
                 /\ t = s.masked
                 /\ s.status = "DEMASKED" \/ enabled
<1>1. ConsumerOf(k) \in Consumers
  BY KeyConsumer
<1>2. CASE s = None
  <2>1. new \in PrepareMask(ConsumerOf(k), t)
    BY <1>2 DEF Transition
  <2>2. QED BY <1>1, <1>2, <2>1, PreparedState DEF Follows
<1>3. CASE s # None
  <2> DEFINE d == [s EXCEPT !.status = "DEMASKED"]
  <2>1. s \in States /\ d \in States /\ d.status = "DEMASKED"
    BY <1>3 DEF States, Statuses
  <2>2. /\ s.consumer = ConsumerOf(k)
        /\ new \in {s, d}
        /\ \/ new = s /\ Keeps(s, t)
           \/ new.status = "DEMASKED" /\ Demasks(s, t) /\ enabled
    BY <1>3 DEF Transition
  <2>3. s.status = "DEMASKED" => d = s
    BY <2>1 DEF States
  <2>4. new.status = "DEMASKED" => new = d
    BY <2>1, <2>2, <2>3
  <2>5. new.status = "MASKED" => new = s
    BY <2>1, <2>2
  <2> HIDE DEF d
  <2>6. QED
    BY <1>3, <2>1, <2>2, <2>4, <2>5 DEF Follows, Keeps, Demasks, d
<1>4. QED BY <1>2, <1>3

\* A state that follows one that was made was made, for the key's consumer.
LEMMA FollowsMade ==
    ASSUME NEW k \in Keys, NEW s \in States \cup {None}, NEW new,
           Follows(k, s, new), Made(k, s)
    PROVE  /\ new \in States
           /\ new.consumer = ConsumerOf(k)
           /\ Made(k, new)
<1>1. CASE s = None
  BY <1>1, KeyConsumer, PreparedState DEF Follows, Made
<1>2. CASE s # None
  BY <1>2, ValuesAreStates DEF Follows, Made, States, Statuses
<1>3. QED BY <1>1, <1>2

-----------------------------------------------------------------------------
(* Parts of the invariant that most steps leave alone.                     *)

\* A request is not disturbed by the steps of others.
LEMMA OthersOK ==
    ASSUME NEW d \in Callers, RequestOK(d),
           pc'[d] = pc[d], req'[d] = req[d], prepared'[d] = prepared[d],
           stage'[d] = stage[d], keyOf'[d] = keyOf[d],
           current'[d] = current[d], newState'[d] = newState[d],
           demasking' = demasking
    PROVE  RequestOK(d)'
BY DEF RequestOK, Returned

\* The fields of the type invariant that are the service's.
ServiceTypes ==
    /\ pc \in [Callers -> {"idle", "lookup", "prepare", "transition"}]
    /\ req \in [Callers -> Requests \cup {None}]
    /\ prepared \in [Callers -> States \cup {None}]
    /\ prepares \in [Callers -> Nat]
    /\ reply \in [Callers -> Codes \cup {None}]
    /\ answers \in [Keys -> SUBSET Answers]
    /\ received \in 0..MaxRequests
    /\ demasking \in [Consumers -> BOOLEAN]
    /\ redeploys \in 0..MaxRedeploys

\* A request that ends leaves its worker idle and everyone else as they were.
LEMMA ReplyOK ==
    ASSUME ServiceInv, NEW w \in Callers, NEW code \in Codes \cup {None},
           Reply(w, code), answers' \in [Keys -> SUBSET Answers],
           stage'[w] = "idle",
           \A d \in Callers \ {w} :
              /\ stage'[d] = stage[d] /\ keyOf'[d] = keyOf[d]
              /\ current'[d] = current[d] /\ newState'[d] = newState[d]
    PROVE  ServiceTypes' /\ RequestInv'
<1>1. ServiceTypes
  BY DEF ServiceInv, ServiceTypeOK, ServiceTypes
<1>2. ServiceTypes'
  BY <1>1 DEF ServiceTypes, Reply, policyVars
<1>3. RequestOK(w)'
  <2>1. pc'[w] = "idle" /\ prepared'[w] = None /\ stage'[w] = "idle"
    BY <1>1 DEF Reply, ServiceTypes
  <2>2. QED BY <2>1 DEF RequestOK
<1>4. ASSUME NEW d \in Callers \ {w} PROVE RequestOK(d)'
  <2>1. pc'[d] = pc[d] /\ req'[d] = req[d] /\ prepared'[d] = prepared[d]
    BY <1>1 DEF Reply, ServiceTypes
  <2>2. demasking' = demasking
    BY DEF Reply, policyVars
  <2>3. QED BY <2>1, <2>2, OthersOK DEF ServiceInv, RequestInv
<1>5. RequestInv'
  BY <1>3, <1>4 DEF RequestInv
<1>6. QED BY <1>2, <1>5

\* What a callback returned follows from what it was given.
LEMMA ExecFollows ==
    ASSUME ServiceInv, NEW w \in Callers, stage[w] = "exec"
    PROVE  /\ req[w] \in Requests
           /\ keyOf[w] = req[w].key
           /\ newState[w] \in States
           /\ Follows(keyOf[w], current[w], newState[w])
<1>1. req[w] \in Requests /\ keyOf[w] = req[w].key /\ newState[w] \in Returned(w)
  BY DEF ServiceInv, RequestInv, RequestOK
<1>2. req[w].key \in Keys /\ req[w].payload \in Texts
  BY <1>1 DEF Requests
<1>3. \/ prepared[w] = None
      \/ prepared[w] \in PrepareMask(ConsumerOf(req[w].key), req[w].payload)
  BY DEF ServiceInv, RequestInv, RequestOK
<1>4. current[w] \in States \cup {None}
  BY ValuesAreStates DEF ServiceInv, StoreInv, StoreTypeOK
<1>5. demasking[ConsumerOf(req[w].key)] \in BOOLEAN
  BY <1>2, KeyConsumer DEF ServiceInv, ServiceTypeOK
<1>6. QED BY <1>1, <1>2, <1>3, <1>4, <1>5, TransitionResult DEF Returned

\* A keyspace that did not change holds what it held.
LEMMA KeyspaceKept ==
    ASSUME ServiceInv, db' = db, answers' = answers
    PROVE  StoredMade' /\ LegacyNeverExposed'
BY DEF ServiceInv, StoredMade, Made, LegacyNeverExposed, Stored

\* One key is given a state, or none.
LEMMA KeySet ==
    ASSUME StoreTypeOK, NEW k \in Keys, NEW v \in States \cup {None},
           db' = [db EXCEPT ![k] = Record(v)]
    PROVE  /\ Stored(k)' = v
           /\ \A j \in Keys \ {k} : Stored(j)' = Stored(j)
<1>1. db'[k] = Record(v) /\ \A j \in Keys \ {k} : db'[j] = db[j]
  BY DEF StoreTypeOK
<1>2. (IF Record(v) = None THEN None ELSE Decode[Record(v)]) = v
  BY RecordType, ValuesAreStates
<1>3. QED BY <1>1, <1>2 DEF Stored

\* A step that gives a key a made state of its consumer, or none, and adds
\* answers to no other key, keeps what is stored in order.
LEMMA KeyspaceSet ==
    ASSUME ServiceInv, NEW k \in Keys, NEW v \in States \cup {None},
           db' = [db EXCEPT ![k] = Record(v)],
           Made(k, v), v = None \/ v.consumer = ConsumerOf(k),
           \A j \in Keys \ {k} : answers'[j] = answers[j]
    PROVE  StoredMade' /\ LegacyNeverExposed'
<1>1. /\ Stored(k)' = v
      /\ \A j \in Keys \ {k} : Stored(j)' = Stored(j)
  BY KeySet DEF ServiceInv, StoreInv
<1>2. StoredMade'
  BY <1>1 DEF StoredMade, Made, ServiceInv
<1>3. LegacyNeverExposed'
  BY <1>1 DEF LegacyNeverExposed, ServiceInv
<1>4. QED BY <1>2, <1>3

\* An orphan keeps its key, its base and its new state while it waits, and
\* a new one is what its worker had sent.
LEMMA OrphansKept ==
    ASSUME ServiceInv,
           \A d \in Callers : orphan'[d] # None =>
              \/ /\ orphan[d] # None
                 /\ orphan'[d].key = orphan[d].key
                 /\ orphan'[d].base = orphan[d].base
                 /\ orphan'[d].new = orphan[d].new
              \/ /\ stage[d] = "exec"
                 /\ orphan'[d].key = keyOf[d]
                 /\ orphan'[d].base = current[d]
                 /\ orphan'[d].new = newState[d]
    PROVE  OrphanFollows'
<1> SUFFICES ASSUME NEW d \in Callers, orphan'[d] # None
             PROVE  Follows(orphan'[d].key, orphan'[d].base, orphan'[d].new)
  BY DEF OrphanFollows, Follows
<1>1. ASSUME stage[d] = "exec" PROVE Follows(keyOf[d], current[d], newState[d])
  BY <1>1, ExecFollows
<1>2. ASSUME orphan[d] # None
      PROVE  Follows(orphan[d].key, orphan[d].base, orphan[d].new)
  BY <1>2 DEF ServiceInv, OrphanFollows
<1>3. QED BY <1>1, <1>2

\* A write marks orphans and changes nothing else of them; so does the commit
\* of another orphan.
LEMMA OrphansMarked ==
    ASSUME StoreTypeOK,
           \/ \E k \in Keys, r \in Records \cup {None} : Write(k, r)
           \/ \E c \in Callers : OrphanCommit(c)
    PROVE  \A d \in Callers : orphan'[d] # None =>
              /\ orphan[d] # None
              /\ orphan'[d].key = orphan[d].key
              /\ orphan'[d].base = orphan[d].base
              /\ orphan'[d].new = orphan[d].new
<1> SUFFICES ASSUME NEW d \in Callers, orphan'[d] # None
             PROVE  /\ orphan[d] # None
                    /\ orphan'[d].key = orphan[d].key
                    /\ orphan'[d].base = orphan[d].base
                    /\ orphan'[d].new = orphan[d].new
  OBVIOUS
<1>1. orphan[d] # None
  BY DEF Write, OrphanCommit
<1>2. orphan[d] \in Orphans
  BY <1>1 DEF StoreTypeOK
<1>3. \E f : orphan'[d] \in {orphan[d], [orphan[d] EXCEPT !.watch = f]}
  BY <1>1 DEF Write, OrphanCommit
<1>4. QED BY <1>1, <1>2, <1>3 DEF Orphans

\* A worker that leaves transition() or retries, and has perhaps left its
\* transaction behind: nothing changes for the others, and the orphans are
\* those that were there and the one it sent.
LEMMA BackOff ==
    ASSUME StoreTypeOK, NEW w \in Callers, Leave(w) \/ Retry(w)
    PROVE  /\ \A d \in Callers \ {w} :
                /\ stage'[d] = stage[d] /\ keyOf'[d] = keyOf[d]
                /\ current'[d] = current[d] /\ newState'[d] = newState[d]
           /\ Leave(w) => stage'[w] = "idle"
           /\ Retry(w) => stage'[w] = "watch" /\ keyOf'[w] = keyOf[w]
BY DEF StoreTypeOK, Leave, Retry

LEMMA Abandoned ==
    ASSUME StoreTypeOK, NEW w \in Callers, orphan' = orphan \/ Abandon(w)
    PROVE  \A d \in Callers : orphan'[d] # None =>
              \/ /\ orphan[d] # None
                 /\ orphan'[d].key = orphan[d].key
                 /\ orphan'[d].base = orphan[d].base
                 /\ orphan'[d].new = orphan[d].new
              \/ /\ stage[d] = "exec"
                 /\ orphan'[d].key = keyOf[d]
                 /\ orphan'[d].base = current[d]
                 /\ orphan'[d].new = newState[d]
BY DEF StoreTypeOK, Abandon

\* A fault that touches no transition only counts.
LEMMA FaultOnly ==
    ASSUME StoreInv, Fault, UNCHANGED <<db, watch, callVars, orphan>>
    PROVE  StoreInv'
<1>1. StoreTypeOK'
  BY RedisConstants DEF StoreInv, StoreTypeOK, Fault, callVars
<1>2. InAttempt' /\ AtomicTransition' /\ AtomicOrphan'
  BY DEF StoreInv, InAttempt, AtomicTransition, AtomicOrphan, Stored, callVars
<1>3. QED BY <1>1, <1>2 DEF StoreInv

\* The parts of the invariant together.
LEMMA Together ==
    ASSUME StoreInv', ServiceTypes', RequestInv', OrphanFollows',
           StoredMade', LegacyNeverExposed'
    PROVE  ServiceInv'
BY DEF ServiceInv, ServiceTypeOK, ServiceTypes, StoreInv

-----------------------------------------------------------------------------
(* The steps.                                                              *)

\* A request that ends without a write: an error, an overload, a dead worker.
LEMMA EndsUnwritten ==
    ASSUME ServiceInv, NEW w \in Callers, NEW code \in Codes \cup {None},
           Reply(w, code), UNCHANGED answers,
           \/ UNCHANGED storeVars /\ stage[w] = "idle"
           \/ Fault /\ UNCHANGED <<db, watch, callVars, orphan>> /\ stage[w] = "idle"
           \/ CallbackRaise(w) \/ Exhausted(w) \/ WatchLost(w) \/ Crash(w)
    PROVE  ServiceInv'
<1>1. StoreInv'
  BY FaultOnly, StoreNextInv DEF ServiceInv, StoreNext, TransitionStep
<1>2. /\ db' = db
      /\ orphan' = orphan \/ Abandon(w)
      /\ Leave(w) \/ (UNCHANGED callVars /\ stage[w] = "idle")
  BY DEF storeVars, callVars, CallbackRaise, Exhausted, WatchLost, Crash
<1>3. StoreTypeOK
  BY DEF ServiceInv, StoreInv
<1>4. /\ stage'[w] = "idle"
      /\ \A d \in Callers \ {w} :
            /\ stage'[d] = stage[d] /\ keyOf'[d] = keyOf[d]
            /\ current'[d] = current[d] /\ newState'[d] = newState[d]
  BY <1>2, <1>3, BackOff DEF callVars
<1>5. answers' \in [Keys -> SUBSET Answers]
  BY DEF ServiceInv, ServiceTypeOK
<1>6. ServiceTypes' /\ RequestInv'
  BY <1>4, <1>5, ReplyOK
<1>7. OrphanFollows'
  BY <1>2, <1>3, Abandoned, OrphansKept
<1>8. StoredMade' /\ LegacyNeverExposed'
  BY <1>2, KeyspaceKept
<1>9. QED BY <1>1, <1>6, <1>7, <1>8, Together

\* What Commit writes and answers: the state of the key becomes one that
\* follows from it, and the answer is that state's answer to the payload.
LEMMA CommitFacts ==
    ASSUME ServiceInv, NEW w \in Callers, Commit(w)
    PROVE  LET k == req[w].key
               t == req[w].payload
               new == newState[w]
               a == Outcome(new, t)
           IN  /\ k \in Keys /\ t \in Texts /\ new \in States
               /\ current[w] = Stored(k)
               /\ new \in Returned(w)
               /\ Follows(k, Stored(k), new)
               /\ Made(k, new) /\ new.consumer = ConsumerOf(k)
               /\ db' = [db EXCEPT ![k] = Record(new)]
               /\ Write(k, Record(new))
               /\ answers' = [answers EXCEPT ![k] =
                                IF Stored(k) = None THEN {a} ELSE answers[k] \cup {a}]
               /\ a \in Answers
<1> DEFINE k == req[w].key
           t == req[w].payload
           new == newState[w]
           a == Outcome(new, t)
<1>1. stage[w] = "exec" /\ watch[w] = "clean" /\ Write(keyOf[w], Record(new))
  BY DEF Commit, ExecCommit
<1>2. req[w] \in Requests /\ keyOf[w] = k /\ new \in States /\ Follows(k, current[w], new)
  BY <1>1, ExecFollows
<1>3. k \in Keys /\ t \in Texts
  BY <1>2 DEF Requests
<1>4. current[w] = Stored(k)
  BY <1>1, <1>2 DEF ServiceInv, StoreInv, AtomicTransition
<1>5. Stored(k) \in States \cup {None}
  BY <1>3, StoredType, ValuesAreStates DEF ServiceInv, StoreInv
<1>6. Made(k, Stored(k))
  BY <1>3 DEF ServiceInv, StoredMade
<1>7. Made(k, new) /\ new.consumer = ConsumerOf(k)
  BY <1>2, <1>3, <1>4, <1>5, <1>6, FollowsMade
<1>8. new \in Returned(w)
  BY <1>1 DEF ServiceInv, RequestInv, RequestOK
<1>9. db' = [db EXCEPT ![k] = Record(new)] /\ Write(k, Record(new))
  BY <1>1, <1>2 DEF Write
<1>10. answers' = [answers EXCEPT ![k] =
                     IF Stored(k) = None THEN {a} ELSE answers[k] \cup {a}]
  BY <1>4 DEF Commit
<1>11. a \in Answers
  BY <1>2, <1>3 DEF Outcome, Answers, States
<1>12. QED BY <1>2, <1>3, <1>4, <1>7, <1>8, <1>9, <1>10, <1>11

LEMMA CommitStep ==
    ASSUME ServiceInv, NEW w \in Callers, Commit(w)
    PROVE  ServiceInv'
<1> DEFINE k == req[w].key
           new == newState[w]
<1>1. StoreInv'
  BY StoreNextInv DEF ServiceInv, StoreNext, TransitionStep, Commit
<1>2. StoreTypeOK
  BY DEF ServiceInv, StoreInv
<1>3. /\ stage'[w] = "idle"
      /\ \A d \in Callers \ {w} :
            /\ stage'[d] = stage[d] /\ keyOf'[d] = keyOf[d]
            /\ current'[d] = current[d] /\ newState'[d] = newState[d]
  BY <1>2, BackOff DEF Commit, ExecCommit
<1>4. PICK A \in SUBSET Answers : answers' = [answers EXCEPT ![k] = A]
  <2> DEFINE a == Outcome(new, req[w].payload)
             A == IF Stored(k) = None THEN {a} ELSE answers[k] \cup {a}
  <2>1. k \in Keys /\ a \in Answers /\ answers' = [answers EXCEPT ![k] = A]
    BY CommitFacts
  <2>2. answers[k] \subseteq Answers
    BY <2>1 DEF ServiceInv, ServiceTypeOK
  <2>3. A \in SUBSET Answers
    BY <2>1, <2>2
  <2> HIDE DEF A
  <2>4. QED BY <2>1, <2>3
<1>5. /\ answers' \in [Keys -> SUBSET Answers]
      /\ \A j \in Keys \ {k} : answers'[j] = answers[j]
  BY <1>4 DEF ServiceInv, ServiceTypeOK
<1>6. Reply(w, 200) /\ 200 \in Codes
  BY DEF Commit, Codes
<1>7. ServiceTypes' /\ RequestInv'
  BY <1>3, <1>5, <1>6, ReplyOK
<1>8. Record(new) \in Records \cup {None}
  BY CommitFacts, RecordType, ValuesAreStates
<1>9. OrphanFollows'
  BY <1>2, <1>8, CommitFacts, OrphansMarked, OrphansKept
<1>10. StoredMade' /\ LegacyNeverExposed'
  BY <1>5, CommitFacts, KeyspaceSet
<1>11. QED BY <1>1, <1>7, <1>9, <1>10, Together

\* A transaction left behind writes what follows from the state it finds.
LEMMA OrphanFacts ==
    ASSUME ServiceInv, NEW w \in Callers, OrphanCommit(w)
    PROVE  LET k == orphan[w].key
               new == orphan[w].new
           IN  /\ k \in Keys /\ new \in States
               /\ Stored(k) \in States \cup {None}
               /\ Stored(k) = None <=> db[k] = None
               /\ Follows(k, Stored(k), new)
               /\ Made(k, new) /\ new.consumer = ConsumerOf(k)
               /\ db' = [db EXCEPT ![k] = Record(new)]
<1> DEFINE k == orphan[w].key
           new == orphan[w].new
<1>1. orphan[w] # None /\ orphan[w].watch = "clean" /\ orphan[w] \in Orphans
  BY DEF OrphanCommit, ServiceInv, StoreInv, StoreTypeOK
<1>2. k \in Keys
  BY <1>1 DEF Orphans
<1>3. orphan[w].base = Stored(k)
  BY <1>1 DEF ServiceInv, StoreInv, AtomicOrphan
<1>4. Follows(k, Stored(k), new)
  BY <1>1, <1>3 DEF ServiceInv, OrphanFollows
<1>5. Stored(k) \in States \cup {None} /\ Made(k, Stored(k))
  BY <1>2, StoredType, ValuesAreStates DEF ServiceInv, StoreInv, StoredMade
<1>6. new \in States /\ Made(k, new) /\ new.consumer = ConsumerOf(k)
  BY <1>2, <1>4, <1>5, FollowsMade
<1>7. Stored(k) = None <=> db[k] = None
  BY <1>2, RedisConstants, NoneIsNoState DEF Stored, ServiceInv, StoreInv, StoreTypeOK
<1>8. db' = [db EXCEPT ![k] = Record(new)]
  BY DEF OrphanCommit
<1>9. QED BY <1>2, <1>4, <1>5, <1>6, <1>7, <1>8

LEMMA OrphanStep ==
    ASSUME ServiceInv, NEW w \in Callers, OrphanRuns(w)
    PROVE  ServiceInv'
<1> DEFINE k == orphan[w].key
<1>1. OrphanCommit(w)
  BY DEF OrphanRuns
<1>2. StoreInv'
  BY <1>1, StoreNextInv DEF ServiceInv, StoreNext
<1>3. StoreTypeOK /\ ServiceTypes /\ k \in Keys
  BY <1>1, OrphanFacts DEF ServiceInv, StoreInv, ServiceTypeOK, ServiceTypes
<1>4. /\ answers' \in [Keys -> SUBSET Answers]
      /\ \A j \in Keys \ {k} : answers'[j] = answers[j]
  BY <1>3 DEF OrphanRuns, ServiceTypes
<1>5. ServiceTypes'
  BY <1>3, <1>4 DEF OrphanRuns, ServiceTypes, policyVars
<1>6. RequestInv'
  <2>1. UNCHANGED <<callVars, pc, req, prepared, demasking>>
    BY <1>1 DEF OrphanRuns, OrphanCommit, policyVars
  <2>2. QED BY <2>1, OthersOK DEF ServiceInv, RequestInv, callVars
<1>7. OrphanFollows'
  BY <1>1, <1>3, OrphansMarked, OrphansKept
<1>8. StoredMade' /\ LegacyNeverExposed'
  BY <1>1, <1>4, OrphanFacts, KeyspaceSet
<1>9. QED BY <1>2, <1>5, <1>6, <1>7, <1>8, Together

\* A step of one request that ends nothing: the keyspace and the answers stay.
LEMMA QuietStep ==
    ASSUME ServiceInv, NEW w \in Callers, StoreInv', ServiceTypes',
           db' = db, answers' = answers, demasking' = demasking,
           orphan' = orphan \/ Abandon(w), RequestOK(w)',
           \A d \in Callers \ {w} :
              /\ pc'[d] = pc[d] /\ req'[d] = req[d] /\ prepared'[d] = prepared[d]
              /\ stage'[d] = stage[d] /\ keyOf'[d] = keyOf[d]
              /\ current'[d] = current[d] /\ newState'[d] = newState[d]
    PROVE  ServiceInv'
<1>1. RequestInv'
  <2>1. ASSUME NEW d \in Callers \ {w} PROVE RequestOK(d)'
    BY OthersOK DEF ServiceInv, RequestInv
  <2>2. QED BY <2>1 DEF RequestInv
<1>2. OrphanFollows'
  BY Abandoned, OrphansKept DEF ServiceInv, StoreInv
<1>3. StoredMade' /\ LegacyNeverExposed'
  BY KeyspaceKept
<1>4. QED BY <1>1, <1>2, <1>3, Together

\* What a request in hand is known to be.
LEMMA InHand ==
    ASSUME ServiceInv, NEW w \in Callers, pc[w] # "idle"
    PROVE  /\ req[w] \in Requests /\ req[w].key \in Keys /\ req[w].payload \in Texts
           /\ ConsumerOf(req[w].key) \in Consumers
<1>1. req[w] \in Requests
  BY DEF ServiceInv, RequestInv, RequestOK
<1>2. req[w].key \in Keys /\ req[w].payload \in Texts
  BY <1>1 DEF Requests
<1>3. QED BY <1>1, <1>2, KeyConsumer

\* Receiving, looking up and preparing.
LEMMA ServiceStep ==
    ASSUME ServiceInv, NEW w \in Callers,
           \/ \E k \in Keys, t \in Texts : Receive(w, k, t)
           \/ Lookup(w)
           \/ Prepare(w)
    PROVE  ServiceInv'
<1>1. UNCHANGED storeVars /\ answers' = answers /\ UNCHANGED policyVars
  BY DEF Receive, Lookup, Prepare
<1>2. StoreInv'
  BY <1>1, StoreNextInv DEF ServiceInv
<1>3. ServiceTypes /\ RequestOK(w)
  BY DEF ServiceInv, ServiceTypeOK, ServiceTypes, RequestInv
<1>4. stage[w] # "idle" => pc[w] = "transition"
  BY <1>3 DEF RequestOK
<1>5. CASE \E k \in Keys, t \in Texts : Receive(w, k, t)
  <2>1. PICK k \in Keys, t \in Texts : Receive(w, k, t)
    BY <1>5
  <2>2. [key |-> k, payload |-> t] \in Requests
    BY DEF Requests
  <2>3. ServiceTypes'
    BY <1>1, <1>3, <2>1, <2>2, RedisServiceConstants DEF Receive, ServiceTypes, policyVars
  <2>4. RequestOK(w)'
    <3>1. /\ pc[w] = "idle" /\ pc'[w] = "lookup" /\ req'[w] = [key |-> k, payload |-> t]
          /\ prepared' = prepared /\ stage' = stage
      BY <1>1, <1>3, <2>1 DEF Receive, ServiceTypes, storeVars
    <3>2. QED BY <1>3, <2>2, <3>1 DEF RequestOK
  <2>5. \A d \in Callers \ {w} :
          pc'[d] = pc[d] /\ req'[d] = req[d] /\ prepared'[d] = prepared[d]
    BY <1>3, <2>1 DEF Receive, ServiceTypes
  <2>6. QED BY <1>1, <1>2, <2>3, <2>4, <2>5, QuietStep DEF storeVars, policyVars
<1>6. CASE Lookup(w)
  <2>1. ServiceTypes'
    BY <1>1, <1>3, <1>6 DEF Lookup, ServiceTypes, policyVars
  <2>2. RequestOK(w)'
    <3>1. /\ pc[w] = "lookup" /\ pc'[w] \in {"prepare", "transition"}
          /\ req' = req /\ prepared' = prepared /\ stage' = stage
      BY <1>1, <1>3, <1>6 DEF Lookup, ServiceTypes, storeVars
    <3>2. QED BY <1>3, <3>1 DEF RequestOK
  <2>3. \A d \in Callers \ {w} :
          pc'[d] = pc[d] /\ req'[d] = req[d] /\ prepared'[d] = prepared[d]
    BY <1>3, <1>6 DEF Lookup, ServiceTypes
  <2>4. QED BY <1>1, <1>2, <2>1, <2>2, <2>3, QuietStep DEF storeVars, policyVars
<1>7. CASE Prepare(w)
  <2>1. PICK s \in PrepareMask(ConsumerOf(req[w].key), req[w].payload) :
          prepared' = [prepared EXCEPT ![w] = s]
    BY <1>7 DEF Prepare
  <2>2. s \in States
    BY <1>7, <2>1, InHand, PreparedState DEF Prepare
  <2>3. ServiceTypes'
    BY <1>1, <1>3, <1>7, <2>1, <2>2 DEF Prepare, ServiceTypes, policyVars
  <2>4. RequestOK(w)'
    <3>1. /\ pc[w] = "prepare" /\ pc'[w] = "transition"
          /\ req' = req /\ prepared'[w] = s /\ stage' = stage
      BY <1>1, <1>3, <1>7, <2>1 DEF Prepare, ServiceTypes, storeVars
    <3>2. stage[w] = "idle"
      BY <1>4, <3>1 DEF ServiceInv, StoreInv, StoreTypeOK
    <3>3. QED BY <1>3, <2>1, <3>1, <3>2 DEF RequestOK
  <2>5. \A d \in Callers \ {w} :
          pc'[d] = pc[d] /\ req'[d] = req[d] /\ prepared'[d] = prepared[d]
    BY <1>3, <1>7, <2>1 DEF Prepare, ServiceTypes
  <2>6. QED BY <1>1, <1>2, <2>3, <2>4, <2>5, QuietStep DEF storeVars, policyVars
<1>8. QED BY <1>5, <1>6, <1>7

\* The steps of an attempt before its transaction is decided.
LEMMA AttemptStep ==
    ASSUME ServiceInv, NEW w \in Callers,
           \/ EnterTransition(w)
           \/ StoreStep(w)
           \/ ConnectionLost(w) /\ UNCHANGED serviceVars
    PROVE  ServiceInv'
<1>1. UNCHANGED serviceVars
  BY DEF EnterTransition, StoreStep
<1>2. StoreTypeOK /\ ServiceTypes /\ RequestOK(w)
  BY DEF ServiceInv, StoreInv, ServiceTypeOK, ServiceTypes, RequestInv
<1>3. UNCHANGED <<pc, req, prepared, answers, demasking>> /\ ServiceTypes'
  BY <1>1, <1>2 DEF serviceVars, policyVars, ServiceTypes
<1>4. CASE EnterTransition(w)
  <2>1. pc[w] = "transition" /\ TransitionStart(w, req[w].key)
    BY <1>4 DEF EnterTransition
  <2>2. StoreInv'
    <3>1. req[w].key \in Keys
      BY <2>1, InHand
    <3>2. QED BY <2>1, <3>1, StoreNextInv DEF ServiceInv, StoreNext
  <2>3. RequestOK(w)'
    BY <1>2, <1>3, <2>1 DEF TransitionStart, StoreTypeOK, RequestOK
  <2>4. /\ db' = db /\ orphan' = orphan
        /\ \A d \in Callers \ {w} :
              /\ stage'[d] = stage[d] /\ keyOf'[d] = keyOf[d]
              /\ current'[d] = current[d] /\ newState'[d] = newState[d]
    BY <1>2, <2>1 DEF TransitionStart, StoreTypeOK
  <2>5. QED BY <1>3, <2>2, <2>3, <2>4, QuietStep
<1>5. CASE Watch(w) \/ Read(w)
  <2>1. StoreInv'
    BY <1>5, StoreNextInv DEF ServiceInv, StoreNext, TransitionStep
  <2>2. /\ stage[w] \in {"watch", "read"} /\ stage'[w] \in {"read", "callback"}
        /\ keyOf' = keyOf
    BY <1>2, <1>5 DEF Watch, Read, StoreTypeOK
  <2>3. RequestOK(w)'
    BY <1>2, <1>3, <2>2 DEF RequestOK
  <2>4. /\ db' = db /\ orphan' = orphan
        /\ \A d \in Callers \ {w} :
              /\ stage'[d] = stage[d] /\ keyOf'[d] = keyOf[d]
              /\ current'[d] = current[d] /\ newState'[d] = newState[d]
    BY <1>2, <1>5 DEF Watch, Read, StoreTypeOK
  <2>5. QED BY <1>3, <2>1, <2>3, <2>4, QuietStep
<1>6. CASE ExecAbort(w) \/ ConnectionLost(w)
  <2>1. StoreInv'
    BY <1>6, StoreNextInv DEF ServiceInv, StoreNext, TransitionStep
  <2>2. /\ Retry(w) /\ stage[w] # "idle"
        /\ db' = db /\ (orphan' = orphan \/ Abandon(w))
    BY <1>6 DEF ExecAbort, ConnectionLost
  <2>3. /\ stage'[w] = "watch" /\ keyOf'[w] = keyOf[w]
        /\ \A d \in Callers \ {w} :
              /\ stage'[d] = stage[d] /\ keyOf'[d] = keyOf[d]
              /\ current'[d] = current[d] /\ newState'[d] = newState[d]
    BY <1>2, <2>2, BackOff
  <2>4. RequestOK(w)'
    BY <1>2, <1>3, <2>2, <2>3 DEF RequestOK
  <2>5. QED BY <1>3, <2>1, <2>2, <2>3, <2>4, QuietStep
<1>7. QED BY <1>4, <1>5, <1>6 DEF StoreStep

LEMMA CallbackStep ==
    ASSUME ServiceInv, NEW w \in Callers, CallbackReturns(w)
    PROVE  ServiceInv'
<1>1. PICK s \in Returned(w) : Callback(w, s)
  BY DEF CallbackReturns
<1>2. StoreTypeOK /\ ServiceTypes /\ RequestOK(w) /\ stage[w] = "callback"
  BY DEF ServiceInv, StoreInv, ServiceTypeOK, ServiceTypes, RequestInv, CallbackReturns
<1>3. pc[w] = "transition"
  BY <1>2 DEF RequestOK
<1>4. s \in States
  <2>1. req[w].key \in Keys /\ req[w].payload \in Texts
    BY <1>3, InHand
  <2>2. prepared[w] = None \/ prepared[w] \in PrepareMask(ConsumerOf(req[w].key), req[w].payload)
    BY <1>2 DEF RequestOK
  <2>3. current[w] \in States \cup {None}
    BY <1>2, ValuesAreStates DEF StoreTypeOK
  <2>4. demasking[ConsumerOf(req[w].key)] \in BOOLEAN
    BY <1>2, <2>1, KeyConsumer DEF ServiceTypes
  <2>5. QED BY <1>1, <2>1, <2>2, <2>3, <2>4, TransitionResult DEF Returned
<1>5. StoreInv'
  <2>1. s \in Values
    BY <1>4, ValuesAreStates
  <2>2. QED BY <1>1, <2>1, StoreNextInv DEF ServiceInv, StoreNext, TransitionStep
<1>6. UNCHANGED <<pc, req, prepared, reply, answers, received, demasking, redeploys>>
  BY DEF CallbackReturns, policyVars
<1>7. ServiceTypes'
  <2>1. prepares' \in [Callers -> Nat]
    BY <1>2 DEF CallbackReturns, ServiceTypes
  <2>2. QED BY <1>2, <1>6, <2>1 DEF ServiceTypes
<1>8. /\ db' = db /\ orphan' = orphan /\ keyOf' = keyOf /\ current' = current
      /\ stage'[w] = "exec" /\ newState'[w] = s
      /\ \A d \in Callers \ {w} : stage'[d] = stage[d] /\ newState'[d] = newState[d]
  BY <1>1, <1>2 DEF Callback, StoreTypeOK
<1>9. RequestOK(w)'
  BY <1>1, <1>2, <1>6, <1>8 DEF RequestOK, Returned
<1>10. QED BY <1>5, <1>6, <1>7, <1>8, <1>9, QuietStep

\* What nobody asked for: expiry, a transaction that is dropped, a restart.
LEMMA OtherStep ==
    ASSUME ServiceInv,
           \/ \E k \in Keys : Expire(k) /\ UNCHANGED serviceVars
           \/ \E w \in Callers : OrphanDrop(w) /\ UNCHANGED serviceVars
           \/ \E c \in Consumers : Redeploy(c)
           \/ UNCHANGED vars
    PROVE  ServiceInv'
<1>1. ServiceTypes /\ StoreTypeOK
  BY DEF ServiceInv, StoreInv, ServiceTypeOK, ServiceTypes
<1>2. ASSUME UNCHANGED <<serviceVars, callVars>> PROVE ServiceTypes' /\ RequestInv'
  <2>1. ServiceTypes'
    BY <1>1, <1>2 DEF serviceVars, policyVars, ServiceTypes
  <2>2. RequestInv'
    BY <1>2, OthersOK DEF ServiceInv, RequestInv, serviceVars, policyVars, callVars
  <2>3. QED BY <2>1, <2>2
<1>3. ASSUME NEW k \in Keys, Expire(k), UNCHANGED serviceVars PROVE ServiceInv'
  <2>1. StoreInv'
    BY <1>3, StoreNextInv DEF ServiceInv, StoreNext
  <2>2. ServiceTypes' /\ RequestInv'
    BY <1>2, <1>3 DEF Expire
  <2>3. Write(k, None) /\ db' = [db EXCEPT ![k] = Record(None)]
    BY <1>3 DEF Expire, Write, Record
  <2>4. OrphanFollows'
    BY <1>1, <2>3, OrphansMarked, OrphansKept
  <2>5. StoredMade' /\ LegacyNeverExposed'
    BY <1>3, <2>3, KeyspaceSet DEF Made, serviceVars
  <2>6. QED BY <2>1, <2>2, <2>4, <2>5, Together
<1>4. ASSUME NEW w \in Callers, OrphanDrop(w), UNCHANGED serviceVars PROVE ServiceInv'
  <2>1. StoreInv'
    BY <1>4, StoreNextInv DEF ServiceInv, StoreNext
  <2>2. ServiceTypes' /\ RequestInv'
    BY <1>2, <1>4 DEF OrphanDrop
  <2>3. OrphanFollows'
    BY <1>1, <1>4, OrphansKept DEF OrphanDrop, StoreTypeOK
  <2>4. StoredMade' /\ LegacyNeverExposed'
    BY <1>4, KeyspaceKept DEF OrphanDrop, serviceVars
  <2>5. QED BY <2>1, <2>2, <2>3, <2>4, Together
<1>5. ASSUME NEW c \in Consumers, Redeploy(c) PROVE ServiceInv'
  <2>1. /\ UNCHANGED <<storeVars, pc, req, prepared, prepares, reply, answers, received>>
        /\ \A w \in Callers : pc[w] = "idle"
    BY <1>5 DEF Redeploy
  <2>2. StoreInv'
    BY <2>1, StoreNextInv DEF ServiceInv
  <2>3. ServiceTypes'
    <3>1. demasking' \in [Consumers -> BOOLEAN]
      BY <1>1, <1>5 DEF Redeploy, ServiceTypes
    <3>2. redeploys' \in 0..MaxRedeploys
      BY <1>1, <1>5, RedisServiceConstants DEF Redeploy, ServiceTypes
    <3>3. QED BY <1>1, <2>1, <3>1, <3>2 DEF ServiceTypes
  <2>4. RequestInv'
    <3>1. \A w \in Callers : stage[w] # "exec"
      BY <2>1 DEF ServiceInv, RequestInv, RequestOK
    <3>2. QED BY <2>1, <3>1 DEF ServiceInv, RequestInv, RequestOK, storeVars
  <2>5. OrphanFollows'
    BY <2>1, OrphansKept DEF storeVars
  <2>6. StoredMade' /\ LegacyNeverExposed'
    BY <2>1, KeyspaceKept DEF storeVars
  <2>7. QED BY <2>2, <2>3, <2>4, <2>5, <2>6, Together
<1>6. CASE UNCHANGED vars
  <2>1. StoreInv'
    BY <1>6, StoreNextInv DEF ServiceInv, vars
  <2>2. ServiceTypes' /\ RequestInv'
    BY <1>2, <1>6 DEF vars, storeVars, callVars
  <2>3. OrphanFollows'
    BY <1>6, OrphansKept DEF vars, storeVars
  <2>4. StoredMade' /\ LegacyNeverExposed'
    BY <1>6, KeyspaceKept DEF vars, storeVars, serviceVars
  <2>5. QED BY <2>1, <2>2, <2>3, <2>4, Together
<1>7. QED BY <1>3, <1>4, <1>5, <1>6

\* The initial states satisfy the invariant.
LEMMA ServiceInitInv == Init => ServiceInv
<1> SUFFICES ASSUME Init PROVE ServiceInv
  OBVIOUS
<1>1. StoreInv
  BY StoreInitInv DEF Init
<1>2. ServiceTypeOK
  BY <1>1, ServiceConstants, RedisServiceConstants DEF Init, ServiceTypeOK, StoreInv
<1>3. RequestInv /\ OrphanFollows
  BY DEF Init, StoreInit, RequestInv, RequestOK, OrphanFollows
<1>4. StoredMade
  BY RedisServiceConstants DEF Init, StoreInit, StoredMade, Made, Stored
<1>5. LegacyNeverExposed
  BY DEF Init, LegacyNeverExposed
<1>6. QED BY <1>1, <1>2, <1>3, <1>4, <1>5 DEF ServiceInv

\* Every step keeps it.
LEMMA ServiceNextInv == ServiceInv /\ [Next]_vars => ServiceInv'
<1> SUFFICES ASSUME ServiceInv, [Next]_vars PROVE ServiceInv'
  OBVIOUS
<1>1. ASSUME NEW w \in Callers,
             \/ LookupLost(w) \/ PrepareRaises(w) \/ CallbackRaises(w)
             \/ Overload(w) \/ TransitionFails(w) \/ WorkerDies(w)
      PROVE  ServiceInv'
  <2>1. stage[w] # "idle" => pc[w] = "transition"
    BY DEF ServiceInv, RequestInv, RequestOK
  <2>2. {200, 422, 429, 500} \subseteq Codes
    BY DEF Codes
  <2>3. CASE LookupLost(w)
    BY <2>1, <2>2, <2>3, EndsUnwritten DEF LookupLost
  <2>4. CASE PrepareRaises(w)
    BY <2>1, <2>2, <2>4, EndsUnwritten DEF PrepareRaises
  <2>5. CASE CallbackRaises(w)
    <3>1. TransitionError(current[w], ConsumerOf(req[w].key), req[w].payload) \in Codes
      BY DEF TransitionError, Codes
    <3>2. QED BY <2>5, <3>1, EndsUnwritten DEF CallbackRaises
  <2>6. CASE Overload(w)
    BY <2>2, <2>6, EndsUnwritten DEF Overload
  <2>7. CASE TransitionFails(w)
    BY <2>2, <2>7, EndsUnwritten DEF TransitionFails
  <2>8. CASE WorkerDies(w)
    BY <2>8, EndsUnwritten DEF WorkerDies
  <2>9. QED BY <1>1, <2>3, <2>4, <2>5, <2>6, <2>7, <2>8
<1>2. ASSUME NEW w \in Callers,
             \/ Lookup(w) \/ Prepare(w) \/ \E k \in Keys, t \in Texts : Receive(w, k, t)
      PROVE  ServiceInv'
  BY <1>2, ServiceStep
<1>3. ASSUME NEW w \in Callers, EnterTransition(w) \/ StoreStep(w) PROVE ServiceInv'
  BY <1>3, AttemptStep
<1>4. ASSUME NEW w \in Callers, CallbackReturns(w) PROVE ServiceInv'
  BY <1>4, CallbackStep
<1>5. ASSUME NEW w \in Callers, Commit(w) PROVE ServiceInv'
  BY <1>5, CommitStep
<1>6. ASSUME NEW w \in Callers, OrphanRuns(w) PROVE ServiceInv'
  BY <1>6, OrphanStep
<1>7. CASE Disturbance
  BY <1>7, AttemptStep, OtherStep DEF Disturbance
<1>8. CASE \E c \in Consumers : Redeploy(c)
  BY <1>8, OtherStep
<1>9. CASE Finished \/ UNCHANGED vars
  BY <1>9, OtherStep DEF Finished
<1>10. QED
  BY <1>1, <1>2, <1>3, <1>4, <1>5, <1>6, <1>7, <1>8, <1>9 DEF Next, WorkerStep

\* The inductive invariant holds of every reachable state.
THEOREM ServiceInvariance == Spec => []ServiceInv
BY ServiceInitInv, ServiceNextInv, PTL DEF Spec

\* Every variable of the service and of its store keeps its type.
THEOREM RedisServiceTypeCorrect == Spec => []ServiceTypeOK
<1>1. ServiceInv => ServiceTypeOK
  BY DEF ServiceInv
<1>2. QED BY <1>1, ServiceInvariance, PTL

\* process_service.py:136-137: a record of another consumer, or of none, that
\* the store held before is never answered from.
THEOREM RedisLegacyNeverExposed == Spec => []LegacyNeverExposed
<1>1. ServiceInv => LegacyNeverExposed
  BY DEF ServiceInv
<1>2. QED BY <1>1, ServiceInvariance, PTL

\* What Commit answers, by the state it finds and the one it writes.
LEMMA CommitAnswer ==
    ASSUME ServiceInv, NEW w \in Callers, Commit(w)
    PROVE  LET k == req[w].key
               s == Stored(k)
               new == newState[w]
               a == Outcome(new, req[w].payload)
           IN  /\ s = None =>
                     /\ new.status = "MASKED"
                     /\ a = [op |-> "MASK", payload |-> new.original, result |-> new.masked]
               /\ s # None =>
                     \/ /\ new = s /\ s.status = "MASKED"
                        /\ a = [op |-> "MASK", payload |-> s.original, result |-> s.masked]
                     \/ /\ new = [s EXCEPT !.status = "DEMASKED"]
                        /\ a = [op |-> "DEMASK", payload |-> s.masked, result |-> s.original]
                        /\ s.status = "DEMASKED" \/ demasking[ConsumerOf(k)]
<1> DEFINE k == req[w].key
           t == req[w].payload
           s == Stored(k)
           new == newState[w]
           a == Outcome(new, t)
           enabled == demasking[ConsumerOf(k)]
<1>1. /\ k \in Keys /\ t \in Texts /\ new \in States
      /\ current[w] = s /\ new \in Returned(w) /\ Follows(k, s, new)
  BY CommitFacts
<1>2. s \in States \cup {None} /\ Made(k, s)
  BY <1>1, StoredType, ValuesAreStates DEF ServiceInv, StoreInv, StoredMade
<1>3. enabled \in BOOLEAN
  BY <1>1, KeyConsumer DEF ServiceInv, ServiceTypeOK
<1>4. prepared[w] = None \/ prepared[w] \in PrepareMask(ConsumerOf(k), t)
  BY DEF ServiceInv, RequestInv, RequestOK
<1>5. new \in Transition(s, ConsumerOf(k), t, prepared[w], enabled)
  BY <1>1 DEF Returned
<1>6. /\ s = None => new.status = "MASKED" /\ new.original = t
      /\ s # None /\ new.status = "MASKED" => new = s /\ HashPayload[t] = s.hash
      /\ s # None /\ new.status = "DEMASKED" =>
            /\ new = [s EXCEPT !.status = "DEMASKED"]
            /\ t = s.masked
            /\ s.status = "DEMASKED" \/ enabled
  BY <1>1, <1>2, <1>3, <1>4, <1>5, TransitionResult
<1>7. new.status \in {"MASKED", "DEMASKED"}
  BY <1>1 DEF States, Statuses
<1>8. CASE s = None
  <2>1. new.status = "MASKED" /\ new.original = t
    BY <1>6, <1>8
  <2>2. a = [op |-> "MASK", payload |-> new.original, result |-> new.masked]
    BY <2>1 DEF Outcome
  <2>3. QED BY <1>8, <2>1, <2>2
<1>9. CASE s # None /\ new.status = "MASKED"
  <2>1. new = s /\ HashPayload[t] = s.hash
    BY <1>6, <1>9
  <2>2. s \in States /\ s.consumer = ConsumerOf(k)
    BY <1>1, <1>2, <1>9 DEF Follows
  <2>3. s.hash = HashPayload[s.original] /\ s.original \in Texts
    BY <1>2, <1>9, <2>2 DEF Made, States
  <2>4. t = s.original
    BY <1>1, <2>1, <2>3, ServiceConstants
  <2>5. a = [op |-> "MASK", payload |-> s.original, result |-> s.masked]
    BY <1>9, <2>1, <2>4 DEF Outcome
  <2>6. QED BY <1>9, <2>1, <2>5
<1>10. CASE s # None /\ new.status = "DEMASKED"
  <2>1. /\ new = [s EXCEPT !.status = "DEMASKED"]
        /\ t = s.masked
        /\ s.status = "DEMASKED" \/ enabled
    BY <1>6, <1>10
  <2>2. new.original = s.original
    BY <1>2, <1>10, <2>1 DEF States
  <2>3. a = [op |-> "DEMASK", payload |-> s.masked, result |-> s.original]
    BY <1>10, <2>1, <2>2 DEF Outcome
  <2>4. QED BY <1>10, <2>1, <2>3
<1>11. QED BY <1>7, <1>8, <1>9, <1>10

\* Only a commit adds an answer.
LEMMA OnlyCommitAnswers ==
    ASSUME ServiceInv, [Next]_vars, NEW k \in Keys, NEW a \in answers'[k] \ answers[k]
    PROVE  \E w \in Callers : Commit(w) /\ k = req[w].key
<1>1. answers \in [Keys -> SUBSET Answers]
  BY DEF ServiceInv, ServiceTypeOK
<1>2. answers' # answers
  OBVIOUS
<1>3. \/ \E w \in Callers : Commit(w)
      \/ \E w \in Callers : OrphanRuns(w)
      \/ answers' = answers
  BY DEF Next, WorkerStep, Disturbance, Redeploy, LookupLost, TransitionFails, WorkerDies,
         Receive, Lookup, Prepare, PrepareRaises, EnterTransition, StoreStep,
         CallbackReturns, CallbackRaises, Overload, Finished, vars, serviceVars
<1>4. ASSUME NEW w \in Callers, OrphanRuns(w) PROVE FALSE
  <2>1. orphan[w].key \in Keys
    BY <1>4, OrphanFacts DEF OrphanRuns
  <2>2. QED BY <1>1, <1>4, <2>1 DEF OrphanRuns
<1>5. ASSUME NEW w \in Callers, Commit(w) PROVE k = req[w].key
  <2>1. PICK A : answers' = [answers EXCEPT ![req[w].key] = A]
    BY <1>5 DEF Commit
  <2>2. QED BY <1>1, <2>1
<1>6. QED BY <1>2, <1>3, <1>4, <1>5

\* process_service.py:182-183, across restarts that change the policy: while
\* demasking is disabled for a consumer, an original is answered only from a
\* mapping that was demasked before.
THEOREM RedisDisabledOpensNothing == Spec => DisabledOpensNothing
<1> DEFINE Opens == \A k \in Keys : \A a \in answers'[k] \ answers[k] :
                      a.op = "DEMASK" => \/ demasking[ConsumerOf(k)]
                                         \/ Stored(k).status = "DEMASKED"
<1>1. ServiceInv /\ [Next]_vars => [Opens]_vars
  <2> SUFFICES ASSUME ServiceInv, [Next]_vars,
                      NEW k \in Keys, NEW a \in answers'[k] \ answers[k], a.op = "DEMASK"
               PROVE  demasking[ConsumerOf(k)] \/ Stored(k).status = "DEMASKED"
    OBVIOUS
  <2>1. PICK w \in Callers : Commit(w) /\ k = req[w].key
    BY OnlyCommitAnswers
  <2> DEFINE b == Outcome(newState[w], req[w].payload)
             A == IF Stored(k) = None THEN {b} ELSE answers[k] \cup {b}
  <2>2. answers' = [answers EXCEPT ![k] = A]
    BY <2>1, CommitFacts
  <2>3. answers'[k] = A
    BY <2>2 DEF ServiceInv, ServiceTypeOK
  <2>4. a = b
    BY <2>3
  <2>5. \/ b.op = "MASK"
        \/ Stored(k).status = "DEMASKED" \/ demasking[ConsumerOf(k)]
    <3>1. \/ b = [op |-> "MASK", payload |-> newState[w].original, result |-> newState[w].masked]
          \/ b = [op |-> "MASK", payload |-> Stored(k).original, result |-> Stored(k).masked]
          \/ Stored(k).status = "DEMASKED" \/ demasking[ConsumerOf(k)]
      BY <2>1, CommitAnswer
    <3> HIDE DEF b
    <3>2. QED BY <3>1
  <2>6. QED BY <2>4, <2>5
<1>2. QED BY <1>1, ServiceInvariance, PTL DEF Spec, DisabledOpensNothing

-----------------------------------------------------------------------------
(* The lifecycle.                                                          *)

\* The lifecycle's theorems, of the mappings that the records stand for.
Promise == INSTANCE RestorationLifecycle_proofs
           WITH mapping <- [k \in Keys |-> MappingOf(k)]

\* What the lifecycle sees of a state.
View(s) == [original |-> s.original, masked |-> s.masked, status |-> s.status]

\* The mapping of a key is well typed, and it is a view of the record when
\* that is the consumer's own.
LEMMA MappingView ==
    ASSUME ServiceInv, NEW k \in Keys
    PROVE  /\ MappingOf(k) \in Lifecycle!Mappings \cup {None}
           /\ Stored(k) = None => MappingOf(k) = None
           /\ Stored(k) # None /\ Stored(k).consumer = ConsumerOf(k) =>
                 /\ MappingOf(k) = View(Stored(k))
                 /\ MappingOf(k) # None
<1>1. Stored(k) \in States \cup {None}
  BY StoredType, ValuesAreStates DEF ServiceInv, StoreInv
<1>2. ASSUME NEW s \in States
      PROVE  View(s) \in Lifecycle!Mappings /\ View(s) # None
  BY ServiceConstants DEF View, States, Lifecycle!Mappings, Statuses, Lifecycle!Statuses
<1>3. QED BY <1>1, <1>2 DEF MappingOf, View

\* The view of a demasked state is the demasked view.
LEMMA ViewDemasked ==
    ASSUME NEW s \in States
    PROVE  View([s EXCEPT !.status = "DEMASKED"]) = [View(s) EXCEPT !.status = "DEMASKED"]
BY DEF View, States

\* A keyspace that did not change stands for the same mappings.
LEMMA MappingsKept ==
    ASSUME db' = db
    PROVE  [k \in Keys |-> MappingOf(k)]' = [k \in Keys |-> MappingOf(k)]
BY DEF MappingOf, Stored

\* A key given a state of its own consumer, or none, is given its view.
LEMMA MappingSet ==
    ASSUME ServiceInv, NEW k \in Keys, NEW v \in States \cup {None},
           db' = [db EXCEPT ![k] = Record(v)],
           v = None \/ v.consumer = ConsumerOf(k)
    PROVE  [j \in Keys |-> MappingOf(j)]' =
              [[j \in Keys |-> MappingOf(j)] EXCEPT ![k] =
                  IF v = None THEN None ELSE View(v)]
<1>1. /\ Stored(k)' = v
      /\ \A j \in Keys \ {k} : Stored(j)' = Stored(j)
  BY KeySet DEF ServiceInv, StoreInv
<1>2. /\ MappingOf(k)' = IF v = None THEN None ELSE View(v)
      /\ \A j \in Keys \ {k} : MappingOf(j)' = MappingOf(j)
  BY <1>1 DEF MappingOf, View
<1>3. QED BY <1>2

\* A commit creates a mapping, confirms it or demasks it.
LEMMA CommitRefines ==
    ASSUME ServiceInv, NEW w \in Callers, Commit(w)
    PROVE  Lifecycle!Next
<1> DEFINE k == req[w].key
           s == Stored(k)
           new == newState[w]
           a == Outcome(new, req[w].payload)
           M == [j \in Keys |-> MappingOf(j)]
<1>1. /\ k \in Keys /\ new \in States /\ new.consumer = ConsumerOf(k)
      /\ Follows(k, s, new)
      /\ db' = [db EXCEPT ![k] = Record(new)]
      /\ answers' = [answers EXCEPT ![k] = IF s = None THEN {a} ELSE answers[k] \cup {a}]
  BY CommitFacts
<1>2. s \in States \cup {None}
  BY <1>1, StoredType, ValuesAreStates DEF ServiceInv, StoreInv
<1>3. new # None
  BY <1>1, ValuesAreStates
<1>4. M' = [M EXCEPT ![k] = View(new)]
  BY <1>1, <1>3, MappingSet
<1>5. CASE s = None
  <2>1. new.status = "MASKED" /\ new.original \in Texts /\ new.masked \in Texts
    BY <1>1, <1>5, CommitAnswer DEF States
  <2>2. a = [op |-> "MASK", payload |-> new.original, result |-> new.masked]
    BY <1>5, CommitAnswer
  <2>3. M[k] = None
    BY <1>1, <1>5, MappingView
  <2>4. View(new) = [original |-> new.original, masked |-> new.masked, status |-> "MASKED"]
    BY <2>1 DEF View
  <2>5. answers' = [answers EXCEPT ![k] = {a}]
    BY <1>1, <1>5
  <2> HIDE DEF M, a
  <2>6. Lifecycle!Mask(k, new.original, new.masked)
    BY <1>4, <2>2, <2>3, <2>4, <2>5 DEF Lifecycle!Mask, Lifecycle!MaskAnswer, M
  <2>7. QED BY <1>1, <2>1, <2>6 DEF Lifecycle!Next
<1>6. CASE s # None
  <2>1. s \in States /\ s.consumer = ConsumerOf(k)
    BY <1>1, <1>2, <1>6 DEF Follows
  <2>2. M[k] = View(s) /\ M[k] # None
    BY <1>1, <1>6, <2>1, MappingView
  <2>3. answers' = [answers EXCEPT ![k] = answers[k] \cup {a}]
    BY <1>1, <1>6
  <2>4. CASE /\ new = s /\ s.status = "MASKED"
             /\ a = [op |-> "MASK", payload |-> s.original, result |-> s.masked]
    <3>1. M' = M
      BY <1>1, <1>4, <2>2, <2>4
    <3>2. a = Lifecycle!MaskAnswer(M[k]) /\ M[k].status = "MASKED"
      BY <2>2, <2>4 DEF View, Lifecycle!MaskAnswer
    <3> HIDE DEF M, a
    <3>3. Lifecycle!RetryMask(k)
      BY <2>2, <2>3, <3>1, <3>2 DEF Lifecycle!RetryMask, M
    <3>4. QED BY <1>1, <3>3 DEF Lifecycle!Next
  <2>5. CASE /\ new = [s EXCEPT !.status = "DEMASKED"]
             /\ a = [op |-> "DEMASK", payload |-> s.masked, result |-> s.original]
    <3>1. View(new) = [M[k] EXCEPT !.status = "DEMASKED"]
      BY <2>1, <2>2, <2>5, ViewDemasked
    <3>2. a = Lifecycle!DemaskAnswer(M[k])
      BY <2>2, <2>5 DEF View, Lifecycle!DemaskAnswer
    <3>3. M' = [M EXCEPT ![k] = [M[k] EXCEPT !.status = "DEMASKED"]]
      BY <1>4, <3>1
    <3> HIDE DEF M, a
    <3>4. Lifecycle!Demask(k)
      BY <2>2, <2>3, <3>2, <3>3 DEF Lifecycle!Demask, M
    <3>5. QED BY <1>1, <3>4 DEF Lifecycle!Next
  <2>6. QED BY <1>6, <2>4, <2>5, CommitAnswer
<1>7. QED BY <1>5, <1>6

\* A transaction left behind creates a mapping, demasks it or changes nothing,
\* without an answer.
LEMMA OrphanRefines ==
    ASSUME ServiceInv, NEW w \in Callers, OrphanRuns(w)
    PROVE  [Lifecycle!Next]_(Lifecycle!lifecycleVars)
<1> DEFINE k == orphan[w].key
           s == Stored(k)
           new == orphan[w].new
           M == [j \in Keys |-> MappingOf(j)]
<1>1. /\ k \in Keys /\ new \in States /\ new.consumer = ConsumerOf(k)
      /\ s \in States \cup {None} /\ (s = None <=> db[k] = None)
      /\ Follows(k, s, new)
      /\ db' = [db EXCEPT ![k] = Record(new)]
  BY OrphanFacts DEF OrphanRuns
<1>2. new # None
  BY <1>1, ValuesAreStates
<1>3. M' = [M EXCEPT ![k] = View(new)]
  BY <1>1, <1>2, MappingSet
<1>4. answers' = IF s = None THEN [answers EXCEPT ![k] = {}] ELSE answers
  BY <1>1 DEF OrphanRuns
<1>5. CASE s = None
  <2>1. PICK t \in Texts : new \in PrepareMask(ConsumerOf(k), t)
    BY <1>1, <1>5 DEF Follows
  <2>2. new.status = "MASKED"
    BY <1>1, <2>1, KeyConsumer, PreparedState
  <2>3. /\ new.original \in Texts /\ new.masked \in Texts
        /\ View(new) = [original |-> new.original, masked |-> new.masked, status |-> "MASKED"]
    BY <1>1, <2>2 DEF View, States
  <2>4. M[k] = None
    BY <1>1, <1>5, MappingView
  <2>5. answers' = [answers EXCEPT ![k] = {}]
    BY <1>4, <1>5
  <2> HIDE DEF M
  <2>6. Lifecycle!MaskUnanswered(k, new.original, new.masked)
    BY <1>3, <2>3, <2>4, <2>5 DEF Lifecycle!MaskUnanswered, M
  <2>7. QED BY <1>1, <2>3, <2>6 DEF Lifecycle!Next
<1>6. CASE s # None
  <2>1. s \in States /\ s.consumer = ConsumerOf(k) /\ new \in {s, [s EXCEPT !.status = "DEMASKED"]}
    BY <1>1, <1>6 DEF Follows
  <2>2. M[k] = View(s) /\ M[k] # None
    BY <1>1, <1>6, <2>1, MappingView
  <2>3. answers' = answers
    BY <1>4, <1>6
  <2>4. CASE new = s
    <3>1. M' = M
      BY <1>1, <1>3, <2>2, <2>4
    <3>2. QED BY <2>3, <3>1 DEF Lifecycle!lifecycleVars
  <2>5. CASE new = [s EXCEPT !.status = "DEMASKED"]
    <3>1. View(new) = [M[k] EXCEPT !.status = "DEMASKED"]
      BY <2>1, <2>2, <2>5, ViewDemasked
    <3>2. M' = [M EXCEPT ![k] = [M[k] EXCEPT !.status = "DEMASKED"]]
      BY <1>3, <3>1
    <3> HIDE DEF M
    <3>3. Lifecycle!DemaskUnanswered(k)
      BY <2>2, <2>3, <3>2 DEF Lifecycle!DemaskUnanswered, M
    <3>4. QED BY <1>1, <3>3 DEF Lifecycle!Next
  <2>6. QED BY <2>1, <2>4, <2>5
<1>7. QED BY <1>5, <1>6

\* Expiry forgets the mapping of one key.
LEMMA ExpireRefines ==
    ASSUME ServiceInv, NEW k \in Keys, Expire(k), UNCHANGED serviceVars
    PROVE  Lifecycle!Next
<1> DEFINE M == [j \in Keys |-> MappingOf(j)]
<1>1. db' = [db EXCEPT ![k] = Record(None)]
  BY DEF Expire, Write, Record
<1>2. M' = [M EXCEPT ![k] = None]
  BY <1>1, MappingSet
<1>3. M' = [j \in Keys |-> IF j \in {k} THEN None ELSE M[j]] /\ answers' = answers
  BY <1>2 DEF serviceVars
<1> HIDE DEF M
<1>4. Lifecycle!Expire({k})
  BY <1>3 DEF Lifecycle!Expire, M
<1>5. {k} \in SUBSET Keys
  OBVIOUS
<1>6. QED BY <1>4, <1>5 DEF Lifecycle!Next

\* Every step is a step of the lifecycle or invisible to it.
LEMMA StepRefines ==
    ServiceInv /\ [Next]_vars => [Lifecycle!Next]_(Lifecycle!lifecycleVars)
<1> SUFFICES ASSUME ServiceInv, [Next]_vars
             PROVE  [Lifecycle!Next]_(Lifecycle!lifecycleVars)
  OBVIOUS
<1>1. \/ \E w \in Callers : Commit(w)
      \/ \E w \in Callers : OrphanRuns(w)
      \/ \E k \in Keys : Expire(k) /\ UNCHANGED serviceVars
      \/ db' = db /\ answers' = answers
  <2>1. CASE Disturbance
    BY <2>1 DEF Disturbance, serviceVars, ConnectionLost, OrphanDrop
  <2>2. CASE (\E c \in Consumers : Redeploy(c)) \/ Finished \/ UNCHANGED vars
    BY <2>2 DEF Redeploy, Finished, vars, storeVars, serviceVars
  <2>3. ASSUME NEW w \in Callers,
               \/ LookupLost(w) \/ TransitionFails(w) \/ WorkerDies(w)
               \/ \E k \in Keys, t \in Texts : Receive(w, k, t)
        PROVE  db' = db /\ answers' = answers
    BY <2>3 DEF LookupLost, TransitionFails, WatchLost, WorkerDies, Crash, Receive, storeVars
  <2>4. ASSUME NEW w \in Callers, WorkerStep(w)
        PROVE  Commit(w) \/ (db' = db /\ answers' = answers)
    BY <2>4 DEF WorkerStep, Lookup, Prepare, PrepareRaises, EnterTransition, TransitionStart,
                StoreStep, Watch, Read, ExecAbort, CallbackReturns, Callback,
                CallbackRaises, CallbackRaise, Overload, Exhausted, storeVars, serviceVars
  <2>5. QED BY <2>1, <2>2, <2>3, <2>4 DEF Next
<1>2. ASSUME db' = db, answers' = answers PROVE UNCHANGED Lifecycle!lifecycleVars
  BY <1>2, MappingsKept DEF Lifecycle!lifecycleVars
<1>3. QED BY <1>1, <1>2, CommitRefines, OrphanRefines, ExpireRefines

\* POST /process on Redis implements the lifecycle that docs/architecture.md
\* promises, whatever the workers, the server and the connections do.
THEOREM RedisImplementsLifecycle == Spec => ImplementsLifecycle
<1>1. Init => Lifecycle!Init
  <2> SUFFICES ASSUME Init PROVE Lifecycle!Init
    OBVIOUS
  <2>1. ServiceInv
    BY ServiceInitInv
  <2>2. [k \in Keys |-> MappingOf(k)] \in [Keys -> Lifecycle!Mappings \cup {None}]
    BY <2>1, MappingView
  <2>3. QED BY <2>2 DEF Init, Lifecycle!Init
<1>2. QED
  BY <1>1, StepRefines, ServiceInvariance, PTL DEF Spec, ImplementsLifecycle, Lifecycle!Spec

\* docs/architecture.md:57-60 as clients see it, across processes, retries,
\* lost acknowledgements and crashes: the 200 answers from one mapping are one
\* mask for one original, and demasking that mask gives that original back.
THEOREM RedisRoundTrip == Spec => []RoundTrip
<1>1. Lifecycle!Init => Promise!Init
  BY DEF Lifecycle!Init, Promise!Init, Lifecycle!Mappings, Promise!Mappings,
         Lifecycle!Statuses, Promise!Statuses
<1>2. [Lifecycle!Next]_(Lifecycle!lifecycleVars) => [Promise!Next]_(Promise!lifecycleVars)
  BY DEF Lifecycle!Next, Promise!Next, Lifecycle!lifecycleVars, Promise!lifecycleVars,
         Lifecycle!Mask, Promise!Mask, Lifecycle!MaskUnanswered, Promise!MaskUnanswered,
         Lifecycle!RetryMask, Promise!RetryMask, Lifecycle!Demask, Promise!Demask,
         Lifecycle!DemaskUnanswered, Promise!DemaskUnanswered,
         Lifecycle!Expire, Promise!Expire, Lifecycle!MaskAnswer, Promise!MaskAnswer,
         Lifecycle!DemaskAnswer, Promise!DemaskAnswer
<1>3. Promise!RoundTrip => RoundTrip
  BY DEF RoundTrip, Promise!RoundTrip, Lifecycle!RoundTrip
<1>4. QED
  BY <1>1, <1>2, <1>3, RedisImplementsLifecycle, Promise!LifecycleRoundTrip, PTL
     DEF ImplementsLifecycle, Lifecycle!Spec, Promise!Spec
=============================================================================
