------------------------ MODULE ProcessMemory_proofs ------------------------
(***************************************************************************)
(* POST /process on the in-memory store, for every number of threads,      *)
(* consumers, keys, stripes, texts and entries and every TTL: types, what  *)
(* clients are answered, and the lifecycle it implements.                  *)
(*                                                                         *)
(* The argument: the stripe keeps others from a key between the sections   *)
(* of a transition (AtomicInv), expiry alone excepted; so what the write   *)
(* section stores is what _transition returned for the key's state, even   *)
(* if its entry has gone meanwhile (StateOf).  Every state stored was made *)
(* by _prepare_mask for the key's consumer (Good).                         *)
(***************************************************************************)
EXTENDS ProcessMemory, InMemoryStore_proofs

\* The sections of transition() between its read and its write.
Inside == {"callback", "write"}

\* A request in hand: what it has prepared, and how often, and what its
\* callback returned are what process() makes of it.
RequestOK(w) ==
    /\ pc[w] # "idle" => req[w] \in Requests
    /\ pc[w] \in {"prepare", "transition"} => req[w].payload # NoText
    /\ stage[w] # "idle" => pc[w] = "transition" /\ keyOf[w] = req[w].key
    /\ pc[w] # "transition" => prepared[w] = None
    /\ prepared[w] # None =>
          prepared[w] \in PrepareMask(ConsumerOf(req[w].key), req[w].payload)
    /\ prepares[w] = 0 \/ prepares[w] = 1
    /\ prepared[w] = None /\ stage[w] # "write" => prepares[w] = 0
    /\ stage[w] = "write" => newState[w] \in Returned(w)

RequestInv == \A w \in Callers : RequestOK(w)

\* A state as _prepare_mask makes it for key k and _transition leaves it.
Good(k, s) ==
    /\ s.consumer = ConsumerOf(k)
    /\ s.hash = HashPayload[s.original]
    /\ ~DemaskingEnabled[ConsumerOf(k)] => s.status = "MASKED"

DataGood == \A i \in 1..Len(data) : Good(data[i].key, data[i].val)

HandGood ==
    \A w \in Callers :
        stage[w] \in Inside /\ current[w] # None => Good(keyOf[w], current[w])

\* The inductive invariant.
ServiceInv ==
    /\ AtomicInv
    /\ ServiceTypeOK
    /\ RequestInv
    /\ DataGood
    /\ HandGood
    /\ DisabledNeverDemasked

-----------------------------------------------------------------------------
(* The decisions of the service.                                           *)

\* A key names a consumer with a policy.
LEMMA KeyConsumer == \A k \in Keys : ConsumerOf(k) \in Consumers
BY ServiceConstants DEF StateKeys, StateKey, ConsumerOf

\* The vocabularies of the store and of the service are the same.
LEMMA ValuesAreStates == Values = States /\ None \notin States
BY ServiceConstants, NoneIsNoState

\* What _prepare_mask builds of a payload.
LEMMA PreparedState ==
    ASSUME NEW c \in Consumers, NEW t \in Texts, NEW s \in PrepareMask(c, t)
    PROVE  /\ s \in States
           /\ s.original = t /\ s.hash = HashPayload[t]
           /\ s.status = "MASKED" /\ s.consumer = c
<1>1. PICK m \in MaskResults[c][t] :
        s = [hash |-> HashPayload[t], original |-> t, masked |-> m,
             status |-> "MASKED", consumer |-> c]
  BY DEF PrepareMask
<1>2. m \in Texts /\ HashPayload[t] \in Hashes
  BY ServiceConstants
<1>3. QED BY <1>1, <1>2 DEF States, Statuses

\* What _transition returns: a new state of the payload, the state it found,
\* confirmed by its original or its mask, or that state demasked by its mask.
\* It is good for the key when the state it found was.
Follows(k, t, s, new) ==
    /\ new \in States
    /\ Good(k, new)
    /\ s = None => new.status = "MASKED" /\ new.original = t
    /\ s # None /\ new.status = "MASKED" => new = s /\ t = s.original
    /\ s # None /\ new.status = "DEMASKED" =>
          /\ new = [s EXCEPT !.status = "DEMASKED"]
          /\ t = s.masked

LEMMA TransitionResult ==
    ASSUME NEW k \in Keys, NEW t \in Texts, NEW s \in States \cup {None},
           s = None \/ Good(k, s),
           NEW p, p = None \/ p \in PrepareMask(ConsumerOf(k), t),
           NEW new \in Transition(s, ConsumerOf(k), t, p, DemaskingEnabled[ConsumerOf(k)])
    PROVE  Follows(k, t, s, new)
<1>1. ConsumerOf(k) \in Consumers
  BY KeyConsumer
<1>2. CASE s = None
  <2>1. new \in PrepareMask(ConsumerOf(k), t)
    BY <1>2 DEF Transition
  <2>2. QED BY <1>1, <1>2, <2>1, PreparedState DEF Good, Follows
<1>3. CASE s # None
  <2> DEFINE d == [s EXCEPT !.status = "DEMASKED"]
  <2>1. /\ s \in States /\ s.original \in Texts
        /\ d \in States /\ d.status = "DEMASKED"
        /\ d.consumer = s.consumer /\ d.hash = s.hash /\ d.original = s.original
    BY <1>3 DEF States, Statuses
  <2>2. /\ s.consumer = ConsumerOf(k)
        /\ new \in {s, d}
        /\ \/ new = s /\ Keeps(s, t)
           \/ /\ new.status = "DEMASKED"
              /\ Demasks(s, t)
              /\ DemaskingEnabled[ConsumerOf(k)]
    BY <1>3 DEF Transition
  <2>3. s.status = "DEMASKED" => d = s
    BY <2>1 DEF States
  <2> HIDE DEF d
  <2>4. new.status = "DEMASKED" => new = d /\ t = s.masked
    BY <2>1, <2>2, <2>3 DEF Keeps, Demasks
  <2>5. new.status = "MASKED" => new = s /\ HashPayload[t] = s.hash
    BY <2>1, <2>2 DEF Keeps
  <2>6. s.hash = HashPayload[s.original]
    BY <1>3 DEF Good
  <2>7. HashPayload[t] = s.hash => t = s.original
    BY <2>1, <2>6, ServiceConstants
  <2>8. Good(k, new)
    BY <1>3, <2>1, <2>2 DEF Good
  <2>9. QED BY <1>3, <2>1, <2>2, <2>4, <2>5, <2>7, <2>8 DEF d, Follows
<1>4. QED BY <1>2, <1>3

-----------------------------------------------------------------------------
(* Parts of the invariant that most steps leave alone.                     *)

\* The steps of the service are calls of the lifecycle, and keep the store.
LEMMA StoreKept == AtomicInv /\ [LifecycleNext]_storeVars => AtomicInv'
BY AtomicStep, ControlStep, DataStep DEF AtomicInv, StoreInv, StoreNext

\* A request is not disturbed by the steps of others.
LEMMA OthersOK ==
    ASSUME NEW d \in Callers, RequestOK(d),
           pc'[d] = pc[d], req'[d] = req[d],
           prepared'[d] = prepared[d], prepares'[d] = prepares[d],
           stage'[d] = stage[d], keyOf'[d] = keyOf[d],
           current'[d] = current[d], newState'[d] = newState[d]
    PROVE  RequestOK(d)'
BY DEF RequestOK, Returned

\* The fields of the type invariant that are the service's.
ServiceTypes ==
    /\ pc \in [Callers -> {"idle", "start", "prepare", "transition"}]
    /\ req \in [Callers -> Requests \cup {None}]
    /\ prepared \in [Callers -> States \cup {None}]
    /\ prepares \in [Callers -> Nat]
    /\ reply \in [Callers -> Codes \cup {None}]
    /\ answers \in [Keys -> SUBSET Answers]
    /\ received \in 0..MaxRequests

\* The types of the store's control, one by one.
ControlTypes ==
    /\ stage \in [Callers -> Stages]
    /\ keyOf \in [Callers -> Keys \cup {None}]
    /\ current \in [Callers -> States \cup {None}]
    /\ newState \in [Callers -> States \cup {None}]

LEMMA InvTypes ==
    ASSUME ServiceInv PROVE ServiceTypes /\ ControlTypes /\ GoodData(data, now) /\ now \in Nat
BY ValuesAreStates, StoreConstants
   DEF ServiceInv, ServiceTypeOK, ServiceTypes, ControlTypes, AtomicInv, StoreInv,
       ControlInv, DataInv

\* The parts of the invariant together.
LEMMA Together ==
    ASSUME AtomicInv', ServiceTypes', RequestInv', DataGood', HandGood',
           DisabledNeverDemasked'
    PROVE  ServiceInv'
<1>1. StoreTypeOK'
  BY DEF AtomicInv, StoreInv, DataInv, ControlInv, StoreTypeOK, GoodData
<1>2. QED BY <1>1 DEF ServiceInv, ServiceTypeOK, ServiceTypes

\* A step that only takes entries away, and hands nobody a state but one of
\* them, keeps the states good.
Shrinks == \A j \in 1..Len(data') : \E i \in 1..Len(data) : data'[j] = data[i]

HandsOver ==
    \A d \in Callers : stage'[d] \in Inside =>
        /\ keyOf'[d] = keyOf[d]
        /\ \/ stage[d] \in Inside /\ current'[d] = current[d]
           \/ /\ stage[d] = "read"
              /\ \/ current'[d] = None
                 \/ \E i \in 1..Len(data) :
                        data[i].key = keyOf[d] /\ data[i].val = current'[d]

LEMMA HandsKept == ServiceInv /\ HandsOver => HandGood'
<1> SUFFICES ASSUME ServiceInv, HandsOver PROVE HandGood'
  OBVIOUS
<1>1. ASSUME NEW d \in Callers, stage'[d] \in Inside, current'[d] # None
      PROVE  Good(keyOf'[d], current'[d])
  BY <1>1 DEF HandsOver, HandGood, DataGood, ServiceInv
<1>2. QED BY <1>1 DEF HandGood, Good

LEMMA StatesKept ==
    ASSUME ServiceInv, Shrinks, HandsOver
    PROVE  DataGood' /\ HandGood'
<1>1. DataGood'
  BY DEF Shrinks, DataGood, ServiceInv, Good
<1>2. QED BY <1>1, HandsKept

\* Dictionaries that did not change have not grown, and callers whose section
\* did not change are handed nothing.
LEMMA SameShrinks == data' = data => Shrinks
BY DEF Shrinks

LEMMA SameHands == UNCHANGED <<stage, keyOf, current>> => HandsOver
BY DEF HandsOver

\* A step of one request, or of the clock, that answers nobody with 200.
LEMMA QuietStep ==
    ASSUME ServiceInv, NEW w \in Callers, [LifecycleNext]_storeVars, ServiceTypes',
           answers' = answers, Shrinks, HandsOver, RequestOK(w)',
           \A d \in Callers \ {w} :
              /\ pc'[d] = pc[d] /\ req'[d] = req[d]
              /\ prepared'[d] = prepared[d] /\ prepares'[d] = prepares[d]
              /\ stage'[d] = stage[d] /\ keyOf'[d] = keyOf[d]
              /\ current'[d] = current[d] /\ newState'[d] = newState[d]
    PROVE  ServiceInv'
<1>1. AtomicInv'
  BY StoreKept DEF ServiceInv
<1>2. RequestInv'
  <2>1. ASSUME NEW d \in Callers \ {w} PROVE RequestOK(d)'
    BY OthersOK DEF ServiceInv, RequestInv
  <2>2. QED BY <2>1 DEF RequestInv
<1>3. DataGood' /\ HandGood'
  BY StatesKept
<1>4. DisabledNeverDemasked'
  BY DEF ServiceInv, DisabledNeverDemasked
<1>5. QED BY <1>1, <1>2, <1>3, <1>4, Together

\* A request that ends leaves its worker idle and everyone else as they were.
LEMMA ReplyOK ==
    ASSUME ServiceInv, NEW w \in Callers, NEW code \in Codes,
           Reply(w, code), answers' \in [Keys -> SUBSET Answers], stage'[w] = "idle"
    PROVE  /\ ServiceTypes' /\ RequestOK(w)'
           /\ \A d \in Callers \ {w} :
                /\ pc'[d] = pc[d] /\ req'[d] = req[d]
                /\ prepared'[d] = prepared[d] /\ prepares'[d] = prepares[d]
<1>1. ServiceTypes
  BY InvTypes
<1>2. ServiceTypes'
  BY <1>1 DEF ServiceTypes, Reply
<1>3. RequestOK(w)'
  <2>1. /\ pc'[w] = "idle" /\ prepared'[w] = None /\ prepares'[w] = 0
        /\ stage'[w] = "idle"
    BY <1>1 DEF Reply, ServiceTypes
  <2>2. QED BY <2>1 DEF RequestOK
<1>4. QED BY <1>1, <1>2, <1>3 DEF Reply, ServiceTypes

\* Leaving transition() changes nothing for the others.
LEMMA LeaveAlone ==
    ASSUME ControlTypes, NEW w \in Callers, Leave(w)
    PROVE  /\ stage'[w] = "idle"
           /\ \A d \in Callers \ {w} :
                /\ stage'[d] = stage[d] /\ keyOf'[d] = keyOf[d]
                /\ current'[d] = current[d] /\ newState'[d] = newState[d]
           /\ HandsOver
<1>1. /\ stage'[w] = "idle"
      /\ \A d \in Callers \ {w} :
            /\ stage'[d] = stage[d] /\ keyOf'[d] = keyOf[d]
            /\ current'[d] = current[d] /\ newState'[d] = newState[d]
  BY DEF ControlTypes, Leave
<1>2. HandsOver
  BY <1>1 DEF HandsOver, Inside
<1>3. QED BY <1>1, <1>2

\* A request that ends without a write: refused, failed or overloaded.
LEMMA EndsUnwritten ==
    ASSUME ServiceInv, NEW w \in Callers, NEW code \in Codes,
           Reply(w, code), UNCHANGED answers,
           \/ UNCHANGED storeVars /\ stage[w] = "idle"
           \/ TransitionRaise(w) \/ TransitionOverload(w)
    PROVE  ServiceInv' /\ Shrinks /\ HandsOver
<1>1. [LifecycleNext]_storeVars
  BY DEF LifecycleNext
<1>2. data' = data /\ (Leave(w) \/ (UNCHANGED storeVars /\ stage[w] = "idle"))
  BY DEF TransitionRaise, TransitionOverload, storeVars
<1>3. Shrinks
  BY <1>2, SameShrinks
<1>4. ControlTypes /\ ServiceTypes
  BY InvTypes
<1>5. /\ stage'[w] = "idle" /\ HandsOver
      /\ \A d \in Callers \ {w} :
            /\ stage'[d] = stage[d] /\ keyOf'[d] = keyOf[d]
            /\ current'[d] = current[d] /\ newState'[d] = newState[d]
  BY <1>2, <1>4, LeaveAlone, SameHands DEF storeVars
<1>6. answers' \in [Keys -> SUBSET Answers]
  BY <1>4 DEF ServiceTypes
<1>7. /\ ServiceTypes' /\ RequestOK(w)'
      /\ \A d \in Callers \ {w} :
            /\ pc'[d] = pc[d] /\ req'[d] = req[d]
            /\ prepared'[d] = prepared[d] /\ prepares'[d] = prepares[d]
  BY <1>5, <1>6, ReplyOK
<1>8. ServiceInv'
  BY <1>1, <1>3, <1>5, <1>7, QuietStep
<1>9. QED BY <1>3, <1>5, <1>8

\* What a request in hand is known to be.
LEMMA InHand ==
    ASSUME ServiceInv, NEW w \in Callers, pc[w] \in {"prepare", "transition"}
    PROVE  /\ req[w] \in Requests /\ req[w].key \in Keys /\ req[w].payload \in Texts
           /\ ConsumerOf(req[w].key) \in Consumers
<1>1. req[w] \in Requests /\ req[w].payload # NoText
  BY DEF ServiceInv, RequestInv, RequestOK
<1>2. req[w].key \in Keys /\ req[w].payload \in Texts
  BY <1>1 DEF Requests
<1>3. QED BY <1>1, <1>2, KeyConsumer

\* What the callback may return, inside transition().
LEMMA ReturnedResult ==
    ASSUME ServiceInv, NEW w \in Callers, stage[w] \in Inside, NEW new \in Returned(w)
    PROVE  /\ req[w].key \in Keys /\ req[w].payload \in Texts
           /\ keyOf[w] = req[w].key
           /\ current[w] \in States \cup {None}
           /\ current[w] = None \/ Good(req[w].key, current[w])
           /\ Follows(req[w].key, req[w].payload, current[w], new)
<1>1. pc[w] = "transition" /\ keyOf[w] = req[w].key
  BY DEF ServiceInv, RequestInv, RequestOK, Inside
<1>2. req[w].key \in Keys /\ req[w].payload \in Texts
  BY <1>1, InHand
<1>3. prepared[w] = None \/ prepared[w] \in PrepareMask(ConsumerOf(req[w].key), req[w].payload)
  BY DEF ServiceInv, RequestInv, RequestOK
<1>4. current[w] \in States \cup {None}
  BY InvTypes DEF ControlTypes
<1>5. current[w] = None \/ Good(req[w].key, current[w])
  BY <1>1 DEF ServiceInv, HandGood
<1>6. new \in Transition(current[w], ConsumerOf(req[w].key), req[w].payload, prepared[w],
                         DemaskingEnabled[ConsumerOf(req[w].key)])
  BY DEF Returned
<1>7. Follows(req[w].key, req[w].payload, current[w], new)
  BY <1>2, <1>3, <1>4, <1>5, <1>6, TransitionResult
<1>8. QED BY <1>1, <1>2, <1>4, <1>5, <1>7

-----------------------------------------------------------------------------
(* The steps, one by one.                                                  *)

\* The state the read section hands over is that of an entry of its key.
LEMMA ReadFinds ==
    ASSUME StoreInv, NEW c \in Callers, TransitionRead(c)
    PROVE  \/ current'[c] = None
           \/ \E i \in 1..Len(data) :
                data[i].key = keyOf[c] /\ data[i].val = current'[c]
<1>1. PICK n \in 0..Len(data), later \in now..MaxTime :
        LET rest == Evicted(data, n)
            live == /\ HasKey(rest, keyOf[c])
                    /\ later < rest[IndexOf(rest, keyOf[c])].exp
        IN  current' = [current EXCEPT ![c] =
                           IF live THEN rest[IndexOf(rest, keyOf[c])].val ELSE None]
  BY DEF TransitionRead
<1>2. now \in Nat /\ GoodData(data, now) /\ current \in [Callers -> Values \cup {None}]
  BY StoreConstants DEF StoreInv, DataInv, ControlInv
<1> DEFINE rest == Evicted(data, n)
           j    == IndexOf(rest, keyOf[c])
<1>3. /\ Len(data) \in Nat /\ Len(rest) = Len(data) - n
      /\ \A m \in 1..(Len(data) - n) : m + n \in 1..Len(data) /\ rest[m] = data[m + n]
  BY <1>2, EvictedProps, GoodEntry
<1>4. CASE HasKey(rest, keyOf[c])
  <2>1. j \in 1..Len(rest) /\ rest[j].key = keyOf[c]
    BY <1>4, IndexOfProps
  <2>2. current'[c] = None \/ current'[c] = rest[j].val
    BY <1>1, <1>2
  <2> HIDE DEF rest, j
  <2>3. j + n \in 1..Len(data) /\ rest[j] = data[j + n]
    BY <1>3, <2>1
  <2>4. QED BY <2>1, <2>2, <2>3
<1>5. CASE ~HasKey(rest, keyOf[c])
  BY <1>1, <1>2, <1>5
<1>6. QED BY <1>4, <1>5

\* A step that writes nothing: states stay, are read, or expire.
Dwindles == Shrinks /\ HandsOver /\ answers' = answers

LEMMA StepStutters == ServiceInv /\ UNCHANGED vars => ServiceInv' /\ Dwindles
<1> SUFFICES ASSUME ServiceInv, UNCHANGED vars PROVE ServiceInv' /\ Dwindles
  OBVIOUS
<1> USE DEF vars, serviceVars, storeVars
<1>1. Dwindles
  BY SameShrinks, SameHands DEF Dwindles
<1>2. AtomicInv'
  BY StoreKept DEF ServiceInv
<1>3. ServiceTypes'
  BY InvTypes DEF ServiceTypes
<1>4. RequestInv'
  BY OthersOK DEF ServiceInv, RequestInv
<1>5. DataGood' /\ HandGood'
  BY <1>1, StatesKept DEF Dwindles
<1>6. DisabledNeverDemasked'
  BY DEF ServiceInv, DisabledNeverDemasked
<1>7. QED BY <1>1, <1>2, <1>3, <1>4, <1>5, <1>6, Together

LEMMA StepClock == ServiceInv /\ Clock => ServiceInv' /\ Dwindles
<1> SUFFICES ASSUME ServiceInv, Clock PROVE ServiceInv' /\ Dwindles
  OBVIOUS
<1> USE DEF Clock, Tick, serviceVars
<1>1. Dwindles
  BY SameShrinks, SameHands DEF Dwindles
<1>2. AtomicInv'
  BY StoreKept DEF ServiceInv, LifecycleNext
<1>3. ServiceTypes'
  BY InvTypes DEF ServiceTypes
<1>4. RequestInv'
  BY OthersOK DEF ServiceInv, RequestInv
<1>5. DataGood' /\ HandGood'
  BY <1>1, StatesKept DEF Dwindles
<1>6. DisabledNeverDemasked'
  BY DEF ServiceInv, DisabledNeverDemasked
<1>7. QED BY <1>1, <1>2, <1>3, <1>4, <1>5, <1>6, Together

\* A request in hand before its transition, and after.
LEMMA RequestIdle ==
    ASSUME ServiceInv, NEW w \in Callers, pc[w] # "transition"
    PROVE  stage[w] = "idle" /\ prepared[w] = None /\ prepares[w] = 0
BY DEF ServiceInv, RequestInv, RequestOK

LEMMA StepReceive ==
    ASSUME ServiceInv, NEW w \in Callers, NEW k \in Keys, NEW t \in Texts \cup {NoText},
           Receive(w, k, t)
    PROVE  ServiceInv' /\ Dwindles
<1>1. ServiceTypes
  BY InvTypes
<1>2. stage[w] = "idle" /\ prepared[w] = None /\ prepares[w] = 0 /\ UNCHANGED storeVars
  BY RequestIdle DEF Receive
<1>3. Dwindles
  BY <1>2, SameShrinks, SameHands DEF Dwindles, Receive, storeVars
<1>4. ServiceTypes'
  BY <1>1, MaxRequestsType DEF ServiceTypes, Receive, Requests
<1>5. RequestOK(w)'
  <2>1. /\ pc'[w] = "start" /\ req'[w] \in Requests /\ prepared'[w] = None
        /\ prepares'[w] = 0 /\ stage'[w] = "idle"
    BY <1>1, <1>2 DEF ServiceTypes, Receive, Requests, storeVars
  <2>2. QED BY <2>1 DEF RequestOK
<1>6. \A d \in Callers \ {w} :
        /\ pc'[d] = pc[d] /\ req'[d] = req[d]
        /\ prepared'[d] = prepared[d] /\ prepares'[d] = prepares[d]
        /\ stage'[d] = stage[d] /\ keyOf'[d] = keyOf[d]
        /\ current'[d] = current[d] /\ newState'[d] = newState[d]
  BY <1>1, <1>2 DEF ServiceTypes, Receive, storeVars
<1>7. ServiceInv'
  BY <1>2, <1>3, <1>4, <1>5, <1>6, QuietStep DEF Dwindles
<1>8. QED BY <1>3, <1>7

LEMMA StepLookup ==
    ASSUME ServiceInv, NEW w \in Callers, Lookup(w)
    PROVE  ServiceInv' /\ Dwindles
<1>1. /\ ServiceTypes /\ GoodData(data, now) /\ now \in Nat
      /\ req[w] \in Requests /\ req[w].payload # NoText
      /\ stage[w] = "idle" /\ prepared[w] = None /\ prepares[w] = 0
  BY InvTypes, RequestIdle DEF ServiceInv, RequestInv, RequestOK, Lookup
<1>2. req[w].key \in Keys
  BY <1>1 DEF Requests
<1>3. [LifecycleNext]_storeVars
  BY <1>2 DEF Lookup, LifecycleNext
<1>4. Shrinks
  <2>1. CASE data' = data
    BY <2>1, SameShrinks
  <2>2. CASE data' = Pop(data, req[w].key)
    <3>1. GoodData(data, now) /\ now \in Nat
      BY <1>1
    <3>2. ASSUME NEW k
          PROVE  \A j \in 1..Len(Pop(data, k)) : \E i \in 1..Len(data) : Pop(data, k)[j] = data[i]
      BY <3>1, PopProps
    <3>3. QED BY <2>2, <3>2 DEF Shrinks
  <2>3. QED BY <2>1, <2>2 DEF Lookup, Get
<1>5. Dwindles
  BY <1>4, SameHands DEF Dwindles, Lookup, Get
<1>6. ServiceTypes'
  BY <1>1 DEF ServiceTypes, Lookup
<1>7. /\ pc'[w] \in {"prepare", "transition"} /\ req'[w] = req[w]
      /\ prepared'[w] = None /\ prepares'[w] = 0 /\ stage'[w] = "idle"
  BY <1>1 DEF ServiceTypes, Lookup, Get
<1>8. RequestOK(w)'
  BY <1>1, <1>7 DEF RequestOK
<1>9. \A d \in Callers \ {w} :
        /\ pc'[d] = pc[d] /\ req'[d] = req[d]
        /\ prepared'[d] = prepared[d] /\ prepares'[d] = prepares[d]
        /\ stage'[d] = stage[d] /\ keyOf'[d] = keyOf[d]
        /\ current'[d] = current[d] /\ newState'[d] = newState[d]
  BY <1>1 DEF ServiceTypes, Lookup, Get
<1>10. ServiceInv'
  BY <1>3, <1>5, <1>6, <1>8, <1>9, QuietStep DEF Dwindles
<1>11. QED BY <1>5, <1>10

LEMMA StepPrepare ==
    ASSUME ServiceInv, NEW w \in Callers, Prepare(w)
    PROVE  ServiceInv' /\ Dwindles
<1>1. /\ ServiceTypes
      /\ req[w] \in Requests /\ req[w].payload # NoText
      /\ req[w].payload \in Texts /\ ConsumerOf(req[w].key) \in Consumers
      /\ stage[w] = "idle" /\ prepares[w] = 0 /\ UNCHANGED storeVars
  BY InvTypes, InHand, RequestIdle DEF ServiceInv, RequestInv, RequestOK, Prepare
<1>2. PICK s \in PrepareMask(ConsumerOf(req[w].key), req[w].payload) :
        prepared' = [prepared EXCEPT ![w] = s]
  BY DEF Prepare
<1>3. s \in States
  BY <1>1, PreparedState
<1>4. Dwindles
  BY <1>1, SameShrinks, SameHands DEF Dwindles, Prepare, storeVars
<1>5. ServiceTypes'
  BY <1>1, <1>2, <1>3 DEF ServiceTypes, Prepare
<1>6. /\ pc'[w] = "transition" /\ req'[w] = req[w]
      /\ prepared'[w] = s /\ prepares'[w] = 1 /\ stage'[w] = "idle"
  BY <1>1, <1>2 DEF ServiceTypes, Prepare, storeVars
<1>7. RequestOK(w)'
  <2>1. s # None
    BY <1>3, ValuesAreStates
  <2>2. QED BY <1>1, <1>6, <2>1 DEF RequestOK
<1>8. \A d \in Callers \ {w} :
        /\ pc'[d] = pc[d] /\ req'[d] = req[d]
        /\ prepared'[d] = prepared[d] /\ prepares'[d] = prepares[d]
        /\ stage'[d] = stage[d] /\ keyOf'[d] = keyOf[d]
        /\ current'[d] = current[d] /\ newState'[d] = newState[d]
  BY <1>1, <1>2 DEF ServiceTypes, Prepare, storeVars
<1>9. ServiceInv'
  BY <1>1, <1>4, <1>5, <1>7, <1>8, QuietStep DEF Dwindles
<1>10. QED BY <1>4, <1>9

LEMMA StepEnterTransition ==
    ASSUME ServiceInv, NEW w \in Callers, EnterTransition(w)
    PROVE  ServiceInv' /\ Dwindles
<1>1. ServiceTypes /\ ControlTypes /\ req[w].key \in Keys
  BY InvTypes, InHand DEF EnterTransition
<1>2. [LifecycleNext]_storeVars
  BY <1>1 DEF EnterTransition, LifecycleNext
<1>3. /\ stage'[w] = "read" /\ keyOf'[w] = req[w].key
      /\ \A d \in Callers \ {w} :
            /\ stage'[d] = stage[d] /\ keyOf'[d] = keyOf[d]
            /\ current'[d] = current[d] /\ newState'[d] = newState[d]
  BY <1>1 DEF ControlTypes, EnterTransition, TransitionAcquire
<1>4. HandsOver
  BY <1>3 DEF HandsOver, Inside
<1>5. Dwindles
  BY <1>4, SameShrinks DEF Dwindles, EnterTransition, TransitionAcquire, serviceVars
<1>6. ServiceTypes'
  BY <1>1 DEF ServiceTypes, EnterTransition, serviceVars
<1>7. RequestOK(w)'
  <2>1. RequestOK(w) /\ stage[w] = "idle" /\ pc[w] = "transition"
    BY DEF ServiceInv, RequestInv, EnterTransition, TransitionAcquire
  <2>2. UNCHANGED <<pc, req, prepared, prepares>>
    BY DEF EnterTransition, serviceVars
  <2>3. QED BY <1>3, <2>1, <2>2 DEF RequestOK
<1>8. UNCHANGED <<pc, req, prepared, prepares>>
  BY DEF EnterTransition, serviceVars
<1>9. ServiceInv'
  BY <1>2, <1>3, <1>5, <1>6, <1>7, <1>8, QuietStep DEF Dwindles
<1>10. QED BY <1>5, <1>9

LEMMA StepReadState ==
    ASSUME ServiceInv, NEW w \in Callers, ReadState(w)
    PROVE  ServiceInv' /\ Dwindles
<1>1. ServiceTypes /\ ControlTypes /\ StoreInv /\ RequestOK(w)
  BY InvTypes DEF ServiceInv, AtomicInv, RequestInv
<1>2. TransitionRead(w) /\ UNCHANGED serviceVars
  BY DEF ReadState
<1>3. [LifecycleNext]_storeVars
  BY <1>2 DEF LifecycleNext
<1>4. /\ stage[w] = "read" /\ stage'[w] = "callback" /\ keyOf' = keyOf
      /\ \A d \in Callers \ {w} :
            /\ stage'[d] = stage[d] /\ keyOf'[d] = keyOf[d]
            /\ current'[d] = current[d] /\ newState'[d] = newState[d]
  BY <1>1, <1>2 DEF ControlTypes, TransitionRead
<1>5. HandsOver
  BY <1>1, <1>2, <1>4, ReadFinds DEF HandsOver
<1>6. Shrinks
  BY <1>1, <1>2, ReadSection DEF Shrinks
<1>7. Dwindles
  BY <1>2, <1>5, <1>6 DEF Dwindles, serviceVars
<1>8. ServiceTypes'
  BY <1>1, <1>2 DEF ServiceTypes, serviceVars
<1>9. UNCHANGED <<pc, req, prepared, prepares>>
  BY <1>2 DEF serviceVars
<1>10. RequestOK(w)'
  BY <1>1, <1>4, <1>9 DEF RequestOK
<1>11. ServiceInv'
  BY <1>3, <1>4, <1>7, <1>8, <1>9, <1>10, QuietStep DEF Dwindles
<1>12. QED BY <1>7, <1>11

LEMMA StepCallbackReturns ==
    ASSUME ServiceInv, NEW w \in Callers, CallbackReturns(w)
    PROVE  ServiceInv' /\ Dwindles
<1>1. ServiceTypes /\ ControlTypes /\ RequestOK(w) /\ stage[w] \in Inside
  BY InvTypes DEF ServiceInv, RequestInv, CallbackReturns, Inside
<1>2. PICK s \in Returned(w) : TransitionCallback(w, s)
  BY DEF CallbackReturns
<1>3. s \in States
  BY <1>1, ReturnedResult DEF Follows
<1>4. [LifecycleNext]_storeVars
  BY <1>2, <1>3, ValuesAreStates DEF LifecycleNext
<1>5. /\ stage[w] = "callback" /\ stage'[w] = "write" /\ newState'[w] = s
      /\ data' = data /\ keyOf' = keyOf /\ current' = current
      /\ \A d \in Callers \ {w} :
            stage'[d] = stage[d] /\ newState'[d] = newState[d]
  BY <1>1, <1>2 DEF ControlTypes, TransitionCallback
<1>6. HandsOver
  BY <1>5 DEF HandsOver, Inside
<1>7. Dwindles
  BY <1>5, <1>6, SameShrinks DEF Dwindles, CallbackReturns
<1>8. ServiceTypes'
  BY <1>1 DEF ServiceTypes, CallbackReturns
<1>9. /\ UNCHANGED <<pc, req, prepared>>
      /\ prepares'[w] = IF PreparesLate(w) THEN prepares[w] + 1 ELSE prepares[w]
      /\ \A d \in Callers \ {w} : prepares'[d] = prepares[d]
  BY <1>1 DEF ServiceTypes, CallbackReturns
<1>10. RequestOK(w)'
  <2>1. Returned(w)' = Returned(w)
    BY <1>5, <1>9 DEF Returned
  <2>2. prepares'[w] = 0 \/ prepares'[w] = 1
    BY <1>1, <1>5, <1>9 DEF RequestOK, PreparesLate
  <2>3. QED BY <1>1, <1>2, <1>5, <1>9, <2>1, <2>2 DEF RequestOK
<1>11. ServiceInv'
  BY <1>4, <1>5, <1>7, <1>8, <1>9, <1>10, QuietStep DEF Dwindles
<1>12. QED BY <1>7, <1>11

\* Requests that end without a write.
LEMMA StepUnwritten ==
    ASSUME ServiceInv, NEW w \in Callers,
           \/ RefuseEmpty(w) \/ PrepareRaises(w) \/ CallbackRaises(w)
           \/ LatePrepareRaises(w) \/ Overload(w)
    PROVE  ServiceInv' /\ Dwindles
<1>1. PICK code \in Codes : Reply(w, code)
  BY DEF RefuseEmpty, PrepareRaises, CallbackRaises, LatePrepareRaises, Overload,
         TransitionError, Codes
<1>2. UNCHANGED answers
  BY DEF RefuseEmpty, PrepareRaises, CallbackRaises, LatePrepareRaises, Overload
<1>3. \/ UNCHANGED storeVars /\ stage[w] = "idle"
      \/ TransitionRaise(w) \/ TransitionOverload(w)
  BY RequestIdle
     DEF RefuseEmpty, PrepareRaises, CallbackRaises, LatePrepareRaises, Overload
<1>4. QED BY <1>1, <1>2, <1>3, EndsUnwritten DEF Dwindles

\* What the write section has in hand and does.
LEMMA CommitFacts ==
    ASSUME ServiceInv, NEW w \in Callers, Commit(w)
    PROVE  /\ stage[w] = "write" /\ keyOf[w] = req[w].key
           /\ req[w].key \in Keys /\ req[w].payload \in Texts
           /\ current[w] \in States \cup {None}
           /\ current[w] = None \/ Good(req[w].key, current[w])
           /\ Follows(req[w].key, req[w].payload, current[w], newState[w])
           /\ data' = Put(data, req[w].key, newState[w], now)
           /\ TransitionWrite(w) /\ Reply(w, 200)
           /\ answers' = [answers EXCEPT ![req[w].key] =
                 IF current[w] = None
                 THEN {Outcome(newState[w], req[w].payload)}
                 ELSE @ \cup {Outcome(newState[w], req[w].payload)}]
           /\ HandsOver
           /\ stage'[w] = "idle"
           /\ \A d \in Callers \ {w} :
                /\ stage'[d] = stage[d] /\ keyOf'[d] = keyOf[d]
                /\ current'[d] = current[d] /\ newState'[d] = newState[d]
<1>1. /\ stage[w] = "write" /\ stage[w] \in Inside
      /\ TransitionWrite(w) /\ Reply(w, 200)
      /\ answers' = [answers EXCEPT ![req[w].key] =
                 IF current[w] = None
                 THEN {Outcome(newState[w], req[w].payload)}
                 ELSE @ \cup {Outcome(newState[w], req[w].payload)}]
  BY DEF Commit, Inside
<1>2. newState[w] \in Returned(w)
  BY <1>1 DEF ServiceInv, RequestInv, RequestOK
<1>3. /\ req[w].key \in Keys /\ req[w].payload \in Texts
      /\ keyOf[w] = req[w].key
      /\ current[w] \in States \cup {None}
      /\ current[w] = None \/ Good(req[w].key, current[w])
      /\ Follows(req[w].key, req[w].payload, current[w], newState[w])
  BY <1>1, <1>2, ReturnedResult
<1>4. data' = Put(data, req[w].key, newState[w], now) /\ Leave(w)
  BY <1>1, <1>3 DEF TransitionWrite
<1>5. /\ stage'[w] = "idle" /\ HandsOver
      /\ \A d \in Callers \ {w} :
           /\ stage'[d] = stage[d] /\ keyOf'[d] = keyOf[d]
           /\ current'[d] = current[d] /\ newState'[d] = newState[d]
  BY <1>4, InvTypes, LeaveAlone
<1>6. QED BY <1>1, <1>3, <1>4, <1>5

\* The answer from a state in hand: never an original when demasking is off.
LEMMA OutcomeOK ==
    ASSUME NEW k \in Keys, NEW t \in Texts, NEW s, NEW new, Follows(k, t, s, new)
    PROVE  /\ Outcome(new, t) \in Answers
           /\ ~DemaskingEnabled[ConsumerOf(k)] => Outcome(new, t).op = "MASK"
<1>1. /\ new.masked \in Texts /\ new.original \in Texts
      /\ ~DemaskingEnabled[ConsumerOf(k)] => new.status = "MASKED"
  BY DEF Follows, Good, States
<1>2. QED BY <1>1 DEF Outcome, Answers

\* What the write section leaves in the store: the new state under its key,
\* and every other entry.
LEMMA WriteLeaves ==
    ASSUME ServiceInv, NEW k \in Keys, NEW new \in States,
           data' = Put(data, k, new, now)
    PROVE  /\ \A j \in 1..Len(data') :
                \/ data'[j].key = k /\ data'[j].val = new
                \/ \E i \in 1..Len(data) : data'[j] = data[i] /\ data[i].key # k
           /\ \A i \in 1..Len(data) :
                data[i].key # k => \E j \in 1..Len(data') : data'[j] = data[i]
           /\ \E j \in 1..Len(data') : data'[j].key = k /\ data'[j].val = new
<1>1. GoodData(data, now) /\ now \in Nat /\ new \in Values
  BY InvTypes, ValuesAreStates
<1> DEFINE e    == [key |-> k, exp |-> now + TTL, val |-> new]
           rest == Pop(data, k)
<1>2. e.key = k /\ e.val = new
  OBVIOUS
<1>3. \A j \in 1..Len(data') :
        \/ data'[j] = e
        \/ \E i \in 1..Len(data) : data'[j] = data[i] /\ data[i].key # k
  <2>1. now <= now
    BY <1>1
  <2>2. \A j \in 1..Len(Put(data, k, new, now)) :
          \/ Put(data, k, new, now)[j] = e
          \/ \E i \in 1..Len(data) :
                Put(data, k, new, now)[j] = data[i] /\ data[i].key # k
    BY <1>1, <2>1, PutProps
  <2>3. QED BY <2>2
<1>4. /\ GoodData(rest, now)
      /\ \A i \in 1..Len(data) :
           data[i].key # k => \E j \in 1..Len(rest) : rest[j] = data[i]
  BY <1>1, PopProps
<1>5. rest \in Seq(Entries) /\ Len(rest) \in Nat
  BY <1>1, <1>4, GoodEntry
<1>6. data' = Append(rest, e)
  BY DEF Put
<1> HIDE DEF e, rest
<1>7. /\ Len(data') = Len(rest) + 1 /\ data'[Len(rest) + 1] = e
      /\ \A j \in 1..Len(rest) : data'[j] = rest[j]
  BY <1>5, <1>6
<1>8. \A i \in 1..Len(data) :
        data[i].key # k => \E j \in 1..Len(data') : data'[j] = data[i]
  <2> SUFFICES ASSUME NEW i \in 1..Len(data), data[i].key # k
               PROVE  \E j \in 1..Len(data') : data'[j] = data[i]
    OBVIOUS
  <2>1. PICK j \in 1..Len(rest) : rest[j] = data[i]
    BY <1>4
  <2>2. j \in 1..Len(data') /\ data'[j] = data[i]
    BY <1>5, <1>7, <2>1
  <2>3. QED BY <2>2
<1>9. \E j \in 1..Len(data') : data'[j] = e
  BY <1>5, <1>7
<1>10. QED BY <1>2, <1>3, <1>8, <1>9

LEMMA StepCommit ==
    ASSUME ServiceInv, NEW w \in Callers, Commit(w)
    PROVE  ServiceInv'
<1> DEFINE k == req[w].key
           t == req[w].payload
           a == Outcome(newState[w], t)
<1>1. /\ k \in Keys /\ t \in Texts
      /\ Follows(k, t, current[w], newState[w])
      /\ data' = Put(data, k, newState[w], now)
      /\ TransitionWrite(w) /\ Reply(w, 200)
      /\ answers' = [answers EXCEPT ![k] = IF current[w] = None THEN {a} ELSE @ \cup {a}]
      /\ HandsOver /\ stage'[w] = "idle"
      /\ \A d \in Callers \ {w} :
            /\ stage'[d] = stage[d] /\ keyOf'[d] = keyOf[d]
            /\ current'[d] = current[d] /\ newState'[d] = newState[d]
  BY CommitFacts
<1>2. newState[w] \in States /\ Good(k, newState[w])
  BY <1>1 DEF Follows
<1>3. a \in Answers /\ (~DemaskingEnabled[ConsumerOf(k)] => a.op = "MASK")
  BY <1>1, OutcomeOK
<1> HIDE DEF k, t, a
<1>4. answers \in [Keys -> SUBSET Answers]
  BY InvTypes DEF ServiceTypes
<1>5. answers' \in [Keys -> SUBSET Answers]
  BY <1>1, <1>3, <1>4
<1>6. DisabledNeverDemasked'
  BY <1>1, <1>3, <1>4 DEF ServiceInv, DisabledNeverDemasked
<1>7. AtomicInv'
  BY <1>1, StoreKept DEF ServiceInv, LifecycleNext
<1>8. HandGood'
  BY <1>1, HandsKept
<1>9. DataGood'
  <2>1. \A j \in 1..Len(data') :
           \/ data'[j].key = k /\ data'[j].val = newState[w]
           \/ \E i \in 1..Len(data) : data'[j] = data[i] /\ data[i].key # k
    BY <1>1, <1>2, WriteLeaves
  <2>2. \A j \in 1..Len(data') : Good(data'[j].key, data'[j].val)
    BY <1>2, <2>1 DEF ServiceInv, DataGood
  <2>3. QED BY <2>2 DEF DataGood, Good
<1>10. /\ ServiceTypes' /\ RequestOK(w)'
       /\ \A d \in Callers \ {w} :
             /\ pc'[d] = pc[d] /\ req'[d] = req[d]
             /\ prepared'[d] = prepared[d] /\ prepares'[d] = prepares[d]
  BY <1>1, <1>5, ReplyOK DEF Codes
<1>11. RequestInv'
  <2>1. ASSUME NEW d \in Callers \ {w} PROVE RequestOK(d)'
    BY <1>1, <1>10, OthersOK DEF ServiceInv, RequestInv
  <2>2. QED BY <1>10, <2>1 DEF RequestInv
<1>12. QED BY <1>6, <1>7, <1>8, <1>9, <1>10, <1>11, Together

\* Every step but a write lets states stay, be read, or expire.
LEMMA StepCases ==
    ASSUME ServiceInv, [Next]_vars
    PROVE  /\ ServiceInv'
           /\ Dwindles \/ \E w \in Callers : Commit(w)
<1>1. CASE UNCHANGED vars
  BY <1>1, StepStutters
<1>2. CASE Clock
  BY <1>2, StepClock
<1>3. ASSUME NEW w \in Callers, WorkerStep(w)
      PROVE  ServiceInv' /\ (Dwindles \/ Commit(w))
  BY <1>3, StepUnwritten, StepLookup, StepPrepare, StepEnterTransition, StepReadState,
     StepCallbackReturns, StepCommit DEF WorkerStep
<1>4. ASSUME NEW w \in Callers, NEW k \in Keys, NEW t \in Texts \cup {NoText},
             Receive(w, k, t)
      PROVE  ServiceInv' /\ Dwindles
  BY <1>4, StepReceive
<1>5. CASE Finished
  BY <1>5, StepStutters DEF Finished
<1>6. QED BY <1>1, <1>2, <1>3, <1>4, <1>5 DEF Next

LEMMA ServiceInitInv == Init => ServiceInv
<1> SUFFICES ASSUME Init PROVE ServiceInv
  OBVIOUS
<1>1. StoreInv /\ StoreTypeOK
  BY StoreInitInv, StoreInvImplies DEF Init
<1>2. AtomicInv /\ HandGood
  BY <1>1 DEF AtomicInv, AtomicTransition, HandGood, Init, StoreInit, Inside
<1>3. DataGood
  BY DEF DataGood, Init, StoreInit
<1>4. ServiceTypeOK
  BY <1>1, MaxRequestsType DEF ServiceTypeOK, Init
<1>5. RequestInv
  BY DEF RequestInv, RequestOK, Init, StoreInit
<1>6. DisabledNeverDemasked
  BY DEF DisabledNeverDemasked, Init
<1>7. QED BY <1>2, <1>3, <1>4, <1>5, <1>6 DEF ServiceInv

\* The invariant of the service on the in-memory store.
THEOREM ServiceInvariance == Spec => []ServiceInv
<1>1. ServiceInv /\ [Next]_vars => ServiceInv'
  BY StepCases
<1>2. QED BY <1>1, ServiceInitInv, PTL DEF Spec

\* Every variable of the service and of its store keeps its type.
THEOREM MemoryServiceTypeCorrect == Spec => []ServiceTypeOK
<1>1. ServiceInv => ServiceTypeOK
  BY DEF ServiceInv
<1>2. QED BY <1>1, ServiceInvariance, PTL

\* process_service.py:132-133: a request runs detection and masking at most
\* once, also when the state its lookup saw expires before its transition.
THEOREM MemoryPrepareOnce == Spec => []PrepareOnce
<1>1. ServiceInv => PrepareOnce
  BY DEF ServiceInv, RequestInv, RequestOK, PrepareOnce
<1>2. QED BY <1>1, ServiceInvariance, PTL

\* process_service.py:182-183: a consumer whose policy disables demasking is
\* never answered an original.
THEOREM MemoryDisabledNeverDemasked == Spec => []DisabledNeverDemasked
<1>1. ServiceInv => DisabledNeverDemasked
  BY DEF ServiceInv
<1>2. QED BY <1>1, ServiceInvariance, PTL

-----------------------------------------------------------------------------
(* The lifecycle.                                                          *)

\* The lifecycle's theorems, of the mappings that the states stand for.
Promise == INSTANCE RestorationLifecycle_proofs
           WITH mapping <- [k \in Keys |-> MappingOf(StateOf(k))]

\* v is a state of key k that a transition has in hand or the store holds.
Has(k, v) ==
    /\ v # None
    /\ \/ \E w \in Callers : stage[w] \in Inside /\ keyOf[w] = k /\ current[w] = v
       \/ \E i \in 1..Len(data) : data[i].key = k /\ data[i].val = v

\* A key has at most one state, wherever it is: a transition inside has the
\* entry's state, nobody else is inside, and no key has two entries.
LEMMA OneState ==
    ServiceInv =>
        /\ \A k \in Keys : \A v : Has(k, v) => StateOf(k) = v
        /\ \A k \in Keys : StateOf(k) # None => Has(k, StateOf(k))
        /\ \A k \in Keys : StateOf(k) \in States \cup {None}
<1> SUFFICES ASSUME ServiceInv, NEW k \in Keys
             PROVE  /\ \A v : Has(k, v) => StateOf(k) = v
                    /\ StateOf(k) # None => Has(k, StateOf(k))
                    /\ StateOf(k) \in States \cup {None}
  OBVIOUS
<1> DEFINE holders == {w \in Callers : /\ stage[w] \in {"callback", "write"}
                                       /\ keyOf[w] = k
                                       /\ current[w] # None}
           holder  == CHOOSE w \in holders : TRUE
<1>1. /\ GoodData(data, now) /\ ControlTypes /\ ControlInv /\ AtomicTransition
      /\ None \notin States /\ Values = States
  BY InvTypes, ValuesAreStates DEF ServiceInv, AtomicInv, StoreInv
<1>2. /\ \A i \in 1..Len(data) : data[i].val \in States
      /\ \A i, j \in 1..Len(data) : data[i].key = data[j].key => i = j
  BY <1>1, GoodEntry DEF GoodData
<1>3. \A c, d \in Callers : stage[c] \in Inside /\ stage[d] \in Inside /\ keyOf[c] = keyOf[d]
                             => c = d
  BY <1>1, StripesExclude DEF Inside
<1>4. \A c \in Callers, i \in 1..Len(data) :
        stage[c] \in Inside /\ data[i].key = keyOf[c] => data[i].val = current[c]
  BY <1>1 DEF AtomicTransition, Inside
<1>5. CASE holders # {}
  <2>1. holder \in holders
    BY <1>5
  <2>2. /\ holder \in Callers /\ stage[holder] \in Inside /\ keyOf[holder] = k
        /\ current[holder] # None
    BY <2>1 DEF Inside
  <2>3. StateOf(k) = current[holder]
    BY <1>5 DEF StateOf
  <2> HIDE DEF holder
  <2>4. ASSUME NEW v, Has(k, v) PROVE StateOf(k) = v
    BY <1>3, <1>4, <2>2, <2>3, <2>4 DEF Has
  <2>5. StateOf(k) \in States
    BY <1>1, <2>2, <2>3 DEF ControlTypes
  <2>6. Has(k, StateOf(k))
    BY <2>2, <2>3 DEF Has
  <2>7. QED BY <2>4, <2>5, <2>6
<1>6. CASE holders = {} /\ HasKey(data, k)
  <2> DEFINE n == IndexOf(data, k)
  <2>1. n \in 1..Len(data) /\ data[n].key = k
    BY <1>6, IndexOfProps
  <2>2. StateOf(k) = data[n].val
    BY <1>6 DEF StateOf
  <2> HIDE DEF n
  <2>3. StateOf(k) \in States
    BY <1>2, <2>1, <2>2
  <2>4. Has(k, StateOf(k))
    BY <1>1, <2>1, <2>2, <2>3 DEF Has
  <2>5. ASSUME NEW v, Has(k, v) PROVE StateOf(k) = v
    <3>1. ASSUME NEW w \in Callers, stage[w] \in Inside, keyOf[w] = k, current[w] = v
          PROVE  FALSE
      <4>1. w \in holders
        BY <2>5, <3>1 DEF Has, Inside
      <4>2. QED BY <1>6, <4>1
    <3>2. PICK i \in 1..Len(data) : data[i].key = k /\ data[i].val = v
      BY <2>5, <3>1 DEF Has
    <3>3. QED BY <1>2, <2>1, <2>2, <3>2
  <2>6. QED BY <2>3, <2>4, <2>5
<1>7. CASE holders = {} /\ ~HasKey(data, k)
  <2>1. StateOf(k) = None
    BY <1>7 DEF StateOf
  <2>2. ASSUME NEW v, Has(k, v) PROVE FALSE
    <3>1. ASSUME NEW w \in Callers, stage[w] \in Inside, keyOf[w] = k, current[w] = v
          PROVE  FALSE
      <4>1. w \in holders
        BY <2>2, <3>1 DEF Has, Inside
      <4>2. QED BY <1>7, <4>1
    <3>2. PICK i \in 1..Len(data) : data[i].key = k
      BY <2>2, <3>1 DEF Has
    <3>3. QED BY <1>7, <3>2 DEF HasKey
  <2>3. QED BY <2>1, <2>2
<1>8. QED BY <1>5, <1>6, <1>7

LEMMA OneStateNext ==
    ServiceInv' =>
        /\ \A k \in Keys : \A v : Has(k, v)' => StateOf(k)' = v
        /\ \A k \in Keys : \A v : StateOf(k)' # None /\ v = StateOf(k)' => Has(k, v)'
        /\ \A k \in Keys : StateOf(k)' \in States \cup {None}
<1>1. ServiceInv =>
        /\ \A k \in Keys : \A v : Has(k, v) => StateOf(k) = v
        /\ \A k \in Keys : \A v : StateOf(k) # None /\ v = StateOf(k) => Has(k, v)
        /\ \A k \in Keys : StateOf(k) \in States \cup {None}
  BY OneState
<1>2. (ServiceInv =>
        /\ \A k \in Keys : \A v : Has(k, v) => StateOf(k) = v
        /\ \A k \in Keys : \A v : StateOf(k) # None /\ v = StateOf(k) => Has(k, v)
        /\ \A k \in Keys : StateOf(k) \in States \cup {None})'
  BY <1>1, PTL
<1>3. QED BY <1>2

\* Mappings of states are typed, and tell a state from none.
LEMMA MappingType ==
    ASSUME NEW s \in States \cup {None}
    PROVE  /\ MappingOf(s) \in Lifecycle!Mappings \cup {None}
           /\ MappingOf(s) = None <=> s = None
<1>1. ASSUME s # None
      PROVE  [original |-> s.original, masked |-> s.masked, status |-> s.status]
                \in Lifecycle!Mappings
  BY <1>1 DEF States, Statuses, Lifecycle!Mappings, Lifecycle!Statuses
<1>2. None \notin Lifecycle!Mappings
  BY ServiceConstants DEF Lifecycle!Mappings, Lifecycle!Statuses, Statuses
<1>3. QED BY <1>1, <1>2 DEF MappingOf

\* A step that writes nothing lets the mappings of some keys expire, together.
LEMMA DwindleRefines ==
    ASSUME ServiceInv, ServiceInv', Dwindles
    PROVE  Lifecycle!Next
<1> DEFINE M == [j \in Keys |-> MappingOf(StateOf(j))]
           S == {j \in Keys : StateOf(j)' = None}
<1>1. ASSUME NEW k \in Keys, NEW v, Has(k, v)' PROVE Has(k, v)
  <2>1. v # None
    BY <1>1 DEF Has
  <2>2. ASSUME NEW w \in Callers, stage'[w] \in Inside, keyOf'[w] = k, current'[w] = v
        PROVE  Has(k, v)
    BY <2>1, <2>2 DEF Has, Dwindles, HandsOver
  <2>3. ASSUME NEW j \in 1..Len(data'), data'[j].key = k, data'[j].val = v
        PROVE  Has(k, v)
    BY <2>1, <2>3 DEF Has, Dwindles, Shrinks
  <2>4. QED BY <1>1, <2>2, <2>3 DEF Has
<1>2. \A k \in Keys : StateOf(k)' # None => StateOf(k) = StateOf(k)'
  BY <1>1, OneState, OneStateNext
<1>3. M' = [j \in Keys |-> IF j \in S THEN None ELSE M[j]]
  <2>1. M' = [j \in Keys |-> MappingOf(StateOf(j)')]
    BY DEF MappingOf
  <2>2. \A j \in Keys : MappingOf(StateOf(j)') = IF j \in S THEN None ELSE M[j]
    BY <1>2 DEF MappingOf
  <2>3. QED BY <2>1, <2>2
<1>4. S \in SUBSET Keys
  OBVIOUS
<1> HIDE DEF S, M
<1>5. Lifecycle!Expire(S)
  BY <1>3 DEF Lifecycle!Expire, M, Dwindles
<1>6. QED BY <1>4, <1>5 DEF Lifecycle!Next

\* A write replaces the state its transition read, and no other.
LEMMA CommitStates ==
    ASSUME ServiceInv, ServiceInv', NEW w \in Callers, Commit(w),
           NEW k \in Keys, k = req[w].key
    PROVE  /\ StateOf(k) = current[w]
           /\ StateOf(k)' = newState[w]
           /\ \A j \in Keys \ {k} : StateOf(j)' = StateOf(j)
<1>1. /\ stage[w] = "write" /\ keyOf[w] = k
      /\ newState[w] \in States
      /\ data' = Put(data, k, newState[w], now)
      /\ stage'[w] = "idle"
      /\ \A d \in Callers \ {w} :
            /\ stage'[d] = stage[d] /\ keyOf'[d] = keyOf[d]
            /\ current'[d] = current[d] /\ newState'[d] = newState[d]
  BY CommitFacts DEF Follows
<1>2. /\ \A j \in 1..Len(data') :
           \/ data'[j].key = k /\ data'[j].val = newState[w]
           \/ \E i \in 1..Len(data) : data'[j] = data[i] /\ data[i].key # k
      /\ \A i \in 1..Len(data) :
           data[i].key # k => \E j \in 1..Len(data') : data'[j] = data[i]
      /\ \E j \in 1..Len(data') : data'[j].key = k /\ data'[j].val = newState[w]
  BY <1>1, WriteLeaves
<1>3. StateOf(k) = current[w]
  <2>1. CASE current[w] # None
    <3>1. Has(k, current[w])
      BY <1>1, <2>1 DEF Has, Inside
    <3>2. QED BY <3>1, OneState
  <2>2. CASE current[w] = None
    <3>1. ASSUME NEW v, Has(k, v) PROVE FALSE
      <4>1. v # None
        BY <3>1 DEF Has
      <4>2. ASSUME NEW d \in Callers, stage[d] \in Inside, keyOf[d] = k, current[d] = v
            PROVE  FALSE
        BY <1>1, <2>2, <4>1, <4>2, StripesExclude
           DEF ServiceInv, AtomicInv, StoreInv, Inside
      <4>3. ASSUME NEW i \in 1..Len(data), data[i].key = k, data[i].val = v
            PROVE  FALSE
        BY <1>1, <2>2, <4>1, <4>3 DEF ServiceInv, AtomicInv, AtomicTransition
      <4>4. QED BY <3>1, <4>2, <4>3 DEF Has
    <3>2. QED BY <2>2, <3>1, OneState
  <2>3. QED BY <2>1, <2>2
<1>4. StateOf(k)' = newState[w]
  <2>1. newState[w] # None
    BY <1>1, ValuesAreStates
  <2>2. ASSUME NEW v, v = newState[w] PROVE Has(k, v)'
    BY <1>2, <2>1, <2>2 DEF Has
  <2>3. QED BY <2>2, OneStateNext
<1>5. ASSUME NEW j \in Keys \ {k}, NEW v PROVE Has(j, v) <=> Has(j, v)'
  <2>1. ASSUME Has(j, v) PROVE Has(j, v)'
    <3>1. v # None
      BY <2>1 DEF Has
    <3>2. ASSUME NEW d \in Callers, stage[d] \in Inside, keyOf[d] = j, current[d] = v
          PROVE  Has(j, v)'
      BY <1>1, <3>1, <3>2 DEF Has
    <3>3. ASSUME NEW i \in 1..Len(data), data[i].key = j, data[i].val = v
          PROVE  Has(j, v)'
      BY <1>2, <3>1, <3>3 DEF Has
    <3>4. QED BY <2>1, <3>2, <3>3 DEF Has
  <2>2. ASSUME Has(j, v)' PROVE Has(j, v)
    <3>1. v # None
      BY <2>2 DEF Has
    <3>2. ASSUME NEW d \in Callers, stage'[d] \in Inside, keyOf'[d] = j, current'[d] = v
          PROVE  Has(j, v)
      BY <1>1, <3>1, <3>2 DEF Has, Inside
    <3>3. ASSUME NEW i \in 1..Len(data'), data'[i].key = j, data'[i].val = v
          PROVE  Has(j, v)
      BY <1>2, <3>1, <3>3 DEF Has
    <3>4. QED BY <2>2, <3>2, <3>3 DEF Has
  <2>3. QED BY <2>1, <2>2
<1>6. \A j \in Keys \ {k} : StateOf(j)' = StateOf(j)
  BY <1>5, OneState, OneStateNext
<1>7. QED BY <1>3, <1>4, <1>6

\* A write creates a mapping, confirms it or demasks it, and answers from it.
LEMMA CommitRefines ==
    ASSUME ServiceInv, ServiceInv', NEW w \in Callers, Commit(w)
    PROVE  Lifecycle!Next
<1>1. PICK k \in Keys : k = req[w].key
  BY CommitFacts
<1> DEFINE t == req[w].payload
           s == current[w]
           new == newState[w]
           a == Outcome(new, t)
           M == [j \in Keys |-> MappingOf(StateOf(j))]
<1>2. /\ t \in Texts /\ s \in States \cup {None}
      /\ Follows(k, t, s, new)
      /\ answers' = [answers EXCEPT ![k] = IF s = None THEN {a} ELSE @ \cup {a}]
  BY <1>1, CommitFacts
<1>3. new \in States /\ new # None /\ new.status \in {"MASKED", "DEMASKED"}
      /\ new.masked \in Texts /\ new.original \in Texts
  BY <1>2, ValuesAreStates DEF Follows, States, Statuses
<1>4. M[k] = MappingOf(s)
  BY <1>1, CommitStates
<1>5. M' = [M EXCEPT ![k] = MappingOf(new)]
  <2>1. M' = [j \in Keys |-> MappingOf(StateOf(j)')]
    BY DEF MappingOf
  <2>2. \A j \in Keys : MappingOf(StateOf(j)') = IF j = k THEN MappingOf(new) ELSE M[j]
    BY <1>1, CommitStates DEF MappingOf
  <2>3. QED BY <2>1, <2>2
<1> HIDE DEF M
<1>6. CASE s = None
  <2>1. new.status = "MASKED" /\ new.original = t
    BY <1>2, <1>6 DEF Follows
  <2>2. MappingOf(new) = [original |-> t, masked |-> new.masked, status |-> "MASKED"]
    BY <1>3, <2>1 DEF MappingOf
  <2>3. a = [op |-> "MASK", payload |-> t, result |-> new.masked]
    BY <2>1 DEF Outcome
  <2>4. M[k] = None
    BY <1>4, <1>6 DEF MappingOf
  <2>5. answers' = [answers EXCEPT ![k] = {a}]
    BY <1>2, <1>6
  <2> HIDE DEF a, t
  <2>6. Lifecycle!Mask(k, t, new.masked)
    BY <1>5, <2>2, <2>3, <2>4, <2>5 DEF Lifecycle!Mask, Lifecycle!MaskAnswer, M
  <2>7. QED BY <1>2, <1>3, <2>6 DEF Lifecycle!Next
<1>7. CASE s # None
  <2>1. /\ MappingOf(s) = [original |-> s.original, masked |-> s.masked, status |-> s.status]
        /\ M[k] = MappingOf(s) /\ M[k] # None
    BY <1>2, <1>4, <1>7, MappingType DEF MappingOf
  <2>2. answers' = [answers EXCEPT ![k] = @ \cup {a}]
    BY <1>2, <1>7
  <2>3. CASE new.status = "MASKED"
    <3>1. new = s /\ t = s.original
      BY <1>2, <1>7, <2>3 DEF Follows
    <3>2. a = [op |-> "MASK", payload |-> s.original, result |-> s.masked]
      BY <2>3, <3>1 DEF Outcome
    <3>3. a = Lifecycle!MaskAnswer(M[k]) /\ M[k].status = "MASKED"
      BY <2>1, <2>3, <3>1, <3>2 DEF Lifecycle!MaskAnswer
    <3>4. M' = M
      <4>1. M = [j \in Keys |-> M[j]]
        BY DEF M
      <4>2. QED BY <1>5, <2>1, <3>1, <4>1
    <3> HIDE DEF a
    <3>5. Lifecycle!RetryMask(k)
      BY <2>1, <2>2, <3>3, <3>4 DEF Lifecycle!RetryMask, M
    <3>6. QED BY <1>1, <3>5 DEF Lifecycle!Next
  <2>4. CASE new.status = "DEMASKED"
    <3>1. new = [s EXCEPT !.status = "DEMASKED"] /\ t = s.masked /\ s \in States
      BY <1>2, <1>7, <2>4 DEF Follows
    <3>2. new.original = s.original /\ new.masked = s.masked
      BY <3>1 DEF States
    <3>3. a = Lifecycle!DemaskAnswer(M[k])
      BY <2>1, <2>4, <3>1, <3>2 DEF Outcome, Lifecycle!DemaskAnswer
    <3>4. MappingOf(new) = [M[k] EXCEPT !.status = "DEMASKED"]
      BY <1>3, <2>1, <2>4, <3>2 DEF MappingOf
    <3>5. M' = [M EXCEPT ![k] = [M[k] EXCEPT !.status = "DEMASKED"]]
      BY <1>5, <3>4
    <3> HIDE DEF a
    <3>6. Lifecycle!Demask(k)
      BY <2>1, <2>2, <3>3, <3>5 DEF Lifecycle!Demask, M
    <3>7. QED BY <1>1, <3>6 DEF Lifecycle!Next
  <2>5. QED BY <1>3, <2>3, <2>4
<1>8. QED BY <1>6, <1>7

\* POST /process on the in-memory store implements the lifecycle that
\* docs/architecture.md promises, for every number of threads and stripes.
THEOREM MemoryImplementsLifecycle == Spec => ImplementsLifecycle
<1>1. Init => Lifecycle!Init
  <2> SUFFICES ASSUME Init PROVE Lifecycle!Init
    OBVIOUS
  <2>1. ServiceInv
    BY ServiceInitInv
  <2>2. [k \in Keys |-> MappingOf(StateOf(k))] \in [Keys -> Lifecycle!Mappings \cup {None}]
    BY <2>1, OneState, MappingType
  <2>3. QED BY <2>2 DEF Init, Lifecycle!Init
<1>2. ServiceInv /\ [Next]_vars => [Lifecycle!Next]_(Lifecycle!lifecycleVars)
  BY StepCases, DwindleRefines, CommitRefines
<1>3. QED
  BY <1>1, <1>2, ServiceInvariance, PTL DEF Spec, ImplementsLifecycle, Lifecycle!Spec

\* docs/architecture.md:57-60 as clients see it, under every interleaving of
\* threads and every expiry: the 200 answers from one mapping are one mask for
\* one original, and demasking that mask gives that original back.
THEOREM MemoryRoundTrip == Spec => []RoundTrip
<1>1. Lifecycle!Init => Promise!Init
  BY DEF Lifecycle!Init, Promise!Init, Lifecycle!Mappings, Promise!Mappings,
         Lifecycle!Statuses, Promise!Statuses
<1>2. [Lifecycle!Next]_(Lifecycle!lifecycleVars) => [Promise!Next]_(Promise!lifecycleVars)
  BY DEF Lifecycle!Next, Promise!Next, Lifecycle!lifecycleVars, Promise!lifecycleVars,
         Lifecycle!Mask, Promise!Mask, Lifecycle!MaskUnanswered, Promise!MaskUnanswered,
         Lifecycle!RetryMask, Promise!RetryMask, Lifecycle!Demask, Promise!Demask,
         Lifecycle!DemaskUnanswered, Promise!DemaskUnanswered,
         Lifecycle!Expire, Promise!Expire, Lifecycle!MaskAnswer, Promise!MaskAnswer,
         Lifecycle!DemaskAnswer, Promise!DemaskAnswer
<1>3. Promise!RoundTrip => RoundTrip
  BY DEF RoundTrip, Promise!RoundTrip, Lifecycle!RoundTrip
<1>4. QED
  BY <1>1, <1>2, <1>3, MemoryImplementsLifecycle, Promise!LifecycleRoundTrip, PTL
     DEF ImplementsLifecycle, Lifecycle!Spec, Promise!Spec
=============================================================================
