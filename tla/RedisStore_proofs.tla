-------------------------- MODULE RedisStore_proofs --------------------------
(***************************************************************************)
(* RedisStore for every number of threads, keys, records, retries and      *)
(* faults: its type invariant and the atomicity of transition().           *)
(***************************************************************************)
EXTENDS RedisStore, TLAPS

\* A caller inside transition() works on a key, and inside an attempt it has
\* attempts to spare.
InAttempt ==
    \A c \in Callers :
        /\ stage[c] # "idle" => keyOf[c] \in Keys
        /\ stage[c] \in {"read", "callback", "exec"} => attempt[c] < MaxCasRetries

\* The inductive invariant.
StoreInv == StoreTypeOK /\ InAttempt /\ AtomicTransition /\ AtomicOrphan

-----------------------------------------------------------------------------

\* A read returns a state or None.
LEMMA StoredType ==
    ASSUME StoreTypeOK, NEW k \in Keys
    PROVE  Stored(k) \in Values \cup {None}
BY RedisConstants DEF StoreTypeOK, Stored

\* A state is stored as a record, and read back as itself.
LEMMA RecordType ==
    ASSUME NEW v \in Values \cup {None}
    PROVE  /\ Record(v) \in Records \cup {None}
           /\ (IF Record(v) = None THEN None ELSE Decode[Record(v)]) = v
BY RedisConstants, NoneIsNoState DEF Record

\* A write leaves the keyspace, the watch flags and the orphans well typed.
LEMMA WriteType ==
    ASSUME StoreTypeOK, NEW k \in Keys, NEW r \in Records \cup {None}, Write(k, r)
    PROVE  /\ db' \in [Keys -> Records \cup {None}]
           /\ watch' \in [Callers -> {"clean", "dirty"}]
           /\ orphan' \in [Callers -> Orphans \cup {None}]
<1>1. db' \in [Keys -> Records \cup {None}]
  BY DEF Write, StoreTypeOK
<1>2. watch' \in [Callers -> {"clean", "dirty"}]
  BY DEF Write, StoreTypeOK, Flag
<1>3. orphan' \in [Callers -> Orphans \cup {None}]
  <2> SUFFICES ASSUME NEW c \in Callers
               PROVE  orphan'[c] \in Orphans \cup {None}
    BY DEF Write
  <2>1. CASE orphan[c] = None
    BY <2>1 DEF Write
  <2>2. CASE orphan[c] # None
    BY <2>2 DEF Write, StoreTypeOK, Orphans, Flag
  <2>3. QED BY <2>1, <2>2
<1>4. QED BY <1>1, <1>2, <1>3

\* A write changes no key that a client left clean by it is watching.
LEMMA WriteSpares ==
    ASSUME StoreTypeOK, NEW k \in Keys, NEW r \in Records \cup {None}, Write(k, r)
    PROVE  /\ \A d \in Callers :
                watch'[d] = "clean" /\ keyOf[d] \in Keys =>
                    watch[d] = "clean" /\ db'[keyOf[d]] = db[keyOf[d]]
           /\ \A d \in Callers :
                orphan'[d] # None /\ orphan'[d].watch = "clean" =>
                    /\ orphan[d] # None
                    /\ orphan[d].watch = "clean"
                    /\ orphan'[d] = orphan[d]
                    /\ db'[orphan[d].key] = db[orphan[d].key]
<1>1. CASE r = None /\ db[k] = None
  <2>1. db' = db /\ watch' = watch /\ orphan' = orphan
    BY <1>1 DEF Write, StoreTypeOK
  <2>2. QED BY <2>1
<1>2. CASE r # None \/ db[k] # None
  <2>1. \A d \in Callers : watch'[d] = Flag(watch[d], keyOf[d], k)
    BY <1>2 DEF Write
  <2>2. \A j \in Keys : j # k => db'[j] = db[j]
    BY DEF Write, StoreTypeOK
  <2>3. ASSUME NEW d \in Callers, orphan'[d] # None, orphan'[d].watch = "clean"
        PROVE  /\ orphan[d] # None
               /\ orphan[d].watch = "clean"
               /\ orphan'[d] = orphan[d]
               /\ orphan[d].key # k
    <3>1. orphan[d] # None
      BY <2>3 DEF Write
    <3>2. orphan[d] \in Orphans
      BY <3>1 DEF StoreTypeOK
    <3>3. orphan'[d] = [orphan[d] EXCEPT !.watch = Flag(orphan[d].watch, orphan[d].key, k)]
      BY <1>2, <3>1 DEF Write
    <3>4. orphan'[d].watch = Flag(orphan[d].watch, orphan[d].key, k)
      BY <3>2, <3>3 DEF Orphans
    <3>5. orphan[d].watch = "clean" /\ orphan[d].key # k
      BY <2>3, <3>2, <3>4 DEF Flag, Orphans
    <3>6. orphan'[d] = orphan[d]
      BY <3>2, <3>3, <3>5 DEF Flag, Orphans
    <3>7. QED BY <3>1, <3>5, <3>6
  <2>4. \A d \in Callers : orphan[d] # None => orphan[d].key \in Keys
    BY DEF StoreTypeOK, Orphans
  <2>5. QED BY <2>1, <2>2, <2>3, <2>4 DEF Flag
<1>3. QED BY <1>1, <1>2

\* The same of the commit of an orphan.
LEMMA OrphanCommitSpares ==
    ASSUME StoreInv, NEW c \in Callers, OrphanCommit(c)
    PROVE  /\ db' \in [Keys -> Records \cup {None}]
           /\ watch' \in [Callers -> {"clean", "dirty"}]
           /\ orphan' \in [Callers -> Orphans \cup {None}]
           /\ \A d \in Callers :
                watch'[d] = "clean" /\ keyOf[d] \in Keys =>
                    watch[d] = "clean" /\ db'[keyOf[d]] = db[keyOf[d]]
           /\ \A d \in Callers :
                orphan'[d] # None /\ orphan'[d].watch = "clean" =>
                    /\ orphan[d] # None
                    /\ orphan[d].watch = "clean"
                    /\ orphan'[d] = orphan[d]
                    /\ db'[orphan[d].key] = db[orphan[d].key]
<1> DEFINE k == orphan[c].key
<1>1. orphan[c] \in Orphans
  BY DEF StoreInv, StoreTypeOK, OrphanCommit
<1>2. k \in Keys /\ orphan[c].new \in Values \cup {None}
  BY <1>1 DEF Orphans
<1>3. Record(orphan[c].new) \in Records \cup {None}
  BY <1>2, RecordType
<1>4. db' \in [Keys -> Records \cup {None}] /\ \A j \in Keys : j # k => db'[j] = db[j]
  BY <1>2, <1>3 DEF OrphanCommit, StoreInv, StoreTypeOK
<1>5. /\ watch' \in [Callers -> {"clean", "dirty"}]
      /\ \A d \in Callers : watch'[d] = Flag(watch[d], keyOf[d], k)
  BY DEF OrphanCommit, StoreInv, StoreTypeOK, Flag
<1>6. ASSUME NEW d \in Callers
      PROVE  /\ orphan'[d] \in Orphans \cup {None}
             /\ orphan'[d] # None /\ orphan'[d].watch = "clean" =>
                    /\ orphan[d] # None
                    /\ orphan[d].watch = "clean"
                    /\ orphan'[d] = orphan[d]
                    /\ orphan[d].key # k
  <2>1. CASE d = c \/ orphan[d] = None
    BY <2>1 DEF OrphanCommit
  <2>2. CASE d # c /\ orphan[d] # None
    <3>1. orphan[d] \in Orphans
      BY <2>2 DEF StoreInv, StoreTypeOK
    <3>2. orphan'[d] = [orphan[d] EXCEPT !.watch = Flag(orphan[d].watch, orphan[d].key, k)]
      BY <2>2 DEF OrphanCommit
    <3>3. orphan'[d] \in Orphans /\ orphan'[d].watch = Flag(orphan[d].watch, orphan[d].key, k)
      BY <3>1, <3>2 DEF Orphans, Flag
    <3>4. orphan'[d].watch = "clean" =>
            orphan[d].watch = "clean" /\ orphan[d].key # k
      BY <3>1, <3>3 DEF Flag, Orphans
    <3>5. orphan'[d].watch = "clean" => orphan'[d] = orphan[d]
      BY <3>1, <3>2, <3>4 DEF Flag, Orphans
    <3>6. QED BY <2>2, <3>3, <3>4, <3>5
  <2>3. QED BY <2>1, <2>2
<1>7. orphan' \in [Callers -> Orphans \cup {None}]
  BY <1>6 DEF OrphanCommit
<1>8. \A d \in Callers : orphan[d] # None => orphan[d].key \in Keys
  BY DEF StoreInv, StoreTypeOK, Orphans
<1>9. QED BY <1>4, <1>5, <1>6, <1>7, <1>8 DEF Flag

\* A step that leaves the callers' own variables alone, and spares what clean
\* clients and orphans watch, keeps the transitions atomic.
LEMMA SparedAtomic ==
    ASSUME StoreInv, UNCHANGED callVars,
           \A d \in Callers :
                watch'[d] = "clean" /\ keyOf[d] \in Keys =>
                    watch[d] = "clean" /\ db'[keyOf[d]] = db[keyOf[d]],
           \A d \in Callers :
                orphan'[d] # None /\ orphan'[d].watch = "clean" =>
                    /\ orphan[d] # None
                    /\ orphan[d].watch = "clean"
                    /\ orphan'[d] = orphan[d]
                    /\ db'[orphan[d].key] = db[orphan[d].key]
    PROVE  AtomicTransition' /\ AtomicOrphan'
<1>1. AtomicTransition'
  <2> SUFFICES ASSUME NEW c \in Callers,
                      stage[c] \in {"callback", "exec"}, watch'[c] = "clean"
               PROVE  current[c] = Stored(keyOf[c])'
    BY DEF AtomicTransition, callVars
  <2>1. keyOf[c] \in Keys
    BY DEF StoreInv, InAttempt
  <2>2. watch[c] = "clean" /\ db'[keyOf[c]] = db[keyOf[c]]
    BY <2>1
  <2>3. current[c] = Stored(keyOf[c])
    BY <2>2 DEF StoreInv, AtomicTransition
  <2>4. QED BY <2>2, <2>3 DEF Stored, callVars
<1>2. AtomicOrphan'
  BY DEF AtomicOrphan, StoreInv, Stored
<1>3. QED BY <1>1, <1>2

\* A direct write (save, delete, expiry) keeps the invariant.
LEMMA DirectWriteInv ==
    ASSUME StoreInv, NEW k \in Keys, NEW r \in Records \cup {None}, Write(k, r),
           UNCHANGED <<callVars, faults>>
    PROVE  StoreInv'
<1>1. StoreTypeOK'
  BY WriteType DEF StoreInv, StoreTypeOK, callVars
<1>2. InAttempt'
  BY DEF StoreInv, InAttempt, callVars
<1>3. AtomicTransition' /\ AtomicOrphan'
  BY WriteSpares, SparedAtomic DEF StoreInv
<1>4. QED BY <1>1, <1>2, <1>3 DEF StoreInv

\* A caller that leaves the loop or begins its next attempt without touching
\* the keyspace keeps the invariant, if its orphan was sent from a state it
\* had read.
LEMMA StepBackInv ==
    ASSUME StoreInv, NEW c \in Callers, Unwatch(c),
           Leave(c) \/ (attempt[c] < MaxCasRetries /\ stage[c] # "idle" /\ Retry(c)),
           orphan' = orphan \/ Abandon(c),
           db' = db, faults' \in 0..MaxFaults
    PROVE  StoreInv'
<1> USE RedisConstants
<1>1. StoreTypeOK'
  <2>1. orphan' \in [Callers -> Orphans \cup {None}]
    <3>1. CASE orphan' = orphan
      BY <3>1 DEF StoreInv, StoreTypeOK
    <3>2. CASE Abandon(c)
      <4>1. stage[c] = "exec" =>
              [key |-> keyOf[c], base |-> current[c], new |-> newState[c],
               watch |-> watch[c]] \in Orphans
        BY DEF StoreInv, InAttempt, StoreTypeOK, Orphans
      <4>2. QED BY <3>2, <4>1 DEF Abandon, StoreInv, StoreTypeOK
    <3>3. QED BY <3>1, <3>2
  <2>2. watch' \in [Callers -> {"clean", "dirty"}]
    BY DEF Unwatch, StoreInv, StoreTypeOK
  <2>3. CASE Leave(c)
    BY <2>1, <2>2, <2>3 DEF Leave, StoreInv, StoreTypeOK
  <2>4. CASE attempt[c] < MaxCasRetries /\ Retry(c)
    <3>1. attempt[c] + 1 \in 0..MaxCasRetries
      BY <2>4 DEF StoreInv, StoreTypeOK
    <3>2. QED BY <2>1, <2>2, <2>4, <3>1 DEF Retry, StoreInv, StoreTypeOK
  <2>5. QED BY <2>3, <2>4
<1>2. InAttempt'
  <2>1. CASE Leave(c)
    BY <2>1 DEF Leave, StoreInv, StoreTypeOK, InAttempt
  <2>2. CASE stage[c] # "idle" /\ Retry(c)
    BY <2>2 DEF Retry, StoreInv, StoreTypeOK, InAttempt
  <2>3. QED BY <2>1, <2>2
<1>3. AtomicTransition'
  <2> SUFFICES ASSUME NEW d \in Callers,
                      stage'[d] \in {"callback", "exec"}, watch'[d] = "clean"
               PROVE  current'[d] = Stored(keyOf[d])'
    BY DEF AtomicTransition
  <2>1. d # c
    BY DEF Unwatch, StoreInv, StoreTypeOK
  <2>2. /\ stage'[d] = stage[d] /\ watch'[d] = watch[d]
        /\ current'[d] = current[d] /\ keyOf'[d] = keyOf[d]
    BY <2>1 DEF Leave, Retry, Unwatch, StoreInv, StoreTypeOK
  <2>3. QED BY <2>2 DEF StoreInv, AtomicTransition, Stored
<1>4. AtomicOrphan'
  <2> SUFFICES ASSUME NEW d \in Callers, orphan'[d] # None, orphan'[d].watch = "clean"
               PROVE  orphan'[d].base = Stored(orphan'[d].key)
    BY DEF AtomicOrphan, Stored
  <2>1. CASE orphan'[d] = orphan[d]
    BY <2>1 DEF StoreInv, AtomicOrphan
  <2>2. CASE orphan'[d] # orphan[d]
    <3>1. d = c /\ stage[c] = "exec"
          /\ orphan'[d] = [key |-> keyOf[c], base |-> current[c],
                           new |-> newState[c], watch |-> watch[c]]
      BY <2>2 DEF Abandon, StoreInv, StoreTypeOK
    <3>2. QED BY <3>1 DEF StoreInv, AtomicTransition
  <2>3. QED BY <2>1, <2>2
<1>5. QED BY <1>1, <1>2, <1>3, <1>4 DEF StoreInv

\* The initial states satisfy the invariant.
LEMMA StoreInitInv == StoreInit => StoreInv
BY RedisConstants
   DEF StoreInit, StoreInv, StoreTypeOK, InAttempt, AtomicTransition, AtomicOrphan

\* Every step keeps it.
LEMMA StoreNextInv == StoreInv /\ [StoreNext]_storeVars => StoreInv'
<1> SUFFICES ASSUME StoreInv, [StoreNext]_storeVars PROVE StoreInv'
  OBVIOUS
<1> USE RedisConstants, NoneIsNoState
<1>1. ASSUME NEW k \in Keys, Expire(k) PROVE StoreInv'
  BY <1>1, DirectWriteInv DEF Expire
<1>2. ASSUME NEW k \in Keys, Delete(k) PROVE StoreInv'
  BY <1>2, DirectWriteInv DEF Delete
<1>3. ASSUME NEW k \in Keys, NEW v \in Values, Save(k, v) PROVE StoreInv'
  <2>1. Encode[v] \in Records
    OBVIOUS
  <2>2. QED BY <1>3, <2>1, DirectWriteInv DEF Save
<1>4. ASSUME NEW c \in Callers, NEW k \in Keys, TransitionStart(c, k) PROVE StoreInv'
  <2>1. StoreTypeOK' /\ InAttempt'
    BY <1>4 DEF TransitionStart, StoreInv, StoreTypeOK, InAttempt
  <2>2. AtomicTransition'
    BY <1>4 DEF TransitionStart, StoreInv, StoreTypeOK, AtomicTransition, Stored
  <2>3. AtomicOrphan'
    BY <1>4 DEF TransitionStart, StoreInv, AtomicOrphan, Stored
  <2>4. QED BY <2>1, <2>2, <2>3 DEF StoreInv
<1>5. ASSUME NEW c \in Callers, Watch(c) PROVE StoreInv'
  <2>1. StoreTypeOK' /\ InAttempt'
    BY <1>5 DEF Watch, StoreInv, StoreTypeOK, InAttempt
  <2>2. AtomicTransition'
    BY <1>5 DEF Watch, StoreInv, StoreTypeOK, AtomicTransition, Stored
  <2>3. AtomicOrphan'
    BY <1>5 DEF Watch, StoreInv, AtomicOrphan, Stored
  <2>4. QED BY <2>1, <2>2, <2>3 DEF StoreInv
<1>6. ASSUME NEW c \in Callers, Read(c) PROVE StoreInv'
  <2>1. Stored(keyOf[c]) \in Values \cup {None}
    BY <1>6, StoredType DEF Read, StoreInv, InAttempt
  <2>2. StoreTypeOK' /\ InAttempt'
    BY <1>6, <2>1 DEF Read, StoreInv, StoreTypeOK, InAttempt
  <2>3. AtomicTransition'
    BY <1>6 DEF Read, StoreInv, StoreTypeOK, AtomicTransition, Stored
  <2>4. AtomicOrphan'
    BY <1>6 DEF Read, StoreInv, AtomicOrphan, Stored
  <2>5. QED BY <2>2, <2>3, <2>4 DEF StoreInv
<1>7. ASSUME NEW c \in Callers, NEW v \in Values \cup {None}, Callback(c, v)
      PROVE  StoreInv'
  <2>1. StoreTypeOK' /\ InAttempt'
    BY <1>7 DEF Callback, StoreInv, StoreTypeOK, InAttempt
  <2>2. AtomicTransition'
    BY <1>7 DEF Callback, StoreInv, StoreTypeOK, AtomicTransition, Stored
  <2>3. AtomicOrphan'
    BY <1>7 DEF Callback, StoreInv, AtomicOrphan, Stored
  <2>4. QED BY <2>1, <2>2, <2>3 DEF StoreInv
<1>8. ASSUME NEW c \in Callers, ExecCommit(c) PROVE StoreInv'
  <2> DEFINE k == keyOf[c]
  <2>1. k \in Keys
    BY <1>8 DEF ExecCommit, StoreInv, InAttempt
  <2>2. Record(newState[c]) \in Records \cup {None}
    BY RecordType DEF StoreInv, StoreTypeOK
  <2>3. Write(k, Record(newState[c])) /\ Leave(c) /\ faults' = faults
    BY <1>8 DEF ExecCommit
  <2>4. StoreTypeOK' /\ InAttempt'
    BY <2>1, <2>2, <2>3, WriteType DEF Leave, StoreInv, StoreTypeOK, InAttempt
  <2>5. AtomicTransition'
    <3> SUFFICES ASSUME NEW d \in Callers,
                        stage'[d] \in {"callback", "exec"}, watch'[d] = "clean"
                 PROVE  current'[d] = Stored(keyOf[d])'
      BY DEF AtomicTransition
    <3>1. d # c
      BY <2>3 DEF Leave, StoreInv, StoreTypeOK
    <3>2. stage'[d] = stage[d] /\ current'[d] = current[d] /\ keyOf'[d] = keyOf[d]
      BY <2>3, <3>1 DEF Leave, StoreInv, StoreTypeOK
    <3>3. keyOf[d] \in Keys
      BY <3>2 DEF StoreInv, InAttempt
    <3>4. watch[d] = "clean" /\ db'[keyOf[d]] = db[keyOf[d]]
      BY <2>1, <2>2, <2>3, <3>3, WriteSpares DEF StoreInv
    <3>5. QED BY <3>2, <3>4 DEF StoreInv, AtomicTransition, Stored
  <2>6. AtomicOrphan'
    BY <2>1, <2>2, <2>3, WriteSpares DEF StoreInv, AtomicOrphan, Stored
  <2>7. QED BY <2>4, <2>5, <2>6 DEF StoreInv
<1>9. ASSUME NEW c \in Callers,
             \/ CallbackRaise(c) \/ ExecAbort(c) \/ Exhausted(c)
             \/ WatchLost(c) \/ ConnectionLost(c) \/ Crash(c)
      PROVE  StoreInv'
  <2>1. db' = db /\ Unwatch(c) /\ (orphan' = orphan \/ Abandon(c))
    BY <1>9 DEF CallbackRaise, ExecAbort, Exhausted, WatchLost, ConnectionLost, Crash
  <2>2. faults' \in 0..MaxFaults
    BY <1>9 DEF CallbackRaise, ExecAbort, Exhausted, WatchLost, ConnectionLost,
                Crash, Fault, StoreInv, StoreTypeOK
  <2>3. Leave(c) \/ (attempt[c] < MaxCasRetries /\ stage[c] # "idle" /\ Retry(c))
    BY <1>9 DEF CallbackRaise, ExecAbort, Exhausted, WatchLost, ConnectionLost,
                Crash, StoreInv, InAttempt
  <2>4. QED BY <2>1, <2>2, <2>3, StepBackInv
<1>10. ASSUME NEW c \in Callers, OrphanCommit(c) PROVE StoreInv'
  <2>1. UNCHANGED <<callVars, faults>>
    BY <1>10 DEF OrphanCommit
  <2>2. StoreTypeOK' /\ InAttempt'
    BY <1>10, <2>1, OrphanCommitSpares DEF StoreInv, StoreTypeOK, InAttempt, callVars
  <2>3. AtomicTransition' /\ AtomicOrphan'
    BY <1>10, <2>1, OrphanCommitSpares, SparedAtomic
  <2>4. QED BY <2>2, <2>3 DEF StoreInv
<1>11. ASSUME NEW c \in Callers, OrphanDrop(c) PROVE StoreInv'
  <2>1. StoreTypeOK' /\ InAttempt'
    BY <1>11 DEF OrphanDrop, StoreInv, StoreTypeOK, InAttempt, callVars
  <2>2. AtomicTransition'
    BY <1>11 DEF OrphanDrop, StoreInv, AtomicTransition, Stored, callVars
  <2>3. AtomicOrphan'
    BY <1>11 DEF OrphanDrop, StoreInv, StoreTypeOK, AtomicOrphan, Stored
  <2>4. QED BY <2>1, <2>2, <2>3 DEF StoreInv
<1>12. CASE UNCHANGED storeVars
  BY <1>12 DEF storeVars, StoreInv, StoreTypeOK, InAttempt, AtomicTransition,
               AtomicOrphan, Stored
<1>13. QED
  BY <1>1, <1>2, <1>3, <1>4, <1>5, <1>6, <1>7, <1>8, <1>9, <1>10, <1>11, <1>12
     DEF StoreNext, TransitionStep

\* The inductive invariant holds of every reachable state.
THEOREM StoreInvariance == StoreSpec => []StoreInv
BY StoreInitInv, StoreNextInv, PTL DEF StoreSpec

\* Every variable of the Redis store keeps its type; in particular the number
\* of attempts never passes _MAX_CAS_RETRIES.
THEOREM RedisTypeCorrect == StoreSpec => []StoreTypeOK
<1>1. StoreInv => StoreTypeOK
  BY DEF StoreInv
<1>2. QED BY <1>1, StoreInvariance, PTL

\* base.py:36-41: the read-modify-write of transition() is atomic for any
\* number of threads and keys, against rival transitions, direct writes,
\* expiry, lost connections and crashes.
THEOREM RedisTransitionAtomic == StoreSpec => []AtomicTransition
<1>1. StoreInv => AtomicTransition
  BY DEF StoreInv
<1>2. QED BY <1>1, StoreInvariance, PTL

\* The handler of WatchError (redis_store.py:126) retries although EXEC may
\* have been sent: the transaction that a lost connection or a dead worker
\* leaves behind is accepted only on the state it was computed from.
THEOREM RedisOrphanAtomic == StoreSpec => []AtomicOrphan
<1>1. StoreInv => AtomicOrphan
  BY DEF StoreInv
<1>2. QED BY <1>1, StoreInvariance, PTL
=============================================================================
