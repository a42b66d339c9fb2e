----------------------------- MODULE RedisStore -----------------------------
(***************************************************************************)
(* RedisRestorationStore of app/restoration/redis_store.py, shared by the  *)
(* threads of every worker process.                                        *)
(*                                                                         *)
(* The server is modelled from how the store uses it: db is the keyspace,  *)
(* every command is one step, and a key set with ex=ttl may expire at any  *)
(* later moment (how long ttl is does not matter to the order of events).  *)
(* WATCH makes a client's EXEC fail if the key was written, deleted or     *)
(* expired in between.  The client library turns a connection lost while   *)
(* watching into WatchError as well, so the store retries although the     *)
(* transaction it sent may still reach the server: before, during or after *)
(* the retry.  Such a transaction is the caller's orphan.                  *)
(***************************************************************************)
EXTENDS RestorationBase, Naturals

CONSTANTS
    Callers,           \* threads, of all worker processes
    Records,           \* what is stored: the JSON text of a state
    Decode,            \* _decode
    Encode,            \* _encode
    InitialRecords,    \* records an older release left, or None, by key
    MaxCasRetries,     \* _MAX_CAS_RETRIES
    MaxFaults          \* bound on lost connections and dead workers

ASSUME RedisConstants ==
    /\ Decode \in [Records -> Values]
    /\ Encode \in [Values -> Records]
    /\ \A v \in Values : Decode[Encode[v]] = v
    /\ InitialRecords \in [Keys -> Records \cup {None}]
    /\ None \notin Records
    /\ MaxCasRetries \in Nat \ {0}
    /\ MaxFaults \in Nat

VARIABLES
    db,            \* the server's keyspace
    watch,         \* a client's EXEC would succeed ("clean") or not
    stage,         \* where a caller is inside transition()
    keyOf,         \* the key it works on
    attempt,       \* the loop variable
    current,       \* the state it read
    newState,      \* the state the callback returned
    orphan,        \* a transaction sent on a connection since lost
    faults         \* connections lost and workers dead so far

storeVars ==
    <<db, watch, stage, keyOf, attempt, current, newState, orphan, faults>>

callVars == <<stage, keyOf, attempt, current, newState>>

Orphans == [key : Keys, base : Values \cup {None}, new : Values \cup {None},
            watch : {"clean", "dirty"}]

\* What a read of key k returns.
Stored(k) == IF db[k] = None THEN None ELSE Decode[db[k]]

\* What is stored for state v; None is no record.
Record(v) == IF v = None THEN None ELSE Encode[v]

\* The server touches key k: the client with watch flag f on key j will fail
\* to EXEC if j is k.
Flag(f, j, k) == IF f = "clean" /\ j = k THEN "dirty" ELSE f

\* The server sets key k to record r (None deletes it; deleting what is
\* absent touches nothing).
Write(k, r) ==
    LET touched == r # None \/ db[k] # None
    IN  /\ db' = [db EXCEPT ![k] = r]
        /\ watch' = [c \in Callers |->
                        IF touched THEN Flag(watch[c], keyOf[c], k) ELSE watch[c]]
        /\ orphan' = [c \in Callers |->
                        IF touched /\ orphan[c] # None
                        THEN [orphan[c] EXCEPT !.watch = Flag(@, orphan[c].key, k)]
                        ELSE orphan[c]]

-----------------------------------------------------------------------------

StoreInit ==
    /\ db = InitialRecords
    /\ watch = [c \in Callers |-> "dirty"]
    /\ stage = [c \in Callers |-> "idle"]
    /\ keyOf = [c \in Callers |-> None]
    /\ attempt = [c \in Callers |-> 0]
    /\ current = [c \in Callers |-> None]
    /\ newState = [c \in Callers |-> None]
    /\ orphan = [c \in Callers |-> None]
    /\ faults = 0

\* The server drops a key whose time has passed.
Expire(k) ==
    /\ db[k] # None
    /\ Write(k, None)
    /\ UNCHANGED <<callVars, faults>>

\* save(): a plain overwrite.
Save(k, v) ==
    /\ Write(k, Encode[v])
    /\ UNCHANGED <<callVars, faults>>

\* delete()
Delete(k) ==
    /\ Write(k, None)
    /\ UNCHANGED <<callVars, faults>>

-----------------------------------------------------------------------------
(* transition(): a loop of WATCH, GET, callback, MULTI/EXEC.               *)

TransitionStart(c, k) ==
    /\ stage[c] = "idle"
    /\ stage' = [stage EXCEPT ![c] = "watch"]
    /\ keyOf' = [keyOf EXCEPT ![c] = k]
    /\ UNCHANGED <<db, watch, attempt, current, newState, orphan, faults>>

Watch(c) ==
    /\ stage[c] = "watch"
    /\ attempt[c] < MaxCasRetries
    /\ watch' = [watch EXCEPT ![c] = "clean"]
    /\ stage' = [stage EXCEPT ![c] = "read"]
    /\ UNCHANGED <<db, keyOf, attempt, current, newState, orphan, faults>>

Read(c) ==
    /\ stage[c] = "read"
    /\ current' = [current EXCEPT ![c] = Stored(keyOf[c])]
    /\ stage' = [stage EXCEPT ![c] = "callback"]
    /\ UNCHANGED <<db, watch, keyOf, attempt, newState, orphan, faults>>

\* Mutant: WATCH is sent after GET.
Callback_WatchesLate(c, v) ==
    /\ stage[c] = "callback"
    /\ newState' = [newState EXCEPT ![c] = v]
    /\ stage' = [stage EXCEPT ![c] = "exec"]
    /\ watch' = [watch EXCEPT ![c] = "clean"]
    /\ UNCHANGED <<db, keyOf, attempt, current, orphan, faults>>

\* fn(current) returned v (None asks for deletion).
Callback(c, v) ==
    /\ stage[c] = "callback"
    /\ newState' = [newState EXCEPT ![c] = v]
    /\ stage' = [stage EXCEPT ![c] = "exec"]
    /\ UNCHANGED <<db, watch, keyOf, attempt, current, orphan, faults>>

\* The connection watches nothing any more.
Unwatch(c) == watch' = [watch EXCEPT ![c] = "dirty"]

\* The caller leaves transition(), by return or by exception.
Leave(c) ==
    /\ stage' = [stage EXCEPT ![c] = "idle"]
    /\ keyOf' = [keyOf EXCEPT ![c] = None]
    /\ attempt' = [attempt EXCEPT ![c] = 0]
    /\ current' = [current EXCEPT ![c] = None]
    /\ newState' = [newState EXCEPT ![c] = None]

\* Mutant: while True, an attempt that failed is not counted.
Retry_Uncounted(c) ==
    /\ stage' = [stage EXCEPT ![c] = "watch"]
    /\ current' = [current EXCEPT ![c] = None]
    /\ newState' = [newState EXCEPT ![c] = None]
    /\ UNCHANGED <<keyOf, attempt>>

\* WatchError: back off and begin the next attempt.
Retry(c) ==
    /\ stage' = [stage EXCEPT ![c] = "watch"]
    /\ attempt' = [attempt EXCEPT ![c] = @ + 1]
    /\ current' = [current EXCEPT ![c] = None]
    /\ newState' = [newState EXCEPT ![c] = None]
    /\ UNCHANGED keyOf

\* fn(current) raised.
CallbackRaise(c) ==
    /\ stage[c] = "callback"
    /\ Leave(c)
    /\ Unwatch(c)
    /\ UNCHANGED <<db, orphan, faults>>

ExecCommit(c) ==
    /\ stage[c] = "exec"
    /\ watch[c] = "clean"
    /\ Write(keyOf[c], Record(newState[c]))
    /\ Leave(c)
    /\ UNCHANGED faults

ExecAbort(c) ==
    /\ stage[c] = "exec"
    /\ watch[c] = "dirty"
    /\ Retry(c)
    /\ Unwatch(c)
    /\ UNCHANGED <<db, orphan, faults>>

\* Every attempt failed: ServiceOverloadedError.
Exhausted(c) ==
    /\ stage[c] = "watch"
    /\ attempt[c] = MaxCasRetries
    /\ Leave(c)
    /\ Unwatch(c)
    /\ UNCHANGED <<db, orphan, faults>>

-----------------------------------------------------------------------------
(* Faults.                                                                 *)

Fault ==
    /\ faults < MaxFaults
    /\ faults' = faults + 1

\* WATCH itself fails: not watching yet, so the error leaves transition().
WatchLost(c) ==
    /\ Fault
    /\ stage[c] = "watch"
    /\ attempt[c] < MaxCasRetries
    /\ Leave(c)
    /\ Unwatch(c)
    /\ UNCHANGED <<db, orphan>>

\* A connection that had sent its transaction leaves it as an orphan; the
\* model keeps one per caller.
Abandon(c) ==
    orphan' = [orphan EXCEPT ![c] =
                IF stage[c] = "exec" /\ @ = None
                THEN [key |-> keyOf[c], base |-> current[c],
                      new |-> newState[c], watch |-> watch[c]]
                ELSE @]

\* The connection is lost at GET or at EXEC.
ConnectionLost(c) ==
    /\ Fault
    /\ stage[c] \in {"read", "exec"}
    /\ Abandon(c)
    /\ Retry(c)
    /\ Unwatch(c)
    /\ UNCHANGED db

\* The worker process dies.
Crash(c) ==
    /\ Fault
    /\ stage[c] # "idle"
    /\ Abandon(c)
    /\ Leave(c)
    /\ Unwatch(c)
    /\ UNCHANGED db

\* The server runs an orphan after all ...
OrphanCommit(c) ==
    /\ orphan[c] # None
    /\ orphan[c].watch = "clean"
    /\ db' = [db EXCEPT ![orphan[c].key] = Record(orphan[c].new)]
    /\ watch' = [d \in Callers |-> Flag(watch[d], keyOf[d], orphan[c].key)]
    /\ orphan' = [d \in Callers |->
                    IF d = c \/ orphan[d] = None
                    THEN None
                    ELSE [orphan[d] EXCEPT !.watch =
                             Flag(@, orphan[d].key, orphan[c].key)]]
    /\ UNCHANGED <<callVars, faults>>

\* ... or fails it, or never received it.
OrphanDrop(c) ==
    /\ orphan[c] # None
    /\ orphan' = [orphan EXCEPT ![c] = None]
    /\ UNCHANGED <<db, watch, callVars, faults>>

\* The caller's own steps inside transition().
TransitionStep(c) ==
    \/ Watch(c)
    \/ Read(c)
    \/ \E v \in Values \cup {None} : Callback(c, v)
    \/ CallbackRaise(c)
    \/ ExecCommit(c)
    \/ ExecAbort(c)
    \/ Exhausted(c)

StoreNext ==
    \/ \E k \in Keys :
        \/ Expire(k)
        \/ Delete(k)
        \/ \E v \in Values : Save(k, v)
    \/ \E c \in Callers :
        \/ \E k \in Keys : TransitionStart(c, k)
        \/ TransitionStep(c)
        \/ WatchLost(c)
        \/ ConnectionLost(c)
        \/ Crash(c)
        \/ OrphanCommit(c)
        \/ OrphanDrop(c)

StoreSpec == StoreInit /\ [][StoreNext]_storeVars

\* A thread inside transition() goes on, and its callback comes to an end;
\* nothing is assumed of the others, who may write for ever.
StoreFairSpec == StoreSpec /\ \A c \in Callers : WF_storeVars(TransitionStep(c))

-----------------------------------------------------------------------------
(* Properties.                                                             *)

\* Every variable has its type.
StoreTypeOK ==
    /\ db \in [Keys -> Records \cup {None}]
    /\ watch \in [Callers -> {"clean", "dirty"}]
    /\ stage \in [Callers -> {"idle", "watch", "read", "callback", "exec"}]
    /\ keyOf \in [Callers -> Keys \cup {None}]
    /\ attempt \in [Callers -> 0..MaxCasRetries]
    /\ current \in [Callers -> Values \cup {None}]
    /\ newState \in [Callers -> Values \cup {None}]
    /\ orphan \in [Callers -> Orphans \cup {None}]
    /\ faults \in 0..MaxFaults

\* base.py:36-41, "the read-modify-write is atomic": a transaction the server
\* will accept was computed from the state the key still has, whoever wrote,
\* deleted or let it expire meanwhile.
AtomicTransition ==
    \A c \in Callers :
        stage[c] \in {"callback", "exec"} /\ watch[c] = "clean"
            => current[c] = Stored(keyOf[c])

\* The same of a transaction that outlives the attempt that sent it.
AtomicOrphan ==
    \A c \in Callers :
        orphan[c] # None /\ orphan[c].watch = "clean"
            => orphan[c].base = Stored(orphan[c].key)

\* redis_store.py:110-136: transition() comes back, by return or by exception,
\* also when writers who never stop make every attempt fail.
TransitionEnds ==
    \A c \in Callers : stage[c] # "idle" ~> stage[c] = "idle"
=============================================================================
