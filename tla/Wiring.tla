------------------------------- MODULE Wiring -------------------------------
(***************************************************************************)
(* The composition root, app/api/dependencies.py, with the in-memory       *)
(* backend.  Services are built by factories under functools.lru_cache and *)
(* the factories are dependencies of the routes, which FastAPI resolves in *)
(* pool threads.  lru_cache looks the result up, runs the factory on a     *)
(* miss, keeps the first result that arrives, and returns to each caller   *)
(* the result that caller computed.                                        *)
(***************************************************************************)
EXTENDS Naturals

CONSTANTS Threads, MaxStores, None

VARIABLES
    built,         \* stores constructed so far, numbered from 1
    storeCache,    \* what lru_cache holds for get_restoration_store
    serviceCache,  \* the store of the service held for get_process_service
    pc,            \* where a thread is in resolving the dependency
    got,           \* the store its get_restoration_store returned
    injected       \* the store behind the service given to its last handler

vars == <<built, storeCache, serviceCache, pc, got, injected>>

Init ==
    /\ built = 0
    /\ storeCache = None
    /\ serviceCache = None
    /\ pc = [t \in Threads |-> "idle"]
    /\ got = [t \in Threads |-> None]
    /\ injected = [t \in Threads |-> None]

\* get_process_service: a hit injects the cached service.
ServiceHit(t) ==
    /\ pc[t] = "idle"
    /\ serviceCache # None
    /\ injected' = [injected EXCEPT ![t] = serviceCache]
    /\ UNCHANGED <<built, storeCache, serviceCache, pc, got>>

ServiceMiss(t) ==
    /\ pc[t] = "idle"
    /\ serviceCache = None
    /\ pc' = [pc EXCEPT ![t] = "store"]
    /\ UNCHANGED <<built, storeCache, serviceCache, got, injected>>

\* get_restoration_store, called by the factory of the service.
StoreHit(t) ==
    /\ pc[t] = "store"
    /\ storeCache # None
    /\ got' = [got EXCEPT ![t] = storeCache]
    /\ pc' = [pc EXCEPT ![t] = "service"]
    /\ UNCHANGED <<built, storeCache, serviceCache, injected>>

StoreMiss(t) ==
    /\ pc[t] = "store"
    /\ storeCache = None
    /\ pc' = [pc EXCEPT ![t] = "construct"]
    /\ UNCHANGED <<built, storeCache, serviceCache, got, injected>>

StoreBuilt(t) ==
    /\ pc[t] = "construct"
    /\ built < MaxStores
    /\ built' = built + 1
    /\ got' = [got EXCEPT ![t] = built + 1]
    /\ storeCache' = IF storeCache = None THEN built + 1 ELSE storeCache
    /\ pc' = [pc EXCEPT ![t] = "service"]
    /\ UNCHANGED <<serviceCache, injected>>

ServiceBuilt(t) ==
    /\ pc[t] = "service"
    /\ serviceCache' = IF serviceCache = None THEN got[t] ELSE serviceCache
    /\ injected' = [injected EXCEPT ![t] = got[t]]
    /\ pc' = [pc EXCEPT ![t] = "idle"]
    /\ UNCHANGED <<built, storeCache, got>>

Next ==
    \E t \in Threads :
        \/ ServiceHit(t)
        \/ ServiceMiss(t)
        \/ StoreHit(t)
        \/ StoreMiss(t)
        \/ StoreBuilt(t)
        \/ ServiceBuilt(t)

Spec == Init /\ [][Next]_vars

\* dependencies.py:3-4, "services are built once at startup and injected into
\* handlers": all handlers work on one and the same restoration store.
HandlersShareOneStore ==
    \A t, u \in Threads :
        injected[t] # None /\ injected[u] # None => injected[t] = injected[u]
=============================================================================
