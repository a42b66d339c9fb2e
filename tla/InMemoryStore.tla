--------------------------- MODULE InMemoryStore ---------------------------
(***************************************************************************)
(* InMemoryRestorationStore of app/restoration/memory.py: the restoration  *)
(* store of a single process, called by the threads of FastAPI's pool.     *)
(*                                                                         *)
(* data is the OrderedDict _data, front first: a sequence of entries, each *)
(* a key with its expiry and its value.  The value is what Fernet and the  *)
(* JSON codec give back, unchanged for every record this store wrote       *)
(* itself.  stripes are the per-key locks of transition(), held across     *)
(* three sections: the read section, the callback (outside the data lock)  *)
(* and the write section.  A section that runs under _lock is one action;  *)
(* time passes inside it, so each further time.monotonic() call of the     *)
(* section is a choice of a later reading.                                 *)
(***************************************************************************)
EXTENDS RestorationBase, Naturals, Sequences, SequencesExt

CONSTANTS
    Callers,       \* threads
    Stripes,       \* indices of _stripes
    StripeOf,      \* hash(payload_id) % _STRIPE_COUNT
    TTL,           \* ttl_seconds
    MaxEntries,    \* max_entries
    MaxTime,       \* bound on the clock
    Free           \* an unlocked stripe

ASSUME StoreConstants ==
    /\ StripeOf \in [Keys -> Stripes]
    /\ TTL \in Nat
    /\ MaxEntries \in Nat
    /\ MaxTime \in Nat
    /\ Free \notin Callers

VARIABLES
    now,           \* time.monotonic()
    data,          \* _data
    stripes,       \* the holder of each stripe lock
    stage,         \* where a caller is inside transition()
    keyOf,         \* the key a caller's transition() works on
    current,       \* the state the read section found
    newState       \* the state the callback returned

storeVars == <<now, data, stripes, stage, keyOf, current, newState>>

Entries == [key : Keys, exp : Nat, val : Values]

-----------------------------------------------------------------------------
(* The OrderedDict operations.                                             *)

HasKey(s, k) == \E i \in 1..Len(s) : s[i].key = k

IndexOf(s, k) == CHOOSE i \in 1..Len(s) : s[i].key = k

\* _data.pop(k, None)
Pop(s, k) == IF HasKey(s, k) THEN RemoveAt(s, IndexOf(s, k)) ELSE s

\* Mutant: a refreshed entry keeps its place, as without move_to_end.
Put_NoMoveToEnd(s, k, v, t) ==
    IF HasKey(s, k)
    THEN [s EXCEPT ![IndexOf(s, k)] = [key |-> k, exp |-> t + TTL, val |-> v]]
    ELSE Append(s, [key |-> k, exp |-> t + TTL, val |-> v])

\* move_to_end and the assignment of the new entry
Put(s, k, v, t) == Append(Pop(s, k), [key |-> k, exp |-> t + TTL, val |-> v])

\* Mutant: the loop deletes one expired entry and stops.
Evicts_One(s, t, n) ==
    n = IF Len(s) > 0 /\ s[1].exp <= t THEN 1 ELSE 0

\* The loop of _evict_expired_locked reading the clock at t deletes the
\* first n entries of s.
Evicts(s, t, n) ==
    /\ \A i \in 1..n : s[i].exp <= t
    /\ n < Len(s) => t < s[n + 1].exp

\* Mutant: the loop also deletes the first live entry.
Evicted_OneMore(s, n) == SubSeq(s, n + 2, Len(s))

\* What the loop leaves.
Evicted(s, n) == SubSeq(s, n + 1, Len(s))

\* Mutant: the comparison lets one entry too many in.
Full_OffByOne(s, k) == ~HasKey(s, k) /\ Len(s) > MaxEntries

\* payload_id not in self._data and len(self._data) >= self._max_entries
Full(s, k) == ~HasKey(s, k) /\ Len(s) >= MaxEntries

-----------------------------------------------------------------------------

StoreInit ==
    /\ now = 0
    /\ data = <<>>
    /\ stripes = [s \in Stripes |-> Free]
    /\ stage = [c \in Callers |-> "idle"]
    /\ keyOf = [c \in Callers |-> None]
    /\ current = [c \in Callers |-> None]
    /\ newState = [c \in Callers |-> None]

Tick ==
    /\ now < MaxTime
    /\ now' = now + 1
    /\ UNCHANGED <<data, stripes, stage, keyOf, current, newState>>

\* get(): an expired entry is deleted on the way.
Get(k) ==
    /\ data' = IF HasKey(data, k) /\ data[IndexOf(data, k)].exp <= now
               THEN Pop(data, k)
               ELSE data
    /\ UNCHANGED <<now, stripes, stage, keyOf, current, newState>>

\* What get() returns.
GetResult(k) ==
    IF HasKey(data, k) /\ now < data[IndexOf(data, k)].exp
    THEN data[IndexOf(data, k)].val
    ELSE None

\* save(): takes only the data lock, so it may fall between the sections of
\* a transition on the same key.
Save(k, v) ==
    \E n \in 0..Len(data), later \in now..MaxTime :
        /\ Evicts(data, now, n)
        /\ now' = later
        /\ data' = IF Full(Evicted(data, n), k)
                   THEN Evicted(data, n)
                   ELSE Put(Evicted(data, n), k, v, later)
        /\ UNCHANGED <<stripes, stage, keyOf, current, newState>>

\* delete()
Delete(k) ==
    /\ data' = Pop(data, k)
    /\ UNCHANGED <<now, stripes, stage, keyOf, current, newState>>

-----------------------------------------------------------------------------
(* transition(): acquire the stripe, read, call back, write, release.      *)

\* Mutant: the stripe is not waited for.
TransitionAcquire_NoLock(c, k) ==
    /\ stage[c] = "idle"
    /\ stripes' = [stripes EXCEPT ![StripeOf[k]] = c]
    /\ stage' = [stage EXCEPT ![c] = "read"]
    /\ keyOf' = [keyOf EXCEPT ![c] = k]
    /\ UNCHANGED <<now, data, current, newState>>

TransitionAcquire(c, k) ==
    /\ stage[c] = "idle"
    /\ stripes[StripeOf[k]] = Free
    /\ stripes' = [stripes EXCEPT ![StripeOf[k]] = c]
    /\ stage' = [stage EXCEPT ![c] = "read"]
    /\ keyOf' = [keyOf EXCEPT ![c] = k]
    /\ UNCHANGED <<now, data, current, newState>>

\* The read section: evict, look the key up, check its expiry again.
TransitionRead(c) ==
    /\ stage[c] = "read"
    /\ \E n \in 0..Len(data), later \in now..MaxTime :
        LET k    == keyOf[c]
            rest == Evicted(data, n)
            here == HasKey(rest, k)
            live == here /\ later < rest[IndexOf(rest, k)].exp
        IN  /\ Evicts(data, now, n)
            /\ now' = later
            /\ data' = IF here /\ ~live THEN Pop(rest, k) ELSE rest
            /\ current' = [current EXCEPT ![c] =
                              IF live THEN rest[IndexOf(rest, k)].val ELSE None]
    /\ stage' = [stage EXCEPT ![c] = "callback"]
    /\ UNCHANGED <<stripes, keyOf, newState>>

\* fn(current) returned v (None asks for deletion).
TransitionCallback(c, v) ==
    /\ stage[c] = "callback"
    /\ newState' = [newState EXCEPT ![c] = v]
    /\ stage' = [stage EXCEPT ![c] = "write"]
    /\ UNCHANGED <<now, data, stripes, keyOf, current>>

\* Leaving transition() releases the stripe, on every path.
Leave(c) ==
    /\ stripes' = [stripes EXCEPT ![StripeOf[keyOf[c]]] = Free]
    /\ stage' = [stage EXCEPT ![c] = "idle"]
    /\ keyOf' = [keyOf EXCEPT ![c] = None]
    /\ current' = [current EXCEPT ![c] = None]
    /\ newState' = [newState EXCEPT ![c] = None]

\* Mutant: an exception of the callback leaves the stripe locked.
TransitionRaise_KeepsStripe(c) ==
    /\ stage[c] = "callback"
    /\ stage' = [stage EXCEPT ![c] = "idle"]
    /\ UNCHANGED <<now, data, stripes, keyOf, current, newState>>

\* fn(current) raised.
TransitionRaise(c) ==
    /\ stage[c] = "callback"
    /\ Leave(c)
    /\ UNCHANGED <<now, data>>

\* The write section finds the store full: ServiceOverloadedError.
TransitionOverload(c) ==
    /\ stage[c] = "write"
    /\ newState[c] # None
    /\ Full(data, keyOf[c])
    /\ Leave(c)
    /\ UNCHANGED <<now, data>>

\* Mutant: the write section does not tell None from a state.
TransitionWrite_NoneUnchecked(c) ==
    /\ stage[c] = "write"
    /\ ~Full(data, keyOf[c])
    /\ data' = Put(data, keyOf[c], newState[c], now)
    /\ Leave(c)
    /\ UNCHANGED now

\* The write section writes the new state, with a new expiry, at the end.
TransitionWrite(c) ==
    /\ stage[c] = "write"
    /\ newState[c] # None
    /\ ~Full(data, keyOf[c])
    /\ data' = Put(data, keyOf[c], newState[c], now)
    /\ Leave(c)
    /\ UNCHANGED now

\* The write section deletes the key.
TransitionDelete(c) ==
    /\ stage[c] = "write"
    /\ newState[c] = None
    /\ data' = Pop(data, keyOf[c])
    /\ Leave(c)
    /\ UNCHANGED now

\* The calls the mask/demask lifecycle makes.
LifecycleNext ==
    \/ Tick
    \/ \E k \in Keys : Get(k)
    \/ \E c \in Callers :
        \/ \E k \in Keys : TransitionAcquire(c, k)
        \/ TransitionRead(c)
        \/ \E v \in Values : TransitionCallback(c, v)
        \/ TransitionRaise(c)
        \/ TransitionOverload(c)
        \/ TransitionWrite(c)

\* The rest of the store's interface.
DirectNext ==
    \/ \E k \in Keys : Delete(k) \/ \E v \in Values : Save(k, v)
    \/ \E c \in Callers : TransitionCallback(c, None) \/ TransitionDelete(c)

StoreNext == LifecycleNext \/ DirectNext

StoreSpec == StoreInit /\ [][StoreNext]_storeVars

LifecycleSpec == StoreInit /\ [][LifecycleNext]_storeVars

-----------------------------------------------------------------------------
(* Properties.                                                             *)

Stages == {"idle", "read", "callback", "write"}

\* Every variable has its type.
StoreTypeOK ==
    /\ now \in 0..MaxTime
    /\ data \in Seq(Entries)
    /\ stripes \in [Stripes -> Callers \cup {Free}]
    /\ stage \in [Callers -> Stages]
    /\ keyOf \in [Callers -> Keys \cup {None}]
    /\ current \in [Callers -> Values \cup {None}]
    /\ newState \in [Callers -> Values \cup {None}]

\* "insertion order matches expiry order" (memory.py:11-14), the fact that
\* lets _evict_expired_locked stop at the first live entry: it must survive
\* every refresh, deletion from the middle and interleaved write.
OrderMatchesExpiry ==
    \A i, j \in 1..Len(data) : i < j => data[i].exp <= data[j].exp

\* The store never holds more than max_entries mappings, although the two
\* sections of a transition see it at different times.
CapacityRespected == Len(data) <= MaxEntries

\* The eviction at the head of transition() misses nothing: after the read
\* section no entry that had expired when it began is left anywhere, although
\* the loop only ever looks at the front.
EvictionComplete ==
    [][(\E c \in Callers : stage[c] = "read" /\ stage'[c] = "callback")
        => \A i \in 1..Len(data') : now < data'[i].exp]_storeVars

\* base.py:36-41, "the read-modify-write is atomic": from the read section to
\* the write section of a transition nobody else changes the key's state; the
\* entry may only vanish, by expiry.
AtomicTransition ==
    \A c \in Callers :
        stage[c] \in {"callback", "write"} =>
            \A i \in 1..Len(data) :
                data[i].key = keyOf[c] => data[i].val = current[c]

\* memory.py:90-91, "Never sacrifice a live mapping": the lifecycle's calls
\* never drop an entry that has not expired, and never shorten its life.
LiveNeverEvicted ==
    [][\A i \in 1..Len(data) :
        now' < data[i].exp =>
            \E j \in 1..Len(data') :
                /\ data'[j].key = data[i].key
                /\ data'[j].exp >= data[i].exp]_storeVars

\* docs/qa-report.md:17-18, "expired entries are evicted first; if the store
\* is still full, new state is rejected with 429": a write is rejected only
\* when every mapping in the full store is live.
OverloadOnlyWhenAllLive ==
    [][\A c \in Callers :
        /\ stage[c] = "write" /\ stage'[c] = "idle"
        /\ newState[c] # None /\ Full(data, keyOf[c])
        => \A i \in 1..Len(data) : now < data[i].exp]_storeVars
=============================================================================
