---------------------------- MODULE RateLimiter ----------------------------
(***************************************************************************)
(* SlidingWindowRateLimiter of app/core/ratelimit.py.  allow() is called   *)
(* on the event loop only and awaits nothing, so reading the clock and     *)
(* deciding are one step.  granted is a history variable: the times of     *)
(* every request let through.                                              *)
(***************************************************************************)
EXTENDS Integers, Sequences

CONSTANTS
    Keys,
    MaxHits,        \* max_requests
    Window,         \* window_seconds
    MaxTime         \* bound on the clock

ASSUME LimiterConstants ==
    /\ MaxHits \in Nat
    /\ Window \in Nat
    /\ MaxTime \in Nat

VARIABLES
    clock,          \* time.monotonic()
    hits,           \* _hits: a deque for each key, empty before its first use
    granted

limiterVars == <<clock, hits, granted>>

LimiterInit ==
    /\ clock = 0
    /\ hits = [k \in Keys |-> <<>>]
    /\ granted = [k \in Keys |-> <<>>]

Tick ==
    /\ clock < MaxTime
    /\ clock' = clock + 1
    /\ UNCHANGED <<hits, granted>>

\* Mutant: a hit exactly one window old still counts.
Outdated_Late(t) == clock - t > Window

Outdated(t) == clock - t >= Window

\* The loop takes outdated hits from the front, n in all, and stops at one
\* that is not.
Prunes(w, n) ==
    /\ \A i \in 1..n : Outdated(w[i])
    /\ n < Len(w) => ~Outdated(w[n + 1])

Pruned(w, n) == SubSeq(w, n + 1, Len(w))

\* Mutant: one hit too many.
HasRoom_OffByOne(w) == Len(w) <= MaxHits

HasRoom(w) == Len(w) < MaxHits

\* allow(k) returns True ...
Allow(k) ==
    /\ \E n \in 0..Len(hits[k]) :
        /\ Prunes(hits[k], n)
        /\ HasRoom(Pruned(hits[k], n))
        /\ hits' = [hits EXCEPT ![k] = Append(Pruned(hits[k], n), clock)]
    /\ granted' = [granted EXCEPT ![k] = Append(granted[k], clock)]
    /\ UNCHANGED clock

\* ... or False; what was outdated is gone all the same.
Deny(k) ==
    /\ \E n \in 0..Len(hits[k]) :
        /\ Prunes(hits[k], n)
        /\ ~HasRoom(Pruned(hits[k], n))
        /\ hits' = [hits EXCEPT ![k] = Pruned(hits[k], n)]
    /\ UNCHANGED <<clock, granted>>

LimiterNext == Tick \/ \E k \in Keys : Allow(k) \/ Deny(k)

LimiterSpec == LimiterInit /\ [][LimiterNext]_limiterVars

-----------------------------------------------------------------------------
(* Properties.                                                             *)

\* Every variable has its type.
LimiterTypeOK ==
    /\ clock \in 0..MaxTime
    /\ hits \in [Keys -> Seq(0..MaxTime)]
    /\ granted \in [Keys -> Seq(0..MaxTime)]

\* ratelimit.py:15, "Limits requests per key within a fixed window": any two
\* requests of a key let through with MaxHits - 1 others between them are a
\* whole window apart, although hits are forgotten as they age.
RateBounded ==
    \A k \in Keys : \A i \in 1..Len(granted[k]) :
        i + MaxHits <= Len(granted[k]) =>
            granted[k][i + MaxHits] - granted[k][i] >= Window

\* MaxHits requests of key k have been let through within the last window.
AtLimit(k) ==
    MaxHits > 0 =>
        /\ Len(granted[k]) >= MaxHits
        /\ clock - granted[k][Len(granted[k]) - MaxHits + 1] < Window
=============================================================================
