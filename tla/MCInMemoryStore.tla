-------------------------- MODULE MCInMemoryStore --------------------------
(***************************************************************************)
(* Instances of InMemoryStore for TLC.  k1 and k2 share a stripe, k3 has   *)
(* its own, so both a wait for a stripe and two transitions in flight at   *)
(* once happen.                                                            *)
(***************************************************************************)
EXTENDS InMemoryStore

CONSTANTS k1, k2, k3, s1, s2

MCStripeOf == [k \in Keys |-> IF k = k3 THEN s2 ELSE s1]
=============================================================================
