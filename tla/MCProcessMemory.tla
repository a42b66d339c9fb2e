-------------------------- MODULE MCProcessMemory --------------------------
(***************************************************************************)
(* Instances of ProcessMemory for TLC.  The two originals t1 and t2 get    *)
(* the same mask m1, but what is personal in t2 is not always detected (an *)
(* LLM call that fails), and a mask sent as a new text is masked to        *)
(* itself.  Both consumers use the same payload id; the policy of c2       *)
(* disables demasking.                                                     *)
(***************************************************************************)
EXTENDS ProcessMemory

CONSTANTS c1, c2, t1, t2, m1, s1, s2

MCKeys == StateKeys

MCValues == States

MCStripeOf == [k \in Keys |-> IF ConsumerOf(k) = c1 THEN s1 ELSE s2]

MCHashPayload == [t \in Texts |-> <<"blake2b", t>>]

MCHashes == {<<"blake2b", t>> : t \in Texts}

MCMaskResults ==
    [c \in Consumers |-> [t \in Texts |->
        CASE t = t1 -> {m1}
          [] t = t2 -> {m1, t2}
          [] OTHER  -> {t}]]

MCDemasking == [c \in Consumers |-> c # c2]
=============================================================================
