----------------------- MODULE RestorationLifecycle -----------------------
(***************************************************************************)
(* What POST /process promises for each key, whatever store is behind it:  *)
(* a key has no mapping, a MASKED one or a DEMASKED one; it is created by  *)
(* masking an original, confirmed by retries, demasked once, and forgotten *)
(* only by expiry.  answers[k] holds every successful answer given from    *)
(* the key's latest mapping.                                               *)
(***************************************************************************)
EXTENDS Naturals

CONSTANTS Keys, Texts, None

VARIABLES mapping, answers

lifecycleVars == <<mapping, answers>>

Statuses == {"MASKED", "DEMASKED"}

Mappings == [original : Texts, masked : Texts, status : Statuses]

Answers == [op : {"MASK", "DEMASK"}, payload : Texts, result : Texts]

\* The answer that states m gives: its mask, or the original back.
MaskAnswer(m) == [op |-> "MASK", payload |-> m.original, result |-> m.masked]

DemaskAnswer(m) == [op |-> "DEMASK", payload |-> m.masked, result |-> m.original]

\* A store that outlives its workers may hold mappings when they start.
Init ==
    /\ mapping \in [Keys -> Mappings \cup {None}]
    /\ answers = [k \in Keys |-> {}]

\* A new mapping: earlier answers belonged to a forgotten one.
Mask(k, t, m) ==
    LET new == [original |-> t, masked |-> m, status |-> "MASKED"]
    IN  /\ mapping[k] = None
        /\ mapping' = [mapping EXCEPT ![k] = new]
        /\ answers' = [answers EXCEPT ![k] = {MaskAnswer(new)}]

\* The original sent again before demasking: the same mask.
RetryMask(k) ==
    /\ mapping[k] # None
    /\ mapping[k].status = "MASKED"
    /\ answers' = [answers EXCEPT ![k] = @ \cup {MaskAnswer(mapping[k])}]
    /\ UNCHANGED mapping

\* The mask sent back, for the first time or again: the original.
Demask(k) ==
    /\ mapping[k] # None
    /\ mapping' = [mapping EXCEPT ![k].status = "DEMASKED"]
    /\ answers' = [answers EXCEPT ![k] = @ \cup {DemaskAnswer(mapping[k])}]

\* A demasking whose answer never reaches the client: the worker or its
\* connection died after the write.
DemaskUnanswered(k) ==
    /\ mapping[k] # None
    /\ mapping' = [mapping EXCEPT ![k].status = "DEMASKED"]
    /\ UNCHANGED answers

\* A new mapping whose answer never reaches the client.
MaskUnanswered(k, t, m) ==
    /\ mapping[k] = None
    /\ mapping' = [mapping EXCEPT ![k] =
                      [original |-> t, masked |-> m, status |-> "MASKED"]]
    /\ answers' = [answers EXCEPT ![k] = {}]

\* The mappings of some keys reach the end of their life together.
Expire(S) ==
    /\ mapping' = [k \in Keys |-> IF k \in S THEN None ELSE mapping[k]]
    /\ UNCHANGED answers

Next ==
    \/ \E S \in SUBSET Keys : Expire(S)
    \/ \E k \in Keys :
        \/ RetryMask(k)
        \/ Demask(k)
        \/ DemaskUnanswered(k)
        \/ \E t, m \in Texts : Mask(k, t, m) \/ MaskUnanswered(k, t, m)

Spec == Init /\ [][Next]_lifecycleVars

-----------------------------------------------------------------------------
(* Properties.                                                             *)

\* Every variable has its type.
LifecycleTypeOK ==
    /\ mapping \in [Keys -> Mappings \cup {None}]
    /\ answers \in [Keys -> SUBSET Answers]

\* Idempotency and restoration as clients see them (docs/architecture.md:57-60):
\* the successful answers from one mapping of a key are a single mask for a
\* single original, and demasking that mask gives that original back.
RoundTrip ==
    \A k \in Keys : \A a, b \in answers[k] :
        IF a.op = b.op
        THEN a = b
        ELSE a.payload = b.result /\ a.result = b.payload

\* Answers stay true of the mapping while it lives: they say nothing it would
\* not say again.  With it, RoundTrip is inductive.
AnswersFromMapping ==
    \A k \in Keys :
        mapping[k] # None =>
            answers[k] \subseteq {MaskAnswer(mapping[k]), DemaskAnswer(mapping[k])}
=============================================================================
