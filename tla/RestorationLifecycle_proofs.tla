--------------------- MODULE RestorationLifecycle_proofs ---------------------
(***************************************************************************)
(* What every implementation of the lifecycle gives its clients, for every *)
(* set of keys and texts.                                                  *)
(***************************************************************************)
EXTENDS RestorationLifecycle, TLAPS

LifecycleInv == LifecycleTypeOK /\ RoundTrip /\ AnswersFromMapping

\* The two answers a mapping gives agree with each other.
LEMMA AnswersAgree ==
    ASSUME NEW x \in Mappings
    PROVE  /\ MaskAnswer(x) \in Answers /\ DemaskAnswer(x) \in Answers
           /\ \A a, b \in {MaskAnswer(x), DemaskAnswer(x)} :
                IF a.op = b.op THEN a = b
                ELSE a.payload = b.result /\ a.result = b.payload
BY DEF Mappings, Answers, MaskAnswer, DemaskAnswer

\* Demasking changes no answer a mapping gives.
LEMMA DemaskKeepsAnswers ==
    ASSUME NEW x \in Mappings
    PROVE  LET y == [x EXCEPT !.status = "DEMASKED"]
           IN  /\ y \in Mappings
               /\ MaskAnswer(y) = MaskAnswer(x)
               /\ DemaskAnswer(y) = DemaskAnswer(x)
BY DEF Mappings, Statuses, MaskAnswer, DemaskAnswer

\* Every step keeps the invariant.
LEMMA LifecycleStep == LifecycleInv /\ [Next]_lifecycleVars => LifecycleInv'
<1> SUFFICES ASSUME LifecycleInv, [Next]_lifecycleVars PROVE LifecycleInv'
  OBVIOUS
<1>0. /\ mapping \in [Keys -> Mappings \cup {None}]
      /\ answers \in [Keys -> SUBSET Answers]
  BY DEF LifecycleInv, LifecycleTypeOK
\* It is enough that one key is changed, to a mapping that gives its answers.
<1>1. ASSUME NEW k \in Keys, NEW x \in Mappings, NEW A,
             mapping' = [mapping EXCEPT ![k] = x],
             answers' = [answers EXCEPT ![k] = A],
             A \subseteq {MaskAnswer(x), DemaskAnswer(x)}
      PROVE  LifecycleInv'
  <2>1. A \subseteq Answers
    BY <1>1, AnswersAgree
  <2>2. LifecycleTypeOK'
    BY <1>0, <1>1, <2>1 DEF LifecycleTypeOK
  <2>3. \A a, b \in A :
          IF a.op = b.op THEN a = b ELSE a.payload = b.result /\ a.result = b.payload
    BY <1>1, AnswersAgree
  <2>4. RoundTrip'
    BY <1>0, <1>1, <2>3 DEF RoundTrip, LifecycleInv
  <2>5. AnswersFromMapping'
    BY <1>0, <1>1 DEF AnswersFromMapping, LifecycleInv
  <2>6. QED BY <2>2, <2>4, <2>5 DEF LifecycleInv
\* A key with a mapping gives only its mapping's answers.
<1>2. ASSUME NEW k \in Keys, mapping[k] # None
      PROVE  /\ mapping[k] \in Mappings
             /\ answers[k] \subseteq {MaskAnswer(mapping[k]), DemaskAnswer(mapping[k])}
  BY <1>0, <1>2 DEF LifecycleInv, AnswersFromMapping
<1>3. ASSUME NEW k \in Keys, NEW t \in Texts, NEW m \in Texts,
             Mask(k, t, m) \/ MaskUnanswered(k, t, m)
      PROVE  LifecycleInv'
  <2> DEFINE x == [original |-> t, masked |-> m, status |-> "MASKED"]
  <2>1. x \in Mappings
    BY DEF Mappings, Statuses
  <2>2. mapping' = [mapping EXCEPT ![k] = x]
    BY <1>3 DEF Mask, MaskUnanswered
  <2>3. \/ answers' = [answers EXCEPT ![k] = {MaskAnswer(x)}]
        \/ answers' = [answers EXCEPT ![k] = {}]
    BY <1>3 DEF Mask, MaskUnanswered
  <2>4. QED BY <1>1, <2>1, <2>2, <2>3
<1>4. ASSUME NEW k \in Keys, RetryMask(k) PROVE LifecycleInv'
  <2> DEFINE x == mapping[k]
             A == answers[k] \cup {MaskAnswer(x)}
  <2>1. mapping[k] # None /\ mapping' = mapping /\ answers' = [answers EXCEPT ![k] = A]
    BY <1>4 DEF RetryMask
  <2>2. x \in Mappings /\ A \subseteq {MaskAnswer(x), DemaskAnswer(x)}
    BY <1>2, <2>1
  <2>3. mapping' = [mapping EXCEPT ![k] = x]
    BY <1>0, <2>1
  <2>4. QED BY <1>1, <2>1, <2>2, <2>3
<1>5. ASSUME NEW k \in Keys, Demask(k) \/ DemaskUnanswered(k) PROVE LifecycleInv'
  <2> DEFINE x == mapping[k]
             y == [x EXCEPT !.status = "DEMASKED"]
  <2>1. /\ mapping[k] # None
        /\ mapping' = [mapping EXCEPT ![k] = y]
        /\ \/ answers' = [answers EXCEPT ![k] = answers[k] \cup {DemaskAnswer(x)}]
           \/ answers' = answers
    BY <1>5 DEF Demask, DemaskUnanswered
  <2>2. x \in Mappings /\ answers[k] \subseteq {MaskAnswer(x), DemaskAnswer(x)}
    BY <1>2, <2>1
  <2>3. y \in Mappings /\ MaskAnswer(y) = MaskAnswer(x) /\ DemaskAnswer(y) = DemaskAnswer(x)
    BY <2>2, DemaskKeepsAnswers
  <2>4. answers' = answers => answers' = [answers EXCEPT ![k] = answers[k]]
    BY <1>0
  <2> HIDE DEF x, y
  <2>5. QED BY <1>1, <2>1, <2>2, <2>3, <2>4
<1>6. ASSUME NEW S \in SUBSET Keys, Expire(S) PROVE LifecycleInv'
  <2>1. LifecycleTypeOK'
    BY <1>0, <1>6 DEF Expire, LifecycleTypeOK
  <2>2. RoundTrip'
    BY <1>6 DEF Expire, RoundTrip, LifecycleInv
  <2>3. AnswersFromMapping'
    BY <1>0, <1>6 DEF Expire, AnswersFromMapping, LifecycleInv
  <2>4. QED BY <2>1, <2>2, <2>3 DEF LifecycleInv
<1>7. CASE UNCHANGED lifecycleVars
  BY <1>7 DEF lifecycleVars, LifecycleInv, LifecycleTypeOK, RoundTrip, AnswersFromMapping
<1>8. QED BY <1>3, <1>4, <1>5, <1>6, <1>7 DEF Next

\* docs/architecture.md:57-60 as clients see it: the answers given from one
\* mapping of a key are one mask for one original, and demasking that mask
\* gives that original back.
THEOREM LifecycleRoundTrip == Spec => []RoundTrip
<1>1. Init => LifecycleInv
  BY DEF Init, LifecycleInv, LifecycleTypeOK, RoundTrip, AnswersFromMapping
<1>2. LifecycleInv => RoundTrip
  BY DEF LifecycleInv
<1>3. QED BY <1>1, <1>2, LifecycleStep, PTL DEF Spec
=============================================================================
