------------------------ MODULE HttpPipeline_proofs ------------------------
(***************************************************************************)
(* Proofs about HttpPipeline, for every set of requests, whatever arrives, *)
(* and every setting of the limiter.                                       *)
(***************************************************************************)
EXTENDS HttpPipeline, SequenceTheorems, FiniteSetTheorems, TLAPS

-----------------------------------------------------------------------------
(* The limiter by itself, for every set of keys, limit, window and bound on *)
(* the clock.                                                              *)

Times == 0..MaxTime

\* The deque h holds the latest of the times g granted; those it has forgotten
\* are a window old at time t; times are granted in order and not later than t.
Remembers(g, h, t) ==
    /\ Len(h) <= Len(g)
    /\ \A i \in 1..Len(h) : h[i] = g[(Len(g) - Len(h)) + i]
    /\ \A i \in 1..(Len(g) - Len(h)) : t - g[i] >= Window
    /\ \A i \in 1..Len(g) : g[i] <= t
    /\ \A i, j \in 1..Len(g) : i <= j => g[i] <= g[j]

\* RateBounded of the times granted to one key.
Spread(g) ==
    \A i \in 1..Len(g) : i + MaxHits <= Len(g) => g[i + MaxHits] - g[i] >= Window

LimiterInv ==
    /\ LimiterTypeOK
    /\ \A k \in Keys : Remembers(granted[k], hits[k], clock) /\ Spread(granted[k])

\* Taking outdated hits from the front leaves a deque of the latest times.
LEMMA PrunedProps ==
    ASSUME NEW g \in Seq(Times), NEW h \in Seq(Times), clock \in Times,
           Remembers(g, h, clock), NEW n \in 0..Len(h), Prunes(h, n)
    PROVE  /\ Pruned(h, n) \in Seq(Times)
           /\ Len(Pruned(h, n)) = Len(h) - n
           /\ Remembers(g, Pruned(h, n), clock)
<1> DEFINE r == Pruned(h, n)
           f == Len(g) - Len(h)
<1>1. /\ r \in Seq(Times) /\ Len(r) = Len(h) - n
      /\ \A i \in 1..(Len(h) - n) : r[i] = h[n + i]
  BY DEF Pruned
<1>2. f \in Nat /\ Len(g) - Len(r) = f + n
  BY <1>1 DEF Remembers
<1> HIDE DEF r
<1>3. \A i \in 1..Len(r) : r[i] = g[(Len(g) - Len(r)) + i]
  <2> SUFFICES ASSUME NEW i \in 1..Len(r)
               PROVE  r[i] = g[(Len(g) - Len(r)) + i]
    OBVIOUS
  <2>1. n + i \in 1..Len(h) /\ f + (n + i) = (Len(g) - Len(r)) + i
    BY <1>1, <1>2
  <2>2. h[n + i] = g[f + (n + i)]
    BY <2>1 DEF Remembers
  <2> QED
    BY <1>1, <2>1, <2>2
<1>4. \A i \in 1..(Len(g) - Len(r)) : clock - g[i] >= Window
  <2> SUFFICES ASSUME NEW i \in 1..(f + n)
               PROVE  clock - g[i] >= Window
    BY <1>2
  <2>1. CASE i <= f
    BY <2>1, <1>2 DEF Remembers
  <2>2. CASE i > f
    <3>1. i - f \in 1..n /\ i - f \in 1..Len(h) /\ f + (i - f) = i
      BY <2>2, <1>2
    <3>2. h[i - f] = g[i]
      BY <3>1 DEF Remembers
    <3> QED
      BY <3>1, <3>2 DEF Prunes, Outdated
  <2> QED
    BY <2>1, <2>2, <1>2
<1>5. Len(r) <= Len(g)
  BY <1>1, <1>2
<1>6. Remembers(g, r, clock)
  BY <1>3, <1>4, <1>5 DEF Remembers
<1> QED
  BY <1>1, <1>6 DEF r

\* Granting the present time to a deque with room keeps the rate: the time
\* MaxHits places before it is among those forgotten.
LEMMA GrantProps ==
    ASSUME LimiterConstants,
           NEW g \in Seq(Times), NEW h \in Seq(Times), NEW t \in Times,
           Remembers(g, h, t), Spread(g), Len(h) < MaxHits
    PROVE  Remembers(Append(g, t), Append(h, t), t) /\ Spread(Append(g, t))
<1> DEFINE g2 == Append(g, t)
           h2 == Append(h, t)
<1>1. /\ Len(g2) = Len(g) + 1 /\ g2[Len(g) + 1] = t
      /\ \A i \in 1..Len(g) : g2[i] = g[i]
  OBVIOUS
<1>2. /\ Len(h2) = Len(h) + 1 /\ h2[Len(h) + 1] = t
      /\ \A i \in 1..Len(h) : h2[i] = h[i]
  OBVIOUS
<1>3. /\ Len(g) \in Nat /\ Len(h) \in Nat /\ Len(h) <= Len(g)
      /\ t \in Int /\ Window \in Nat /\ MaxHits \in Nat
      /\ \A i \in 1..Len(g) : g[i] \in Int
  BY DEF Remembers, Times, LimiterConstants
<1> HIDE DEF g2, h2
<1>4. Remembers(g2, h2, t)
  <2>1. Len(h2) <= Len(g2) /\ Len(g2) - Len(h2) = Len(g) - Len(h)
    BY <1>1, <1>2, <1>3
  <2>2. ASSUME NEW i \in 1..Len(h2)
        PROVE  h2[i] = g2[(Len(g2) - Len(h2)) + i]
    <3>1. CASE i = Len(h) + 1
      <4>1. (Len(g2) - Len(h2)) + i = Len(g) + 1
        BY <3>1, <2>1, <1>3, SMTT(30)
      <4> QED
        BY <3>1, <4>1, <1>1, <1>2
    <3>2. CASE i \in 1..Len(h)
      <4>1. (Len(g) - Len(h)) + i \in 1..Len(g)
        BY <3>2, <1>3
      <4>2. h[i] = g[(Len(g) - Len(h)) + i]
        BY <3>2 DEF Remembers
      <4> QED
        BY <3>2, <4>1, <4>2, <2>1, <1>1, <1>2
    <3> QED
      BY <3>1, <3>2, <1>2, <1>3
  <2>3. ASSUME NEW i \in 1..(Len(g2) - Len(h2))
        PROVE  t - g2[i] >= Window
    <3>1. i \in 1..(Len(g) - Len(h)) /\ i \in 1..Len(g)
      BY <2>1, <1>3
    <3> QED
      BY <3>1, <1>1 DEF Remembers
  <2>4. ASSUME NEW i \in 1..Len(g2)
        PROVE  g2[i] <= t
    BY <1>1, <1>3, SMTT(30) DEF Remembers
  <2>5. ASSUME NEW i \in 1..Len(g2), NEW j \in 1..Len(g2), i <= j
        PROVE  g2[i] <= g2[j]
    <3>1. CASE j = Len(g) + 1
      BY <3>1, <2>4, <1>1
    <3>2. CASE j \in 1..Len(g)
      <4>1. i \in 1..Len(g)
        BY <3>2, <2>5, <1>1, <1>3
      <4> QED
        BY <3>2, <4>1, <2>5, <1>1 DEF Remembers
    <3> QED
      BY <3>1, <3>2, <1>1, <1>3
  <2> QED
    BY <2>1, <2>2, <2>3, <2>4, <2>5 DEF Remembers
<1>5. ASSUME NEW i \in 1..Len(g2), i + MaxHits <= Len(g2)
      PROVE  g2[i + MaxHits] - g2[i] >= Window
  <2>1. CASE i + MaxHits <= Len(g)
    <3>1. i \in 1..Len(g) /\ i + MaxHits \in 1..Len(g)
      BY <2>1, <1>3
    <3>2. g[i + MaxHits] - g[i] >= Window
      BY <3>1, <2>1 DEF Spread
    <3> QED
      BY <3>1, <3>2, <1>1
  <2>2. CASE i + MaxHits = Len(g) + 1
    <3>1. i \in 1..(Len(g) - Len(h)) /\ i \in 1..Len(g)
      BY <2>2, <1>3
    <3>2. t - g[i] >= Window
      BY <3>1 DEF Remembers
    <3> QED
      BY <2>2, <3>1, <3>2, <1>1
  <2>3. i + MaxHits <= Len(g) \/ i + MaxHits = Len(g) + 1
    <3>1. i + MaxHits <= Len(g) + 1
      BY <1>5, <1>1
    <3>2. i \in Int /\ MaxHits \in Int /\ Len(g) \in Int
      BY <1>1, <1>3
    <3> QED
      BY <3>1, <3>2
  <2> QED
    BY <2>1, <2>2, <2>3
<1> QED
  BY <1>4, <1>5 DEF Spread, g2, h2

\* Nothing is remembered wrongly because time has passed.
LEMMA LaterProps ==
    ASSUME LimiterConstants,
           NEW g \in Seq(Times), NEW h, NEW t \in Times, NEW u \in Times, t <= u,
           Remembers(g, h, t), Len(h) \in Nat
    PROVE  Remembers(g, h, u)
<1>1. /\ Window \in Nat /\ Len(g) \in Nat
      /\ \A i \in 1..Len(g) : g[i] \in Int
  BY DEF Times, LimiterConstants
<1>2. t \in Int /\ u \in Int
  BY DEF Times
<1>3. ASSUME NEW i \in 1..(Len(g) - Len(h))
      PROVE  u - g[i] >= Window
  <2>1. i \in 1..Len(g) /\ t - g[i] >= Window
    BY <1>1 DEF Remembers
  <2> QED
    BY <2>1, <1>1, <1>2
<1>4. ASSUME NEW i \in 1..Len(g)
      PROVE  g[i] <= u
  <2>1. g[i] <= t
    BY DEF Remembers
  <2> QED
    BY <2>1, <1>1, <1>2
<1> QED
  BY <1>3, <1>4 DEF Remembers

LEMMA LimiterInitInv == ASSUME LimiterConstants, LimiterInit PROVE LimiterInv
<1>1. <<>> \in Seq(Times)
  OBVIOUS
<1>2. \A k \in Keys : hits[k] = <<>> /\ granted[k] = <<>>
  BY DEF LimiterInit
<1>3. Remembers(<<>>, <<>>, clock) /\ Spread(<<>>)
  BY DEF Remembers, Spread
<1>4. LimiterTypeOK
  BY <1>1 DEF LimiterInit, LimiterTypeOK, LimiterConstants, Times
<1> QED
  BY <1>2, <1>3, <1>4 DEF LimiterInv

\* Each way allow() may end, and the clock, keep the invariant.
LEMMA LimiterStepInv ==
    ASSUME LimiterConstants, LimiterInv, [LimiterNext]_limiterVars
    PROVE  LimiterInv'
<1>1. /\ clock \in Times
      /\ hits \in [Keys -> Seq(Times)] /\ granted \in [Keys -> Seq(Times)]
  BY DEF LimiterInv, LimiterTypeOK, Times
<1>2. \A k \in Keys : Remembers(granted[k], hits[k], clock) /\ Spread(granted[k])
  BY DEF LimiterInv
<1>3. ASSUME NEW h, NEW g, NEW k \in Keys, clock' = clock,
             hits' = [hits EXCEPT ![k] = h], granted' = [granted EXCEPT ![k] = g],
             h \in Seq(Times), g \in Seq(Times),
             Remembers(g, h, clock), Spread(g)
      PROVE  LimiterInv'
  <2>1. LimiterTypeOK'
    BY <1>1, <1>3 DEF LimiterTypeOK, Times
  <2>2. ASSUME NEW m \in Keys
        PROVE  Remembers(granted'[m], hits'[m], clock') /\ Spread(granted'[m])
    <3>1. CASE m = k
      <4>1. granted'[m] = g /\ hits'[m] = h
        BY <1>1, <1>3, <3>1
      <4> QED
        BY <1>3, <4>1
    <3>2. CASE m # k
      <4>1. granted'[m] = granted[m] /\ hits'[m] = hits[m]
        BY <1>1, <1>3, <3>2
      <4> QED
        BY <1>2, <1>3, <4>1
    <3> QED
      BY <3>1, <3>2
  <2> QED
    BY <2>1, <2>2 DEF LimiterInv, Remembers, Spread
<1>4. CASE Tick
  <2>1. /\ hits' = hits /\ granted' = granted
        /\ clock' \in Times /\ clock <= clock'
    BY <1>4, <1>1 DEF Tick, Times, LimiterConstants
  <2>2. ASSUME NEW k \in Keys
        PROVE  Remembers(granted[k], hits[k], clock')
    <3>1. granted[k] \in Seq(Times) /\ Len(hits[k]) \in Nat
      BY <1>1
    <3> QED
      BY <3>1, <2>1, <1>1, <1>2, LaterProps
  <2>3. LimiterTypeOK'
    BY <2>1, <1>1 DEF LimiterTypeOK, Times
  <2> QED
    BY <2>1, <2>2, <2>3, <1>2 DEF LimiterInv, Remembers, Spread
<1>5. ASSUME NEW k \in Keys, Allow(k)
      PROVE  LimiterInv'
  <2>1. PICK n \in 0..Len(hits[k]) :
           /\ Prunes(hits[k], n)
           /\ HasRoom(Pruned(hits[k], n))
           /\ hits' = [hits EXCEPT ![k] = Append(Pruned(hits[k], n), clock)]
    BY <1>5 DEF Allow
  <2> DEFINE h == Pruned(hits[k], n)
  <2>2. hits[k] \in Seq(Times) /\ granted[k] \in Seq(Times)
    BY <1>1
  <2>3. h \in Seq(Times) /\ Remembers(granted[k], h, clock)
    BY <2>1, <2>2, <1>1, <1>2, PrunedProps
  <2>4. Len(h) < MaxHits
    BY <2>1 DEF HasRoom
  <2> HIDE DEF h
  <2>5. Remembers(Append(granted[k], clock), Append(h, clock), clock)
        /\ Spread(Append(granted[k], clock))
    BY <2>2, <2>3, <2>4, <1>1, <1>2, GrantProps
  <2>6. Append(h, clock) \in Seq(Times) /\ Append(granted[k], clock) \in Seq(Times)
    BY <2>2, <2>3, <1>1
  <2>7. /\ clock' = clock
        /\ hits' = [hits EXCEPT ![k] = Append(h, clock)]
        /\ granted' = [granted EXCEPT ![k] = Append(granted[k], clock)]
    BY <1>5, <2>1 DEF Allow, h
  <2> QED
    BY <2>5, <2>6, <2>7, <1>3
<1>6. ASSUME NEW k \in Keys, Deny(k)
      PROVE  LimiterInv'
  <2>1. PICK n \in 0..Len(hits[k]) :
           /\ Prunes(hits[k], n)
           /\ hits' = [hits EXCEPT ![k] = Pruned(hits[k], n)]
    BY <1>6 DEF Deny
  <2> DEFINE h == Pruned(hits[k], n)
  <2>2. hits[k] \in Seq(Times) /\ granted[k] \in Seq(Times)
    BY <1>1
  <2>3. h \in Seq(Times) /\ Remembers(granted[k], h, clock)
    BY <2>1, <2>2, <1>1, <1>2, PrunedProps
  <2>4. granted' = [granted EXCEPT ![k] = granted[k]] /\ clock' = clock
    BY <1>6, <1>1 DEF Deny
  <2> QED
    BY <2>1, <2>2, <2>3, <2>4, <1>2, <1>3
<1>7. CASE UNCHANGED limiterVars
  BY <1>7 DEF limiterVars, LimiterInv, LimiterTypeOK, Remembers, Spread
<1> QED
  BY <1>4, <1>5, <1>6, <1>7 DEF LimiterNext

\* A refusal happens only at the limit: a deque without room holds MaxHits
\* times, the first of them within the window and the others after it.
LEMMA DenyAtLimit ==
    ASSUME LimiterConstants, LimiterInv, NEW k \in Keys, Deny(k)
    PROVE  AtLimit(k)
<1> SUFFICES ASSUME MaxHits > 0
             PROVE  /\ Len(granted[k]) >= MaxHits
                    /\ clock - granted[k][Len(granted[k]) - MaxHits + 1] < Window
  BY DEF AtLimit
<1> DEFINE g == granted[k]
<1>1. PICK n \in 0..Len(hits[k]) :
         Prunes(hits[k], n) /\ ~HasRoom(Pruned(hits[k], n))
  BY DEF Deny
<1> DEFINE h == Pruned(hits[k], n)
<1>2. clock \in Times /\ hits[k] \in Seq(Times) /\ g \in Seq(Times)
  BY DEF LimiterInv, LimiterTypeOK, Times
<1>3. Remembers(g, hits[k], clock)
  BY DEF LimiterInv
<1>4. /\ h \in Seq(Times) /\ Len(h) = Len(hits[k]) - n
      /\ Remembers(g, h, clock)
  BY <1>1, <1>2, <1>3, PrunedProps
<1>5. Len(h) >= MaxHits /\ Len(h) \in Nat /\ MaxHits \in Nat /\ Window \in Nat
  BY <1>1, <1>4 DEF HasRoom, LimiterConstants
<1>6. Len(hits[k]) \in Nat /\ n < Len(hits[k])
  BY <1>2, <1>4, <1>5
<1>7. clock - hits[k][n + 1] < Window /\ hits[k][n + 1] \in Times
  <2>1. hits[k][n + 1] \in Times
    BY <1>2, <1>6
  <2>2. ~(clock - hits[k][n + 1] >= Window)
    BY <1>1, <1>6 DEF Prunes, Outdated
  <2> QED
    BY <2>1, <2>2, <1>2, <1>5, SMTT(30) DEF Times
<1>8. h[1] = hits[k][n + 1]
  BY <1>2, <1>6 DEF Pruned
<1> HIDE DEF h, g
<1>9. Len(g) \in Nat /\ Len(h) <= Len(g)
  BY <1>2, <1>4 DEF Remembers
<1> DEFINE a == (Len(g) - Len(h)) + 1
           b == Len(g) - MaxHits + 1
<1>10. a \in 1..Len(g) /\ b \in 1..Len(g) /\ a <= b
  BY <1>5, <1>9
<1>11. g[a] = h[1] /\ g[a] <= g[b]
  <2>1. 1 \in 1..Len(h)
    BY <1>5
  <2> QED
    BY <2>1, <1>4, <1>10 DEF Remembers
<1>12. clock \in Int /\ g[a] \in Int /\ g[b] \in Int
  BY <1>2, <1>10, SMTT(30) DEF Times
<1> HIDE DEF a, b
<1>13. clock - g[b] < Window
  BY <1>5, <1>7, <1>8, <1>11, <1>12
<1> QED
  BY <1>5, <1>9, <1>13 DEF b, g

\* The limiter by itself never lets more than MaxHits requests of a key through
\* in a window (RateBounded).
THEOREM LimiterRateBounded == LimiterSpec => []RateBounded
<1>1. LimiterInit => LimiterInv
  BY LimiterConstants, LimiterInitInv
<1>2. LimiterInv /\ [LimiterNext]_limiterVars => LimiterInv'
  BY LimiterConstants, LimiterStepInv
<1>3. LimiterInv => RateBounded
  BY DEF LimiterInv, RateBounded, Spread
<1> QED
  BY <1>1, <1>2, <1>3, PTL DEF LimiterSpec

-----------------------------------------------------------------------------
(* The limiter inside the pipeline.                                        *)

\* Only Refuse, Enter and Clock touch the limiter, and as it allows.
LEMMA PipelineLimits ==
    ASSUME HttpConstants, [Next]_vars
    PROVE  [LimiterNext]_limiterVars
<1>1. CASE Clock
  BY <1>1 DEF Clock, LimiterNext
<1>2. ASSUME NEW r \in Requests, NEW q \in Inbound, Refuse(r, q)
      PROVE  LimiterNext
  BY <1>2 DEF Refuse, LimiterNext, HttpConstants
<1>3. ASSUME NEW r \in Requests, NEW q \in Inbound, Enter(r, q)
      PROVE  [LimiterNext]_limiterVars
  BY <1>3 DEF Enter, LimiterNext, HttpConstants
<1>4. ASSUME NEW r \in Requests, Step(r),
             ~\E q \in Inbound : Refuse(r, q) \/ Enter(r, q)
      PROVE  UNCHANGED limiterVars
  BY <1>4 DEF Step, NoRoute, DependencyFails, ValidationFails, PolicyRefuses,
     ServiceRaises, ServiceReturns, Probe, HandleDomainError, Leave,
     LeaveByException, HandleUnexpected, Respond, Raise
<1>5. CASE AllAnswered \/ UNCHANGED vars
  BY <1>5 DEF AllAnswered, vars
<1> QED
  BY <1>1, <1>2, <1>3, <1>4, <1>5 DEF Next, Step

-----------------------------------------------------------------------------
(* One request.                                                            *)

TypesInv ==
    /\ stage \in [Requests -> Stages]
    /\ inbound \in [Requests -> Arrivals \cup {None}]
    /\ rid \in [Requests -> Requests \cup Ids \cup {None}]
    /\ raised \in [Requests -> Errors \cup {None}]
    /\ answer \in [Requests -> Responses \cup {None}]

\* A request that entered has been read and named; what a handler has answered
\* is a response, a 429 with Retry-After; a request without a name never entered.
RequestInv(r) ==
    /\ rid[r] # None =>
          inbound[r] \in Arrivals /\ rid[r] = NormalizeRequestId(r, inbound[r])
    /\ stage[r] = "new" => rid[r] = None
    /\ stage[r] \in {"routed", "raised", "responded", "failed"} => rid[r] # None
    /\ stage[r] = "raised" => raised[r] \in Errors
    /\ stage[r] \in {"responded", "answered"} =>
          answer[r] \in Responses /\ (answer[r].status = 429 => answer[r].retryAfter)
    /\ stage[r] = "answered" /\ rid[r] # None => answer[r].id = rid[r]

RequestsInv == TypesInv /\ \A r \in Requests : RequestInv(r)

\* The variables of requests other than r.
Others(r) ==
    \A m \in Requests \ {r} :
        /\ stage'[m] = stage[m] /\ inbound'[m] = inbound[m] /\ rid'[m] = rid[m]
        /\ raised'[m] = raised[m] /\ answer'[m] = answer[m]

LEMMA StatusType == \A e \in Errors : StatusCode(e) \in Statuses /\ StatusCode(e) # 200
  BY DEF Errors, StatusCode, Statuses

\* What is left to show of a step of r is that it keeps RequestInv(r).
LEMMA OthersKeep ==
    ASSUME RequestsInv, NEW r \in Requests, TypesInv', Others(r), RequestInv(r)'
    PROVE  RequestsInv'
<1> SUFFICES ASSUME NEW m \in Requests, m # r
             PROVE  RequestInv(m)'
  BY DEF RequestsInv
<1>1. RequestInv(m)
  BY DEF RequestsInv
<1> QED
  BY <1>1 DEF RequestInv, Others, NormalizeRequestId

LEMMA RefuseKeeps ==
    ASSUME HttpConstants, RequestsInv, NEW r \in Requests, NEW q \in Inbound, Refuse(r, q)
    PROVE  RequestsInv' /\ Others(r)
<1> DEFINE a == Response(429, "SERVICE_OVERLOADED", None, TRUE)
<1>1. a \in Responses /\ a.status = 429 /\ a.retryAfter = TRUE
  BY DEF Response, Responses, Statuses, Errors
<1> HIDE DEF a
<1>2. TypesInv
  BY DEF RequestsInv
<1>3. q \in Arrivals
  BY DEF HttpConstants
<1>4. /\ stage' = [stage EXCEPT ![r] = "answered"] /\ inbound' = [inbound EXCEPT ![r] = q]
      /\ rid' = rid /\ raised' = raised /\ answer' = [answer EXCEPT ![r] = a]
      /\ stage[r] = "new"
  BY DEF Refuse, a
<1>5. TypesInv' /\ Others(r)
  BY <1>1, <1>2, <1>3, <1>4 DEF TypesInv, Others, Stages
<1>6. RequestInv(r)'
  <2>1. rid[r] = None
    BY <1>4 DEF RequestsInv, RequestInv
  <2>2. stage'[r] = "answered" /\ rid'[r] = None /\ answer'[r] = a
    BY <2>1, <1>2, <1>4 DEF TypesInv
  <2> QED
    BY <2>2, <1>1 DEF RequestInv
<1> QED
  BY <1>5, <1>6, OthersKeep

LEMMA EnterKeeps ==
    ASSUME HttpConstants, RequestsInv, NEW r \in Requests, NEW q \in Inbound, Enter(r, q)
    PROVE  RequestsInv' /\ Others(r)
<1> DEFINE i == NormalizeRequestId(r, q)
<1>1. i \in Requests \cup Ids /\ i # None
  BY DEF NormalizeRequestId, HttpConstants
<1>2. TypesInv
  BY DEF RequestsInv
<1>3. q \in Arrivals
  BY DEF HttpConstants
<1>4. /\ stage' = [stage EXCEPT ![r] = "routed"] /\ inbound' = [inbound EXCEPT ![r] = q]
      /\ rid' = [rid EXCEPT ![r] = i] /\ raised' = raised /\ answer' = answer
  BY DEF Enter
<1> HIDE DEF i
<1>5. TypesInv' /\ Others(r)
  BY <1>1, <1>2, <1>3, <1>4 DEF TypesInv, Others, Stages
<1>6. stage'[r] = "routed" /\ inbound'[r] = q /\ rid'[r] = i
  BY <1>2, <1>4 DEF TypesInv
<1>7. RequestInv(r)'
  BY <1>1, <1>3, <1>6 DEF RequestInv, i, NormalizeRequestId
<1> QED
  BY <1>5, <1>7, OthersKeep

LEMMA RespondKeeps ==
    ASSUME HttpConstants, RequestsInv, NEW r \in Requests,
           NEW s \in Statuses \ {429}, Respond(r, s)
    PROVE  /\ RequestsInv' /\ Others(r)
           /\ stage[r] = "routed" /\ stage'[r] = "responded"
           /\ answer'[r].status = s /\ answer'[r].error = None
           /\ inbound' = inbound /\ rid' = rid /\ raised' = raised /\ rid[r] # None
<1> DEFINE a == Response(s, None, None, FALSE)
<1>1. a \in Responses /\ a.status = s /\ a.error = None
  BY DEF Response, Responses
<1> HIDE DEF a
<1>2. TypesInv
  BY DEF RequestsInv
<1>3. /\ stage' = [stage EXCEPT ![r] = "responded"] /\ answer' = [answer EXCEPT ![r] = a]
      /\ inbound' = inbound /\ rid' = rid /\ raised' = raised /\ stage[r] = "routed"
  BY DEF Respond, a
<1>4. TypesInv' /\ Others(r)
  BY <1>1, <1>2, <1>3 DEF TypesInv, Others, Stages
<1>5. stage'[r] = "responded" /\ answer'[r] = a
  BY <1>2, <1>3 DEF TypesInv
<1>6. rid[r] # None /\ inbound[r] \in Arrivals /\ rid[r] = NormalizeRequestId(r, inbound[r])
  BY <1>3 DEF RequestsInv, RequestInv
<1>7. RequestInv(r)'
  BY <1>1, <1>3, <1>5, <1>6 DEF RequestInv, NormalizeRequestId
<1> QED
  BY <1>1, <1>3, <1>4, <1>5, <1>6, <1>7, OthersKeep

LEMMA RaiseKeeps ==
    ASSUME HttpConstants, RequestsInv, NEW r \in Requests, NEW e \in Errors, Raise(r, e)
    PROVE  /\ RequestsInv' /\ Others(r)
           /\ stage[r] = "routed" /\ stage'[r] = "raised"
<1>2. TypesInv
  BY DEF RequestsInv
<1>3. /\ stage' = [stage EXCEPT ![r] = "raised"] /\ raised' = [raised EXCEPT ![r] = e]
      /\ inbound' = inbound /\ rid' = rid /\ answer' = answer /\ stage[r] = "routed"
  BY DEF Raise
<1>4. TypesInv' /\ Others(r)
  BY <1>2, <1>3 DEF TypesInv, Others, Stages
<1>5. stage'[r] = "raised" /\ raised'[r] = e
  BY <1>2, <1>3 DEF TypesInv
<1>6. rid[r] # None /\ inbound[r] \in Arrivals /\ rid[r] = NormalizeRequestId(r, inbound[r])
  BY <1>3 DEF RequestsInv, RequestInv
<1>7. RequestInv(r)'
  BY <1>3, <1>5, <1>6 DEF RequestInv, NormalizeRequestId
<1> QED
  BY <1>3, <1>4, <1>5, <1>7, OthersKeep

LEMMA LeaveKeeps ==
    ASSUME HttpConstants, RequestsInv, NEW r \in Requests, Leave(r)
    PROVE  /\ RequestsInv' /\ Others(r)
           /\ stage[r] = "responded" /\ stage'[r] = "answered"
           /\ answer[r] \in Responses /\ inbound[r] \in Arrivals /\ rid[r] # None
           /\ answer'[r].status = answer[r].status /\ answer'[r].error = answer[r].error
           /\ inbound' = inbound /\ rid' = rid /\ raised' = raised
<1>1. TypesInv /\ RequestInv(r)
  BY DEF RequestsInv
<1>2. /\ stage' = [stage EXCEPT ![r] = "answered"]
      /\ answer' = [answer EXCEPT ![r].id = rid[r]]
      /\ inbound' = inbound /\ rid' = rid /\ raised' = raised /\ stage[r] = "responded"
  BY DEF Leave
<1>3. /\ rid[r] # None /\ inbound[r] \in Arrivals /\ rid[r] = NormalizeRequestId(r, inbound[r])
      /\ answer[r] \in Responses /\ (answer[r].status = 429 => answer[r].retryAfter)
      /\ rid[r] \in Requests \cup Ids \cup {None}
  BY <1>1, <1>2 DEF RequestInv, TypesInv
<1> DEFINE a == [answer[r] EXCEPT !.id = rid[r]]
<1>4. /\ a \in Responses /\ a.status = answer[r].status /\ a.error = answer[r].error
      /\ a.retryAfter = answer[r].retryAfter /\ a.id = rid[r]
  BY <1>3 DEF Responses
<1>5. answer' = [answer EXCEPT ![r] = a]
  BY <1>2, <1>1 DEF TypesInv
<1> HIDE DEF a
<1>6. TypesInv' /\ Others(r)
  BY <1>1, <1>2, <1>4, <1>5 DEF TypesInv, Others, Stages
<1>7. stage'[r] = "answered" /\ answer'[r] = a
  BY <1>1, <1>2, <1>5 DEF TypesInv
<1>8. RequestInv(r)'
  BY <1>2, <1>3, <1>4, <1>7 DEF RequestInv, NormalizeRequestId
<1> QED
  BY <1>2, <1>3, <1>4, <1>6, <1>7, <1>8, OthersKeep

LEMMA LeaveByExceptionKeeps ==
    ASSUME HttpConstants, RequestsInv, NEW r \in Requests, LeaveByException(r)
    PROVE  /\ RequestsInv' /\ Others(r)
           /\ stage[r] = "raised" /\ stage'[r] = "failed"
           /\ inbound[r] \in Arrivals /\ rid[r] # None
           /\ inbound' = inbound /\ rid' = rid /\ raised' = raised /\ answer' = answer
<1>1. TypesInv /\ RequestInv(r)
  BY DEF RequestsInv
<1>2. /\ stage' = [stage EXCEPT ![r] = "failed"] /\ stage[r] = "raised"
      /\ inbound' = inbound /\ rid' = rid /\ raised' = raised /\ answer' = answer
  BY DEF LeaveByException
<1>3. TypesInv' /\ Others(r) /\ stage'[r] = "failed"
  BY <1>1, <1>2 DEF TypesInv, Others, Stages
<1>4. rid[r] # None /\ inbound[r] \in Arrivals /\ rid[r] = NormalizeRequestId(r, inbound[r])
  BY <1>1, <1>2 DEF RequestInv
<1>5. RequestInv(r)'
  BY <1>2, <1>3, <1>4 DEF RequestInv, NormalizeRequestId
<1> QED
  BY <1>2, <1>3, <1>4, <1>5, OthersKeep

LEMMA HandleDomainErrorKeeps ==
    ASSUME HttpConstants, RequestsInv, NEW r \in Requests, HandleDomainError(r)
    PROVE  /\ RequestsInv' /\ Others(r)
           /\ stage[r] = "raised" /\ stage'[r] = "responded" /\ raised[r] \in Errors
           /\ answer'[r].error = raised[r] /\ answer'[r].status # 200 /\ rid[r] # None
           /\ inbound' = inbound /\ rid' = rid /\ raised' = raised
<1>1. TypesInv /\ RequestInv(r)
  BY DEF RequestsInv
<1>2. stage[r] = "raised"
  BY DEF HandleDomainError
<1>3. /\ rid[r] # None /\ inbound[r] \in Arrivals /\ rid[r] = NormalizeRequestId(r, inbound[r])
      /\ raised[r] \in Errors /\ rid[r] \in Requests \cup Ids \cup {None}
  BY <1>1, <1>2 DEF RequestInv, TypesInv
<1> DEFINE a == Response(StatusCode(raised[r]), raised[r], rid[r],
                         raised[r] = "SERVICE_OVERLOADED")
<1>4. StatusCode(raised[r]) \in Statuses /\ StatusCode(raised[r]) # 200
  BY <1>3, StatusType
<1>5. StatusCode(raised[r]) = 429 => raised[r] = "SERVICE_OVERLOADED"
  BY <1>3 DEF StatusCode, Errors
<1>6. (raised[r] = "SERVICE_OVERLOADED") \in BOOLEAN
  OBVIOUS
<1>7. /\ a \in Responses /\ a.status # 200 /\ a.error = raised[r]
      /\ a.status = 429 => a.retryAfter
  <2>1. /\ a.status = StatusCode(raised[r]) /\ a.error = raised[r] /\ a.id = rid[r]
        /\ a.retryAfter = (raised[r] = "SERVICE_OVERLOADED")
    BY Zenon DEF Response
  <2>2. a \in Responses
    BY <1>3, <1>4, <1>6 DEF Response, Responses
  <2> QED
    BY <2>1, <2>2, <1>4, <1>5
<1> HIDE DEF a
<1>8. /\ stage' = [stage EXCEPT ![r] = "responded"] /\ answer' = [answer EXCEPT ![r] = a]
      /\ inbound' = inbound /\ rid' = rid /\ raised' = raised
  BY DEF HandleDomainError, a
<1>9. TypesInv' /\ Others(r) /\ stage'[r] = "responded" /\ answer'[r] = a
  BY <1>1, <1>7, <1>8 DEF TypesInv, Others, Stages
<1>10. RequestInv(r)'
  BY <1>3, <1>7, <1>8, <1>9 DEF RequestInv, NormalizeRequestId
<1> QED
  BY <1>2, <1>3, <1>7, <1>8, <1>9, <1>10, OthersKeep

LEMMA HandleUnexpectedKeeps ==
    ASSUME HttpConstants, RequestsInv, NEW r \in Requests, HandleUnexpected(r)
    PROVE  /\ RequestsInv' /\ Others(r)
           /\ stage[r] = "failed" /\ stage'[r] = "answered"
           /\ answer'[r].error = "INTERNAL_ERROR" /\ answer'[r].status = 500
           /\ rid[r] # None
           /\ inbound' = inbound /\ rid' = rid /\ raised' = raised
<1>1. TypesInv /\ RequestInv(r)
  BY DEF RequestsInv
<1>2. stage[r] = "failed"
  BY DEF HandleUnexpected
<1>3. /\ rid[r] # None /\ inbound[r] \in Arrivals /\ rid[r] = NormalizeRequestId(r, inbound[r])
      /\ rid[r] \in Requests \cup Ids \cup {None}
  BY <1>1, <1>2 DEF RequestInv, TypesInv
<1> DEFINE a == Response(500, "INTERNAL_ERROR", rid[r], FALSE)
<1>4. /\ a \in Responses /\ a.status = 500 /\ a.error = "INTERNAL_ERROR"
      /\ a.id = rid[r]
  BY <1>3 DEF Response, Responses, Statuses, Errors
<1> HIDE DEF a
<1>5. /\ stage' = [stage EXCEPT ![r] = "answered"] /\ answer' = [answer EXCEPT ![r] = a]
      /\ inbound' = inbound /\ rid' = rid /\ raised' = raised
  BY DEF HandleUnexpected, a
<1>6. TypesInv' /\ Others(r) /\ stage'[r] = "answered" /\ answer'[r] = a
  BY <1>1, <1>4, <1>5 DEF TypesInv, Others, Stages
<1>7. RequestInv(r)'
  BY <1>3, <1>4, <1>5, <1>6 DEF RequestInv, NormalizeRequestId
<1> QED
  BY <1>2, <1>3, <1>4, <1>5, <1>6, <1>7, OthersKeep

-----------------------------------------------------------------------------
(* The metrics.                                                            *)

\* Request r is counted under path p and status s: answered, or on its way to
\* the handler outside the middleware.
IsCounted(r, p, s) ==
    /\ rid[r] # None /\ inbound[r].path = p
    /\ \/ stage[r] = "answered" /\ answer[r].status = s
       \/ stage[r] = "failed" /\ s = 500

IsErred(r, e) ==
    rid[r] # None /\ stage[r] \in {"responded", "answered"} /\ answer[r].error = e

IsOperated(r) ==
    /\ rid[r] # None /\ stage[r] \in {"responded", "answered"}
    /\ inbound[r].path = "/process" /\ answer[r].status = 200

CountedAs(p, s) == {r \in Requests : IsCounted(r, p, s)}
ErredAs(e) == {r \in Requests : IsErred(r, e)}
Operated == {r \in Requests : IsOperated(r)}

\* Each counter is the number of requests that have passed its increment.
MetricsInv ==
    /\ inflight = Cardinality(Inside)
    /\ requestsTotal \in [Paths \X Statuses -> Nat]
    /\ \A p \in Paths, s \in Statuses :
          requestsTotal[<<p, s>>] = Cardinality(CountedAs(p, s))
    /\ errorsTotal \in [Errors -> Nat]
    /\ \A e \in Errors : errorsTotal[e] = Cardinality(ErredAs(e))
    /\ operationsTotal = Cardinality(Operated)

\* The size of a set of requests when at most the membership of r changes.
LEMMA SizeStep ==
    ASSUME HttpConstants, NEW r \in Requests, NEW S \in SUBSET Requests,
           NEW T \in SUBSET Requests, \A m \in Requests \ {r} : m \in S <=> m \in T
    PROVE  /\ Cardinality(S) \in Nat /\ Cardinality(T) \in Nat
           /\ (r \in S <=> r \in T) => Cardinality(T) = Cardinality(S)
           /\ r \notin S /\ r \in T => Cardinality(T) = Cardinality(S) + 1
           /\ r \in S /\ r \notin T => Cardinality(T) = Cardinality(S) - 1
<1>1. IsFiniteSet(S) /\ IsFiniteSet(T)
  BY FS_Subset DEF HttpConstants
<1>2. Cardinality(S) \in Nat /\ Cardinality(T) \in Nat
  BY <1>1, FS_CardinalityType
<1>3. ASSUME r \in S <=> r \in T
      PROVE  Cardinality(T) = Cardinality(S)
  <2>1. S = T
    BY <1>3
  <2> QED
    BY <2>1
<1>4. ASSUME r \notin S, r \in T
      PROVE  Cardinality(T) = Cardinality(S) + 1
  <2>1. T = S \cup {r}
    BY <1>4
  <2> QED
    BY <1>1, <1>4, <2>1, FS_AddElement
<1>5. ASSUME r \in S, r \notin T
      PROVE  Cardinality(T) = Cardinality(S) - 1
  <2>1. T = S \ {r}
    BY <1>5
  <2> QED
    BY <1>1, <1>5, <2>1, FS_RemoveElement
<1> QED
  BY <1>2, <1>3, <1>4, <1>5

\* So for each set of requests behind a counter.
LEMMA SizesStep ==
    ASSUME HttpConstants, NEW r \in Requests, Others(r)
    PROVE  /\ Cardinality(Inside) \in Nat
           /\ (r \in Inside <=> r \in Inside') => Cardinality(Inside)' = Cardinality(Inside)
           /\ r \notin Inside /\ r \in Inside' =>
                 Cardinality(Inside)' = Cardinality(Inside) + 1
           /\ r \in Inside /\ r \notin Inside' =>
                 Cardinality(Inside)' = Cardinality(Inside) - 1
           /\ \A p \in Paths, s \in Statuses :
                 /\ (IsCounted(r, p, s) <=> IsCounted(r, p, s)') =>
                       Cardinality(CountedAs(p, s))' = Cardinality(CountedAs(p, s))
                 /\ ~IsCounted(r, p, s) /\ IsCounted(r, p, s)' =>
                       Cardinality(CountedAs(p, s))' = Cardinality(CountedAs(p, s)) + 1
           /\ \A e \in Errors :
                 /\ (IsErred(r, e) <=> IsErred(r, e)') =>
                       Cardinality(ErredAs(e))' = Cardinality(ErredAs(e))
                 /\ ~IsErred(r, e) /\ IsErred(r, e)' =>
                       Cardinality(ErredAs(e))' = Cardinality(ErredAs(e)) + 1
           /\ (IsOperated(r) <=> IsOperated(r)') =>
                 Cardinality(Operated)' = Cardinality(Operated)
           /\ ~IsOperated(r) /\ IsOperated(r)' =>
                 Cardinality(Operated)' = Cardinality(Operated) + 1
<1>1. /\ Inside \in SUBSET Requests /\ Inside' \in SUBSET Requests
      /\ \A m \in Requests \ {r} : m \in Inside <=> m \in Inside'
  BY DEF Inside, Others
<1>2. ASSUME NEW p \in Paths, NEW s \in Statuses
      PROVE  /\ CountedAs(p, s) \in SUBSET Requests /\ CountedAs(p, s)' \in SUBSET Requests
             /\ \A m \in Requests \ {r} : m \in CountedAs(p, s) <=> m \in CountedAs(p, s)'
             /\ r \in CountedAs(p, s) <=> IsCounted(r, p, s)
             /\ r \in CountedAs(p, s)' <=> IsCounted(r, p, s)'
  BY DEF CountedAs, IsCounted, Others
<1>3. ASSUME NEW e \in Errors
      PROVE  /\ ErredAs(e) \in SUBSET Requests /\ ErredAs(e)' \in SUBSET Requests
             /\ \A m \in Requests \ {r} : m \in ErredAs(e) <=> m \in ErredAs(e)'
             /\ r \in ErredAs(e) <=> IsErred(r, e)
             /\ r \in ErredAs(e)' <=> IsErred(r, e)'
  BY DEF ErredAs, IsErred, Others
<1>4. /\ Operated \in SUBSET Requests /\ Operated' \in SUBSET Requests
      /\ \A m \in Requests \ {r} : m \in Operated <=> m \in Operated'
      /\ r \in Operated <=> IsOperated(r)
      /\ r \in Operated' <=> IsOperated(r)'
  BY DEF Operated, IsOperated, Others
<1>5. /\ Cardinality(Inside) \in Nat
      /\ (r \in Inside <=> r \in Inside') => Cardinality(Inside') = Cardinality(Inside)
      /\ r \notin Inside /\ r \in Inside' => Cardinality(Inside') = Cardinality(Inside) + 1
      /\ r \in Inside /\ r \notin Inside' => Cardinality(Inside') = Cardinality(Inside) - 1
  BY <1>1, SizeStep
<1>6. ASSUME NEW p \in Paths, NEW s \in Statuses
      PROVE  /\ (IsCounted(r, p, s) <=> IsCounted(r, p, s)') =>
                   Cardinality(CountedAs(p, s)') = Cardinality(CountedAs(p, s))
             /\ ~IsCounted(r, p, s) /\ IsCounted(r, p, s)' =>
                   Cardinality(CountedAs(p, s)') = Cardinality(CountedAs(p, s)) + 1
  BY <1>2, SizeStep
<1>7. ASSUME NEW e \in Errors
      PROVE  /\ (IsErred(r, e) <=> IsErred(r, e)') =>
                   Cardinality(ErredAs(e)') = Cardinality(ErredAs(e))
             /\ ~IsErred(r, e) /\ IsErred(r, e)' =>
                   Cardinality(ErredAs(e)') = Cardinality(ErredAs(e)) + 1
  BY <1>3, SizeStep
<1>8. /\ (IsOperated(r) <=> IsOperated(r)') => Cardinality(Operated') = Cardinality(Operated)
      /\ ~IsOperated(r) /\ IsOperated(r)' =>
            Cardinality(Operated') = Cardinality(Operated) + 1
  BY <1>4, SizeStep
<1> QED
  BY <1>5, <1>6, <1>7, <1>8

\* A step of r keeps MetricsInv if every gauge and counter moves exactly when r
\* comes to be counted by it.
GaugeMoves(r) ==
    \/ inflight' = inflight /\ (r \in Inside <=> r \in Inside')
    \/ inflight' = inflight + 1 /\ r \notin Inside /\ r \in Inside'
    \/ inflight' = inflight - 1 /\ r \in Inside /\ r \notin Inside'

RequestsMove(r) ==
    \/ /\ requestsTotal' = requestsTotal
       /\ \A p \in Paths, s \in Statuses : IsCounted(r, p, s) <=> IsCounted(r, p, s)'
    \/ \E q \in Paths, t \in Statuses :
          /\ requestsTotal' = [requestsTotal EXCEPT ![<<q, t>>] = @ + 1]
          /\ ~IsCounted(r, q, t) /\ IsCounted(r, q, t)'
          /\ \A p \in Paths, s \in Statuses :
                <<p, s>> # <<q, t>> => (IsCounted(r, p, s) <=> IsCounted(r, p, s)')

ErrorsMove(r) ==
    \/ /\ errorsTotal' = errorsTotal
       /\ \A e \in Errors : IsErred(r, e) <=> IsErred(r, e)'
    \/ \E x \in Errors :
          /\ errorsTotal' = [errorsTotal EXCEPT ![x] = @ + 1]
          /\ ~IsErred(r, x) /\ IsErred(r, x)'
          /\ \A e \in Errors \ {x} : IsErred(r, e) <=> IsErred(r, e)'

OperationsMove(r) ==
    \/ operationsTotal' = operationsTotal /\ (IsOperated(r) <=> IsOperated(r)')
    \/ operationsTotal' = operationsTotal + 1 /\ ~IsOperated(r) /\ IsOperated(r)'

LEMMA MetricsStep ==
    ASSUME HttpConstants, MetricsInv, NEW r \in Requests, Others(r),
           GaugeMoves(r), RequestsMove(r), ErrorsMove(r), OperationsMove(r)
    PROVE  MetricsInv'
<1>1. inflight' = Cardinality(Inside)'
  BY SizesStep DEF GaugeMoves, MetricsInv
<1>2. /\ requestsTotal' \in [Paths \X Statuses -> Nat]
      /\ \A p \in Paths, s \in Statuses :
            requestsTotal'[<<p, s>>] = Cardinality(CountedAs(p, s))'
  <2>1. CASE requestsTotal' = requestsTotal /\
             \A p \in Paths, s \in Statuses : IsCounted(r, p, s) <=> IsCounted(r, p, s)'
    BY <2>1, SizesStep DEF MetricsInv
  <2>2. ASSUME NEW q \in Paths, NEW t \in Statuses,
               requestsTotal' = [requestsTotal EXCEPT ![<<q, t>>] = @ + 1],
               ~IsCounted(r, q, t), IsCounted(r, q, t)',
               \A p \in Paths, s \in Statuses :
                  <<p, s>> # <<q, t>> => (IsCounted(r, p, s) <=> IsCounted(r, p, s)')
        PROVE  /\ requestsTotal' \in [Paths \X Statuses -> Nat]
               /\ \A p \in Paths, s \in Statuses :
                     requestsTotal'[<<p, s>>] = Cardinality(CountedAs(p, s))'
    <3>1. requestsTotal \in [Paths \X Statuses -> Nat] /\ <<q, t>> \in Paths \X Statuses
      BY DEF MetricsInv
    <3>2. requestsTotal' \in [Paths \X Statuses -> Nat]
      BY <2>2, <3>1
    <3>3. requestsTotal'[<<q, t>>] = Cardinality(CountedAs(q, t))'
      BY <2>2, <3>1, SizesStep DEF MetricsInv
    <3>4. ASSUME NEW p \in Paths, NEW s \in Statuses, <<p, s>> # <<q, t>>
          PROVE  requestsTotal'[<<p, s>>] = Cardinality(CountedAs(p, s))'
      <4>1. requestsTotal'[<<p, s>>] = requestsTotal[<<p, s>>]
        BY <2>2, <3>1, <3>4
      <4>2. Cardinality(CountedAs(p, s))' = Cardinality(CountedAs(p, s))
        BY <2>2, <3>4, SizesStep
      <4> QED
        BY <4>1, <4>2 DEF MetricsInv
    <3>5. ASSUME NEW p \in Paths, NEW s \in Statuses
          PROVE  requestsTotal'[<<p, s>>] = Cardinality(CountedAs(p, s))'
      <4>1. CASE p = q /\ s = t
        BY <4>1, <3>3
      <4>2. CASE ~(p = q /\ s = t)
        BY <4>2, <3>4
      <4> QED
        BY <4>1, <4>2
    <3> QED
      BY <3>2, <3>5
  <2> QED
    BY <2>1, <2>2 DEF RequestsMove
<1>3. /\ errorsTotal' \in [Errors -> Nat]
      /\ \A e \in Errors : errorsTotal'[e] = Cardinality(ErredAs(e))'
  BY SizesStep DEF ErrorsMove, MetricsInv
<1>4. operationsTotal' = Cardinality(Operated)'
  BY SizesStep DEF OperationsMove, MetricsInv
<1> QED
  BY <1>1, <1>2, <1>3, <1>4 DEF MetricsInv

\* Before it leaves the middleware a response moves no counter but, perhaps,
\* that of operations.
LEMMA RespondMoves ==
    ASSUME HttpConstants, RequestsInv, NEW r \in Requests,
           NEW s \in Statuses \ {429}, Respond(r, s)
    PROVE  /\ RequestsInv' /\ Others(r)
           /\ GaugeMoves(r) /\ RequestsMove(r) /\ ErrorsMove(r)
           /\ ~IsOperated(r)
           /\ IsOperated(r)' <=> inbound[r].path = "/process" /\ s = 200
<1>1. /\ RequestsInv' /\ Others(r)
      /\ stage[r] = "routed" /\ stage'[r] = "responded"
      /\ answer'[r].status = s /\ answer'[r].error = None
      /\ inbound' = inbound /\ rid' = rid /\ rid[r] # None
  BY RespondKeeps
<1>2. inflight' = inflight /\ requestsTotal' = requestsTotal /\ errorsTotal' = errorsTotal
  BY DEF Respond
<1>3. None \notin Errors
  BY DEF HttpConstants
<1>4. GaugeMoves(r)
  BY <1>1, <1>2 DEF GaugeMoves, Inside
<1>5. RequestsMove(r)
  BY <1>1, <1>2 DEF RequestsMove, IsCounted
<1>6. ErrorsMove(r)
  BY <1>1, <1>2, <1>3 DEF ErrorsMove, IsErred
<1>7. ~IsOperated(r) /\ (IsOperated(r)' <=> inbound[r].path = "/process" /\ s = 200)
  BY <1>1 DEF IsOperated
<1> QED
  BY <1>1, <1>4, <1>5, <1>6, <1>7

LEMMA RespondMetrics ==
    ASSUME HttpConstants, RequestsInv, MetricsInv, NEW r \in Requests,
           NEW s \in Statuses \ {429}, Respond(r, s), UNCHANGED operationsTotal,
           ~(inbound[r].path = "/process" /\ s = 200)
    PROVE  RequestsInv' /\ MetricsInv' /\ Others(r)
<1>1. /\ RequestsInv' /\ Others(r)
      /\ GaugeMoves(r) /\ RequestsMove(r) /\ ErrorsMove(r)
      /\ ~IsOperated(r) /\ ~IsOperated(r)'
  BY RespondMoves
<1>2. OperationsMove(r)
  BY <1>1 DEF OperationsMove
<1> QED
  BY <1>1, <1>2, MetricsStep

LEMMA RaiseMetrics ==
    ASSUME HttpConstants, RequestsInv, MetricsInv, NEW r \in Requests,
           NEW e \in Errors, Raise(r, e)
    PROVE  RequestsInv' /\ MetricsInv' /\ Others(r)
<1>1. /\ RequestsInv' /\ Others(r)
      /\ stage[r] = "routed" /\ stage'[r] = "raised"
  BY RaiseKeeps
<1>2. /\ inflight' = inflight /\ requestsTotal' = requestsTotal
      /\ errorsTotal' = errorsTotal /\ operationsTotal' = operationsTotal
  BY DEF Raise, counters
<1>3. GaugeMoves(r) /\ RequestsMove(r) /\ ErrorsMove(r) /\ OperationsMove(r)
  BY <1>1, <1>2 DEF GaugeMoves, RequestsMove, ErrorsMove, OperationsMove, Inside,
     IsCounted, IsErred, IsOperated
<1> QED
  BY <1>1, <1>3, MetricsStep

\* One step of one request, action by action.
LEMMA StepKeeps ==
    ASSUME HttpConstants, RequestsInv, MetricsInv, NEW r \in Requests, Step(r)
    PROVE  RequestsInv' /\ MetricsInv' /\ Others(r)
<1>1. ASSUME NEW q \in Inbound, Refuse(r, q)
      PROVE  RequestsInv' /\ MetricsInv' /\ Others(r)
  <2>1. RequestsInv' /\ Others(r)
    BY <1>1, RefuseKeeps
  <2>2. /\ stage[r] = "new" /\ rid[r] = None /\ rid'[r] = None
        /\ stage' = [stage EXCEPT ![r] = "answered"] /\ stage \in [Requests -> Stages]
        /\ inflight' = inflight /\ requestsTotal' = requestsTotal
        /\ errorsTotal' = errorsTotal /\ operationsTotal' = operationsTotal
    BY <1>1 DEF Refuse, RequestsInv, RequestInv, TypesInv, counters
  <2>3. GaugeMoves(r) /\ RequestsMove(r) /\ ErrorsMove(r) /\ OperationsMove(r)
    BY <2>2 DEF GaugeMoves, RequestsMove, ErrorsMove, OperationsMove, Inside,
       IsCounted, IsErred, IsOperated
  <2> QED
    BY <2>1, <2>3, MetricsStep
<1>2. ASSUME NEW q \in Inbound, Enter(r, q)
      PROVE  RequestsInv' /\ MetricsInv' /\ Others(r)
  <2>1. RequestsInv' /\ Others(r)
    BY <1>2, EnterKeeps
  <2>2. /\ stage[r] = "new" /\ stage'[r] = "routed"
        /\ inflight' = inflight + 1 /\ requestsTotal' = requestsTotal
        /\ errorsTotal' = errorsTotal /\ operationsTotal' = operationsTotal
    BY <1>2 DEF Enter, RequestsInv, TypesInv, counters
  <2>3. GaugeMoves(r) /\ RequestsMove(r) /\ ErrorsMove(r) /\ OperationsMove(r)
    BY <2>2 DEF GaugeMoves, RequestsMove, ErrorsMove, OperationsMove, Inside,
       IsCounted, IsErred, IsOperated
  <2> QED
    BY <2>1, <2>3, MetricsStep
<1>3. CASE NoRoute(r)
  <2>1. /\ Respond(r, 404) \/ Respond(r, 405)
        /\ UNCHANGED operationsTotal
    BY <1>3 DEF NoRoute
  <2>2. 404 \in Statuses \ {429} /\ 405 \in Statuses \ {429}
    BY DEF Statuses
  <2> QED
    BY <2>1, <2>2, RespondMetrics
<1>4. CASE DependencyFails(r)
  BY <1>4, RaiseMetrics DEF DependencyFails, Errors
<1>5. CASE ValidationFails(r)
  <2>1. Respond(r, 422) /\ UNCHANGED operationsTotal /\ 422 \in Statuses \ {429}
    BY <1>5 DEF ValidationFails, Statuses
  <2> QED
    BY <2>1, RespondMetrics
<1>6. CASE PolicyRefuses(r)
  BY <1>6, RaiseMetrics DEF PolicyRefuses, Errors
<1>7. ASSUME NEW e \in Errors, ServiceRaises(r, e)
      PROVE  RequestsInv' /\ MetricsInv' /\ Others(r)
  BY <1>7, RaiseMetrics DEF ServiceRaises
<1>8. CASE ServiceReturns(r)
  <2>1. /\ Respond(r, 200) /\ 200 \in Statuses \ {429}
        /\ inbound[r].path = "/process" /\ operationsTotal' = operationsTotal + 1
    BY <1>8 DEF ServiceReturns, Serves, Reaches, Statuses
  <2>2. /\ RequestsInv' /\ Others(r)
        /\ GaugeMoves(r) /\ RequestsMove(r) /\ ErrorsMove(r)
        /\ ~IsOperated(r) /\ IsOperated(r)'
    BY <2>1, RespondMoves
  <2>3. OperationsMove(r)
    BY <2>1, <2>2 DEF OperationsMove
  <2> QED
    BY <2>2, <2>3, MetricsStep
<1>9. CASE Probe(r)
  <2>1. /\ Respond(r, 200) \/ Respond(r, 503)
        /\ inbound[r].path # "/process" /\ UNCHANGED operationsTotal
    BY <1>9 DEF Probe, Reaches
  <2>2. 200 \in Statuses \ {429} /\ 503 \in Statuses \ {429}
    BY DEF Statuses
  <2> QED
    BY <2>1, <2>2, RespondMetrics
<1>10. CASE HandleDomainError(r)
  <2>1. /\ RequestsInv' /\ Others(r)
        /\ stage[r] = "raised" /\ stage'[r] = "responded" /\ raised[r] \in Errors
        /\ answer'[r].error = raised[r] /\ answer'[r].status # 200 /\ rid[r] # None
        /\ inbound' = inbound /\ rid' = rid
    BY <1>10, HandleDomainErrorKeeps
  <2>2. /\ inflight' = inflight /\ requestsTotal' = requestsTotal
        /\ errorsTotal' = [errorsTotal EXCEPT ![raised[r]] = @ + 1]
        /\ operationsTotal' = operationsTotal
    BY <1>10 DEF HandleDomainError, RecordError
  <2>3. GaugeMoves(r) /\ RequestsMove(r) /\ OperationsMove(r)
    BY <2>1, <2>2 DEF GaugeMoves, RequestsMove, OperationsMove, Inside, IsCounted, IsOperated
  <2>4. ErrorsMove(r)
    <3>1. \A e \in Errors : ~IsErred(r, e) /\ (IsErred(r, e)' <=> e = raised[r])
      BY <2>1 DEF IsErred
    <3>2. PICK x \in Errors : x = raised[r]
      BY <2>1
    <3> QED
      BY <2>2, <3>1, <3>2 DEF ErrorsMove
  <2> QED
    BY <2>1, <2>3, <2>4, MetricsStep
<1>11. CASE Leave(r)
  <2>1. /\ RequestsInv' /\ Others(r)
        /\ stage[r] = "responded" /\ stage'[r] = "answered"
        /\ answer[r] \in Responses /\ inbound[r] \in Arrivals /\ rid[r] # None
        /\ answer'[r].status = answer[r].status /\ answer'[r].error = answer[r].error
        /\ inbound' = inbound /\ rid' = rid
    BY <1>11, LeaveKeeps
  <2> DEFINE q == inbound[r].path
             t == answer[r].status
  <2>2. /\ inflight' = inflight - 1 /\ errorsTotal' = errorsTotal
        /\ requestsTotal' = [requestsTotal EXCEPT ![<<q, t>>] = @ + 1]
        /\ operationsTotal' = operationsTotal
    BY <1>11 DEF Leave
  <2>3. q \in Paths /\ t \in Statuses
    BY <2>1 DEF Arrivals, Responses
  <2>4. GaugeMoves(r) /\ ErrorsMove(r) /\ OperationsMove(r)
    BY <2>1, <2>2 DEF GaugeMoves, ErrorsMove, OperationsMove, Inside, IsErred, IsOperated
  <2>5. RequestsMove(r)
    <3>1. \A p \in Paths, s \in Statuses :
             ~IsCounted(r, p, s) /\ (IsCounted(r, p, s)' <=> p = q /\ s = t)
      BY <2>1 DEF IsCounted
    <3> HIDE DEF q, t
    <3> QED
      BY <2>2, <2>3, <3>1 DEF RequestsMove
  <2> QED
    BY <2>1, <2>4, <2>5, MetricsStep
<1>12. CASE LeaveByException(r)
  <2>1. /\ RequestsInv' /\ Others(r)
        /\ stage[r] = "raised" /\ stage'[r] = "failed"
        /\ inbound[r] \in Arrivals /\ rid[r] # None
        /\ inbound' = inbound /\ rid' = rid /\ answer' = answer
    BY <1>12, LeaveByExceptionKeeps
  <2> DEFINE q == inbound[r].path
  <2>2. /\ inflight' = inflight - 1 /\ errorsTotal' = errorsTotal
        /\ requestsTotal' = [requestsTotal EXCEPT ![<<q, 500>>] = @ + 1]
        /\ operationsTotal' = operationsTotal
    BY <1>12 DEF LeaveByException
  <2>3. q \in Paths /\ 500 \in Statuses
    BY <2>1 DEF Arrivals, Statuses
  <2>4. GaugeMoves(r) /\ ErrorsMove(r) /\ OperationsMove(r)
    BY <2>1, <2>2 DEF GaugeMoves, ErrorsMove, OperationsMove, Inside, IsErred, IsOperated
  <2>5. RequestsMove(r)
    <3>1. \A p \in Paths, s \in Statuses :
             ~IsCounted(r, p, s) /\ (IsCounted(r, p, s)' <=> p = q /\ s = 500)
      BY <2>1 DEF IsCounted
    <3>2. PICK x \in Paths, y \in Statuses : x = q /\ y = 500
      BY <2>3
    <3>3. requestsTotal' = [requestsTotal EXCEPT ![<<x, y>>] = @ + 1]
      BY <2>2, <3>2
    <3>4. ~IsCounted(r, x, y) /\ IsCounted(r, x, y)'
      BY <3>1, <3>2
    <3>5. \A p \in Paths, s \in Statuses :
             <<p, s>> # <<x, y>> => ~IsCounted(r, p, s) /\ ~IsCounted(r, p, s)'
      BY <3>1, <3>2
    <3> QED
      BY <3>3, <3>4, <3>5 DEF RequestsMove
  <2> QED
    BY <2>1, <2>4, <2>5, MetricsStep
<1>13. CASE HandleUnexpected(r)
  <2>1. /\ RequestsInv' /\ Others(r)
        /\ stage[r] = "failed" /\ stage'[r] = "answered"
        /\ answer'[r].error = "INTERNAL_ERROR" /\ answer'[r].status = 500
        /\ rid[r] # None /\ inbound' = inbound /\ rid' = rid
    BY <1>13, HandleUnexpectedKeeps
  <2>2. /\ inflight' = inflight /\ requestsTotal' = requestsTotal
        /\ errorsTotal' = [errorsTotal EXCEPT !["INTERNAL_ERROR"] = @ + 1]
        /\ operationsTotal' = operationsTotal
    BY <1>13 DEF HandleUnexpected, RecordError
  <2>3. GaugeMoves(r) /\ RequestsMove(r) /\ OperationsMove(r)
    BY <2>1, <2>2 DEF GaugeMoves, RequestsMove, OperationsMove, Inside, IsCounted, IsOperated
  <2>4. ErrorsMove(r)
    <3>1. \A e \in Errors : ~IsErred(r, e) /\ (IsErred(r, e)' <=> e = "INTERNAL_ERROR")
      BY <2>1 DEF IsErred
    <3>2. "INTERNAL_ERROR" \in Errors
      BY DEF Errors
    <3> QED
      BY <2>2, <3>1, <3>2 DEF ErrorsMove
  <2> QED
    BY <2>1, <2>3, <2>4, MetricsStep
<1> QED
  BY <1>1, <1>2, <1>3, <1>4, <1>5, <1>6, <1>7, <1>8, <1>9, <1>10, <1>11, <1>12, <1>13
     DEF Step

LEMMA PipelineInit ==
    ASSUME HttpConstants, Init
    PROVE  RequestsInv /\ MetricsInv
<1>1. RequestsInv
  BY DEF Init, RequestsInv, TypesInv, RequestInv, Stages
<1>2. /\ Inside = {} /\ Operated = {}
      /\ \A p \in Paths, s \in Statuses : CountedAs(p, s) = {}
      /\ \A e \in Errors : ErredAs(e) = {}
  BY DEF Init, Inside, Operated, CountedAs, ErredAs, IsOperated, IsCounted, IsErred
<1>3. Cardinality({}) = 0
  BY FS_EmptySet
<1>4. MetricsInv
  <2>1. inflight = 0 /\ operationsTotal = 0
    BY DEF Init
  <2>2. /\ requestsTotal = [ps \in Paths \X Statuses |-> 0]
        /\ errorsTotal = [e \in Errors |-> 0]
    BY DEF Init
  <2> QED
    BY <1>2, <1>3, <2>1, <2>2 DEF MetricsInv
<1> QED
  BY <1>1, <1>4

PipelineInv == LimiterInv /\ RequestsInv /\ MetricsInv

LEMMA PipelineInvariance == Spec => []PipelineInv
<1>1. Init => PipelineInv
  BY HttpConstants, LimiterConstants, PipelineInit, LimiterInitInv DEF Init, PipelineInv
<1>2. PipelineInv /\ [Next]_vars => PipelineInv'
  <2> SUFFICES ASSUME PipelineInv, [Next]_vars
               PROVE  PipelineInv'
    OBVIOUS
  <2>1. LimiterInv'
    BY HttpConstants, LimiterConstants, PipelineLimits, LimiterStepInv DEF PipelineInv
  <2>2. ASSUME NEW r \in Requests, Step(r)
        PROVE  RequestsInv' /\ MetricsInv'
    BY <2>2, HttpConstants, StepKeeps DEF PipelineInv
  <2>3. CASE UNCHANGED <<stage, inbound, rid, raised, answer, inflight, counters>>
    <3>1. RequestsInv'
      BY <2>3 DEF PipelineInv, RequestsInv, TypesInv, RequestInv, NormalizeRequestId
    <3>2. /\ stage' = stage /\ inbound' = inbound /\ rid' = rid /\ answer' = answer
          /\ inflight' = inflight /\ requestsTotal' = requestsTotal
          /\ errorsTotal' = errorsTotal /\ operationsTotal' = operationsTotal
      BY <2>3 DEF counters
    <3>3. /\ Inside' = Inside /\ Operated' = Operated
          /\ \A p \in Paths, s \in Statuses : CountedAs(p, s)' = CountedAs(p, s)
          /\ \A e \in Errors : ErredAs(e)' = ErredAs(e)
      BY <3>2 DEF Inside, CountedAs, ErredAs, Operated, IsCounted, IsErred, IsOperated
    <3>4. MetricsInv'
      BY <3>2, <3>3 DEF PipelineInv, MetricsInv
    <3> QED
      BY <2>1, <3>1, <3>4 DEF PipelineInv
  <2>4. (\E r \in Requests : Step(r))
        \/ UNCHANGED <<stage, inbound, rid, raised, answer, inflight, counters>>
    BY DEF Next, Clock, AllAnswered, vars
  <2> QED
    BY <2>1, <2>2, <2>3, <2>4 DEF PipelineInv
<1> QED
  BY <1>1, <1>2, PTL DEF Spec

-----------------------------------------------------------------------------
(* Theorems.                                                               *)

\* Every variable has its type; the in-flight gauge is never negative.
THEOREM HttpTypeCorrect == Spec => []HttpTypeOK
<1>1. PipelineInv => HttpTypeOK
  <2> SUFFICES ASSUME PipelineInv
               PROVE  HttpTypeOK
    OBVIOUS
  <2>1. Inside \in SUBSET Requests /\ Operated \in SUBSET Requests
    BY DEF Inside, Operated
  <2>2. Cardinality(Inside) \in Nat /\ Cardinality(Operated) \in Nat
    BY <2>1, HttpConstants, FS_Subset, FS_CardinalityType DEF HttpConstants
  <2> QED
    BY <2>2 DEF PipelineInv, LimiterInv, RequestsInv, TypesInv, MetricsInv, HttpTypeOK
<1> QED
  BY <1>1, PipelineInvariance, PTL

\* The gauge and the counters agree with the requests inside and the answers
\* given (MetricsMatchAnswers), for any number of concurrent requests.
THEOREM HttpMetricsMatch == Spec => []MetricsMatchAnswers
<1>1. ASSUME PipelineInv, \A r \in Requests : stage[r] \in {"new", "answered"}
      PROVE  /\ \A p \in Paths, s \in Statuses :
                   requestsTotal[<<p, s>>] =
                      Cardinality({r \in Observed : inbound[r].path = p
                                                    /\ answer[r].status = s})
             /\ \A e \in Errors :
                   errorsTotal[e] = Cardinality({r \in Observed : answer[r].error = e})
             /\ operationsTotal =
                   Cardinality({r \in Observed : inbound[r].path = "/process"
                                                 /\ answer[r].status = 200})
  <2>1. \A r \in Requests : stage[r] = "new" => rid[r] = None
    BY <1>1 DEF PipelineInv, RequestsInv, RequestInv
  <2>2. ASSUME NEW p \in Paths, NEW s \in Statuses
        PROVE  CountedAs(p, s) =
                  {r \in Observed : inbound[r].path = p /\ answer[r].status = s}
    BY <1>1, <2>1 DEF CountedAs, IsCounted, Observed
  <2>3. ASSUME NEW e \in Errors
        PROVE  ErredAs(e) = {r \in Observed : answer[r].error = e}
    BY <1>1, <2>1 DEF ErredAs, IsErred, Observed
  <2>4. Operated = {r \in Observed : inbound[r].path = "/process"
                                     /\ answer[r].status = 200}
    BY <1>1, <2>1 DEF Operated, IsOperated, Observed
  <2>5. MetricsInv
    BY <1>1 DEF PipelineInv
  <2>6. ASSUME NEW p \in Paths, NEW s \in Statuses
        PROVE  requestsTotal[<<p, s>>] =
                  Cardinality({r \in Observed : inbound[r].path = p
                                                /\ answer[r].status = s})
    BY <2>2, <2>5 DEF MetricsInv
  <2>7. ASSUME NEW e \in Errors
        PROVE  errorsTotal[e] = Cardinality({r \in Observed : answer[r].error = e})
    BY <2>3, <2>5 DEF MetricsInv
  <2>8. operationsTotal = Cardinality({r \in Observed : inbound[r].path = "/process"
                                                        /\ answer[r].status = 200})
    BY <2>4, <2>5 DEF MetricsInv
  <2> QED
    BY <2>6, <2>7, <2>8
<1>2. PipelineInv => MetricsMatchAnswers
  <2>1. PipelineInv => inflight = Cardinality(Inside)
    BY DEF PipelineInv, MetricsInv
  <2> QED
    BY <1>1, <2>1, Zenon DEF MetricsMatchAnswers
<1> QED
  BY <1>2, PipelineInvariance, PTL

\* Behind the limiter every answer carries the id of its request
\* (AnswersKeepId), the handler of unexpected exceptions included.
THEOREM HttpAnswersKeepId == Spec => []AnswersKeepId
<1>1. PipelineInv => AnswersKeepId
  BY DEF PipelineInv, RequestsInv, RequestInv, AnswersKeepId, Observed
<1> QED
  BY <1>1, PipelineInvariance, PTL

\* Every 429 carries Retry-After (RetryAfterOn429).
THEOREM HttpRetryAfter == Spec => []RetryAfterOn429
<1>1. PipelineInv => RetryAfterOn429
  BY DEF PipelineInv, RequestsInv, RequestInv, RetryAfterOn429
<1> QED
  BY <1>1, PipelineInvariance, PTL

\* The application lets no more than MaxHits requests to /process through in any
\* window (RateBounded), however they are interleaved.
THEOREM HttpRateBounded == Spec => []RateBounded
<1>1. PipelineInv => RateBounded
  BY DEF PipelineInv, LimiterInv, RateBounded, Spread
<1> QED
  BY <1>1, PipelineInvariance, PTL

\* The application refuses a request only at the limit (RefusedOnlyAtLimit).
THEOREM HttpRefusedOnlyAtLimit == Spec => RefusedOnlyAtLimit
<1> DEFINE OnlyAtLimit ==
        \A r \in Requests : stage[r] = "new" /\ stage'[r] = "answered" => AtLimit(Global)
<1>1. PipelineInv /\ [Next]_vars => [OnlyAtLimit]_vars
  <2> SUFFICES ASSUME PipelineInv, Next, NEW m \in Requests,
                      stage[m] = "new", stage'[m] = "answered"
               PROVE  AtLimit(Global)
    OBVIOUS
  <2>1. PICK r \in Requests : Step(r)
    BY DEF Next, Clock, AllAnswered, vars
  <2>2. stage \in [Requests -> Stages]
    BY DEF PipelineInv, RequestsInv, TypesInv
  <2>3. r = m
    <3>1. Others(r)
      BY <2>1, HttpConstants, StepKeeps DEF PipelineInv
    <3> QED
      BY <3>1 DEF Others
  <2>4. \E q \in Inbound : Refuse(m, q)
    BY <2>1, <2>2, <2>3 DEF Step, Enter, NoRoute, DependencyFails, ValidationFails,
       PolicyRefuses, ServiceRaises, ServiceReturns, Probe, HandleDomainError, Leave,
       LeaveByException, HandleUnexpected, Respond, Raise, Serves
  <2>5. Deny(Global) /\ Global \in Keys
    BY <2>4, HttpConstants DEF Refuse, HttpConstants
  <2> QED
    BY <2>5, LimiterConstants, DenyAtLimit DEF PipelineInv
<1> QED
  BY <1>1, PipelineInvariance, PTL DEF Spec, RefusedOnlyAtLimit
=============================================================================
