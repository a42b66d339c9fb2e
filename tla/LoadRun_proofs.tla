--------------------------- MODULE LoadRun_proofs ---------------------------
(***************************************************************************)
(* Proofs about LoadRun, for every list of targets, every work a Locust    *)
(* process may do, every reading of the samplers and every limit.          *)
(***************************************************************************)
EXTENDS LoadRun, FiniteSetTheorems, SequenceTheorems, WellFoundedInduction, TLAPS

\* The runner has a Locust process of its own for the step.
StepPcs == {"wait", "join", "docker", "connections", "measured", "sum", "len", "peak",
            "docker_peak", "judge", "report"}

\* Locust runs while it is waited for, and has left an exit code after that.
LocustInv ==
    /\ pc \notin {"wait", "done"} => locust \in {"none", "ended"}
    /\ pc \in StepPcs => locust # "none"
    /\ pc \in StepPcs \ {"wait"} => locust = "ended"
    /\ pc \in StepPcs /\ locust = "ended" => code \in {0, 1}
    /\ locust \in {"metrics", "final"} => load \in Loads

\* The files of the step that is running are gone, or its own Locust wrote them.
FilesInv ==
    LET f == files[Dir]
    IN  /\ pc = "launch" => f.final = None /\ f.metrics = None
        /\ pc \in StepPcs =>
              /\ locust \in {"starting", "running", "metrics"} => f.metrics = None
              /\ locust # "ended" => f.final = None
              /\ locust \in {"running", "metrics", "final"} => f.history.by = step
              /\ f.metrics # None =>
                    /\ load \in Loads
                    /\ \E c \in {None, Snapshot(load)} : f.metrics = [by |-> step, counters |-> c]
              /\ f.final # None =>
                    /\ load \in Loads
                    /\ f.history.by = step
                    /\ \E fast \in BOOLEAN :
                          f.final = [by |-> step, row |-> Statistics(load, fast)]

\* A verdict for every step judged; the script has no exit code before its end.
PassInv ==
    /\ pc \notin {"report", "done"} => Len(passed) = step - 1
    /\ pc = "report" => Len(passed) = step
    /\ pc # "done" => rc = None
    /\ rc = 0 => Len(passed) = Len(StepDirs) /\ FALSE \notin Range(passed)

\* A sampler that outlived its join has no list left that matters.
SettledInv ==
    /\ pc \in {"connections", "measured", "sum", "len", "peak", "docker_peak"} =>
          sampler["docker"] = "ended" \/ docker = Unavailable
    /\ report.docker # None => sampler["docker"] = "ended" /\ report.docker = DockerPeak(docker)
    /\ report.connections # None =>
          sampler["connections"] = "ended" /\ report.connections = connections

\* The sum never exceeds what number and maximum allow, also between the reads.
CpuInv ==
    /\ report \in [measured : BOOLEAN, sum : Nat, len : Nat, peak : Nat,
                   docker : Nat \cup {None}, connections : Nat \cup {None}]
    /\ cpu.sum <= cpu.len * cpu.peak
    /\ pc \in {"sum", "len"} /\ report.measured => cpu.len > 0
    /\ pc = "len" => report.sum <= cpu.sum
    /\ pc = "peak" => report.sum <= report.len * cpu.peak
    /\ pc \in {"peak", "docker_peak", "judge", "report"} /\ report.measured => report.len > 0
    /\ pc \in {"docker_peak", "judge", "report"} => report.sum <= report.len * report.peak

\* The inductive invariant.
LoadInv ==
    /\ LoadTypeOK
    /\ LocustInv
    /\ FilesInv
    /\ PassInv
    /\ SettledInv
    /\ CpuInv
    /\ GreenIsEarned
    /\ MismatchesExplained

-----------------------------------------------------------------------------
(* Sums over tasks.                                                        *)

\* Induction over the naturals.
LEMMA AllNaturals ==
    ASSUME NEW G \in SUBSET Nat, 0 \in G, \A n \in G : n + 1 \in G
    PROVE  G = Nat
<1> DEFINE B == Nat \ G
           R == OpToRel(<, Nat)
<1>1. SUFFICES ASSUME B # {} PROVE FALSE
  OBVIOUS
<1>2. PICK m \in B : \A k \in B : ~(<<k, m>> \in R)
  <2>1. B \subseteq Nat
    OBVIOUS
  <2> HIDE DEF B
  <2>2. QED BY <1>1, <2>1, NatLessThanWellFounded, WFMin
<1>3. m \in Nat /\ m # 0 /\ m - 1 \in Nat /\ m - 1 < m
  OBVIOUS
<1>4. m - 1 \in G
  BY <1>2, <1>3 DEF OpToRel
<1>5. (m - 1) + 1 \in G /\ (m - 1) + 1 = m
  BY <1>3, <1>4
<1>6. QED BY <1>5

\* Induction over the subsets of a finite set.
LEMMA AllSubsets ==
    ASSUME NEW S, IsFiniteSet(S), NEW G \in SUBSET SUBSET S,
           \A s \in SUBSET S : (\A x \in s : s \ {x} \in G) => s \in G
    PROVE  G = SUBSET S
<1> DEFINE N == {n \in Nat : \A s \in SUBSET S : Cardinality(s) = n => s \in G}
<1>1. \A s \in SUBSET S : IsFiniteSet(s) /\ Cardinality(s) \in Nat
  BY FS_Subset, FS_CardinalityType
<1>2. 0 \in N
  <2>1. ASSUME NEW s \in SUBSET S, Cardinality(s) = 0 PROVE s \in G
    <3>1. s = {}
      BY <1>1, <2>1, FS_EmptySet
    <3>2. QED BY <3>1
  <2>2. QED BY <2>1
<1>3. ASSUME NEW n \in N PROVE n + 1 \in N
  <2>1. ASSUME NEW s \in SUBSET S, Cardinality(s) = n + 1 PROVE s \in G
    <3>1. ASSUME NEW x \in s PROVE s \ {x} \in G
      <4>1. Cardinality(s \ {x}) = Cardinality(s) - 1
        BY <1>1, FS_RemoveElement
      <4>2. Cardinality(s \ {x}) = n /\ s \ {x} \in SUBSET S
        BY <2>1, <4>1
      <4>3. QED BY <4>2
    <3>2. QED BY <3>1
  <2>2. QED BY <2>1
<1>4. N = Nat
  <2>1. N \in SUBSET Nat
    OBVIOUS
  <2> HIDE DEF N
  <2>2. QED BY <1>2, <1>3, <2>1, AllNaturals
<1>5. QED BY <1>1, <1>4

\* What SumFunctionOnSet takes out of s first.
First(s) == CHOOSE x \in s : TRUE

\* One step of its recursion.
SumTurn(w, g, s) == IF s = {} THEN 0 ELSE w[First(s)] + g[s \ {First(s)}]

Summing(w, S) == CHOOSE g : g = [s \in SUBSET S |-> SumTurn(w, g, s)]

\* The fold of the community modules is this recursion.
LEMMA SumUnfolded ==
    ASSUME NEW w, NEW S
    PROVE  SumFunctionOnSet(w, S) = Summing(w, S)[S]
BY DEF SumFunctionOnSet, FoldFunctionOnSet, MapThenFoldSet, Summing, SumTurn, First

\* The recursion has a solution.
LEMMA SummingExists ==
    ASSUME NEW w, NEW S, IsFiniteSet(S)
    PROVE  Summing(w, S) = [s \in SUBSET S |-> SumTurn(w, Summing(w, S), s)]
<1> DEFINE Level(n) == {s \in SUBSET S : Cardinality(s) <= n}
           N == {n \in Nat : \E g : g = [s \in Level(n) |-> SumTurn(w, g, s)]}
<1>1. ASSUME NEW s \in SUBSET S, s # {}
      PROVE  /\ Cardinality(s) \in Nat /\ s \ {First(s)} \in SUBSET S
             /\ Cardinality(s \ {First(s)}) = Cardinality(s) - 1
  <2>1. IsFiniteSet(s) /\ First(s) \in s
    BY <1>1, FS_Subset DEF First
  <2>2. QED BY <2>1, FS_RemoveElement, FS_CardinalityType
<1>2. Cardinality({}) = 0
  BY FS_EmptySet
<1>3. 0 \in N
  <2> DEFINE g == [s \in Level(0) |-> 0]
  <2>1. ASSUME NEW s \in Level(0) PROVE s = {}
    <3>1. IsFiniteSet(s) /\ Cardinality(s) \in Nat /\ Cardinality(s) <= 0
      BY FS_Subset, FS_CardinalityType
    <3>2. QED BY <3>1, FS_EmptySet
  <2>2. g = [s \in Level(0) |-> SumTurn(w, g, s)]
    <3>1. \A s \in Level(0) : SumTurn(w, g, s) = 0
      BY <2>1 DEF SumTurn
    <3>2. QED BY <3>1
  <2>3. QED BY <2>2
<1>4. ASSUME NEW n \in N PROVE n + 1 \in N
  <2>1. n \in Nat
    OBVIOUS
  <2>2. PICK g : g = [s \in Level(n) |-> SumTurn(w, g, s)]
    OBVIOUS
  <2> DEFINE h == [s \in Level(n + 1) |-> SumTurn(w, g, s)]
  <2>3. ASSUME NEW s \in Level(n + 1), s # {}
        PROVE  /\ s \ {First(s)} \in Level(n) /\ s \ {First(s)} \in Level(n + 1)
               /\ h[s \ {First(s)}] = g[s \ {First(s)}]
    <3>1. s \ {First(s)} \in Level(n) /\ s \ {First(s)} \in Level(n + 1)
      BY <1>1, <2>1, <2>3
    <3>2. g[s \ {First(s)}] = SumTurn(w, g, s \ {First(s)})
      BY <2>2, <3>1
    <3>3. QED BY <3>1, <3>2
  <2>4. ASSUME NEW s \in Level(n + 1) PROVE SumTurn(w, g, s) = SumTurn(w, h, s)
    <3> HIDE DEF h, Level
    <3>1. CASE s = {}
      BY <3>1 DEF SumTurn
    <3>2. CASE s # {}
      <4>1. h[s \ {First(s)}] = g[s \ {First(s)}]
        BY <2>3, <3>2
      <4>2. QED BY <3>2, <4>1 DEF SumTurn
    <3>3. QED BY <3>1, <3>2
  <2>5. h = [s \in Level(n + 1) |-> SumTurn(w, h, s)]
    BY <2>4
  <2>6. QED
    <3> HIDE DEF h, Level
    <3>1. QED BY <2>1, <2>5
<1>5. N = Nat
  <2>1. N \in SUBSET Nat
    OBVIOUS
  <2> HIDE DEF N
  <2>2. QED BY <1>3, <1>4, <2>1, AllNaturals
<1>6. Level(Cardinality(S)) = SUBSET S /\ Cardinality(S) \in Nat
  <2>1. \A s \in SUBSET S : Cardinality(s) <= Cardinality(S)
    BY FS_Subset
  <2>2. QED BY <2>1, FS_CardinalityType
<1>7. PICK g : g = [s \in SUBSET S |-> SumTurn(w, g, s)]
  <2>1. Cardinality(S) \in N
    BY <1>5, <1>6
  <2>2. QED
    <3> HIDE DEF Level
    <3>1. QED BY <1>6, <2>1
<1>8. QED BY <1>7 DEF Summing

\* It counts naturals, and any member may be taken out first.
LEMMA SummingProps ==
    ASSUME NEW D, NEW w \in [D -> Nat], NEW S \in SUBSET D, IsFiniteSet(S)
    PROVE  /\ Summing(w, S)[{}] = 0
           /\ \A s \in SUBSET S :
                 /\ Summing(w, S)[s] \in Nat
                 /\ \A x \in s : Summing(w, S)[s] = w[x] + Summing(w, S)[s \ {x}]
<1> DEFINE g == Summing(w, S)
           G == {s \in SUBSET S : /\ g[s] \in Nat
                                  /\ \A x \in s : /\ g[s \ {x}] \in Nat
                                                   /\ g[s] = w[x] + g[s \ {x}]}
<1>1. \A s \in SUBSET S : g[s] = SumTurn(w, g, s)
  <2>1. g = [s \in SUBSET S |-> SumTurn(w, g, s)]
    BY SummingExists
  <2> HIDE DEF g
  <2>2. QED BY <2>1
<1> HIDE DEF g
<1>2. ASSUME NEW s \in SUBSET S, \A x \in s : s \ {x} \in G
      PROVE  s \in G
  <2>1. CASE s = {}
    <3>1. g[{}] = 0
      BY <1>1 DEF SumTurn
    <3>2. QED BY <2>1, <3>1
  <2>2. CASE s # {}
    <3> DEFINE c == First(s)
    <3>1. c \in s /\ w[c] \in Nat
      BY <2>2 DEF First
    <3> HIDE DEF c
    <3>2. g[s] = w[c] + g[s \ {c}]
      BY <1>1, <2>2 DEF SumTurn, c
    <3>3. g[s \ {c}] \in Nat
      BY <1>2, <3>1
    <3>4. ASSUME NEW x \in s PROVE g[s] = w[x] + g[s \ {x}]
      <4>1. CASE x = c
        BY <3>2, <4>1
      <4>2. CASE x # c
        <5>1. x \in s \ {c} /\ c \in s \ {x} /\ w[x] \in Nat
          BY <3>1, <4>2
        <5>2. g[s \ {c}] = w[x] + g[(s \ {c}) \ {x}]
          BY <1>2, <3>1, <5>1
        <5>3. g[s \ {x}] = w[c] + g[(s \ {x}) \ {c}] /\ g[s \ {x}] \in Nat
          BY <1>2, <5>1
        <5>4. (s \ {x}) \ {c} = (s \ {c}) \ {x}
          OBVIOUS
        <5>5. g[(s \ {c}) \ {x}] \in Nat
          BY <1>2, <3>1, <5>1
        <5>6. \A a, b, y \in Nat : a + (b + y) = b + (a + y)
          OBVIOUS
        <5>7. w[c] + (w[x] + g[(s \ {c}) \ {x}]) = w[x] + (w[c] + g[(s \ {c}) \ {x}])
          BY <3>1, <5>1, <5>5, <5>6
        <5>8. QED BY <3>2, <5>2, <5>3, <5>4, <5>7
      <4>3. QED BY <4>1, <4>2
    <3>5. g[s] \in Nat
      BY <3>1, <3>2, <3>3
    <3>6. \A x \in s : g[s \ {x}] \in Nat
      BY <1>2
    <3>7. QED BY <3>4, <3>5, <3>6
  <2>3. QED BY <2>1, <2>2
<1>3. G = SUBSET S
  <2>1. G \in SUBSET SUBSET S
    OBVIOUS
  <2> HIDE DEF G
  <2>2. QED BY <1>2, <2>1, AllSubsets
<1>4. g[{}] = 0
  BY <1>1 DEF SumTurn
<1>5. QED BY <1>3, <1>4 DEF g

\* A sum over more gives the same on what both have.
LEMMA SummingAgrees ==
    ASSUME NEW D, NEW w \in [D -> Nat], NEW T \in SUBSET D, IsFiniteSet(T), NEW S \in SUBSET T
    PROVE  Summing(w, S)[S] = Summing(w, T)[S]
<1> DEFINE g == Summing(w, S)
           h == Summing(w, T)
           G == {s \in SUBSET S : g[s] = h[s]}
<1>1. /\ g[{}] = 0
      /\ \A s \in SUBSET S : \A x \in s : g[s] = w[x] + g[s \ {x}]
  <2>1. IsFiniteSet(S) /\ S \in SUBSET D
    BY FS_Subset
  <2> HIDE DEF g
  <2>2. QED BY <2>1, SummingProps DEF g
<1>2. /\ h[{}] = 0
      /\ \A s \in SUBSET T : \A x \in s : h[s] = w[x] + h[s \ {x}]
  <2>1. IsFiniteSet(T) /\ T \in SUBSET D
    OBVIOUS
  <2>2. /\ Summing(w, T)[{}] = 0
        /\ \A s \in SUBSET T :
              /\ Summing(w, T)[s] \in Nat
              /\ \A x \in s : Summing(w, T)[s] = w[x] + Summing(w, T)[s \ {x}]
    BY <2>1, SummingProps, SMTT(30)
  <2> HIDE DEF h
  <2>3. QED BY <2>2, Zenon DEF h
<1> HIDE DEF g, h
<1>3. ASSUME NEW s \in SUBSET S, \A x \in s : s \ {x} \in G
      PROVE  s \in G
  <2>1. CASE s = {}
    BY <1>1, <1>2, <2>1
  <2>2. CASE s # {}
    <3>1. PICK x \in s : TRUE
      BY <2>2
    <3>2. g[s \ {x}] = h[s \ {x}]
      BY <1>3
    <3>3. s \in SUBSET T
      OBVIOUS
    <3>4. g[s] = w[x] + g[s \ {x}] /\ h[s] = w[x] + h[s \ {x}]
      BY <1>1, <1>2, <3>3
    <3>5. QED BY <3>2, <3>4
  <2>3. QED BY <2>1, <2>2
<1>4. G = SUBSET S
  <2>1. G \in SUBSET SUBSET S /\ IsFiniteSet(S)
    BY FS_Subset
  <2> HIDE DEF G
  <2>2. QED BY <1>3, <2>1, AllSubsets
<1>5. S \in G
  BY <1>4
<1>6. QED BY <1>5 DEF g, h

\* There are finitely many outcomes.
LEMMA OutcomesFinite == IsFiniteSet(Outcomes)
<1>1. /\ IsFiniteSet({})
      /\ \A S, x : IsFiniteSet(S) => IsFiniteSet(S \cup {x})
  BY FS_EmptySet, FS_AddElement
<1> DEFINE A == {} \cup {"pair"} \cup {"cut"} \cup {"demaskRefused"} \cup {"demaskError"}
                   \cup {"demaskWrong"}
           B == A \cup {"demaskRaised"} \cup {"demaskTorn"} \cup {"demaskNoStatus"}
                  \cup {"maskRefused"} \cup {"maskError"}
           C == B \cup {"maskWrong"} \cup {"maskRaised"} \cup {"maskTorn"} \cup {"maskNoStatus"}
<1>2. IsFiniteSet(A)
  BY <1>1
<1>3. Outcomes = C
  BY DEF Outcomes, MaskValid
<1>4. IsFiniteSet(B)
  <2> HIDE DEF A
  <2>1. QED BY <1>1, <1>2
<1>5. IsFiniteSet(C)
  <2> HIDE DEF B
  <2>1. QED BY <1>1, <1>4
<1>6. QED BY <1>3, <1>5

\* Tasks counts the tasks of each outcome once.
LEMMA TasksAdd ==
    ASSUME NEW w \in Works
    PROVE  /\ Tasks(w, {}) = 0
           /\ \A S \in SUBSET Outcomes : Tasks(w, S) \in Nat
           /\ \A S \in SUBSET Outcomes, x \in Outcomes :
                 x \notin S => Tasks(w, S \cup {x}) = w[x] + Tasks(w, S)
<1>1. w \in [Outcomes -> Nat] /\ \A S \in SUBSET Outcomes : IsFiniteSet(S)
  BY OutcomesFinite, FS_Subset DEF Works
<1>2. \A S : Tasks(w, S) = Summing(w, S)[S]
  BY SumUnfolded DEF Tasks
<1>3. ASSUME NEW S \in SUBSET Outcomes
      PROVE  Tasks(w, S) \in Nat /\ Summing(w, S)[{}] = 0
  BY <1>1, <1>2, SummingProps
<1>4. ASSUME NEW S \in SUBSET Outcomes, NEW x \in Outcomes, x \notin S
      PROVE  Tasks(w, S \cup {x}) = w[x] + Tasks(w, S)
  <2> DEFINE T == S \cup {x}
  <2>1. T \in SUBSET Outcomes /\ S \in SUBSET T /\ x \in T /\ T \ {x} = S /\ T \in SUBSET T
    BY <1>4
  <2> HIDE DEF T
  <2>2. IsFiniteSet(T)
    BY <1>1, <2>1
  <2>3. Summing(w, T)[T] = w[x] + Summing(w, T)[T \ {x}]
    BY <1>1, <2>1, <2>2, SummingProps
  <2>4. Summing(w, S)[S] = Summing(w, T)[S]
    BY <1>1, <2>1, <2>2, SummingAgrees
  <2>5. QED BY <1>2, <2>1, <2>3, <2>4 DEF T
<1>5. Tasks(w, {}) = 0
  BY <1>2, <1>3
<1>6. QED BY <1>3, <1>4, <1>5

\* Two outcomes.
LEMMA TasksTwo ==
    ASSUME NEW w \in Works, NEW a \in Outcomes, NEW b \in Outcomes, a # b
    PROVE  Tasks(w, {a, b}) = w[a] + w[b]
<1>1. w[b] \in Nat
  BY DEF Works
<1>2. Tasks(w, {} \cup {b}) = w[b] + Tasks(w, {}) /\ Tasks(w, {}) = 0
  BY TasksAdd
<1>3. {b} \in SUBSET Outcomes /\ a \notin {b}
  OBVIOUS
<1>4. Tasks(w, {b} \cup {a}) = w[a] + Tasks(w, {b})
  BY <1>3, TasksAdd
<1>5. {} \cup {b} = {b} /\ {b} \cup {a} = {a, b}
  OBVIOUS
<1>6. w[b] + 0 = w[b]
  BY <1>1
<1>7. QED BY <1>2, <1>4, <1>5, <1>6

\* Four outcomes.
LEMMA TasksFour ==
    ASSUME NEW w \in Works, NEW a \in Outcomes, NEW b \in Outcomes, NEW c \in Outcomes,
           NEW d \in Outcomes, a \notin {b, c, d}, b \notin {c, d}, c # d
    PROVE  Tasks(w, {a, b, c, d}) = w[a] + (w[b] + (w[c] + w[d]))
<1>1. Tasks(w, {c, d}) = w[c] + w[d]
  BY TasksTwo
<1>2. {c, d} \in SUBSET Outcomes /\ {b, c, d} \in SUBSET Outcomes
  OBVIOUS
<1>3. Tasks(w, {c, d} \cup {b}) = w[b] + Tasks(w, {c, d})
  BY <1>2, TasksAdd
<1>4. Tasks(w, {b, c, d} \cup {a}) = w[a] + Tasks(w, {b, c, d})
  BY <1>2, TasksAdd
<1>5. {c, d} \cup {b} = {b, c, d} /\ {b, c, d} \cup {a} = {a, b, c, d}
  OBVIOUS
<1>6. QED BY <1>1, <1>3, <1>4, <1>5

\* One outcome more.
LEMMA TasksOneMore ==
    ASSUME NEW w \in Works, NEW S \in SUBSET Outcomes, NEW a \in Outcomes, a \notin S
    PROVE  Tasks(w, S \cup {a}) = Tasks(w, S) + w[a]
<1>1. /\ w[a] \in Nat /\ Tasks(w, S) \in Nat
      /\ Tasks(w, S \cup {a}) = w[a] + Tasks(w, S)
  BY TasksAdd DEF Works
<1>2. QED BY <1>1

\* Two outcomes more.
LEMMA TasksTwoMore ==
    ASSUME NEW w \in Works, NEW S \in SUBSET Outcomes, NEW a \in Outcomes, NEW b \in Outcomes,
           a \notin S, b \notin S, a # b
    PROVE  Tasks(w, S \cup {a, b}) = Tasks(w, S) + w[a] + w[b]
<1> DEFINE Q == S \cup {a}
<1>1. Tasks(w, Q) = Tasks(w, S) + w[a]
  BY TasksOneMore
<1>2. Q \in SUBSET Outcomes /\ Q \cup {b} = S \cup {a, b} /\ b \notin Q
  OBVIOUS
<1> HIDE DEF Q
<1>3. Tasks(w, Q \cup {b}) = Tasks(w, Q) + w[b]
  BY <1>2, TasksOneMore
<1>4. QED BY <1>1, <1>2, <1>3

\* The sums the counters and the statistics are made of.
LEMMA Counts ==
    ASSUME NEW w \in Works
    PROVE  LET P == w["pair"]         C == w["cut"]
               R == w["demaskRefused"] E == w["demaskError"] W == w["demaskWrong"]
               A == w["demaskRaised"] T == w["demaskTorn"]  N == w["demaskNoStatus"]
               r == w["maskRefused"]  e == w["maskError"]   x == w["maskWrong"]
               a == w["maskRaised"]   t == w["maskTorn"]    n == w["maskNoStatus"]
           IN  /\ {P, C, R, E, W, A, T, N, r, e, x, a, t, n} \subseteq Nat
               /\ MaskRequests(w) = P + C + R + E + W + A + T + N + x
               /\ DemaskRequests(w) = P + W
               /\ CountedIncomplete(w) = R + E + W + A + T + N
               /\ Tasks(w, Refused) = r + R
               /\ Tasks(w, Error \cup NoStatus) = e + E + n + N
               /\ Tasks(w, Unreported) = a + A + n + N
               /\ TransportErrors(w) = a + A + t + T + n + N
               /\ Tasks(w, Error \cup Wrong \cup NoStatus) = e + E + x + W + n + N
               /\ Tasks(w, Error \cup Wrong \cup Torn) = e + E + x + W + t + T
               /\ Tasks(w, MaskValid \ ({"cut"} \cup Unreported)) = P + R + E + W + T
               /\ Tasks(w, Outcomes \ {"maskRaised", "maskNoStatus"})
                    = P + C + R + E + W + A + T + N + r + e + x + t
<1> DEFINE P == w["pair"]         C == w["cut"]
           R == w["demaskRefused"] E == w["demaskError"] W == w["demaskWrong"]
           A == w["demaskRaised"] T == w["demaskTorn"]  N == w["demaskNoStatus"]
           r == w["maskRefused"]  e == w["maskError"]   x == w["maskWrong"]
           a == w["maskRaised"]   t == w["maskTorn"]    n == w["maskNoStatus"]
<1>1. /\ P \in Nat /\ C \in Nat /\ R \in Nat /\ E \in Nat /\ W \in Nat
      /\ A \in Nat /\ T \in Nat /\ N \in Nat /\ r \in Nat /\ e \in Nat
      /\ x \in Nat /\ a \in Nat /\ t \in Nat /\ n \in Nat
  BY DEF Works, Outcomes, MaskValid
<1>2. \A o, p, q, u \in Outcomes :
         o \notin {p, q, u} /\ p \notin {q, u} /\ q # u
         => Tasks(w, {o, p, q, u}) = w[o] + (w[p] + (w[q] + w[u]))
  BY TasksFour
<1>3. /\ "pair" \in Outcomes /\ "cut" \in Outcomes /\ "demaskRefused" \in Outcomes
      /\ "demaskError" \in Outcomes /\ "demaskWrong" \in Outcomes
      /\ "demaskRaised" \in Outcomes /\ "demaskTorn" \in Outcomes
      /\ "demaskNoStatus" \in Outcomes /\ "maskRefused" \in Outcomes
      /\ "maskError" \in Outcomes /\ "maskWrong" \in Outcomes
      /\ "maskRaised" \in Outcomes /\ "maskTorn" \in Outcomes /\ "maskNoStatus" \in Outcomes
  BY DEF Outcomes, MaskValid
<1> DEFINE F == {"maskError", "demaskError", "maskWrong", "demaskWrong"}
           G == {"maskRaised", "demaskRaised", "maskTorn", "demaskTorn"}
           H == {"demaskRefused", "demaskError", "demaskWrong", "demaskTorn"}
           I == H \cup {"demaskRaised", "demaskNoStatus"}
           V == I \cup {"pair", "cut"}
           X == V \cup {"maskWrong"}
           Y == X \cup {"maskRefused", "maskError"}
<1>4. /\ F \in SUBSET Outcomes /\ G \in SUBSET Outcomes /\ H \in SUBSET Outcomes
      /\ I \in SUBSET Outcomes /\ V \in SUBSET Outcomes /\ X \in SUBSET Outcomes
      /\ Y \in SUBSET Outcomes
  BY <1>3
<1>5. /\ Tasks(w, {"pair", "demaskWrong"}) = P + W
      /\ Tasks(w, {"maskRefused", "demaskRefused"}) = r + R
  <2>1. \A o, p \in Outcomes : o # p => Tasks(w, {o, p}) = w[o] + w[p]
    BY TasksTwo
  <2>2. QED BY <1>3, <2>1
<1>6. /\ Tasks(w, {"maskError", "demaskError", "maskNoStatus", "demaskNoStatus"})
           = e + (E + (n + N))
      /\ Tasks(w, {"maskRaised", "demaskRaised", "maskNoStatus", "demaskNoStatus"})
           = a + (A + (n + N))
  <2>1. Tasks(w, {"maskError", "demaskError", "maskNoStatus", "demaskNoStatus"})
           = e + (E + (n + N))
    BY <1>2, <1>3
  <2>2. Tasks(w, {"maskRaised", "demaskRaised", "maskNoStatus", "demaskNoStatus"})
           = a + (A + (n + N))
    BY <1>2, <1>3
  <2>3. QED BY <2>1, <2>2
<1>7. Tasks(w, F) = e + (E + (x + W))
  BY <1>2, <1>3
<1>8. Tasks(w, G) = a + (A + (t + T))
  BY <1>2, <1>3
<1>9. Tasks(w, H) = R + (E + (W + T))
  <2> DEFINE o == "demaskRefused"  p == "demaskError"  q == "demaskWrong"  u == "demaskTorn"
  <2>1. o \notin {p, q, u} /\ p \notin {q, u} /\ q # u
    OBVIOUS
  <2>2. /\ o \in Outcomes /\ p \in Outcomes /\ q \in Outcomes /\ u \in Outcomes
        /\ H = {o, p, q, u} /\ w[o] = R /\ w[p] = E /\ w[q] = W /\ w[u] = T
    BY <1>3
  <2> HIDE DEF o, p, q, u, H, R, E, W, T
  <2>3. QED BY <2>1, <2>2, TasksFour
<1>10. /\ Tasks(w, F \cup {"maskNoStatus", "demaskNoStatus"}) = Tasks(w, F) + n + N
       /\ Tasks(w, F \cup {"maskTorn", "demaskTorn"}) = Tasks(w, F) + t + T
  <2>1. /\ "maskNoStatus" \notin F /\ "demaskNoStatus" \notin F
        /\ "maskTorn" \notin F /\ "demaskTorn" \notin F
    OBVIOUS
  <2> HIDE DEF F
  <2>2. Tasks(w, F \cup {"maskNoStatus", "demaskNoStatus"}) = Tasks(w, F) + n + N
    BY <1>3, <1>4, <2>1, TasksTwoMore
  <2>3. Tasks(w, F \cup {"maskTorn", "demaskTorn"}) = Tasks(w, F) + t + T
    BY <1>3, <1>4, <2>1, TasksTwoMore
  <2>4. QED BY <2>2, <2>3
<1>11. Tasks(w, G \cup {"maskNoStatus", "demaskNoStatus"}) = Tasks(w, G) + n + N
  <2>1. "maskNoStatus" \notin G /\ "demaskNoStatus" \notin G
    OBVIOUS
  <2> HIDE DEF G
  <2>2. QED BY <1>3, <1>4, <2>1, TasksTwoMore
<1>12. /\ Tasks(w, I) = Tasks(w, H) + A + N
       /\ Tasks(w, H \cup {"pair"}) = Tasks(w, H) + P
  <2>1. "demaskRaised" \notin H /\ "demaskNoStatus" \notin H /\ "pair" \notin H
    OBVIOUS
  <2> HIDE DEF H
  <2>2. Tasks(w, I) = Tasks(w, H) + A + N
    BY <1>3, <1>4, <2>1, TasksTwoMore
  <2>3. Tasks(w, H \cup {"pair"}) = Tasks(w, H) + P
    BY <1>3, <1>4, <2>1, TasksOneMore
  <2>4. QED BY <2>2, <2>3
<1>13. Tasks(w, V) = Tasks(w, I) + P + C
  <2>1. "pair" \notin I /\ "cut" \notin I
    OBVIOUS
  <2> HIDE DEF I
  <2>2. QED BY <1>3, <1>4, <2>1, TasksTwoMore
<1>14. Tasks(w, X) = Tasks(w, V) + x
  <2>1. "maskWrong" \notin V
    OBVIOUS
  <2> HIDE DEF V
  <2>2. QED BY <1>3, <1>4, <2>1, TasksOneMore
<1>15. Tasks(w, Y) = Tasks(w, X) + r + e
  <2>1. "maskRefused" \notin X /\ "maskError" \notin X
    OBVIOUS
  <2> HIDE DEF X
  <2>2. QED BY <1>3, <1>4, <2>1, TasksTwoMore
<1>16. Tasks(w, Y \cup {"maskTorn"}) = Tasks(w, Y) + t
  <2>1. "maskTorn" \notin Y
    OBVIOUS
  <2> HIDE DEF Y
  <2>2. QED BY <1>3, <1>4, <2>1, TasksOneMore
<1>17. /\ MaskValid \cup {"maskWrong"} = X
       /\ MaskValid \ {"pair", "cut"} = I
       /\ MaskValid \ ({"cut"} \cup Unreported) = H \cup {"pair"}
       /\ Outcomes \ {"maskRaised", "maskNoStatus"} = Y \cup {"maskTorn"}
  <2>1. MaskValid \cup {"maskWrong"} = X /\ MaskValid \ {"pair", "cut"} = I
    BY DEF MaskValid
  <2>2. MaskValid \ ({"cut"} \cup Unreported) = H \cup {"pair"}
    BY DEF MaskValid, Unreported, Raised, NoStatus
  <2>3. Outcomes \ {"maskRaised", "maskNoStatus"} = Y \cup {"maskTorn"}
    BY DEF Outcomes, MaskValid
  <2>4. QED BY <2>1, <2>2, <2>3
<1>18. /\ Error \cup NoStatus = {"maskError", "demaskError", "maskNoStatus", "demaskNoStatus"}
       /\ Unreported = {"maskRaised", "demaskRaised", "maskNoStatus", "demaskNoStatus"}
       /\ Refused = {"maskRefused", "demaskRefused"}
       /\ Raised \cup Torn \cup NoStatus = G \cup {"maskNoStatus", "demaskNoStatus"}
       /\ Error \cup Wrong \cup NoStatus = F \cup {"maskNoStatus", "demaskNoStatus"}
       /\ Error \cup Wrong \cup Torn = F \cup {"maskTorn", "demaskTorn"}
  BY DEF Refused, Error, Wrong, Raised, Torn, NoStatus, Unreported
<1>19. /\ MaskRequests(w) = Tasks(w, X)
       /\ DemaskRequests(w) = P + W
       /\ CountedIncomplete(w) = Tasks(w, I)
       /\ TransportErrors(w) = Tasks(w, G \cup {"maskNoStatus", "demaskNoStatus"})
  BY <1>5, <1>17, <1>18 DEF MaskRequests, DemaskRequests, CountedIncomplete, TransportErrors
<1> HIDE DEF P, C, R, E, W, A, T, N, r, e, x, a, t, n, F, G, H, I, V, X, Y
<1>20. /\ MaskRequests(w) = P + C + R + E + W + A + T + N + x
       /\ CountedIncomplete(w) = R + E + W + A + T + N
       /\ Tasks(w, H \cup {"pair"}) = P + R + E + W + T
       /\ Tasks(w, Y \cup {"maskTorn"}) = P + C + R + E + W + A + T + N + r + e + x + t
  BY <1>1, <1>9, <1>12, <1>13, <1>14, <1>15, <1>16, <1>19
<1>21. /\ TransportErrors(w) = a + A + t + T + n + N
       /\ Tasks(w, F \cup {"maskNoStatus", "demaskNoStatus"}) = e + E + x + W + n + N
       /\ Tasks(w, F \cup {"maskTorn", "demaskTorn"}) = e + E + x + W + t + T
       /\ e + (E + (n + N)) = e + E + n + N
       /\ a + (A + (n + N)) = a + A + n + N
  BY <1>1, <1>7, <1>8, <1>10, <1>11, <1>19
<1>22. /\ MaskRequests(w) = P + C + R + E + W + A + T + N + x
       /\ DemaskRequests(w) = P + W
       /\ CountedIncomplete(w) = R + E + W + A + T + N
       /\ Tasks(w, Refused) = r + R
       /\ Tasks(w, Error \cup NoStatus) = e + E + n + N
       /\ Tasks(w, Unreported) = a + A + n + N
       /\ TransportErrors(w) = a + A + t + T + n + N
       /\ Tasks(w, Error \cup Wrong \cup NoStatus) = e + E + x + W + n + N
       /\ Tasks(w, Error \cup Wrong \cup Torn) = e + E + x + W + t + T
       /\ Tasks(w, MaskValid \ ({"cut"} \cup Unreported)) = P + R + E + W + T
       /\ Tasks(w, Outcomes \ {"maskRaised", "maskNoStatus"})
            = P + C + R + E + W + A + T + N + r + e + x + t
  BY <1>5, <1>6, <1>17, <1>18, <1>19, <1>20, <1>21, Zenon
<1>23. {P, C, R, E, W, A, T, N, r, e, x, a, t, n} \subseteq Nat
  BY <1>1
<1>24. QED BY <1>22, <1>23, Zenon DEF P, C, R, E, W, A, T, N, r, e, x, a, t, n

\* Counters and statistics agree but for the requests Locust has not reported,
\* and the counters with each other unless a demask went wrong.
LEMMA Reconciles ==
    ASSUME NEW w \in Works, NEW fast
    PROVE  LET m == Snapshot(w)
               row == Statistics(w, fast)
               lost == Tasks(w, Unreported)
           IN  /\ lost \in Nat
               /\ lost = 0 =>
                    m.http_2xx + m.http_429 + m.http_other + m.transport_errors = row.requests
               /\ m.mask_requests + m.demask_requests = m.http_2xx
               /\ row.failures = m.functional_errors + m.transport_errors <=> lost = 0
               /\ w["demaskWrong"] = 0 =>
                     m.mask_requests = m.demask_requests + m.incomplete_roundtrips
<1> DEFINE P == w["pair"]         C == w["cut"]
           R == w["demaskRefused"] E == w["demaskError"] W == w["demaskWrong"]
           A == w["demaskRaised"] T == w["demaskTorn"]  N == w["demaskNoStatus"]
           r == w["maskRefused"]  e == w["maskError"]   x == w["maskWrong"]
           a == w["maskRaised"]   t == w["maskTorn"]    n == w["maskNoStatus"]
           M == MaskRequests(w)   D == DemaskRequests(w) I == CountedIncomplete(w)
           lost == Tasks(w, Unreported)
<1>1. /\ P \in Nat /\ C \in Nat /\ R \in Nat /\ E \in Nat /\ W \in Nat
      /\ A \in Nat /\ T \in Nat /\ N \in Nat /\ r \in Nat /\ e \in Nat
      /\ x \in Nat /\ a \in Nat /\ t \in Nat /\ n \in Nat
  BY Counts
<1>2. /\ M = P + C + R + E + W + A + T + N + x
      /\ D = P + W
      /\ I = R + E + W + A + T + N
      /\ lost = a + A + n + N
  BY Counts
<1>3. /\ Snapshot(w).http_2xx = M + D
      /\ Snapshot(w).http_429 = r + R
      /\ Snapshot(w).http_other = e + E + n + N
      /\ Snapshot(w).transport_errors = a + A + t + T + n + N
      /\ Snapshot(w).functional_errors = e + E + x + W + n + N
      /\ Snapshot(w).mask_requests = M
      /\ Snapshot(w).demask_requests = D
      /\ Snapshot(w).incomplete_roundtrips = Incomplete(w)
  BY Counts DEF Snapshot
<1>4. /\ Statistics(w, fast).requests =
           (P + C + R + E + W + A + T + N + r + e + x + t) + (P + R + E + W + T)
      /\ Statistics(w, fast).failures = e + E + x + W + t + T
  BY Counts DEF Statistics
<1>5. Incomplete(w) = IF M > D + I THEN M - D ELSE I
  BY DEF Incomplete
<1> HIDE DEF P, C, R, E, W, A, T, N, r, e, x, a, t, n, M, D, I, lost
<1>6. lost \in Nat /\ (lost = 0 => a = 0 /\ A = 0 /\ n = 0 /\ N = 0)
  BY <1>1, <1>2
<1>7. lost = 0 =>
        M + D + (r + R) + (e + E + n + N) + (a + A + t + T + n + N) =
        (P + C + R + E + W + A + T + N + r + e + x + t) + (P + R + E + W + T)
  BY <1>1, <1>2, <1>6
<1>8. e + E + x + W + t + T = (e + E + x + W + n + N) + (a + A + t + T + n + N) <=> lost = 0
  BY <1>1, <1>2, <1>6
<1>9. W = 0 => M = D + Incomplete(w)
  BY <1>1, <1>2, <1>5
<1>10. QED BY <1>3, <1>4, <1>6, <1>7, <1>8, <1>9 DEF W, lost

\* What is raised is named in the list with a condition that holds.
LEMMA FlaggedProps ==
    ASSUME NEW A
    PROVE  \A S \in SUBSET (A \X BOOLEAN) :
              /\ \A v \in A : v \in Flagged(S) <=> <<v, TRUE>> \in S
              /\ Flagged(S) \subseteq A
<1>1. ASSUME NEW S \in SUBSET (A \X BOOLEAN), NEW v \in A, <<v, TRUE>> \in S
      PROVE  v \in Flagged(S)
  <2>1. <<v, TRUE>>[1] = v /\ <<v, TRUE>>[2]
    OBVIOUS
  <2>2. QED BY <1>1, <2>1 DEF Flagged
<1>2. ASSUME NEW S \in SUBSET (A \X BOOLEAN), NEW v \in Flagged(S)
      PROVE  v \in A /\ <<v, TRUE>> \in S
  <2>1. PICK u \in S : u[2] /\ v = u[1]
    BY DEF Flagged
  <2>2. u \in A \X BOOLEAN
    OBVIOUS
  <2>3. u = <<u[1], u[2]>> /\ u[1] \in A /\ u[2] \in BOOLEAN
    BY <2>2
  <2>4. u[2] = TRUE
    BY <2>1, <2>3
  <2>5. QED BY <2>1, <2>3, <2>4
<1>3. QED BY <1>1, <1>2

\* A condition with its name.
LEMMA NamedCondition ==
    ASSUME NEW A, NEW v \in A, NEW b \in BOOLEAN
    PROVE  <<v, b>> \in A \X BOOLEAN
OBVIOUS

\* build_result raises nothing of an exit code and statistics only for 0 and
\* statistics within the limits.
LEMMA RowProps ==
    ASSUME NEW c, NEW row
    PROVE  /\ RowViolations(c, row) \subseteq {"exit code", "error rate", "limits"}
           /\ RowViolations(c, row) = {} => c = 0 /\ row.fast
<1> DEFINE A == {"exit code", "error rate", "limits"}
           p == MaxErrorRate < 100
           q == row.failures * 100 > MaxErrorRate * row.requests
           b == IF row.requests = 0 THEN p ELSE q
           x == c # 0
           f == ~row.fast
           S == {<<"exit code", x>>, <<"error rate", b>>, <<"limits", f>>}
<1>1. RowViolations(c, row) = Flagged(S)
  BY Zenon DEF RowViolations
<1>2. x \in BOOLEAN /\ b \in BOOLEAN /\ f \in BOOLEAN
  <2>1. p \in BOOLEAN /\ q \in BOOLEAN /\ x \in BOOLEAN /\ f \in BOOLEAN
    OBVIOUS
  <2> HIDE DEF p, q
  <2>2. b \in BOOLEAN
    BY <2>1
  <2>3. QED BY <2>1, <2>2
<1>3. (c # 0 => x) /\ (~row.fast => f)
  OBVIOUS
<1> HIDE DEF b, x, f
<1>4. S \in SUBSET (A \X BOOLEAN)
  <2>1. "exit code" \in A /\ "error rate" \in A /\ "limits" \in A
    OBVIOUS
  <2> HIDE DEF A
  <2>2. /\ <<"exit code", x>> \in A \X BOOLEAN /\ <<"error rate", b>> \in A \X BOOLEAN
        /\ <<"limits", f>> \in A \X BOOLEAN
    BY <1>2, <2>1, NamedCondition
  <2>3. QED BY <2>2, Zenon
<1>5. (x => <<"exit code", TRUE>> \in S) /\ (f => <<"limits", TRUE>> \in S)
  BY <1>2
<1> HIDE DEF S
<1>6. Flagged(S) \subseteq A /\ \A v \in A : v \in Flagged(S) <=> <<v, TRUE>> \in S
  BY <1>4, FlaggedProps
<1>7. QED BY <1>1, <1>3, <1>5, <1>6

\* What it raises of the custom metrics.
LEMMA MetricsProps ==
    ASSUME NEW row, NEW m
    PROVE  LET V == MetricsViolations(row, m)
           IN  /\ V \subseteq Mismatches \cup {"metrics missing", "no success", "incomplete"}
               /\ m = None => V = {"metrics missing"}
               /\ V = {} => m.mask_requests # 0
               /\ "total" \in V => m.http_2xx + m.http_429 + m.http_other
                                     + m.transport_errors # row.requests
               /\ "kinds" \in V => m.mask_requests + m.demask_requests # m.http_2xx
               /\ m # None =>
                     ("failures" \in V <=>
                        row.failures # m.functional_errors + m.transport_errors)
               /\ "roundtrip" \in V =>
                     m.mask_requests # m.demask_requests + m.incomplete_roundtrips
<1> DEFINE V == MetricsViolations(row, m)
<1>1. CASE m = None
  <2>1. V = {"metrics missing"}
    BY <1>1 DEF MetricsViolations
  <2> HIDE DEF V
  <2>2. QED BY <1>1, <2>1 DEF V
<1>2. CASE m # None
  <2> DEFINE A == Mismatches \cup {"no success", "incomplete"}
             t == row.requests # 0
                    /\ m.http_2xx + m.http_429 + m.http_other + m.transport_errors
                         # row.requests
             k == m.mask_requests + m.demask_requests # m.http_2xx
             f == row.failures # m.functional_errors + m.transport_errors
             n == m.http_2xx = 0 \/ m.mask_requests = 0
             r == m.mask_requests # m.demask_requests + m.incomplete_roundtrips
             i == /\ m.mask_requests # 0
                  /\ m.incomplete_roundtrips * 100 > MaxIncompleteRatio * m.mask_requests
             S == {<<"total", t>>, <<"kinds", k>>, <<"failures", f>>, <<"no success", n>>,
                   <<"roundtrip", r>>, <<"incomplete", i>>}
  <2>1. V = Flagged(S)
    BY <1>2, Zenon DEF MetricsViolations
  <2>2. /\ t \in BOOLEAN /\ k \in BOOLEAN /\ f \in BOOLEAN
        /\ n \in BOOLEAN /\ r \in BOOLEAN /\ i \in BOOLEAN
    OBVIOUS
  <2>3. m.mask_requests = 0 => n
    OBVIOUS
  <2>4. t => m.http_2xx + m.http_429 + m.http_other + m.transport_errors # row.requests
    OBVIOUS
  <2> HIDE DEF t, k, f, n, r, i
  <2>5. S \in SUBSET (A \X BOOLEAN)
    <3>1. /\ "total" \in A /\ "kinds" \in A /\ "failures" \in A
          /\ "no success" \in A /\ "roundtrip" \in A /\ "incomplete" \in A
      BY DEF Mismatches
    <3> HIDE DEF A
    <3>2. /\ <<"total", t>> \in A \X BOOLEAN /\ <<"kinds", k>> \in A \X BOOLEAN
          /\ <<"failures", f>> \in A \X BOOLEAN /\ <<"no success", n>> \in A \X BOOLEAN
          /\ <<"roundtrip", r>> \in A \X BOOLEAN /\ <<"incomplete", i>> \in A \X BOOLEAN
      BY <2>2, <3>1, NamedCondition
    <3>3. QED BY <3>2, Zenon
  <2>6. /\ <<"total", TRUE>> \in S => t
        /\ <<"kinds", TRUE>> \in S => k
        /\ <<"failures", TRUE>> \in S <=> f
        /\ <<"roundtrip", TRUE>> \in S => r
        /\ n => <<"no success", TRUE>> \in S
    BY <2>2
  <2> HIDE DEF S
  <2>7. Flagged(S) \subseteq A /\ \A v \in A : v \in Flagged(S) <=> <<v, TRUE>> \in S
    BY <2>5, FlaggedProps
  <2>8. {"total", "kinds", "failures", "roundtrip", "no success"} \subseteq A
    BY DEF Mismatches
  <2> HIDE DEF A
  <2>9. /\ "total" \in V => t
        /\ "kinds" \in V => k
        /\ "failures" \in V <=> f
        /\ "roundtrip" \in V => r
        /\ V = {} => ~n
    <3> HIDE DEF V
    <3>1. QED BY <2>1, <2>6, <2>7, <2>8
  <2>10. V \subseteq Mismatches \cup {"metrics missing", "no success", "incomplete"}
    <3> HIDE DEF V
    <3>1. QED BY <2>1, <2>7 DEF A
  <2> HIDE DEF V
  <2>11. QED BY <1>2, <2>3, <2>4, <2>9, <2>10 DEF V, k, f, r
<1>3. QED BY <1>1, <1>2

\* What it raises of users, connections and time is no mismatch.
LEMMA ObservedProps ==
    ASSUME NEW users, NEW conns, NEW elapsed
    PROVE  ObservedViolations(users, conns, elapsed) \subseteq {"users", "connections", "elapsed"}
<1> DEFINE A == {"users", "connections", "elapsed"}
           b == RequiredConnections > 0 /\ (conns = None \/ conns < RequiredConnections)
           u == users < RequiredUsers
           e == ~elapsed
           S == {<<"users", u>>, <<"connections", b>>, <<"elapsed", e>>}
<1>1. ObservedViolations(users, conns, elapsed) = Flagged(S)
  BY Zenon DEF ObservedViolations
<1>2. u \in BOOLEAN /\ b \in BOOLEAN /\ e \in BOOLEAN
  OBVIOUS
<1> HIDE DEF b, u, e
<1>3. S \in SUBSET (A \X BOOLEAN)
  <2>1. "users" \in A /\ "connections" \in A /\ "elapsed" \in A
    OBVIOUS
  <2> HIDE DEF A
  <2>2. /\ <<"users", u>> \in A \X BOOLEAN /\ <<"connections", b>> \in A \X BOOLEAN
        /\ <<"elapsed", e>> \in A \X BOOLEAN
    BY <1>2, <2>1, NamedCondition
  <2>3. QED BY <2>2, Zenon
<1> HIDE DEF S
<1>4. QED BY <1>1, <1>3, FlaggedProps

\* Every violation of a step is one the report knows.
LEMMA ViolationsKnown ==
    ASSUME NEW c, NEW row, NEW m, NEW users, NEW conns, NEW elapsed
    PROVE  BuildResult(c, row, m, users, conns, elapsed) \subseteq Violations
BY RowProps, MetricsProps, ObservedProps DEF BuildResult, Violations

\* Nothing is raised: the exit code is 0, the statistics are within the limits
\* and the metrics are there, with a mask that was answered.
LEMMA NothingRaised ==
    ASSUME NEW c, NEW row, NEW m, NEW users, NEW conns, NEW elapsed,
           BuildResult(c, row, m, users, conns, elapsed) = {}
    PROVE  c = 0 /\ row.fast /\ m # None /\ m.mask_requests # 0
<1>1. RowViolations(c, row) = {} /\ MetricsViolations(row, m) = {}
  BY DEF BuildResult
<1>2. QED BY <1>1, RowProps, MetricsProps

\* What the mismatches of the counters and statistics of one process tell.
LEMMA MismatchTells ==
    ASSUME NEW c, NEW w \in Works, NEW fast, NEW users, NEW conns, NEW elapsed,
           Snapshot(w) # None
    PROVE  LET B == BuildResult(c, Statistics(w, fast), Snapshot(w), users, conns, elapsed)
           IN  /\ B \cap {"total", "failures"} # {} <=> Tasks(w, Unreported) > 0
               /\ B \cap {"kinds", "roundtrip"} # {} => w["demaskWrong"] > 0
<1> DEFINE row == Statistics(w, fast)
           m == Snapshot(w)
           V == MetricsViolations(row, m)
           B == BuildResult(c, row, m, users, conns, elapsed)
           lost == Tasks(w, Unreported)
<1>1. B \cap Mismatches = V \cap Mismatches
  <2>1. /\ RowViolations(c, row) \cap Mismatches = {}
        /\ ObservedViolations(users, conns, elapsed) \cap Mismatches = {}
    BY RowProps, ObservedProps DEF Mismatches
  <2>2. QED BY <2>1 DEF BuildResult
<1>2. /\ "total" \in B <=> "total" \in V
      /\ "failures" \in B <=> "failures" \in V
      /\ "kinds" \in B <=> "kinds" \in V
      /\ "roundtrip" \in B <=> "roundtrip" \in V
  <2> HIDE DEF B, V
  <2>1. QED BY <1>1 DEF Mismatches
<1>3. /\ lost \in Nat
      /\ "failures" \in V <=> lost # 0
      /\ "total" \in V => lost # 0
      /\ "kinds" \notin V
  BY MetricsProps, Reconciles
<1>4. "roundtrip" \in V => w["demaskWrong"] # 0
  BY MetricsProps, Reconciles
<1>5. w["demaskWrong"] \in Nat
  BY Counts
<1> HIDE DEF B, V, lost
<1>6. B \cap {"total", "failures"} # {} <=> lost > 0
  BY <1>2, <1>3
<1>7. B \cap {"kinds", "roundtrip"} # {} => w["demaskWrong"] > 0
  BY <1>2, <1>3, <1>4, <1>5
<1>8. QED BY <1>6, <1>7 DEF B, lost

-----------------------------------------------------------------------------
(* The directory of a step and the files in it.                            *)

Finals == {None} \cup [by : Nat, row : {Statistics(w, fast) :
                                         w \in Loads \cup {OldLoad}, fast \in BOOLEAN}]

MetricsFiles == {None} \cup [by : Nat, counters :
                              {None} \cup {Snapshot(w) : w \in Loads \cup {OldLoad}}]

Histories == {None} \cup [by : Nat, users : {0, RequiredUsers}]

\* What a file may be, field by field.
LEMMA FilesAre == Files = [final : Finals, metrics : MetricsFiles, history : Histories]
BY DEF Files, Finals, MetricsFiles, Histories

\* A step has a directory.
LEMMA DirKnown ==
    ASSUME LoadTypeOK
    PROVE  /\ StepDirs \in Seq(Dirs) /\ StepDirs # <<>> /\ Dir \in Dirs
           /\ step \in Nat /\ 1 <= step /\ step <= Len(StepDirs) /\ Len(StepDirs) \in Nat
<1>1. Targets \in Seq(Dirs) /\ Targets # <<>> /\ Root \in Dirs
  <2>1. Targets \in Seq(Range(Targets)) /\ Range(Targets) \subseteq Dirs
    BY LoadConstants DEF Dirs
  <2>2. Targets \in Seq(Dirs)
    BY <2>1
  <2>3. QED BY <2>2, LoadConstants DEF Dirs
<1>2. <<Root>> \in Seq(Dirs) /\ <<Root>> # <<>>
  BY <1>1
<1>3. StepDirs \in Seq(Dirs) /\ StepDirs # <<>>
  BY <1>1, <1>2 DEF StepDirs
<1>4. step \in DOMAIN StepDirs
  BY DEF LoadTypeOK
<1>5. QED BY <1>3, <1>4 DEF Dir

\* One of its files is written or removed.
LEMMA FileWritten ==
    ASSUME LoadTypeOK
    PROVE  /\ \A v \in Finals :
                 LET g == [files EXCEPT ![Dir].final = v]
                 IN  /\ g \in [Dirs -> Files] /\ g[Dir].final = v
                     /\ g[Dir].metrics = files[Dir].metrics
                     /\ g[Dir].history = files[Dir].history
           /\ \A v \in MetricsFiles :
                 LET g == [files EXCEPT ![Dir].metrics = v]
                 IN  /\ g \in [Dirs -> Files] /\ g[Dir].metrics = v
                     /\ g[Dir].final = files[Dir].final
                     /\ g[Dir].history = files[Dir].history
           /\ \A v \in Histories :
                 LET g == [files EXCEPT ![Dir].history = v]
                 IN  /\ g \in [Dirs -> Files] /\ g[Dir].history = v
                     /\ g[Dir].final = files[Dir].final
                     /\ g[Dir].metrics = files[Dir].metrics
<1>1. files \in [Dirs -> Files] /\ Dir \in Dirs
  BY DirKnown DEF LoadTypeOK
<1>2. files[Dir] \in [final : Finals, metrics : MetricsFiles, history : Histories]
  BY <1>1, FilesAre
<1>3. \A h \in Files : /\ [files EXCEPT ![Dir] = h] \in [Dirs -> Files]
                       /\ [files EXCEPT ![Dir] = h][Dir] = h
  BY <1>1
<1>4. ASSUME NEW v \in Finals
      PROVE  LET g == [files EXCEPT ![Dir].final = v]
             IN  /\ g \in [Dirs -> Files] /\ g[Dir].final = v
                 /\ g[Dir].metrics = files[Dir].metrics
                 /\ g[Dir].history = files[Dir].history
  <2> DEFINE h == [files[Dir] EXCEPT !.final = v]
  <2>1. /\ h \in [final : Finals, metrics : MetricsFiles, history : Histories]
        /\ h.final = v /\ h.metrics = files[Dir].metrics /\ h.history = files[Dir].history
    BY <1>2
  <2>2. h \in Files /\ [files EXCEPT ![Dir].final = v] = [files EXCEPT ![Dir] = h]
    BY <1>1, <2>1, FilesAre
  <2> HIDE DEF h
  <2>3. QED BY <1>3, <2>1, <2>2
<1>5. ASSUME NEW v \in MetricsFiles
      PROVE  LET g == [files EXCEPT ![Dir].metrics = v]
             IN  /\ g \in [Dirs -> Files] /\ g[Dir].metrics = v
                 /\ g[Dir].final = files[Dir].final
                 /\ g[Dir].history = files[Dir].history
  <2> DEFINE h == [files[Dir] EXCEPT !.metrics = v]
  <2>1. /\ h \in [final : Finals, metrics : MetricsFiles, history : Histories]
        /\ h.metrics = v /\ h.final = files[Dir].final /\ h.history = files[Dir].history
    BY <1>2
  <2>2. h \in Files /\ [files EXCEPT ![Dir].metrics = v] = [files EXCEPT ![Dir] = h]
    BY <1>1, <2>1, FilesAre
  <2> HIDE DEF h
  <2>3. QED BY <1>3, <2>1, <2>2
<1>6. ASSUME NEW v \in Histories
      PROVE  LET g == [files EXCEPT ![Dir].history = v]
             IN  /\ g \in [Dirs -> Files] /\ g[Dir].history = v
                 /\ g[Dir].final = files[Dir].final
                 /\ g[Dir].metrics = files[Dir].metrics
  <2> DEFINE h == [files[Dir] EXCEPT !.history = v]
  <2>1. /\ h \in [final : Finals, metrics : MetricsFiles, history : Histories]
        /\ h.history = v /\ h.final = files[Dir].final /\ h.metrics = files[Dir].metrics
    BY <1>2
  <2>2. h \in Files /\ [files EXCEPT ![Dir].history = v] = [files EXCEPT ![Dir] = h]
    BY <1>1, <2>1, FilesAre
  <2> HIDE DEF h
  <2>3. QED BY <1>3, <2>1, <2>2
<1>7. QED BY <1>4, <1>5, <1>6

-----------------------------------------------------------------------------
(* The runner.                                                             *)

\* An exception ends the script, also while files are being removed.
LEMMA StepRaise ==
    ASSUME LoadInv, Raise,
           files' \in {files, [files EXCEPT ![Dir].final = None]},
           UNCHANGED <<locustVars, stop, sampler, sampleVars, report, violations>>
    PROVE  LoadInv'
<1>1. /\ pc' = "done" /\ rc' = 1 /\ profile' = profile /\ step' = step /\ passed' = passed
      /\ locust' = locust /\ load' = load /\ long' = long /\ code' = code /\ stop' = stop
      /\ sampler' = sampler /\ cpu' = cpu /\ docker' = docker /\ connections' = connections
      /\ report' = report /\ violations' = violations
  BY DEF Raise, locustVars, sampleVars
<1>2. StepDirs' = StepDirs
  BY <1>1 DEF StepDirs
<1>3. files' \in [Dirs -> Files]
  <2>1. None \in Finals
    BY DEF Finals
  <2>2. [files EXCEPT ![Dir].final = None] \in [Dirs -> Files]
    BY <2>1, FileWritten DEF LoadInv
  <2>3. QED BY <2>2 DEF LoadInv, LoadTypeOK
<1>4. LoadTypeOK'
  BY <1>1, <1>2, <1>3 DEF LoadInv, LoadTypeOK
<1>5. LocustInv' /\ FilesInv' /\ PassInv'
  BY <1>1 DEF LoadInv, LocustInv, FilesInv, PassInv, StepPcs
<1>6. SettledInv' /\ CpuInv'
  BY <1>1 DEF LoadInv, SettledInv, CpuInv
<1>7. GreenIsEarned' /\ MismatchesExplained'
  BY <1>1 DEF GreenIsEarned, MismatchesExplained
<1>8. QED BY <1>4, <1>5, <1>6, <1>7 DEF LoadInv

\* The service is healthy, the process sampler was joined, or Locust has ended:
\* the runner goes on.
LEMMA StepMoves ==
    ASSUME LoadInv,
           \/ pc = "health" /\ pc' = "reset" /\ stop' = stop
           \/ pc = "join" /\ pc' = "docker" /\ stop' = stop
           \/ pc = "wait" /\ locust = "ended" /\ pc' = "join" /\ stop' = TRUE,
           UNCHANGED <<runVars, files, locustVars, sampler, sampleVars, report, violations>>
    PROVE  LoadInv'
<1>1. /\ rc' = rc /\ profile' = profile /\ step' = step /\ passed' = passed
      /\ locust' = locust /\ load' = load /\ long' = long /\ code' = code /\ files' = files
      /\ sampler' = sampler /\ cpu' = cpu /\ docker' = docker /\ connections' = connections
      /\ report' = report /\ violations' = violations
  BY DEF runVars, locustVars, sampleVars
<1>2. StepDirs' = StepDirs /\ Dir' = Dir
  BY <1>1 DEF StepDirs, Dir
<1>3. LoadTypeOK'
  <2>1. pc' \in {"reset", "docker", "join"} /\ {long, stop'} \subseteq BOOLEAN
    BY DEF LoadInv, LoadTypeOK
  <2>2. QED BY <1>1, <1>2, <2>1 DEF LoadInv, LoadTypeOK
<1>4. LocustInv' /\ PassInv'
  BY <1>1, <1>2 DEF LoadInv, LocustInv, PassInv, StepPcs
<1>5. FilesInv'
  BY <1>1, <1>2 DEF LoadInv, FilesInv, StepPcs
<1>6. SettledInv' /\ CpuInv'
  BY <1>1 DEF LoadInv, SettledInv, CpuInv
<1>7. GreenIsEarned' /\ MismatchesExplained'
  BY <1>1, <1>2 DEF LoadInv, GreenIsEarned, MismatchesExplained
<1>8. QED BY <1>3, <1>4, <1>5, <1>6, <1>7 DEF LoadInv

\* reset_step_outputs has removed what an earlier step or run left.
LEMMA StepReset ==
    ASSUME LoadInv, pc = "reset", pc' = "launch",
           files' = [files EXCEPT ![Dir].final = None, ![Dir].metrics = None],
           UNCHANGED <<runVars, locustVars, stop, sampler, sampleVars, report, violations>>
    PROVE  LoadInv'
<1>1. /\ rc' = rc /\ profile' = profile /\ step' = step /\ passed' = passed
      /\ locust' = locust /\ load' = load /\ long' = long /\ code' = code /\ stop' = stop
      /\ sampler' = sampler /\ cpu' = cpu /\ docker' = docker /\ connections' = connections
      /\ report' = report /\ violations' = violations
  BY DEF runVars, locustVars, sampleVars
<1>2. StepDirs' = StepDirs /\ Dir' = Dir
  BY <1>1 DEF StepDirs, Dir
<1>3. /\ files' \in [Dirs -> Files]
      /\ files'[Dir].final = None /\ files'[Dir].metrics = None
  <2>1. files \in [Dirs -> Files] /\ Dir \in Dirs
    BY DirKnown DEF LoadInv, LoadTypeOK
  <2>2. files[Dir] \in [final : Finals, metrics : MetricsFiles, history : Histories]
    BY <2>1, FilesAre
  <2>3. None \in Finals /\ None \in MetricsFiles
    BY DEF Finals, MetricsFiles
  <2> DEFINE h == [files[Dir] EXCEPT !.final = None, !.metrics = None]
  <2>4. h \in [final : Finals, metrics : MetricsFiles, history : Histories]
        /\ h.final = None /\ h.metrics = None
    BY <2>2, <2>3
  <2>5. h \in Files
    BY <2>4, FilesAre
  <2>6. files' = [files EXCEPT ![Dir] = h]
    BY <2>1, <2>2
  <2> HIDE DEF h
  <2>7. QED BY <2>1, <2>4, <2>5, <2>6
<1>4. LoadTypeOK'
  BY <1>1, <1>2, <1>3 DEF LoadInv, LoadTypeOK
<1>5. LocustInv' /\ PassInv'
  BY <1>1, <1>2 DEF LoadInv, LocustInv, PassInv, StepPcs
<1>6. FilesInv'
  BY <1>1, <1>2, <1>3 DEF FilesInv, StepPcs
<1>7. SettledInv' /\ CpuInv'
  BY <1>1 DEF LoadInv, SettledInv, CpuInv
<1>8. GreenIsEarned' /\ MismatchesExplained'
  BY <1>1, <1>2 DEF LoadInv, GreenIsEarned, MismatchesExplained
<1>9. QED BY <1>4, <1>5, <1>6, <1>7, <1>8 DEF LoadInv

\* run_step and run_organizer_profile start a process with new lists.
LEMMA StepLaunch ==
    ASSUME LoadInv, pc = "launch", Launch
    PROVE  LoadInv'
<1>1. /\ rc' = rc /\ profile' = profile /\ step' = step /\ passed' = passed
      /\ files' = files /\ pc' = "wait" /\ locust' = "starting" /\ load' = None
      /\ long' = TRUE /\ stop' = FALSE /\ sampler' = [s \in Samplers |-> "running"]
      /\ cpu' = NoSamples /\ docker' = None /\ connections' = None
      /\ report' = NoReport /\ violations' = {}
  BY DEF Launch, runVars
<1>2. StepDirs' = StepDirs /\ Dir' = Dir
  BY <1>1 DEF StepDirs, Dir
<1>3. cpu' \in [sum : Nat, len : 0..MaxSamples, peak : Levels["process"] \cup {0}]
  BY <1>1, LoadConstants DEF NoSamples
<1>4. LoadTypeOK'
  BY <1>1, <1>2, <1>3 DEF LoadInv, LoadTypeOK
<1>5. LocustInv' /\ PassInv'
  BY <1>1, <1>2 DEF LoadInv, LocustInv, PassInv, StepPcs
<1>6. FilesInv'
  BY <1>1, <1>2 DEF LoadInv, FilesInv, StepPcs
<1>7. SettledInv' /\ CpuInv'
  BY <1>1 DEF SettledInv, CpuInv, NoReport, NoSamples
<1>8. GreenIsEarned' /\ MismatchesExplained'
  BY <1>1, <1>2 DEF LoadInv, GreenIsEarned, MismatchesExplained
<1>9. QED BY <1>4, <1>5, <1>6, <1>7, <1>8 DEF LoadInv

\* _finalize_docker_samples
LEMMA StepFinalizeDocker ==
    ASSUME LoadInv, FinalizeDocker
    PROVE  LoadInv'
<1>1. /\ rc' = rc /\ profile' = profile /\ step' = step /\ passed' = passed
      /\ locust' = locust /\ load' = load /\ long' = long /\ code' = code /\ stop' = stop
      /\ files' = files /\ sampler' = sampler /\ cpu' = cpu /\ connections' = connections
      /\ report' = report /\ violations' = violations
      /\ pc = "docker" /\ pc' = "connections"
      /\ docker' = IF sampler["docker"] = "ended" THEN docker ELSE Unavailable
  BY DEF FinalizeDocker, runVars, locustVars
<1>2. StepDirs' = StepDirs /\ Dir' = Dir
  BY <1>1 DEF StepDirs, Dir
<1>3. LoadTypeOK'
  BY <1>1, <1>2 DEF LoadInv, LoadTypeOK
<1>4. LocustInv' /\ PassInv'
  BY <1>1, <1>2 DEF LoadInv, LocustInv, PassInv, StepPcs
<1>5. FilesInv'
  BY <1>1, <1>2 DEF LoadInv, FilesInv, StepPcs
<1>6. SettledInv' /\ CpuInv'
  BY <1>1 DEF LoadInv, SettledInv, CpuInv
<1>7. GreenIsEarned' /\ MismatchesExplained'
  BY <1>1, <1>2 DEF LoadInv, GreenIsEarned, MismatchesExplained
<1>8. QED BY <1>3, <1>4, <1>5, <1>6, <1>7 DEF LoadInv

\* _finalize_connection_samples
LEMMA StepFinalizeConnections ==
    ASSUME LoadInv, FinalizeConnections
    PROVE  LoadInv'
<1>1. /\ rc' = rc /\ profile' = profile /\ step' = step /\ passed' = passed
      /\ locust' = locust /\ load' = load /\ long' = long /\ code' = code /\ stop' = stop
      /\ files' = files /\ sampler' = sampler /\ cpu' = cpu /\ docker' = docker
      /\ connections' = connections /\ violations' = violations
      /\ pc = "connections" /\ pc' = "measured"
      /\ report' = [report EXCEPT !.connections =
                      IF sampler["connections"] = "ended" THEN connections ELSE None]
  BY DEF FinalizeConnections, runVars, locustVars, sampleVars
<1>2. StepDirs' = StepDirs /\ Dir' = Dir
  BY <1>1 DEF StepDirs, Dir
<1>3. LoadTypeOK'
  BY <1>1, <1>2 DEF LoadInv, LoadTypeOK
<1>4. LocustInv' /\ PassInv'
  BY <1>1, <1>2 DEF LoadInv, LocustInv, PassInv, StepPcs
<1>5. FilesInv'
  BY <1>1, <1>2 DEF LoadInv, FilesInv, StepPcs
<1>6. connections \in Nat \cup {None}
  BY LoadConstants DEF LoadInv, LoadTypeOK, Samplers
<1>7. SettledInv' /\ CpuInv'
  BY <1>1, <1>6 DEF LoadInv, SettledInv, CpuInv
<1>8. GreenIsEarned' /\ MismatchesExplained'
  BY <1>1, <1>2 DEF LoadInv, GreenIsEarned, MismatchesExplained
<1>9. QED BY <1>3, <1>4, <1>5, <1>7, <1>8 DEF LoadInv

\* The lists are read one value after another.
LEMMA StepReads ==
    ASSUME LoadInv, ReduceProcess \/ ReduceDocker
    PROVE  LoadInv'
<1>1. /\ rc' = rc /\ profile' = profile /\ step' = step /\ passed' = passed
      /\ locust' = locust /\ load' = load /\ long' = long /\ code' = code /\ stop' = stop
      /\ files' = files /\ sampler' = sampler /\ cpu' = cpu /\ docker' = docker
      /\ connections' = connections /\ violations' = violations
  BY DEF ReduceProcess, ReduceDocker, Read, runVars, locustVars, sampleVars
<1>2. \/ /\ pc = "measured" /\ pc' = "sum"
         /\ report' = [report EXCEPT !.measured = (cpu.len > 0)]
      \/ /\ pc = "sum" /\ pc' = "len"
         /\ report' = [report EXCEPT !.sum = cpu.sum]
      \/ /\ pc = "len" /\ pc' = "peak"
         /\ report' = [report EXCEPT !.len = cpu.len]
      \/ /\ pc = "peak" /\ pc' = "docker_peak"
         /\ report' = [report EXCEPT !.peak = cpu.peak]
      \/ /\ pc = "docker_peak" /\ pc' = "judge"
         /\ report' = [report EXCEPT !.docker = DockerPeak(docker)]
  BY DEF ReduceProcess, ReduceDocker, Read
<1>3. StepDirs' = StepDirs /\ Dir' = Dir
  BY <1>1 DEF StepDirs, Dir
<1>4. /\ pc \in {"measured", "sum", "len", "peak", "docker_peak"}
      /\ pc' \in {"sum", "len", "peak", "docker_peak", "judge"}
  BY <1>2
<1>5. LocustInv'
  BY <1>1, <1>4 DEF LoadInv, LocustInv, StepPcs
<1>6. LoadTypeOK'
  <2>1. code \in Nat
    BY <1>4 DEF LoadInv, LocustInv, StepPcs
  <2>2. QED BY <1>1, <1>3, <1>4, <2>1 DEF LoadInv, LoadTypeOK
<1>7. FilesInv'
  BY <1>1, <1>3, <1>4 DEF LoadInv, FilesInv, StepPcs
<1>8. PassInv'
  BY <1>1, <1>3, <1>4 DEF LoadInv, PassInv
<1>9. GreenIsEarned' /\ MismatchesExplained'
  BY <1>1, <1>3, <1>4 DEF LoadInv, GreenIsEarned, MismatchesExplained
<1>10. /\ cpu.sum \in Nat /\ cpu.len \in Nat /\ cpu.peak \in Nat
       /\ docker \in Nat \cup {None, Unavailable} /\ DockerPeak(docker) \in Nat \cup {None}
  BY LoadConstants DEF LoadInv, LoadTypeOK, Samplers, DockerPeak
<1>11. report \in [measured : BOOLEAN, sum : Nat, len : Nat, peak : Nat,
                   docker : Nat \cup {None}, connections : Nat \cup {None}]
  BY DEF LoadInv, CpuInv
<1>12. SettledInv'
  <2>1. report'.connections = report.connections
    BY <1>2, <1>11
  <2>2. CASE pc = "docker_peak"
    BY <1>1, <1>2, <1>11, <2>1, <2>2 DEF LoadInv, SettledInv, DockerPeak
  <2>3. CASE pc # "docker_peak"
    <3>1. report'.docker = report.docker
      BY <1>2, <1>11, <2>3
    <3>2. QED BY <1>1, <1>4, <2>1, <2>3, <3>1 DEF LoadInv, SettledInv
  <2>4. QED BY <2>2, <2>3
<1>13. CpuInv'
  <2>1. CpuInv
    BY DEF LoadInv
  <2>2. (cpu.len > 0) \in BOOLEAN
    OBVIOUS
  <2>3. report' \in [measured : BOOLEAN, sum : Nat, len : Nat, peak : Nat,
                     docker : Nat \cup {None}, connections : Nat \cup {None}]
    BY <1>2, <1>10, <1>11, <2>2
  <2>4. CASE pc = "measured"
    <3>1. pc' = "sum" /\ (report'.measured <=> cpu.len > 0)
      BY <1>2, <1>11, <2>4
    <3>2. QED BY <1>1, <2>1, <2>3, <3>1 DEF CpuInv
  <2>5. CASE pc = "sum"
    <3>1. pc' = "len" /\ report'.sum = cpu.sum /\ report'.measured = report.measured
      BY <1>2, <1>11, <2>5
    <3>2. QED BY <1>1, <1>10, <2>1, <2>3, <2>5, <3>1 DEF CpuInv
  <2>6. CASE pc = "len"
    <3>1. /\ pc' = "peak" /\ report'.len = cpu.len /\ report'.measured = report.measured
          /\ report'.sum = report.sum
      BY <1>2, <1>11, <2>6
    <3>2. report.sum <= cpu.sum /\ cpu.sum <= cpu.len * cpu.peak
      BY <2>1, <2>6 DEF CpuInv
    <3>3. report.sum <= cpu.len * cpu.peak
      BY <1>10, <1>11, <3>2
    <3>4. QED BY <1>1, <2>1, <2>3, <2>6, <3>1, <3>3 DEF CpuInv
  <2>7. CASE pc = "peak"
    <3>1. /\ pc' = "docker_peak" /\ report'.peak = cpu.peak /\ report'.len = report.len
          /\ report'.measured = report.measured /\ report'.sum = report.sum
      BY <1>2, <1>11, <2>7
    <3>2. QED BY <1>1, <2>1, <2>3, <2>7, <3>1 DEF CpuInv
  <2>8. CASE pc = "docker_peak"
    <3>1. /\ pc' = "judge" /\ report'.peak = report.peak /\ report'.len = report.len
          /\ report'.measured = report.measured /\ report'.sum = report.sum
      BY <1>2, <1>11, <2>8
    <3>2. QED BY <1>1, <2>1, <2>3, <2>8, <3>1 DEF CpuInv
  <2>9. QED BY <1>4, <2>4, <2>5, <2>6, <2>7, <2>8
<1>14. QED BY <1>5, <1>6, <1>7, <1>8, <1>9, <1>12, <1>13 DEF LoadInv

\* The step is judged by what its own Locust left.
LEMMA StepJudge ==
    ASSUME LoadInv, Judge
    PROVE  LoadInv'
<1> DEFINE f == files[Dir]
<1>1. /\ rc' = rc /\ profile' = profile /\ step' = step
      /\ locust' = locust /\ load' = load /\ long' = long /\ code' = code /\ stop' = stop
      /\ files' = files /\ sampler' = sampler /\ cpu' = cpu /\ docker' = docker
      /\ connections' = connections /\ report' = report
      /\ pc = "judge" /\ pc' = "report"
      /\ passed' = Append(passed, violations' = {})
  BY DEF Judge, locustVars, sampleVars
<1>2. violations' = BuildResult(ExitCode(f), ReadAggregate(f), ReadCustomMetrics(f),
                                ObservedMaxUsers(f), report.connections,
                                profile = "steps" \/ long)
  BY DEF Judge
<1>3. StepDirs' = StepDirs /\ Dir' = Dir
  BY <1>1 DEF StepDirs, Dir
<1>4. /\ code \in {0, 1}
      /\ f.metrics # None =>
            /\ load \in Loads
            /\ \E c \in {None, Snapshot(load)} : f.metrics = [by |-> step, counters |-> c]
      /\ f.final # None =>
            /\ load \in Loads
            /\ f.history.by = step
            /\ \E fast \in BOOLEAN :
                  f.final = [by |-> step, row |-> Statistics(load, fast)]
  BY <1>1 DEF LoadInv, LocustInv, FilesInv, StepPcs
<1>5. /\ passed \in Seq(BOOLEAN) /\ Len(passed) = step - 1 /\ step \in Nat
      /\ (violations' = {}) \in BOOLEAN
  BY <1>1, DirKnown DEF LoadInv, LoadTypeOK, PassInv
<1>6. passed' \in Seq(BOOLEAN) /\ Len(passed') = step
  BY <1>1, <1>5
<1>7. violations' \subseteq Violations
  BY <1>2, ViolationsKnown
<1>8. LoadTypeOK'
  BY <1>1, <1>3, <1>4, <1>6, <1>7 DEF LoadInv, LoadTypeOK
<1>9. LocustInv' /\ FilesInv'
  BY <1>1, <1>3 DEF LoadInv, LocustInv, FilesInv, StepPcs
<1>10. PassInv'
  <2>1. rc = None /\ None # 0
    BY <1>1, LoadConstants DEF LoadInv, PassInv
  <2>2. QED BY <1>1, <1>6, <2>1 DEF PassInv
<1>11. SettledInv' /\ CpuInv'
  BY <1>1 DEF LoadInv, SettledInv, CpuInv
<1>12. GreenIsEarned'
  <2>1. ASSUME violations' = {}
        PROVE  /\ code = 0
               /\ f.final = [by |-> step, row |-> Statistics(load, TRUE)]
               /\ f.metrics = [by |-> step, counters |-> Snapshot(load)]
               /\ f.history.by = step
               /\ MaskRequests(load) > 0
    <3>1. /\ ExitCode(f) = 0 /\ ReadAggregate(f).fast
          /\ ReadCustomMetrics(f) # None /\ ReadCustomMetrics(f).mask_requests # 0
      BY <1>2, <2>1, NothingRaised
    <3>2. code = 0 /\ f.final # None
      BY <3>1 DEF ExitCode
    <3>3. PICK fast \in BOOLEAN : f.final = [by |-> step, row |-> Statistics(load, fast)]
      BY <1>4, <3>2
    <3>4. fast = TRUE
      <4>1. ReadAggregate(f).fast = fast
        BY <3>2, <3>3 DEF ReadAggregate, Statistics
      <4>2. QED BY <3>1, <4>1
    <3>5. f.metrics # None /\ ReadCustomMetrics(f) = f.metrics.counters
      BY <3>1 DEF ReadCustomMetrics
    <3>6. PICK c \in {None, Snapshot(load)} : f.metrics = [by |-> step, counters |-> c]
      BY <1>4, <3>5
    <3>7. c = Snapshot(load)
      BY <3>1, <3>5, <3>6
    <3>8. MaskRequests(load) # 0
      BY <3>1, <3>5, <3>6, <3>7 DEF Snapshot
    <3>9. MaskRequests(load) \in Nat
      <4>1. load \in Works
        BY <1>4, <3>2, LoadConstants
      <4>2. MaskValid \cup {"maskWrong"} \in SUBSET Outcomes
        BY DEF Outcomes
      <4>3. QED BY <4>1, <4>2, TasksAdd DEF MaskRequests
    <3>10. QED BY <1>4, <3>2, <3>3, <3>4, <3>6, <3>7, <3>8, <3>9
  <2>2. rc' # 0
    BY <1>1, LoadConstants DEF LoadInv, PassInv
  <2>3. QED BY <1>1, <1>3, <2>1, <2>2 DEF GreenIsEarned
<1>13. MismatchesExplained'
  <2>1. ASSUME f.final # None, f.metrics # None, f.metrics.counters # None
        PROVE  /\ violations' \cap {"total", "failures"} # {} <=> Tasks(load, Unreported) > 0
               /\ violations' \cap {"kinds", "roundtrip"} # {} => load["demaskWrong"] > 0
    <3>1. load \in Works
      BY <1>4, <2>1, LoadConstants
    <3>2. PICK fast \in BOOLEAN : f.final = [by |-> step, row |-> Statistics(load, fast)]
      BY <1>4, <2>1
    <3>3. ReadAggregate(f) = Statistics(load, fast)
      BY <2>1, <3>2 DEF ReadAggregate
    <3>4. ReadCustomMetrics(f) = Snapshot(load) /\ Snapshot(load) # None
      BY <1>4, <2>1 DEF ReadCustomMetrics
    <3>5. QED BY <1>2, <3>1, <3>3, <3>4, MismatchTells
  <2>2. QED BY <1>1, <1>3, <2>1 DEF MismatchesExplained
<1>14. QED BY <1>8, <1>9, <1>10, <1>11, <1>12, <1>13 DEF LoadInv

\* The next step, or the exit code of the script.
LEMMA StepWriteReports ==
    ASSUME LoadInv, WriteReports
    PROVE  LoadInv'
<1>1. /\ locust' = locust /\ load' = load /\ long' = long /\ code' = code /\ stop' = stop
      /\ files' = files /\ sampler' = sampler /\ cpu' = cpu /\ docker' = docker
      /\ connections' = connections /\ report' = report /\ violations' = violations
      /\ pc = "report"
  BY DEF WriteReports, locustVars, sampleVars
<1>2. /\ Len(passed) = step /\ rc = None /\ passed \in Seq(BOOLEAN) /\ None # 0
      /\ StepDirs \in Seq(Dirs) /\ step \in Nat /\ 1 <= step /\ Len(StepDirs) \in Nat
  BY <1>1, DirKnown, LoadConstants DEF LoadInv, LoadTypeOK, PassInv
<1>3. CASE Raise
  BY <1>1, <1>3, StepRaise DEF locustVars, sampleVars
<1>4. CASE /\ step < Len(StepDirs) /\ step' = step + 1 /\ pc' = "reset"
           /\ UNCHANGED <<profile, passed, rc>>
  <2>1. StepDirs' = StepDirs
    BY <1>4 DEF StepDirs
  <2>2. step' \in DOMAIN StepDirs
    BY <1>2, <1>4
  <2>3. Len(passed) \in {step' - 1, step'}
    BY <1>2, <1>4
  <2>4. LoadTypeOK'
    BY <1>1, <1>4, <2>1, <2>2, <2>3 DEF LoadInv, LoadTypeOK
  <2>5. LocustInv' /\ FilesInv'
    BY <1>1, <1>4 DEF LoadInv, LocustInv, FilesInv, StepPcs
  <2>6. PassInv'
    <3>1. Len(passed') = step' - 1 /\ pc' = "reset" /\ rc' = None /\ rc' # 0
      BY <1>2, <1>4
    <3>2. QED BY <3>1 DEF PassInv
  <2>7. SettledInv' /\ CpuInv'
    BY <1>1, <1>4 DEF LoadInv, SettledInv, CpuInv
  <2>8. GreenIsEarned' /\ MismatchesExplained'
    BY <1>2, <1>4 DEF GreenIsEarned, MismatchesExplained
  <2>9. QED BY <2>4, <2>5, <2>6, <2>7, <2>8 DEF LoadInv
<1>5. CASE /\ step = Len(StepDirs) /\ pc' = "done"
           /\ rc' = IF \A i \in DOMAIN passed : passed[i] THEN 0 ELSE 1
           /\ UNCHANGED <<profile, step, passed>>
  <2>1. StepDirs' = StepDirs /\ rc' \in {0, 1}
    BY <1>5 DEF StepDirs
  <2>2. ASSUME rc' = 0 PROVE FALSE \notin Range(passed)
    <3>1. \A i \in DOMAIN passed : passed[i]
      BY <1>5, <2>2
    <3>2. ASSUME NEW i \in DOMAIN passed PROVE passed[i] # FALSE
      BY <3>1
    <3>3. QED BY <3>2 DEF Range
  <2>3. LoadTypeOK'
    BY <1>1, <1>5, <2>1 DEF LoadInv, LoadTypeOK
  <2>4. LocustInv' /\ FilesInv'
    BY <1>1, <1>5 DEF LoadInv, LocustInv, FilesInv, StepPcs
  <2>5. PassInv'
    BY <1>2, <1>5, <2>1, <2>2 DEF PassInv
  <2>6. SettledInv' /\ CpuInv'
    BY <1>1, <1>5 DEF LoadInv, SettledInv, CpuInv
  <2>7. GreenIsEarned' /\ MismatchesExplained'
    BY <1>2, <1>5, <2>1, <2>2 DEF GreenIsEarned, MismatchesExplained
  <2>8. QED BY <2>3, <2>4, <2>5, <2>6, <2>7 DEF LoadInv
<1>6. QED BY <1>3, <1>4, <1>5 DEF WriteReports

-----------------------------------------------------------------------------
(* The Locust process.                                                     *)

\* Whatever it does, it does in the directory of the step that waits for it.
LEMMA StepLocust ==
    ASSUME LoadInv, LocustStep \/ LocustDies
    PROVE  LoadInv'
<1>1. /\ pc' = pc /\ rc' = rc /\ profile' = profile /\ step' = step /\ passed' = passed
      /\ stop' = stop /\ sampler' = sampler /\ cpu' = cpu /\ docker' = docker
      /\ connections' = connections /\ report' = report /\ violations' = violations
      /\ pc # "done" /\ locust \in {"starting", "running", "metrics", "final"}
  BY DEF LocustStep, LocustStart, LocustStop, WriteCustomMetrics, WriteFinalStats,
         LocustDies, locustOthers, runVars, sampleVars
<1>2. pc = "wait"
  BY <1>1 DEF LoadInv, LocustInv
<1>3. StepDirs' = StepDirs /\ Dir' = Dir
  BY <1>1 DEF StepDirs, Dir
<1>4. PassInv' /\ SettledInv' /\ CpuInv'
  BY <1>1, <1>3 DEF LoadInv, PassInv, SettledInv, CpuInv
<1>5. GreenIsEarned' /\ MismatchesExplained'
  BY <1>1, <1>2, <1>3 DEF LoadInv, GreenIsEarned, MismatchesExplained
<1>6. SUFFICES LoadTypeOK' /\ LocustInv' /\ FilesInv'
  BY <1>4, <1>5 DEF LoadInv
<1>7. LoadTypeOK /\ LocustInv /\ FilesInv /\ step \in Nat /\ {long} \subseteq BOOLEAN
  BY DirKnown DEF LoadInv, LoadTypeOK
<1>8. /\ locust \in {"starting", "running", "metrics"} => files[Dir].metrics = None
      /\ files[Dir].final = None
      /\ locust \in {"running", "metrics", "final"} => files[Dir].history.by = step
      /\ files[Dir].metrics # None =>
            /\ load \in Loads
            /\ \E c \in {None, Snapshot(load)} :
                  files[Dir].metrics = [by |-> step, counters |-> c]
      /\ locust \in {"metrics", "final"} => load \in Loads
  BY <1>1, <1>2, <1>7 DEF FilesInv, LocustInv, StepPcs
<1>9. CASE LocustStart
  <2>1. /\ locust = "starting" /\ locust' = "running" /\ load' = load /\ long' = long
        /\ code' = code
    BY <1>9 DEF LocustStart
  <2>2. PICK u \in {0, RequiredUsers} :
           files' = [files EXCEPT ![Dir].history = [by |-> step, users |-> u]]
    BY <1>9 DEF LocustStart
  <2>3. [by |-> step, users |-> u] \in Histories
    BY <1>7 DEF Histories
  <2>4. /\ files' \in [Dirs -> Files]
        /\ files'[Dir].final = None /\ files'[Dir].metrics = None
        /\ files'[Dir].history = [by |-> step, users |-> u]
    BY <1>7, <1>8, <2>1, <2>2, <2>3, FileWritten
  <2>5. LoadTypeOK'
    BY <1>1, <1>3, <1>7, <2>1, <2>4 DEF LoadTypeOK
  <2>6. LocustInv'
    BY <1>1, <1>2, <2>1 DEF LocustInv, StepPcs
  <2>7. FilesInv'
    BY <1>1, <1>2, <1>3, <2>1, <2>4 DEF FilesInv, StepPcs
  <2>8. QED BY <2>5, <2>6, <2>7
<1>10. CASE LocustStop
  <2>1. /\ locust = "running" /\ locust' = "metrics" /\ load' \in Loads
        /\ code' = code /\ files' = files /\ {long'} \subseteq BOOLEAN
    BY <1>10 DEF LocustStop
  <2>2. LoadTypeOK'
    BY <1>1, <1>3, <1>7, <2>1 DEF LoadTypeOK
  <2>3. LocustInv'
    BY <1>1, <1>2, <2>1 DEF LocustInv, StepPcs
  <2>4. FilesInv'
    BY <1>1, <1>2, <1>3, <1>8, <2>1 DEF FilesInv, StepPcs
  <2>5. QED BY <2>2, <2>3, <2>4
<1>11. CASE WriteCustomMetrics
  <2>1. /\ locust = "metrics" /\ locust' = "final" /\ load' = load /\ long' = long
        /\ code' = code /\ load \in Loads
    BY <1>8, <1>11 DEF WriteCustomMetrics
  <2>2. [by |-> step, counters |-> Snapshot(load)] \in MetricsFiles
    BY <1>7, <2>1 DEF MetricsFiles
  <2>3. /\ files' \in [Dirs -> Files] /\ files'[Dir].final = None
        /\ files'[Dir].history = files[Dir].history
        /\ files'[Dir].metrics \in {None, [by |-> step, counters |-> Snapshot(load)]}
    <3>1. CASE files' = [files EXCEPT ![Dir].metrics =
                            [by |-> step, counters |-> Snapshot(load)]]
      BY <1>7, <1>8, <2>2, <3>1, FileWritten
    <3>2. CASE files' = files
      BY <1>7, <1>8, <2>1, <3>2 DEF LoadTypeOK
    <3>3. QED BY <1>11, <3>1, <3>2 DEF WriteCustomMetrics
  <2>4. LoadTypeOK'
    BY <1>1, <1>3, <1>7, <2>1, <2>3 DEF LoadTypeOK
  <2>5. LocustInv'
    BY <1>1, <1>2, <2>1 DEF LocustInv, StepPcs
  <2>6. FilesInv'
    BY <1>1, <1>2, <1>3, <1>8, <2>1, <2>3 DEF FilesInv, StepPcs
  <2>7. QED BY <2>4, <2>5, <2>6
<1>12. CASE WriteFinalStats
  <2>1. /\ locust = "final" /\ locust' = "ended" /\ load' = load /\ long' = long
        /\ code' \in {0, 1} /\ load \in Loads
    BY <1>8, <1>12 DEF WriteFinalStats
  <2>2. /\ files' \in [Dirs -> Files]
        /\ files'[Dir].history = files[Dir].history
        /\ files'[Dir].metrics = files[Dir].metrics
        /\ \/ files'[Dir].final = None
           \/ \E fast \in BOOLEAN :
                 files'[Dir].final = [by |-> step, row |-> Statistics(load, fast)]
    <3>1. ASSUME NEW fast \in BOOLEAN,
                 files' = [files EXCEPT ![Dir].final =
                              [by |-> step, row |-> Statistics(load, fast)]]
          PROVE  /\ files' \in [Dirs -> Files]
                 /\ files'[Dir].history = files[Dir].history
                 /\ files'[Dir].metrics = files[Dir].metrics
                 /\ files'[Dir].final = [by |-> step, row |-> Statistics(load, fast)]
      <4>1. [by |-> step, row |-> Statistics(load, fast)] \in Finals
        BY <1>7, <2>1 DEF Finals
      <4>2. QED BY <1>7, <3>1, <4>1, FileWritten
    <3>2. CASE files' = files
      BY <1>7, <1>8, <3>2 DEF LoadTypeOK
    <3>3. QED BY <1>12, <3>1, <3>2 DEF WriteFinalStats
  <2>3. LoadTypeOK'
    BY <1>1, <1>2, <1>3, <1>7, <2>1, <2>2 DEF LoadTypeOK
  <2>4. LocustInv'
    BY <1>1, <1>2, <2>1 DEF LocustInv, StepPcs
  <2>5. FilesInv'
    BY <1>1, <1>2, <1>3, <1>8, <2>1, <2>2 DEF FilesInv, StepPcs
  <2>6. QED BY <2>3, <2>4, <2>5
<1>13. CASE LocustDies
  <2>1. locust' = "ended" /\ load' = load /\ long' = long /\ code' = 1
    BY <1>13 DEF LocustDies
  <2>2. /\ files' \in [Dirs -> Files] /\ files'[Dir].final = None
        /\ \/ files'[Dir].metrics = files[Dir].metrics
           \/ load \in Loads /\ files'[Dir].metrics = [by |-> step, counters |-> None]
    <3>1. CASE /\ locust = "metrics"
               /\ files' = [files EXCEPT ![Dir].metrics = [by |-> step, counters |-> None]]
      <4>1. [by |-> step, counters |-> None] \in MetricsFiles
        BY <1>7 DEF MetricsFiles
      <4>2. QED BY <1>7, <1>8, <3>1, <4>1, FileWritten
    <3>2. CASE files' = files
      BY <1>7, <1>8, <3>2 DEF LoadTypeOK
    <3>3. QED BY <1>13, <3>1, <3>2 DEF LocustDies
  <2>3. LoadTypeOK'
    BY <1>1, <1>2, <1>3, <1>7, <2>1, <2>2 DEF LoadTypeOK
  <2>4. LocustInv'
    BY <1>1, <1>2, <2>1 DEF LocustInv, StepPcs
  <2>5. FilesInv'
    BY <1>1, <1>2, <1>3, <1>8, <2>1, <2>2 DEF FilesInv, StepPcs
  <2>6. QED BY <2>3, <2>4, <2>5
<1>14. QED BY <1>9, <1>10, <1>11, <1>12, <1>13 DEF LocustStep

-----------------------------------------------------------------------------
(* The sampling threads.                                                   *)

\* A product grows with its second factor.
LEMMA ProductGrows ==
    ASSUME NEW a \in Nat, NEW b \in Nat, NEW c \in Nat, b <= c
    PROVE  a * b <= a * c
<1>1. c - b \in Nat /\ a * (c - b) \in Nat
  OBVIOUS
<1>2. a * c = a * b + a * (c - b)
  BY <1>1
<1>3. a * b \in Nat /\ a * c \in Nat
  OBVIOUS
<1>4. QED BY <1>1, <1>2, <1>3

\* One more sample keeps the sum within number and maximum.
LEMMA SumBounded ==
    ASSUME NEW s \in Nat, NEW n \in Nat, NEW p \in Nat, NEW q \in Nat, NEW v \in Nat,
           s <= n * p, p <= q, v <= q
    PROVE  s + v <= (n + 1) * q
<1>1. n * p <= n * q
  BY ProductGrows
<1>2. (n + 1) * q = n * q + q
  OBVIOUS
<1>3. n * p \in Nat /\ n * q \in Nat
  OBVIOUS
<1>4. QED BY <1>1, <1>2, <1>3

\* A sampler leaves alone what the others, the runner and Locust keep.
LEMMA SamplerFrame ==
    ASSUME LoadInv, UNCHANGED samplerOthers
    PROVE  /\ LocustInv' /\ FilesInv' /\ PassInv' /\ GreenIsEarned' /\ MismatchesExplained'
           /\ /\ sampler' \in [Samplers -> {"running", "ended"}]
              /\ cpu' \in [sum : Nat, len : 0..MaxSamples, peak : Levels["process"] \cup {0}]
              /\ docker' \in Levels["docker"] \cup {None, Unavailable}
              /\ connections' \in Levels["connections"] \cup {None}
              => LoadTypeOK'
<1>1. /\ pc' = pc /\ rc' = rc /\ profile' = profile /\ step' = step /\ passed' = passed
      /\ locust' = locust /\ load' = load /\ long' = long /\ code' = code /\ stop' = stop
      /\ files' = files /\ report' = report /\ violations' = violations
  BY DEF samplerOthers, runVars, locustVars
<1>2. StepDirs' = StepDirs /\ Dir' = Dir
  BY <1>1 DEF StepDirs, Dir
<1>3. LocustInv' /\ PassInv'
  BY <1>1, <1>2 DEF LoadInv, LocustInv, PassInv
<1>4. FilesInv'
  BY <1>1, <1>2 DEF LoadInv, FilesInv
<1>5. GreenIsEarned' /\ MismatchesExplained'
  BY <1>1, <1>2 DEF LoadInv, GreenIsEarned, MismatchesExplained
<1>6. ASSUME sampler' \in [Samplers -> {"running", "ended"}],
             cpu' \in [sum : Nat, len : 0..MaxSamples, peak : Levels["process"] \cup {0}],
             docker' \in Levels["docker"] \cup {None, Unavailable},
             connections' \in Levels["connections"] \cup {None}
      PROVE  LoadTypeOK'
  BY <1>1, <1>2, <1>6 DEF LoadInv, LoadTypeOK
<1>7. QED BY <1>3, <1>4, <1>5, <1>6

\* A thread that goes on or leaves touches no other thread's state.
LEMMA ThreadStep ==
    ASSUME LoadInv, NEW s \in Samplers, sampler' = sampler \/ Leave(s)
    PROVE  /\ sampler' \in [Samplers -> {"running", "ended"}]
           /\ \A t \in Samplers : t # s => sampler'[t] = sampler[t]
           /\ sampler["docker"] = "ended" => sampler'["docker"] = "ended"
           /\ sampler["connections"] = "ended" => sampler'["connections"] = "ended"
<1>1. sampler \in [Samplers -> {"running", "ended"}]
  BY DEF LoadInv, LoadTypeOK
<1>2. QED BY <1>1 DEF Leave, Samplers

\* Appending to a list of numbers.
LEMMA HigherProps ==
    ASSUME NEW v \in Nat, NEW a \in Nat \cup {None, Unavailable}
    PROVE  /\ a = None => Higher(a, v) = v
           /\ a = Unavailable => Higher(a, v) = Unavailable
           /\ a \in Nat => Higher(a, v) \in {a, v} /\ a <= Higher(a, v) /\ v <= Higher(a, v)
<1>1. None \notin Nat /\ None # Unavailable /\ Unavailable \notin Nat
  BY LoadConstants
<1>2. QED BY <1>1 DEF Higher

\* _sample_process, while its list may be read.
LEMMA StepSampleProcess ==
    ASSUME LoadInv, SampleProcess
    PROVE  LoadInv'
<1>1. /\ pc' = pc /\ report' = report /\ docker' = docker /\ connections' = connections
      /\ UNCHANGED samplerOthers /\ (sampler' = sampler \/ Leave("process"))
  BY DEF SampleProcess, samplerOthers, GoOn
<1>2. /\ "process" \in Samplers /\ "docker" \in Samplers /\ "connections" \in Samplers
  BY DEF Samplers
<1>3. /\ sampler' \in [Samplers -> {"running", "ended"}]
      /\ sampler'["docker"] = sampler["docker"]
      /\ sampler'["connections"] = sampler["connections"]
  BY <1>1, <1>2, ThreadStep
<1>4. /\ cpu \in [sum : Nat, len : 0..MaxSamples, peak : Levels["process"] \cup {0}]
      /\ Levels["process"] \subseteq Nat /\ MaxSamples \in Nat
      /\ docker \in Levels["docker"] \cup {None, Unavailable}
      /\ connections \in Levels["connections"] \cup {None}
  BY <1>2, LoadConstants DEF LoadInv, LoadTypeOK
<1>5. /\ cpu.sum \in Nat /\ cpu.len \in Nat /\ cpu.peak \in Nat
      /\ cpu.sum <= cpu.len * cpu.peak
  BY <1>4 DEF LoadInv, CpuInv
<1>6. /\ cpu' \in [sum : Nat, len : 0..MaxSamples, peak : Levels["process"] \cup {0}]
      /\ cpu.sum <= cpu'.sum /\ cpu.len <= cpu'.len /\ cpu.peak <= cpu'.peak
      /\ cpu'.sum <= cpu'.len * cpu'.peak
  <2>1. ASSUME NEW v \in Levels["process"], cpu.len < MaxSamples,
               cpu' = [sum |-> cpu.sum + v, len |-> cpu.len + 1, peak |-> Higher(cpu.peak, v)]
        PROVE  /\ cpu' \in [sum : Nat, len : 0..MaxSamples, peak : Levels["process"] \cup {0}]
               /\ cpu.sum <= cpu'.sum /\ cpu.len <= cpu'.len /\ cpu.peak <= cpu'.peak
               /\ cpu'.sum <= cpu'.len * cpu'.peak
    <3>1. v \in Nat /\ cpu.peak \in Nat \cup {None, Unavailable}
      BY <1>4, <1>5
    <3> DEFINE q == Higher(cpu.peak, v)
    <3>2. q \in {cpu.peak, v} /\ cpu.peak <= q /\ v <= q
      BY <1>5, <3>1, HigherProps
    <3> HIDE DEF q
    <3>3. q \in Levels["process"] \cup {0} /\ q \in Nat
      BY <1>4, <1>5, <3>1, <3>2
    <3>4. cpu.sum + v <= (cpu.len + 1) * q
      BY <1>5, <3>1, <3>2, <3>3, SumBounded
    <3>5. cpu'.sum = cpu.sum + v /\ cpu'.len = cpu.len + 1 /\ cpu'.peak = q
      BY <2>1 DEF q
    <3>6. cpu' \in [sum : Nat, len : 0..MaxSamples, peak : Levels["process"] \cup {0}]
      <4>1. cpu.sum + v \in Nat /\ cpu.len + 1 \in 0..MaxSamples
        BY <1>4, <1>5, <2>1, <3>1
      <4>2. QED BY <2>1, <3>3, <4>1 DEF q
    <3>7. QED BY <1>5, <3>1, <3>2, <3>4, <3>5, <3>6
  <2>2. CASE cpu' = cpu
    BY <1>4, <1>5, <2>2
  <2>3. QED BY <2>1, <2>2 DEF SampleProcess
<1>7. LoadTypeOK' /\ LocustInv' /\ FilesInv' /\ PassInv' /\ GreenIsEarned' /\ MismatchesExplained'
  BY <1>1, <1>3, <1>4, <1>6, SamplerFrame
<1>8. SettledInv'
  BY <1>1, <1>3 DEF LoadInv, SettledInv
<1>9. CpuInv'
  <2>1. CpuInv
    BY DEF LoadInv
  <2>2. report \in [measured : BOOLEAN, sum : Nat, len : Nat, peak : Nat,
                    docker : Nat \cup {None}, connections : Nat \cup {None}]
    BY <2>1 DEF CpuInv
  <2>3. /\ cpu'.sum \in Nat /\ cpu'.len \in Nat /\ cpu'.peak \in Nat
        /\ report.sum \in Nat /\ report.len \in Nat
    BY <1>4, <1>6, <2>2
  <2>4. pc = "peak" => report.sum <= report.len * cpu'.peak
    <3>1. report.len * cpu.peak <= report.len * cpu'.peak
      BY <1>5, <1>6, <2>3, ProductGrows
    <3>2. report.len * cpu.peak \in Nat /\ report.len * cpu'.peak \in Nat
      BY <1>5, <2>3
    <3>3. pc = "peak" => report.sum <= report.len * cpu.peak
      BY <2>1 DEF CpuInv
    <3>4. QED BY <2>3, <3>1, <3>2, <3>3
  <2>5. pc = "len" => report.sum <= cpu'.sum
    <3>1. pc = "len" => report.sum <= cpu.sum
      BY <2>1 DEF CpuInv
    <3>2. QED BY <1>5, <1>6, <2>3, <3>1
  <2>6. pc \in {"sum", "len"} /\ report.measured => cpu'.len > 0
    <3>1. pc \in {"sum", "len"} /\ report.measured => cpu.len > 0
      BY <2>1 DEF CpuInv
    <3>2. QED BY <1>5, <1>6, <2>3, <3>1
  <2>7. QED BY <1>1, <1>6, <2>1, <2>4, <2>5, <2>6 DEF CpuInv
<1>10. QED BY <1>7, <1>8, <1>9 DEF LoadInv

\* _sample_docker: what it appends after its join was given up counts no more.
LEMMA StepSampleDocker ==
    ASSUME LoadInv, SampleDocker
    PROVE  LoadInv'
<1>1. /\ pc' = pc /\ report' = report /\ cpu' = cpu /\ connections' = connections
      /\ UNCHANGED samplerOthers /\ (sampler' = sampler \/ Leave("docker"))
      /\ sampler["docker"] = "running"
  BY DEF SampleDocker, samplerOthers, GoOn
<1>2. /\ "process" \in Samplers /\ "docker" \in Samplers /\ "connections" \in Samplers
  BY DEF Samplers
<1>3. /\ sampler' \in [Samplers -> {"running", "ended"}]
      /\ sampler'["connections"] = sampler["connections"]
  BY <1>1, <1>2, ThreadStep
<1>4. /\ cpu \in [sum : Nat, len : 0..MaxSamples, peak : Levels["process"] \cup {0}]
      /\ docker \in Levels["docker"] \cup {None, Unavailable}
      /\ connections \in Levels["connections"] \cup {None}
      /\ Levels["docker"] \subseteq Nat
  BY <1>2, LoadConstants DEF LoadInv, LoadTypeOK
<1>5. /\ docker' \in Levels["docker"] \cup {None, Unavailable}
      /\ docker = Unavailable => docker' = Unavailable
  <2>1. ASSUME NEW v \in Levels["docker"], docker' = Higher(docker, v)
        PROVE  /\ docker' \in Levels["docker"] \cup {None, Unavailable}
               /\ docker = Unavailable => docker' = Unavailable
    <3>1. v \in Nat /\ docker \in Nat \cup {None, Unavailable}
      BY <1>4
    <3>2. QED BY <1>4, <2>1, <3>1, HigherProps
  <2>2. QED BY <1>4, <2>1 DEF SampleDocker
<1>6. LoadTypeOK' /\ LocustInv' /\ FilesInv' /\ PassInv' /\ GreenIsEarned' /\ MismatchesExplained'
  BY <1>1, <1>3, <1>4, <1>5, SamplerFrame
<1>7. SettledInv'
  BY <1>1, <1>3, <1>5 DEF LoadInv, SettledInv
<1>8. CpuInv'
  BY <1>1 DEF LoadInv, CpuInv
<1>9. QED BY <1>6, <1>7, <1>8 DEF LoadInv

\* _sample_connections
LEMMA StepSampleConnections ==
    ASSUME LoadInv, SampleConnections
    PROVE  LoadInv'
<1>1. /\ pc' = pc /\ report' = report /\ cpu' = cpu /\ docker' = docker
      /\ UNCHANGED samplerOthers /\ (sampler' = sampler \/ Leave("connections"))
      /\ sampler["connections"] = "running"
  BY DEF SampleConnections, samplerOthers, GoOn
<1>2. /\ "process" \in Samplers /\ "docker" \in Samplers /\ "connections" \in Samplers
  BY DEF Samplers
<1>3. /\ sampler' \in [Samplers -> {"running", "ended"}]
      /\ sampler'["docker"] = sampler["docker"]
  BY <1>1, <1>2, ThreadStep
<1>4. /\ cpu \in [sum : Nat, len : 0..MaxSamples, peak : Levels["process"] \cup {0}]
      /\ docker \in Levels["docker"] \cup {None, Unavailable}
      /\ connections \in Levels["connections"] \cup {None}
      /\ Levels["connections"] \subseteq Nat
  BY <1>2, LoadConstants DEF LoadInv, LoadTypeOK
<1>5. connections' \in Levels["connections"] \cup {None}
  <2>1. ASSUME NEW v \in Levels["connections"], connections' = Higher(connections, v)
        PROVE  connections' \in Levels["connections"] \cup {None}
    <3>1. v \in Nat /\ connections \in Nat \cup {None, Unavailable}
      BY <1>4
    <3>2. connections = None \/ connections \in Nat
      BY <1>4
    <3>3. QED BY <1>4, <2>1, <3>1, <3>2, HigherProps
  <2>2. QED BY <1>4, <2>1 DEF SampleConnections
<1>6. LoadTypeOK' /\ LocustInv' /\ FilesInv' /\ PassInv' /\ GreenIsEarned' /\ MismatchesExplained'
  BY <1>1, <1>3, <1>4, <1>5, SamplerFrame
<1>7. SettledInv'
  BY <1>1, <1>3 DEF LoadInv, SettledInv
<1>8. CpuInv'
  BY <1>1 DEF LoadInv, CpuInv
<1>9. QED BY <1>6, <1>7, <1>8 DEF LoadInv

-----------------------------------------------------------------------------
(* The theorems.                                                           *)

\* main() starts before the first step, with or without files of an earlier run.
LEMMA LoadInitInv == Init => LoadInv
<1> SUFFICES ASSUME Init PROVE LoadInv
  OBVIOUS
<1>1. /\ profile \in {"steps", "organizer"} /\ pc = "health" /\ step = 1
      /\ locust = "none" /\ load = None /\ long = TRUE /\ code = None /\ stop = FALSE
      /\ sampler = [s \in Samplers |-> "ended"] /\ cpu = NoSamples /\ docker = None
      /\ connections = None /\ report = NoReport /\ violations = {} /\ passed = <<>>
      /\ rc = None
  BY DEF Init
<1>2. files \in [Dirs -> Files]
  <2>1. NoFiles \in Files
    BY DEF NoFiles, Files
  <2>2. OldFiles \in Files
    <3>1. [by |-> 0, row |-> Statistics(OldLoad, TRUE)] \in Finals
      <4>1. ASSUME NEW fast \in BOOLEAN
            PROVE  [by |-> 0, row |-> Statistics(OldLoad, fast)] \in Finals
        BY DEF Finals
      <4>2. QED BY <4>1, Zenon
    <3>2. [by |-> 0, counters |-> Snapshot(OldLoad)] \in MetricsFiles
      BY DEF MetricsFiles
    <3>3. [by |-> 0, users |-> RequiredUsers] \in Histories
      BY DEF Histories
    <3>4. QED BY <3>1, <3>2, <3>3, FilesAre DEF OldFiles
  <2>3. QED BY <2>1, <2>2 DEF Init
<1>3. step \in DOMAIN StepDirs
  <2>1. Targets \in Seq(Range(Targets)) /\ Targets # <<>>
    BY LoadConstants
  <2>2. 1 \in DOMAIN Targets
    BY <2>1, EmptySeq
  <2>3. 1 \in DOMAIN <<Root>>
    OBVIOUS
  <2>4. QED BY <1>1, <2>2, <2>3 DEF StepDirs
<1>4. LoadTypeOK
  <2>1. cpu \in [sum : Nat, len : 0..MaxSamples, peak : Levels["process"] \cup {0}]
    BY <1>1, LoadConstants DEF NoSamples
  <2>2. passed \in Seq(BOOLEAN) /\ Len(passed) \in {step - 1, step}
    BY <1>1
  <2>3. QED BY <1>1, <1>2, <1>3, <2>1, <2>2 DEF LoadTypeOK
<1>5. LocustInv /\ FilesInv
  BY <1>1 DEF LocustInv, FilesInv, StepPcs
<1>6. None # 0
  BY LoadConstants
<1>7. PassInv
  <2>1. Len(passed) = step - 1
    BY <1>1
  <2>2. QED BY <1>1, <1>6, <2>1 DEF PassInv
<1>8. SettledInv /\ CpuInv
  BY <1>1 DEF SettledInv, CpuInv, NoReport, NoSamples
<1>9. GreenIsEarned /\ MismatchesExplained
  BY <1>1, <1>6 DEF GreenIsEarned, MismatchesExplained
<1>10. QED BY <1>4, <1>5, <1>7, <1>8, <1>9 DEF LoadInv

\* Nothing happens.
LEMMA LoadStutters == LoadInv /\ UNCHANGED vars => LoadInv'
<1> SUFFICES ASSUME LoadInv, UNCHANGED vars PROVE LoadInv'
  OBVIOUS
<1>1. /\ UNCHANGED samplerOthers /\ sampler' = sampler /\ cpu' = cpu /\ docker' = docker
      /\ connections' = connections /\ report' = report /\ pc' = pc
  BY DEF vars, samplerOthers, sampleVars
<1>2. LoadTypeOK' /\ LocustInv' /\ FilesInv' /\ PassInv' /\ GreenIsEarned' /\ MismatchesExplained'
  <2>1. /\ sampler' \in [Samplers -> {"running", "ended"}]
        /\ cpu' \in [sum : Nat, len : 0..MaxSamples, peak : Levels["process"] \cup {0}]
        /\ docker' \in Levels["docker"] \cup {None, Unavailable}
        /\ connections' \in Levels["connections"] \cup {None}
    BY <1>1 DEF LoadInv, LoadTypeOK
  <2>2. QED BY <1>1, <2>1, SamplerFrame
<1>3. SettledInv' /\ CpuInv'
  BY <1>1 DEF LoadInv, SettledInv, CpuInv
<1>4. QED BY <1>2, <1>3 DEF LoadInv

\* Every step of the runner, of Locust and of the samplers.
LEMMA LoadNextInv == LoadInv /\ [Next]_vars => LoadInv'
<1> SUFFICES ASSUME LoadInv, [Next]_vars PROVE LoadInv'
  OBVIOUS
<1>1. CASE CheckHealth
  <2>1. CASE pc' = "reset" /\ UNCHANGED runVars
    BY <1>1, <2>1, StepMoves DEF CheckHealth
  <2>2. CASE Raise
    BY <1>1, <2>2, StepRaise DEF CheckHealth
  <2>3. QED BY <1>1, <2>1, <2>2 DEF CheckHealth
<1>2. CASE ResetStepOutputs
  <2>1. CASE /\ files' = [files EXCEPT ![Dir].final = None, ![Dir].metrics = None]
             /\ pc' = "launch" /\ UNCHANGED runVars
    BY <1>2, <2>1, StepReset DEF ResetStepOutputs
  <2>2. CASE files' \in {files, [files EXCEPT ![Dir].final = None]} /\ Raise
    BY <1>2, <2>2, StepRaise DEF ResetStepOutputs
  <2>3. QED BY <1>2, <2>1, <2>2 DEF ResetStepOutputs
<1>3. CASE LaunchStep \/ LaunchOrganizer
  BY <1>3, StepLaunch DEF LaunchStep, LaunchOrganizer
<1>4. CASE PopenFails \/ Interrupt
  BY <1>4, StepRaise DEF PopenFails, Interrupt
<1>5. CASE Wait \/ JoinProcess
  BY <1>5, StepMoves DEF Wait, JoinProcess
<1>6. CASE FinalizeDocker
  BY <1>6, StepFinalizeDocker
<1>7. CASE FinalizeConnections
  BY <1>7, StepFinalizeConnections
<1>8. CASE ReduceProcess \/ ReduceDocker
  BY <1>8, StepReads
<1>9. CASE Judge
  BY <1>9, StepJudge
<1>10. CASE WriteReports
  BY <1>10, StepWriteReports
<1>11. CASE LocustStep \/ LocustDies
  BY <1>11, StepLocust
<1>12. CASE SampleProcess
  BY <1>12, StepSampleProcess
<1>13. CASE SampleDocker
  BY <1>13, StepSampleDocker
<1>14. CASE SampleConnections
  BY <1>14, StepSampleConnections
<1>15. CASE UNCHANGED vars
  BY <1>15, LoadStutters
<1>16. QED BY <1>1, <1>2, <1>3, <1>4, <1>5, <1>6, <1>7, <1>8, <1>9, <1>10, <1>11, <1>12,
              <1>13, <1>14, <1>15 DEF Next, RunnerStep, Finished

\* The runner, the Locust process it waits for and the threads that outlive
\* their joins keep the inductive invariant.
THEOREM LoadInvariance == Spec => []LoadInv
<1>1. Init => LoadInv
  BY LoadInitInv
<1>2. LoadInv /\ [Next]_vars => LoadInv'
  BY LoadNextInv
<1>3. QED BY <1>1, <1>2, PTL DEF Spec

\* Whatever ends a step of run_performance.py, its variables have their types;
\* in particular process.wait() has given an exit code when a step is judged.
THEOREM LoadTypeCorrect == Spec => []LoadTypeOK
<1>1. LoadInv => LoadTypeOK
  BY DEF LoadInv
<1>2. QED BY <1>1, LoadInvariance, PTL

\* A step that build_result passes was earned by its own Locust process, which
\* wrote every file judged, in any number of steps that share directories or
\* find the files of an earlier run; main() returns 0 only when every step was
\* judged so.
THEOREM PassIsEarned == Spec => []GreenIsEarned
<1>1. LoadInv => GreenIsEarned
  BY DEF LoadInv
<1>2. QED BY <1>1, LoadInvariance, PTL

\* A container peak or number of connections that was reported stays what its
\* list says, although the joins of the samplers have time limits.
THEOREM ReportsSettled == Spec => []ReportedSettled
<1>1. LoadInv => ReportedSettled
  BY DEF LoadInv, SettledInv, ReportedSettled
<1>2. QED BY <1>1, LoadInvariance, PTL

\* The four reads of a CPU list that its thread may still append to give an
\* average of samples that does not exceed the peak.
THEOREM CpuAverageSane == Spec => []CpuReportSane
<1>1. LoadInv => CpuReportSane
  BY DEF LoadInv, CpuInv, CpuReportSane
<1>2. QED BY <1>1, LoadInvariance, PTL

\* For every work of a Locust process, build_result reports that counters and
\* statistics disagree exactly when requests are missing from the statistics:
\* such a step fails whatever the limits on errors, and none fails so for
\* anything else its tasks met.  Only a demask with a wrong result makes the
\* counters of locustfile.py disagree with each other.
THEOREM MismatchTruthful == Spec => []MismatchesExplained
<1>1. LoadInv => MismatchesExplained
  BY DEF LoadInv
<1>2. QED BY <1>1, LoadInvariance, PTL
=============================================================================
