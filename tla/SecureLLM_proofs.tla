-------------------------- MODULE SecureLLM_proofs --------------------------
(***************************************************************************)
(* From a text to its mask and back from an LLM's answer, for every text,  *)
(* every set of matches and of findings of the language model, every       *)
(* policy and every length.                                                *)
(***************************************************************************)
EXTENDS SecureLLM, SequenceTheorems, FiniteSetTheorems, WellFoundedInduction, TLAPS

\* a is before b in the order resolve_spans sorts by.
Precedes(a, b) ==
    \/ a.start < b.start
    \/ a.start = b.start /\ a.end <= b.end

\* The matches are good spans, and the model's findings at worst empty ones.
DetectInv ==
    phase = "detect" => entities \subseteq Detectable /\ MatchesSurvive

\* Nothing is kept before resolution, and nothing masked before selection.
FreshInv ==
    /\ phase \in {"detect", "call"} => kept = <<>>
    /\ phase \notin {"mask", "done"} => pieces = <<>> /\ cursor = 0

\* What the loop of resolve_spans has still to look at comes after what it
\* has kept, in order and without repetition.
ResolveInv ==
    phase = "resolve" =>
        /\ entities \subseteq Detectable
        /\ \A i \in 1..Len(kept) : kept[i] \in entities
        /\ \A j \in 1..Len(todo) : todo[j] \in entities
        /\ \A i, j \in 1..Len(todo) :
              i < j => Precedes(todo[i], todo[j]) /\ todo[i] # todo[j]
        /\ \A i \in 1..Len(kept), j \in 1..Len(todo) :
              Precedes(kept[i], todo[j]) /\ kept[i] # todo[j]

\* _select_spans looks at valid spans, and keeps nothing else.
SelectInv ==
    /\ phase = "select" => \A j \in 1..Len(todo) : Valid(todo[j])
    /\ phase \in {"select", "mask", "done"} => \A i \in 1..Len(kept) : Valid(kept[i])

\* The number of spans the loop of mask() has looked at.
Turns == Len(kept) - Len(todo)

\* mask() goes through the spans in order, and is never past the next one.
LoopInv ==
    phase = "mask" =>
        /\ Len(todo) <= Len(kept)
        /\ \A j \in 1..Len(todo) : todo[j] = kept[Turns + j] /\ cursor <= todo[j].start

\* The pieces are the text up to the cursor, one after another.
PiecesInv ==
    phase = "mask" =>
        /\ pieces = <<>> => cursor = 0
        /\ pieces # <<>> => pieces[1].from = 0 /\ pieces[Len(pieces)].to = cursor
        /\ \A i \in 1..(Len(pieces) - 1) : pieces[i].to = pieces[i + 1].from
        /\ \A i \in 1..Len(pieces) : pieces[i].from <= pieces[i].to

\* Of the spans looked at, those their context allows are replaced, and
\* nothing else is.
ReplacedInv ==
    phase \in {"mask", "done"} =>
        /\ \A i \in 1..Len(pieces) :
              pieces[i].masked => \E j \in 1..Turns :
                                     ContextAllows(kept[j]) /\ pieces[i] = Replaced(kept[j])
        /\ \A j \in 1..Turns :
              ContextAllows(kept[j]) => \E i \in 1..Len(pieces) : pieces[i] = Replaced(kept[j])
        /\ phase = "done" => todo = <<>>

\* The inductive invariant of the pipeline.
PipelineInv ==
    /\ PipelineTypeOK
    /\ text \in Texts
    /\ DetectInv
    /\ FreshInv
    /\ ResolveInv
    /\ SelectInv
    /\ LoopInv
    /\ PiecesInv
    /\ ReplacedInv
    /\ KeptDisjoint
    /\ LostOnlyToBetter
    /\ MaskedExactly

-----------------------------------------------------------------------------
(* Positions and prefixes.                                                 *)

\* A set of positions has a last one.
LEMMA LastOf ==
    ASSUME NEW n \in Nat, NEW T \in SUBSET (0..n), T # {}
    PROVE  \E i \in T : \A j \in T : j <= i
<1> DEFINE U == {n - i : i \in T}
           R == OpToRel(<, Nat)
<1>1. U \subseteq Nat /\ U # {}
  <2>1. \A i \in T : i \in 0..n /\ n - i \in Nat
    OBVIOUS
  <2>2. QED BY <2>1
<1>2. PICK x \in U : \A y \in U : ~(<<y, x>> \in R)
  <2> HIDE DEF U
  <2>1. QED BY <1>1, NatLessThanWellFounded, WFMin
<1>3. \A y \in U : ~(y < x)
  BY <1>1, <1>2 DEF OpToRel
<1>4. PICK i \in T : x = n - i
  OBVIOUS
<1>5. ASSUME NEW j \in T PROVE j <= i
  <2>1. n - j \in U /\ i \in 0..n /\ j \in 0..n
    OBVIOUS
  <2>2. ~(n - j < n - i)
    BY <1>3, <1>4, <2>1
  <2>3. QED BY <2>1, <2>2
<1>6. QED BY <1>5

\* A prefix of a prefix is a prefix, and its own length.
LEMMA PrefixProps ==
    ASSUME NEW C, NEW v \in Seq(C), NEW n \in 0..Len(v)
    PROVE  /\ SubSeq(v, 1, n) \in Seq(C)
           /\ Len(SubSeq(v, 1, n)) = n
           /\ \A i \in 1..n : SubSeq(v, 1, n)[i] = v[i]
           /\ \A m \in 0..n : SubSeq(SubSeq(v, 1, n), 1, m) = SubSeq(v, 1, m)
<1> DEFINE u == SubSeq(v, 1, n)
<1>1. u \in Seq(C) /\ Len(u) = n /\ \A i \in 1..n : u[i] = v[i]
  BY SubSeqProperties
<1> HIDE DEF u
<1>2. ASSUME NEW m \in 0..n PROVE SubSeq(u, 1, m) = SubSeq(v, 1, m)
  <2>1. /\ SubSeq(u, 1, m) \in Seq(C) /\ Len(SubSeq(u, 1, m)) = m
        /\ \A i \in 1..m : SubSeq(u, 1, m)[i] = u[i]
    BY <1>1, SubSeqProperties
  <2>2. /\ SubSeq(v, 1, m) \in Seq(C) /\ Len(SubSeq(v, 1, m)) = m
        /\ \A i \in 1..m : SubSeq(v, 1, m)[i] = v[i]
    BY SubSeqProperties
  <2>3. \A i \in 1..m : SubSeq(u, 1, m)[i] = SubSeq(v, 1, m)[i]
    BY <1>1, <2>1, <2>2
  <2>4. QED BY <2>1, <2>2, <2>3, SeqEqual
<1>3. QED BY <1>1, <1>2 DEF u

\* Trimming leaves a prefix.
LEMMA TrimmedPrefix ==
    ASSUME NEW C, NEW v \in Seq(C), NEW S
    PROVE  \E n \in 0..Len(v) : Trimmed(v, S) = SubSeq(v, 1, n)
<1> DEFINE T    == {i \in 0..Len(v) : i > 0 /\ v[i] \notin S}
           P(n) == EndsIn(v, Len(v) - n, S) /\ (n > 0 => v[n] \notin S)
<1>1. \E n \in 0..Len(v) : P(n)
  <2>1. CASE T = {}
    <3>1. \A i \in 1..Len(v) : v[i] \in S
      BY <2>1
    <3>2. 0 \in 0..Len(v) /\ P(0)
      BY <3>1 DEF EndsIn
    <3>3. QED BY <3>2
  <2>2. CASE T # {}
    <3>1. PICK n \in T : \A j \in T : j <= n
      <4>1. T \in SUBSET (0..Len(v)) /\ Len(v) \in Nat
        OBVIOUS
      <4> HIDE DEF T
      <4>2. QED BY <2>2, <4>1, LastOf
    <3>2. n \in 1..Len(v) /\ v[n] \notin S
      OBVIOUS
    <3>3. \A i \in (n + 1)..Len(v) : v[i] \in S
      BY <3>1, <3>2
    <3>4. Len(v) - (Len(v) - n) + 1 = n + 1 /\ Len(v) - n <= Len(v)
      BY <3>2
    <3>5. P(n)
      BY <3>2, <3>3, <3>4 DEF EndsIn
    <3>6. QED BY <3>2, <3>5
  <2>3. QED BY <2>1, <2>2
<1> DEFINE m == CHOOSE n \in 0..Len(v) : P(n)
<1>2. m \in 0..Len(v)
  <2> HIDE DEF P
  <2>1. QED BY <1>1
<1>3. Trimmed(v, S) = SubSeq(v, 1, m)
  BY DEF Trimmed
<1>4. QED BY <1>2, <1>3

\* What is left of a match is a prefix of it, with its end where it ends.
LEMMA CleanedPrefix ==
    ASSUME NEW txt, NEW t, NEW a \in Nat, NEW b \in Nat,
           Slice(txt, a, b) \in Seq(STRING), Len(Slice(txt, a, b)) = b - a,
           Cleaned(txt, t, a, b).value # <<>>
    PROVE  \E n \in 0..(b - a) :
              /\ Cleaned(txt, t, a, b).value = SubSeq(Slice(txt, a, b), 1, n)
              /\ Cleaned(txt, t, a, b).end = a + n
<1> DEFINE v == Slice(txt, a, b)
           r == Cleaned(txt, t, a, b)
           s == Strip(v, b)
<1>1. v \in Seq(STRING) /\ Len(v) = b - a /\ Len(v) \in Nat
  OBVIOUS
<1>0. Len(v) = b - a /\ Len(v) \in Nat
  BY <1>1
<1>2. r = CASE t \in IssuerTypes -> CleanIssuer(s, a)
            [] t \in GroupedTypes \ IssuerTypes -> s
            [] OTHER -> [value |-> v, end |-> b]
  BY DEF Cleaned
<1> HIDE DEF v, r
<1>3. PICK n \in 0..Len(v) : s.value = SubSeq(v, 1, n) /\ s.end = a + n
  <2>1. PICK n \in 0..Len(v) : Trimmed(v, {".", " "}) = SubSeq(v, 1, n)
    BY <1>1, TrimmedPrefix
  <2>2. Len(SubSeq(v, 1, n)) = n
    BY <1>1, <2>1, PrefixProps
  <2>3. s.value = SubSeq(v, 1, n) /\ s.end = b - (Len(v) - n)
    BY <2>1, <2>2 DEF Strip
  <2>4. b - (Len(v) - n) = a + n
    BY <1>0
  <2> HIDE DEF s
  <2>5. QED BY <2>1, <2>3, <2>4
<1> HIDE DEF s
<1>4. CASE t \in IssuerTypes
  <2> DEFINE cut == IF EndsInFragment(s.value) THEN WithoutFragment(s.value) ELSE s.value
  <2>1. s.value \in Seq(STRING) /\ Len(s.value) = n
    BY <1>1, <1>3, PrefixProps
  <2>2. PICK m \in 0..n : cut = SubSeq(v, 1, m)
    <3>1. CASE ~EndsInFragment(s.value)
      BY <1>3, <3>1
    <3>2. CASE EndsInFragment(s.value)
      <4>1. PICK i \in 0..n : Trimmed(s.value, Digits) = SubSeq(s.value, 1, i)
        BY <2>1, TrimmedPrefix
      <4>2. Trimmed(s.value, Digits) = SubSeq(v, 1, i) /\ i \in 0..Len(v)
        BY <1>1, <1>3, <4>1, PrefixProps
      <4>3. SubSeq(v, 1, i) \in Seq(STRING) /\ Len(SubSeq(v, 1, i)) = i
        BY <1>1, <4>2, PrefixProps
      <4>4. PICK j \in 0..i : Trimmed(SubSeq(v, 1, i), {" "}) = SubSeq(SubSeq(v, 1, i), 1, j)
        BY <4>3, TrimmedPrefix
      <4>5. Trimmed(SubSeq(v, 1, i), {" "}) = SubSeq(v, 1, j)
        BY <1>1, <4>2, <4>4, PrefixProps
      <4>6. cut = SubSeq(v, 1, j)
        BY <3>2, <4>2, <4>5 DEF WithoutFragment
      <4>7. j \in 0..n
        BY <1>0
      <4>8. QED BY <4>6, <4>7
    <3>3. QED BY <3>1, <3>2
  <2>3. Len(cut) = m
    BY <1>1, <1>3, <2>2, PrefixProps
  <2>4. r = CASE Numeric(cut) -> [value |-> <<>>, end |-> a]
              [] ~Numeric(cut) /\ cut # s.value -> [value |-> cut, end |-> a + Len(cut)]
              [] OTHER -> s
    BY <1>2, <1>4 DEF CleanIssuer
  <2> HIDE DEF cut
  <2>5. ~Numeric(cut)
    BY <2>4 DEF r
  <2>6. CASE cut # s.value
    <3>1. r.value = SubSeq(v, 1, m) /\ r.end = a + m
      BY <2>2, <2>3, <2>4, <2>5, <2>6
    <3>2. QED BY <1>1, <1>3, <2>2, <3>1 DEF r, v
  <2>7. CASE cut = s.value
    <3>1. r = s
      BY <2>4, <2>5, <2>7
    <3>2. QED BY <1>1, <1>3, <3>1 DEF r, v
  <2>8. QED BY <2>6, <2>7
<1>5. CASE t \notin IssuerTypes /\ t \in GroupedTypes
  <2>1. r = s
    BY <1>2, <1>5
  <2>2. QED BY <1>1, <1>3, <2>1 DEF r, v
<1>6. CASE t \notin IssuerTypes /\ t \notin GroupedTypes
  <2>1. r.value = v /\ r.end = b
    BY <1>2, <1>6
  <2>2. v = SubSeq(v, 1, Len(v))
    BY <1>1
  <2>3. Len(v) \in 0..(b - a) /\ a + Len(v) = b
    BY <1>1
  <2>4. QED BY <2>1, <2>2, <2>3 DEF r, v
<1>7. QED BY <1>4, <1>5, <1>6

\* What RegexDetector.detect reports is a span of the text that is not empty,
\* and its value is the text of the span.
LEMMA MatchValid ==
    ASSUME text \in Texts, NEW t \in Types, NEW a \in 0..TextLen, NEW b \in 0..TextLen,
           Slice(text, a, b) # <<>>, Cleaned(text, t, a, b).value # <<>>
    PROVE  LET r == Cleaned(text, t, a, b)
           IN  /\ a < r.end /\ r.end \in 0..TextLen
               /\ Slice(text, a, r.end) = r.value
<1> DEFINE v == Slice(text, a, b)
           r == Cleaned(text, t, a, b)
<1>1. TextLen \in Nat /\ text \in [1..TextLen -> STRING]
  BY SpanConstants, SecureConstants
<1>2. text \in Seq(STRING) /\ Len(text) = TextLen
  BY <1>1
<1>3. v = SubSeq(text, a + 1, b)
  BY <1>1, <1>2 DEF Slice
<1>4. \A i \in (a + 1)..b : text[i] \in STRING
  BY <1>1
<1>5. /\ SubSeq(text, a + 1, b) \in Seq(STRING)
      /\ Len(SubSeq(text, a + 1, b)) = IF a + 1 <= b THEN b - (a + 1) + 1 ELSE 0
      /\ \A i \in 1..(b - (a + 1) + 1) : SubSeq(text, a + 1, b)[i] = text[(a + 1) + i - 1]
  <2>1. a + 1 \in Int /\ b \in Int
    BY <1>1
  <2>2. QED BY <1>4, <2>1, SubSeqProperties
<1> HIDE DEF v
<1>6. a < b /\ Len(v) = b - a /\ v \in Seq(STRING)
      /\ \A i \in 1..(b - a) : v[i] = text[a + i]
  <2>1. v # <<>>
    BY DEF v
  <2>2. a < b
    <3>1. SUFFICES ASSUME ~(a < b) PROVE FALSE
      OBVIOUS
    <3>2. Len(v) = 0 /\ v \in Seq(STRING)
      BY <1>1, <1>3, <1>5, <3>1
    <3>3. QED BY <2>1, <3>2, EmptySeq
  <2>3. b - (a + 1) + 1 = b - a /\ \A i \in 1..(b - a) : (a + 1) + i - 1 = a + i
    BY <1>1
  <2>4. QED BY <1>1, <1>3, <1>5, <2>2, <2>3
<1>7. PICK n \in 0..(b - a) : r.value = SubSeq(v, 1, n) /\ r.end = a + n
  <2>1. a \in Nat /\ b \in Nat
    BY <1>1
  <2>2. Slice(text, a, b) \in Seq(STRING) /\ Len(Slice(text, a, b)) = b - a
    BY <1>6 DEF v
  <2>3. \E n \in 0..(b - a) :
           /\ Cleaned(text, t, a, b).value = SubSeq(Slice(text, a, b), 1, n)
           /\ Cleaned(text, t, a, b).end = a + n
    BY <2>1, <2>2, CleanedPrefix
  <2>4. QED BY <2>3 DEF v
<1>8. /\ SubSeq(v, 1, n) \in Seq(STRING) /\ Len(SubSeq(v, 1, n)) = n
      /\ \A i \in 1..n : SubSeq(v, 1, n)[i] = v[i]
  BY <1>6, <1>7, PrefixProps
<1> HIDE DEF r
<1>9. n > 0
  <2>1. SUFFICES ASSUME n = 0 PROVE FALSE
    BY <1>1, <1>7
  <2>2. r.value # <<>>
    BY DEF r
  <2>3. QED BY <1>7, <1>8, <2>1, <2>2, EmptySeq
<1>10. a < r.end /\ r.end \in 0..TextLen
  BY <1>1, <1>6, <1>7, <1>9
<1>11. Slice(text, a, r.end) = r.value
  <2>1. Slice(text, a, r.end) = SubSeq(text, a + 1, a + n)
    <3>1. r.end <= Len(text)
      BY <1>1, <1>2, <1>10
    <3>2. Slice(text, a, r.end) = SubSeq(text, a + 1, r.end)
      BY <3>1 DEF Slice
    <3>3. QED BY <1>7, <3>2
  <2>2. /\ SubSeq(text, a + 1, a + n) \in Seq(STRING)
        /\ Len(SubSeq(text, a + 1, a + n)) = n
        /\ \A i \in 1..n : SubSeq(text, a + 1, a + n)[i] = text[a + i]
    <3>1. \A i \in (a + 1)..(a + n) : text[i] \in STRING
      BY <1>1, <1>7, <1>10
    <3>2. a + 1 \in Int /\ a + n \in Int
      BY <1>1, <1>7
    <3>3. /\ SubSeq(text, a + 1, a + n) \in Seq(STRING)
          /\ Len(SubSeq(text, a + 1, a + n)) =
                IF a + 1 <= a + n THEN a + n - (a + 1) + 1 ELSE 0
          /\ \A i \in 1..(a + n - (a + 1) + 1) :
                SubSeq(text, a + 1, a + n)[i] = text[(a + 1) + i - 1]
      BY <3>1, <3>2, SubSeqProperties
    <3>4. a + 1 <= a + n /\ a + n - (a + 1) + 1 = n /\ \A i \in 1..n : (a + 1) + i - 1 = a + i
      BY <1>1, <1>7, <1>9
    <3>5. QED BY <3>3, <3>4
  <2>3. \A i \in 1..n : SubSeq(text, a + 1, a + n)[i] = SubSeq(v, 1, n)[i]
    BY <1>1, <1>6, <1>7, <1>8, <2>2
  <2>4. SubSeq(text, a + 1, a + n) = SubSeq(v, 1, n)
    BY <1>8, <2>2, <2>3, SeqEqual
  <2>5. QED BY <1>7, <2>1, <2>4
<1>12. QED BY <1>10, <1>11 DEF r

-----------------------------------------------------------------------------
(* Entities.                                                               *)

LEMMA EntityFields ==
    ASSUME NEW e \in Entities
    PROVE  /\ e.type \in Types /\ e.start \in Int /\ e.end \in Int
           /\ e.conf \in Nat /\ Priority[e.type] \in Nat
BY SpanConstants DEF Entities

LEMMA DetectableSpan ==
    ASSUME NEW e \in Detectable
    PROVE  /\ e \in Entities /\ e.start \in Int /\ e.end \in Int
           /\ 0 <= e.start /\ e.start <= e.end /\ e.end <= TextLen
           /\ e.start < e.end \/ (e.start = 0 /\ e.end = 0)
BY SpanConstants DEF Detectable, Entities

LEMMA ValidSpan ==
    ASSUME NEW e \in Entities, Valid(e)
    PROVE  /\ e.start \in Int /\ e.end \in Int
           /\ 0 <= e.start /\ e.start < e.end /\ e.end <= TextLen
BY DEF Valid, Entities

\* _better chooses one of the two, and the other is no better.
LEMMA BetterBeats ==
    ASSUME NEW a \in Entities, NEW b \in Entities
    PROVE  \/ Better(a, b) = a /\ Beats(a, b)
           \/ Better(a, b) = b /\ Beats(b, a)
BY EntityFields DEF Better, Beats, Length

\* A listing of a set is a sequence of its elements, each of them once.
LEMMA ListingProps ==
    ASSUME NEW S, NEW s \in Listings(S)
    PROVE  /\ s \in Seq(S) /\ DOMAIN s = 1..Len(s)
           /\ \A i, j \in 1..Len(s) : s[i] = s[j] => i = j
           /\ \A e \in S : \E i \in 1..Len(s) : s[i] = e
<1>1. PICK n \in 0..MaxEntities : s \in [1..n -> S]
  BY DEF Listings
<1>2. s \in Seq(S) /\ DOMAIN s = 1..Len(s)
  BY <1>1, SpanConstants
<1>3. QED BY <1>2 DEF Listings

\* The head and the tail of what is still to do.
LEMMA TodoProps ==
    ASSUME NEW S, NEW s \in Seq(S), s # <<>>
    PROVE  /\ Len(s) \in Nat /\ 1 \in 1..Len(s) /\ Head(s) = s[1] /\ Head(s) \in S
           /\ Tail(s) \in Seq(S) /\ Len(Tail(s)) = Len(s) - 1
           /\ \A j \in 1..Len(Tail(s)) : Tail(s)[j] = s[j + 1] /\ j + 1 \in 1..Len(s)
<1>1. Len(s) \in Nat \ {0}
  BY EmptySeq
<1>2. QED BY <1>1

LEMMA Elements ==
    ASSUME NEW S, NEW s \in Seq(S)
    PROVE  /\ Len(s) \in Nat /\ Range(s) = {s[i] : i \in 1..Len(s)}
           /\ \A i \in 1..Len(s) : s[i] \in S
BY DEF Range

-----------------------------------------------------------------------------
(* The steps, one by one.                                                  *)

\* Entities are gathered, by the detectors or by a caller of mask().
LEMMA StepGathers ==
    ASSUME PipelineInv, phase \in {"detect", "call"},
           UNCHANGED <<phase, todo, kept, required, pieces, cursor, text>>,
           entities' \subseteq Entities,
           phase = "detect" => /\ entities' \subseteq Detectable
                               /\ \A e \in entities' : e.conf = 10 => Valid(e)
    PROVE  PipelineInv'
<1> USE DEF PipelineInv
<1>1. PipelineTypeOK'
  BY DEF PipelineTypeOK
<1>2. text' \in Texts /\ phase' \in {"detect", "call"}
  OBVIOUS
<1>3. DetectInv'
  BY DEF DetectInv, MatchesSurvive, Valid
<1>4. FreshInv'
  BY DEF FreshInv
<1>5. ResolveInv' /\ SelectInv' /\ LoopInv' /\ PiecesInv' /\ ReplacedInv'
  BY <1>2 DEF ResolveInv, SelectInv, LoopInv, PiecesInv, ReplacedInv
<1>6. KeptDisjoint'
  BY DEF KeptDisjoint
<1>7. LostOnlyToBetter' /\ MaskedExactly'
  BY <1>2 DEF LostOnlyToBetter, MaskedExactly
<1>8. QED BY <1>1, <1>2, <1>3, <1>4, <1>5, <1>6, <1>7

LEMMA StepDetect ==
    ASSUME PipelineInv, NEW e \in Found, Detect(e), UNCHANGED llmVars
    PROVE  PipelineInv'
<1>1. e \in Detectable /\ e.conf # 10 /\ e \in Entities
  BY PipelineConstants, SecureConstants DEF Detectable
<1>2. entities \subseteq Entities /\ entities \subseteq Detectable
      /\ \A f \in entities : f.conf = 10 => Valid(f)
  BY DEF PipelineInv, PipelineTypeOK, DetectInv, MatchesSurvive, Detect
<1>3. QED BY <1>1, <1>2, StepGathers DEF Detect, llmVars

LEMMA StepGive ==
    ASSUME PipelineInv, NEW e \in Given, Give(e), UNCHANGED llmVars
    PROVE  PipelineInv'
<1>1. e \in Entities
  BY PipelineConstants
<1>2. entities \subseteq Entities
  BY DEF PipelineInv, PipelineTypeOK
<1>3. QED BY <1>1, <1>2, StepGathers DEF Give, llmVars

LEMMA StepDetectMatch ==
    ASSUME PipelineInv, NEW t \in Types, NEW a \in 0..TextLen, NEW b \in 0..TextLen,
           DetectMatch(t, a, b)
    PROVE  PipelineInv'
<1> DEFINE r == Cleaned(text, t, a, b)
           e == [type |-> t, start |-> a, end |-> r.end, conf |-> 10,
                 matches |-> Slice(text, a, r.end) = r.value]
<1>1. text \in Texts /\ Slice(text, a, b) # <<>> /\ r.value # <<>>
  BY DEF PipelineInv, DetectMatch, Shaped, Reports
<1>2. a < r.end /\ r.end \in 0..TextLen /\ (Slice(text, a, r.end) = r.value) = TRUE
  BY <1>1, MatchValid
<1>3. entities' = entities \cup {e}
  BY DEF DetectMatch
<1>4. e = [type |-> t, start |-> a, end |-> r.end, conf |-> 10, matches |-> TRUE]
  BY <1>2
<1> HIDE DEF r
<1>5. e \in Entities /\ e \in Detectable /\ Valid(e)
  BY <1>2, <1>4, SpanConstants, SecureConstants DEF Entities, Detectable, Valid
<1> HIDE DEF e
<1>6. /\ entities \subseteq Entities /\ entities \subseteq Detectable
      /\ \A f \in entities : f.conf = 10 => Valid(f)
  BY DEF PipelineInv, PipelineTypeOK, DetectInv, MatchesSurvive, DetectMatch
<1>7. QED BY <1>3, <1>5, <1>6, StepGathers DEF DetectMatch, llmVars

Disjoint(r) == \A i, j \in 1..Len(r) : i < j => r[i].end <= r[j].start

\* A span that begins where the last one has ended keeps the spans disjoint.
LEMMA AppendDisjoint ==
    ASSUME NEW r \in Seq(Entities), Disjoint(r), NEW e \in Entities,
           \A i \in 1..Len(r) : r[i].start <= r[i].end,
           r # <<>> => r[Len(r)].end <= e.start
    PROVE  /\ Append(r, e) \in Seq(Entities) /\ Len(Append(r, e)) = Len(r) + 1
           /\ Append(r, e)[Len(r) + 1] = e
           /\ \A i \in 1..Len(r) : Append(r, e)[i] = r[i]
           /\ Disjoint(Append(r, e))
<1> DEFINE u == Append(r, e)
<1>1. /\ u \in Seq(Entities) /\ Len(u) = Len(r) + 1 /\ Len(r) \in Nat
      /\ u[Len(r) + 1] = e /\ \A i \in 1..Len(r) : u[i] = r[i]
  OBVIOUS
<1> HIDE DEF u
<1>2. ASSUME NEW i \in 1..Len(r) PROVE r[i].end <= e.start
  <2>1. Len(r) \in 1..Len(r) /\ r # <<>>
    BY <1>1
  <2>2. r[i] \in Entities /\ r[Len(r)] \in Entities
    BY <2>1
  <2>3. /\ r[i].end \in Int /\ r[Len(r)].start \in Int
        /\ r[Len(r)].end \in Int /\ e.start \in Int
    BY <2>2, EntityFields
  <2>4. CASE i = Len(r)
    BY <2>1, <2>4
  <2>5. CASE i < Len(r)
    <3>1. r[i].end <= r[Len(r)].start
      BY <2>1, <2>5 DEF Disjoint
    <3>2. r[Len(r)].start <= r[Len(r)].end /\ r[Len(r)].end <= e.start
      BY <2>1
    <3>3. QED BY <2>3, <3>1, <3>2
  <2>6. QED BY <1>1, <2>4, <2>5
<1>3. Disjoint(u)
  <2> SUFFICES ASSUME NEW i \in 1..Len(u), NEW j \in 1..Len(u), i < j
               PROVE  u[i].end <= u[j].start
    BY DEF Disjoint
  <2>1. i \in 1..Len(r)
    BY <1>1
  <2>2. CASE j \in 1..Len(r)
    BY <1>1, <2>1, <2>2 DEF Disjoint
  <2>3. CASE j = Len(r) + 1
    BY <1>1, <1>2, <2>1, <2>3
  <2>4. QED BY <1>1, <2>2, <2>3
<1>4. QED BY <1>1, <1>3 DEF u

\* One turn of resolve_spans, in what it keeps and whom it drops.
LEMMA ResolveTurnProps ==
    ASSUME NEW r \in Seq(Entities), NEW e \in Detectable, Disjoint(r),
           \A i \in 1..Len(r) : r[i] \in Detectable /\ Precedes(r[i], e)
    PROVE  /\ ResolveInto(r, e) \in Seq(Entities)
           /\ Disjoint(ResolveInto(r, e))
           /\ \A j \in 1..Len(ResolveInto(r, e)) :
                \/ ResolveInto(r, e)[j] = e
                \/ \E i \in 1..Len(r) : ResolveInto(r, e)[j] = r[i]
           /\ \/ \E j \in 1..Len(ResolveInto(r, e)) : ResolveInto(r, e)[j] = e
              \/ \E i \in 1..Len(r) : Overlaps(e, r[i]) /\ Beats(r[i], e)
           /\ \A i \in 1..Len(r) :
                \/ \E j \in 1..Len(ResolveInto(r, e)) : ResolveInto(r, e)[j] = r[i]
                \/ Overlaps(r[i], e) /\ Beats(e, r[i])
<1> DEFINE n == Len(r)
           u == ResolveInto(r, e)
<1>1. n \in Nat /\ e \in Entities /\ \A i \in 1..n : r[i] \in Entities
  BY DetectableSpan
<1>2. /\ e.start \in Int /\ e.end \in Int /\ 0 <= e.start /\ e.start <= e.end
      /\ e.start < e.end \/ (e.start = 0 /\ e.end = 0)
  BY DetectableSpan
<1>3. \A i \in 1..n :
        /\ r[i].start \in Int /\ r[i].end \in Int /\ 0 <= r[i].start /\ r[i].start <= r[i].end
        /\ r[i].start <= e.start
        /\ r[i].start = e.start => r[i].end <= e.end
  BY <1>2, DetectableSpan DEF Precedes
<1>4. CASE r # <<>> /\ Overlaps(r[n], e)
  <2>1. n \in 1..n
    BY <1>1, <1>4, EmptySeq
  <2>2. u = [r EXCEPT ![n] = Better(r[n], e)]
    BY <1>4 DEF ResolveInto
  <2>3. Overlaps(e, r[n])
    BY <1>2, <1>3, <1>4, <2>1 DEF Overlaps
  <2>4. CASE Better(r[n], e) = r[n] /\ Beats(r[n], e)
    <3>1. u = r
      BY <2>1, <2>2, <2>4
    <3> HIDE DEF u
    <3>2. QED BY <2>1, <2>3, <2>4, <3>1 DEF u
  <2>5. CASE Better(r[n], e) = e /\ Beats(e, r[n])
    <3>1. /\ u \in Seq(Entities) /\ Len(u) = n /\ u[n] = e
          /\ \A i \in 1..n : i # n => u[i] = r[i]
      BY <1>1, <2>1, <2>2, <2>5
    <3> HIDE DEF u
    <3>2. Disjoint(u)
      <4> SUFFICES ASSUME NEW i \in 1..n, NEW j \in 1..n, i < j
                   PROVE  u[i].end <= u[j].start
        BY <3>1 DEF Disjoint
      <4>1. r[i].end <= r[j].start /\ u[i] = r[i]
        BY <1>1, <3>1 DEF Disjoint
      <4>2. CASE j # n
        BY <3>1, <4>1, <4>2
      <4>3. CASE j = n
        <5>1. r[i].end \in Int /\ r[n].start \in Int /\ r[n].start <= e.start
          BY <1>3, <2>1
        <5>2. QED BY <1>2, <3>1, <4>1, <4>3, <5>1
      <4>4. QED BY <4>2, <4>3
    <3>3. ASSUME NEW i \in 1..n
          PROVE  \/ \E j \in 1..n : u[j] = r[i]
                 \/ Overlaps(r[i], e) /\ Beats(e, r[i])
      BY <1>4, <2>5, <3>1
    <3>4. QED BY <2>1, <3>1, <3>2, <3>3 DEF u
  <2>6. QED BY <1>1, <2>1, <2>4, <2>5, BetterBeats
<1>5. CASE ~(r # <<>> /\ Overlaps(r[n], e))
  <2>1. u = Append(r, e)
    BY <1>5 DEF ResolveInto
  <2>2. r # <<>> => r[n].end <= e.start
    <3> SUFFICES ASSUME r # <<>> PROVE r[n].end <= e.start
      OBVIOUS
    <3>1. n \in 1..n
      BY <1>1, EmptySeq
    <3>2. ~(r[n].start < e.end /\ e.start < r[n].end)
      BY <1>5 DEF Overlaps
    <3>3. QED BY <1>2, <1>3, <3>1, <3>2
  <2>3. /\ u \in Seq(Entities) /\ Len(u) = n + 1 /\ u[n + 1] = e
        /\ \A i \in 1..n : u[i] = r[i]
        /\ Disjoint(u)
    BY <1>1, <1>3, <2>1, <2>2, AppendDisjoint
  <2> HIDE DEF u
  <2>4. \A i \in 1..n : i \in 1..Len(u) /\ u[i] = r[i]
    BY <1>1, <2>3
  <2>5. n + 1 \in 1..Len(u)
    BY <1>1, <2>3
  <2>6. \A j \in 1..Len(u) : u[j] = e \/ \E i \in 1..n : u[j] = r[i]
    BY <1>1, <2>3
  <2>7. QED BY <2>3, <2>4, <2>5, <2>6 DEF u
<1>6. QED BY <1>4, <1>5

LEMMA StepResolve ==
    ASSUME PipelineInv, Resolve, UNCHANGED llmVars
    PROVE  PipelineInv'
<1>1. /\ phase = "detect" /\ phase' = "resolve"
      /\ entities' = Dedup(entities) /\ todo' \in ResolveOrders(entities')
      /\ UNCHANGED <<kept, required, pieces, cursor, text>>
  BY DEF Resolve, llmVars
<1>2. /\ PipelineTypeOK /\ entities \subseteq Detectable
      /\ kept = <<>> /\ pieces = <<>> /\ cursor = 0 /\ text \in Texts
  BY <1>1 DEF PipelineInv, DetectInv, FreshInv
<1>3. entities' \subseteq entities
  BY <1>1 DEF Dedup
<1>4. /\ todo' \in Seq(entities') /\ DOMAIN todo' = 1..Len(todo')
      /\ \A i, j \in 1..Len(todo') : todo'[i] = todo'[j] => i = j
      /\ \A e \in entities' : \E i \in 1..Len(todo') : todo'[i] = e
  BY <1>1, ListingProps DEF ResolveOrders
<1>5. \A i, j \in 1..Len(todo') : i < j => Precedes(todo'[i], todo'[j])
  BY <1>1, <1>4 DEF ResolveOrders, Precedes
<1>6. \A i, j \in 1..Len(todo') : i < j => todo'[i] # todo'[j]
  BY <1>4
<1>7. PipelineTypeOK'
  <2>1. entities' \subseteq Entities
    BY <1>2, <1>3 DEF PipelineTypeOK
  <2>2. todo' \in Seq(Entities)
    BY <1>4, <2>1
  <2>3. QED BY <1>1, <1>2, <2>1, <2>2 DEF PipelineTypeOK, Phases
<1>8. ResolveInv'
  <2>1. \A j \in 1..Len(todo') : todo'[j] \in entities'
    BY <1>4
  <2>2. Len(kept') = 0
    BY <1>1, <1>2
  <2>3. \A i, j \in 1..Len(todo') :
           i < j => Precedes(todo[i], todo[j])' /\ todo'[i] # todo'[j]
    BY <1>5, <1>6 DEF Precedes
  <2>4. QED BY <1>2, <1>3, <2>1, <2>2, <2>3 DEF ResolveInv
<1>9. LostOnlyToBetter'
  <2>1. \A e \in entities' : e \in Range(todo)'
    BY <1>4 DEF Range
  <2>2. QED BY <2>1 DEF LostOnlyToBetter
<1>10. KeptDisjoint'
  BY <1>1, <1>2 DEF KeptDisjoint
<1>11. DetectInv' /\ FreshInv' /\ SelectInv' /\ LoopInv' /\ PiecesInv' /\ ReplacedInv'
       /\ MaskedExactly'
  BY <1>1, <1>2 DEF DetectInv, FreshInv, SelectInv, LoopInv, PiecesInv, ReplacedInv,
                    MaskedExactly
<1>12. QED BY <1>1, <1>2, <1>7, <1>8, <1>9, <1>10, <1>11 DEF PipelineInv

LEMMA StepResolveTurn ==
    ASSUME PipelineInv, ResolveTurn, UNCHANGED llmVars
    PROVE  PipelineInv'
<1> DEFINE e == Head(todo)
           u == ResolveInto(kept, e)
<1>1. /\ phase = "resolve" /\ phase' = "resolve" /\ todo # <<>>
      /\ kept' = u /\ todo' = Tail(todo)
      /\ UNCHANGED <<entities, required, pieces, cursor, text>>
  BY DEF ResolveTurn, llmVars
<1>2. /\ PipelineTypeOK /\ ResolveInv /\ KeptDisjoint /\ LostOnlyToBetter
      /\ pieces = <<>> /\ cursor = 0 /\ text \in Texts
  BY <1>1 DEF PipelineInv, FreshInv
<1>3. /\ kept \in Seq(Entities) /\ todo \in Seq(Entities) /\ Len(kept) \in Nat
      /\ Len(todo) \in Nat /\ entities \subseteq Detectable
      /\ \A i \in 1..Len(kept) : kept[i] \in entities
      /\ \A j \in 1..Len(todo) : todo[j] \in entities
  BY <1>1, <1>2 DEF PipelineTypeOK, ResolveInv
<1>4. /\ 1 \in 1..Len(todo) /\ e = todo[1]
      /\ Tail(todo) \in Seq(Entities) /\ Len(Tail(todo)) = Len(todo) - 1
      /\ \A j \in 1..Len(Tail(todo)) : Tail(todo)[j] = todo[j + 1] /\ j + 1 \in 1..Len(todo)
  BY <1>1, <1>3, TodoProps
<1>5. e \in entities /\ e \in Detectable
  BY <1>3, <1>4
<1>6. \A i \in 1..Len(kept) : Precedes(kept[i], e) /\ kept[i] # e /\ kept[i] \in Detectable
  BY <1>1, <1>2, <1>3, <1>4 DEF ResolveInv
<1>7. Disjoint(kept)
  BY <1>2 DEF KeptDisjoint, Disjoint
<1> HIDE DEF e
<1>8. /\ u \in Seq(Entities) /\ Disjoint(u)
      /\ \A j \in 1..Len(u) : u[j] = e \/ \E i \in 1..Len(kept) : u[j] = kept[i]
      /\ \/ \E j \in 1..Len(u) : u[j] = e
         \/ \E i \in 1..Len(kept) : Overlaps(e, kept[i]) /\ Beats(kept[i], e)
      /\ \A i \in 1..Len(kept) :
           \/ \E j \in 1..Len(u) : u[j] = kept[i]
           \/ Overlaps(kept[i], e) /\ Beats(e, kept[i])
  BY <1>3, <1>5, <1>6, <1>7, ResolveTurnProps
<1> HIDE DEF u
<1>9. PipelineTypeOK'
  BY <1>1, <1>2, <1>4, <1>8 DEF PipelineTypeOK
<1>10. ResolveInv'
  <2>1. \A i \in 1..Len(u) : u[i] \in entities
    BY <1>3, <1>5, <1>8
  <2>2. \A j \in 1..Len(Tail(todo)) : Tail(todo)[j] \in entities
    BY <1>3, <1>4
  <2>3. \A i, j \in 1..Len(Tail(todo)) :
          i < j => Precedes(Tail(todo)[i], Tail(todo)[j]) /\ Tail(todo)[i] # Tail(todo)[j]
    <3> SUFFICES ASSUME NEW i \in 1..Len(Tail(todo)), NEW j \in 1..Len(Tail(todo)), i < j
                 PROVE  Precedes(todo[i + 1], todo[j + 1]) /\ todo[i + 1] # todo[j + 1]
      BY <1>4
    <3>1. i + 1 \in 1..Len(todo) /\ j + 1 \in 1..Len(todo) /\ i + 1 < j + 1
      BY <1>3, <1>4
    <3>2. QED BY <1>1, <1>2, <3>1 DEF ResolveInv
  <2>4. \A j \in 1..Len(Tail(todo)) : Precedes(e, Tail(todo)[j]) /\ e # Tail(todo)[j]
    <3> SUFFICES ASSUME NEW j \in 1..Len(Tail(todo))
                 PROVE  Precedes(todo[1], todo[j + 1]) /\ todo[1] # todo[j + 1]
      BY <1>4
    <3>1. j + 1 \in 1..Len(todo) /\ 1 < j + 1 /\ 1 \in 1..Len(todo)
      BY <1>3, <1>4
    <3>2. QED BY <1>1, <1>2, <3>1 DEF ResolveInv
  <2>5. \A i \in 1..Len(kept), j \in 1..Len(Tail(todo)) :
          Precedes(kept[i], Tail(todo)[j]) /\ kept[i] # Tail(todo)[j]
    BY <1>1, <1>2, <1>4 DEF ResolveInv
  <2>6. \A i \in 1..Len(u), j \in 1..Len(Tail(todo)) :
          Precedes(u[i], Tail(todo)[j]) /\ u[i] # Tail(todo)[j]
    BY <1>8, <2>4, <2>5
  <2>7. QED BY <1>1, <1>3, <2>1, <2>2, <2>3, <2>6 DEF ResolveInv, Precedes
<1>11. LostOnlyToBetter'
  <2> DEFINE Lost(f) == \E g \in entities \ {f} : Overlaps(f, g) /\ Beats(g, f)
             rest == Tail(todo)
  <2>1. ASSUME NEW f \in entities
        PROVE  \/ \E j \in 1..Len(u) : u[j] = f
               \/ \E j \in 1..Len(rest) : rest[j] = f
               \/ Lost(f)
    <3>1. \/ \E i \in 1..Len(kept) : f = kept[i]
          \/ \E j \in 1..Len(todo) : f = todo[j]
          \/ Lost(f)
      BY <1>1, <1>2, <1>3, Elements DEF LostOnlyToBetter
    <3>2. ASSUME NEW i \in 1..Len(kept), f = kept[i]
          PROVE  (\E j \in 1..Len(u) : u[j] = f) \/ Lost(f)
      BY <1>5, <1>6, <1>8, <3>2
    <3>3. CASE f = e
      BY <1>3, <1>6, <1>8, <3>3
    <3>4. ASSUME NEW j \in 1..Len(todo), f = todo[j], f # e
          PROVE  \E i \in 1..Len(rest) : rest[i] = f
      <4>1. j # 1 /\ j - 1 \in 1..(Len(todo) - 1)
        BY <1>3, <1>4, <3>4
      <4>2. j - 1 \in 1..Len(rest) /\ rest[j - 1] = todo[(j - 1) + 1] /\ (j - 1) + 1 = j
        BY <1>3, <1>4, <4>1
      <4>3. QED BY <3>4, <4>2
    <3> HIDE DEF Lost, rest
    <3>5. QED BY <3>1, <3>2, <3>3, <3>4
  <2>2. \A f \in entities : f \in Range(u) \cup Range(rest) \/ Lost(f)
    <3>1. u \in Seq(Entities) /\ rest \in Seq(Entities)
      BY <1>4, <1>8
    <3> HIDE DEF Lost, rest
    <3>2. /\ Range(u) = {u[i] : i \in 1..Len(u)}
          /\ Range(rest) = {rest[i] : i \in 1..Len(rest)}
      BY <3>1, Elements
    <3>3. QED BY <2>1, <3>2
  <2>3. QED BY <1>1, <2>2 DEF LostOnlyToBetter, Overlaps, Beats, Length
<1>12. KeptDisjoint'
  BY <1>1, <1>8 DEF KeptDisjoint, Disjoint
<1>13. DetectInv' /\ FreshInv' /\ SelectInv' /\ LoopInv' /\ PiecesInv' /\ ReplacedInv'
       /\ MaskedExactly'
  BY <1>1, <1>2 DEF DetectInv, FreshInv, SelectInv, LoopInv, PiecesInv, ReplacedInv,
                    MaskedExactly
<1>14. QED BY <1>1, <1>2, <1>9, <1>10, <1>11, <1>12, <1>13 DEF PipelineInv

LEMMA StepSelect ==
    ASSUME PipelineInv, Select, UNCHANGED llmVars
    PROVE  PipelineInv'
<1>1. /\ phase \in {"resolve", "call"} /\ phase' = "select"
      /\ entities' = Filtered \/ entities' = entities
      /\ todo' \in SelectOrders(entities') /\ kept' = <<>>
      /\ UNCHANGED <<required, pieces, cursor, text>>
  BY DEF Select, llmVars
<1>2. PipelineTypeOK /\ pieces = <<>> /\ cursor = 0 /\ text \in Texts
  BY <1>1 DEF PipelineInv, FreshInv
<1>3. entities' \subseteq Entities
  BY <1>1, <1>2, Elements DEF PipelineTypeOK, Filtered
<1>4. todo' \in Seq({e \in entities' : Valid(e)})
  BY <1>1, ListingProps DEF SelectOrders
<1>5. todo' \in Seq(Entities) /\ \A j \in 1..Len(todo') : Valid(todo'[j])
  BY <1>3, <1>4
<1>6. PipelineTypeOK'
  BY <1>1, <1>2, <1>3, <1>5 DEF PipelineTypeOK, Phases
<1>7. SelectInv'
  BY <1>1, <1>5 DEF SelectInv, Valid
<1>8. KeptDisjoint'
  BY <1>1 DEF KeptDisjoint
<1>9. DetectInv' /\ FreshInv' /\ ResolveInv' /\ LoopInv' /\ PiecesInv' /\ ReplacedInv'
      /\ LostOnlyToBetter' /\ MaskedExactly'
  BY <1>1, <1>2 DEF DetectInv, FreshInv, ResolveInv, LoopInv, PiecesInv, ReplacedInv,
                    LostOnlyToBetter, MaskedExactly
<1>10. QED BY <1>1, <1>2, <1>6, <1>7, <1>8, <1>9 DEF PipelineInv

LEMMA StepSelectTurn ==
    ASSUME PipelineInv, SelectTurn, UNCHANGED llmVars
    PROVE  PipelineInv'
<1> DEFINE e == Head(todo)
           u == SelectInto(kept, e)
<1>1. /\ phase = "select" /\ phase' = "select" /\ todo # <<>>
      /\ kept' = u /\ todo' = Tail(todo)
      /\ UNCHANGED <<entities, required, pieces, cursor, text>>
  BY DEF SelectTurn, llmVars
<1>2. /\ PipelineTypeOK /\ KeptDisjoint /\ pieces = <<>> /\ cursor = 0 /\ text \in Texts
      /\ \A j \in 1..Len(todo) : Valid(todo[j])
      /\ \A i \in 1..Len(kept) : Valid(kept[i])
  BY <1>1 DEF PipelineInv, FreshInv, SelectInv
<1>3. kept \in Seq(Entities) /\ todo \in Seq(Entities) /\ Len(kept) \in Nat
  BY <1>2 DEF PipelineTypeOK
<1>4. /\ e \in Entities /\ Valid(e)
      /\ Tail(todo) \in Seq(Entities)
      /\ \A j \in 1..Len(Tail(todo)) : Valid(Tail(todo)[j])
  BY <1>1, <1>2, <1>3, TodoProps
<1>5. Disjoint(kept)
  BY <1>2 DEF KeptDisjoint, Disjoint
<1> HIDE DEF e
<1>6. u \in Seq(Entities) /\ Disjoint(u) /\ \A i \in 1..Len(u) : Valid(u[i])
  <2>1. CASE u = kept
    BY <1>2, <1>3, <1>5, <2>1
  <2>2. CASE u = Append(kept, e) /\ (kept # <<>> => ~(e.start < kept[Len(kept)].end))
    <3>1. \A i \in 1..Len(kept) : kept[i].start <= kept[i].end /\ kept[i].end \in Int
      <4>1. \A i \in 1..Len(kept) : kept[i] \in Entities
        BY <1>3
      <4>2. QED BY <1>2, <4>1, ValidSpan
    <3>2. kept # <<>> => kept[Len(kept)].end <= e.start
      <4> SUFFICES ASSUME kept # <<>> PROVE kept[Len(kept)].end <= e.start
        OBVIOUS
      <4>1. Len(kept) \in 1..Len(kept)
        BY <1>3, EmptySeq
      <4>2. e.start \in Int
        BY <1>4, EntityFields
      <4>3. QED BY <2>2, <3>1, <4>1, <4>2
    <3>3. /\ u \in Seq(Entities) /\ Len(u) = Len(kept) + 1 /\ u[Len(kept) + 1] = e
          /\ \A i \in 1..Len(kept) : u[i] = kept[i]
          /\ Disjoint(u)
      BY <1>3, <1>4, <1>5, <2>2, <3>1, <3>2, AppendDisjoint
    <3> HIDE DEF u
    <3>4. \A i \in 1..Len(u) : i \in 1..Len(kept) \/ i = Len(kept) + 1
      BY <1>3, <3>3
    <3>5. QED BY <1>2, <1>4, <3>3, <3>4
  <2>3. QED BY <2>1, <2>2 DEF SelectInto
<1> HIDE DEF u
<1>7. PipelineTypeOK'
  BY <1>1, <1>2, <1>4, <1>6 DEF PipelineTypeOK
<1>8. SelectInv'
  BY <1>1, <1>4, <1>6 DEF SelectInv, Valid
<1>9. KeptDisjoint'
  BY <1>1, <1>6 DEF KeptDisjoint, Disjoint
<1>10. DetectInv' /\ FreshInv' /\ ResolveInv' /\ LoopInv' /\ PiecesInv' /\ ReplacedInv'
       /\ LostOnlyToBetter' /\ MaskedExactly'
  BY <1>1, <1>2 DEF DetectInv, FreshInv, ResolveInv, LoopInv, PiecesInv, ReplacedInv,
                    LostOnlyToBetter, MaskedExactly
<1>11. QED BY <1>1, <1>2, <1>7, <1>8, <1>9, <1>10 DEF PipelineInv

\* Rules that are not skipped ask for known types only.
LEMMA ContextRulesType ==
    ASSUME NEW rules \in RuleLists
    PROVE  ResolveContextRules(rules) \in [Types -> SUBSET Types]
<1> SUFFICES ASSUME NEW t \in Types
             PROVE  ResolveContextRules(rules)[t] \in SUBSET Types
  BY DEF ResolveContextRules
<1> DEFINE mine == {i \in DOMAIN rules : rules[i].type = t /\ Usable(rules[i])}
           last == CHOOSE i \in mine : \A j \in mine : j <= i
<1>1. ResolveContextRules(rules)[t] =
        IF mine = {} \/ ~rules[last].enabled THEN {} ELSE rules[last].requires
  BY DEF ResolveContextRules
<1>2. DOMAIN rules = 1..Len(rules) /\ Len(rules) \in Nat
  BY PipelineConstants
<1>3. CASE mine # {}
  <2>1. mine \in SUBSET (0..Len(rules))
    BY <1>2
  <2> HIDE DEF mine
  <2>2. \E i \in mine : \A j \in mine : j <= i
    BY <1>2, <1>3, <2>1, LastOf
  <2>3. last \in mine
    BY <2>2
  <2> HIDE DEF last
  <2>4. Usable(rules[last])
    BY <2>3 DEF mine
  <2>5. rules[last].enabled => rules[last].requires \subseteq Types
    BY <2>4 DEF Usable
  <2>6. QED BY <1>1, <2>5
<1>4. QED BY <1>1, <1>3

LEMMA StepMask ==
    ASSUME PipelineInv, Mask, UNCHANGED llmVars
    PROVE  PipelineInv'
<1>1. /\ phase = "select" /\ phase' = "mask" /\ todo' = kept
      /\ UNCHANGED <<entities, kept, pieces, cursor, text>>
  BY DEF Mask, llmVars
<1>2. /\ PipelineTypeOK /\ KeptDisjoint /\ pieces = <<>> /\ cursor = 0 /\ text \in Texts
      /\ \A i \in 1..Len(kept) : Valid(kept[i])
  BY <1>1 DEF PipelineInv, FreshInv, SelectInv
<1>3. kept \in Seq(Entities) /\ Len(kept) \in Nat
  BY <1>2 DEF PipelineTypeOK
<1>4. required' \in [Types -> SUBSET Types]
  BY ContextRulesType DEF Mask
<1>5. PipelineTypeOK'
  BY <1>1, <1>2, <1>3, <1>4 DEF PipelineTypeOK, Phases
<1>6. SelectInv'
  BY <1>1, <1>2 DEF SelectInv, Valid
<1>7. LoopInv'
  <2>1. \A j \in 1..Len(kept) : 0 <= kept[j].start
    BY <1>2 DEF Valid
  <2>2. Turns' = 0
    BY <1>1, <1>3 DEF Turns
  <2>3. QED BY <1>1, <1>2, <1>3, <2>1, <2>2 DEF LoopInv
<1>8. PiecesInv'
  BY <1>1, <1>2 DEF PiecesInv
<1>9. ReplacedInv'
  <2>1. Turns' = 0 /\ Len(pieces') = 0
    BY <1>1, <1>2, <1>3 DEF Turns
  <2>2. QED BY <1>1, <2>1 DEF ReplacedInv
<1>10. KeptDisjoint'
  BY <1>1, <1>2 DEF KeptDisjoint
<1>11. DetectInv' /\ FreshInv' /\ ResolveInv' /\ LostOnlyToBetter' /\ MaskedExactly'
  BY <1>1 DEF DetectInv, FreshInv, ResolveInv, LostOnlyToBetter, MaskedExactly
<1>12. QED BY <1>1, <1>2, <1>5, <1>6, <1>7, <1>8, <1>9, <1>10, <1>11 DEF PipelineInv

\* A turn of mask() that replaces its span, in the pieces it leaves.
LEMMA PiecesGrow ==
    ASSUME NEW ps \in Seq(Pieces), NEW c \in 0..TextLen, NEW e \in Entities, Valid(e),
           c <= e.start,
           ps = <<>> => c = 0,
           ps # <<>> => ps[1].from = 0 /\ ps[Len(ps)].to = c,
           \A i \in 1..(Len(ps) - 1) : ps[i].to = ps[i + 1].from,
           \A i \in 1..Len(ps) : ps[i].from <= ps[i].to
    PROVE  LET qs == ps \o <<Copied(c, e.start), Replaced(e)>>
           IN  /\ qs \in Seq(Pieces) /\ Len(qs) = Len(ps) + 2
               /\ qs[1].from = 0 /\ qs[Len(qs)].to = e.end
               /\ \A i \in 1..(Len(qs) - 1) : qs[i].to = qs[i + 1].from
               /\ \A i \in 1..Len(qs) : qs[i].from <= qs[i].to
               /\ \A i \in 1..Len(ps) : qs[i] = ps[i]
               /\ qs[Len(ps) + 1].masked = FALSE /\ qs[Len(ps) + 2] = Replaced(e)
<1> DEFINE a == Copied(c, e.start)
           b == Replaced(e)
           n == Len(ps)
           qs == ps \o <<a, b>>
<1>1. TextLen \in Nat /\ e.start \in Int /\ e.end \in Int /\ e.start <= e.end /\ c \in Int
  BY SpanConstants, ValidSpan
<1>2. /\ a \in Pieces /\ a.from = c /\ a.to = e.start /\ a.masked = FALSE
      /\ b \in Pieces /\ b.from = e.start /\ b.to = e.end
  BY <1>1 DEF Pieces, Copied, Replaced
<1> HIDE DEF a, b
<1>3. /\ n \in Nat /\ qs \in Seq(Pieces) /\ Len(qs) = n + 2
      /\ \A i \in 1..n : qs[i] = ps[i]
      /\ qs[n + 1] = a /\ qs[n + 2] = b
  BY <1>2
<1> HIDE DEF qs
<1>4. qs[1].from = 0
  <2>1. CASE ps = <<>>
    BY <1>2, <1>3, <2>1
  <2>2. CASE ps # <<>>
    <3>1. 1 \in 1..n
      BY <1>3, <2>2, EmptySeq
    <3>2. QED BY <1>3, <2>2, <3>1
  <2>3. QED BY <2>1, <2>2
<1>5. \A i \in 1..(Len(qs) - 1) : qs[i].to = qs[i + 1].from
  <2> SUFFICES ASSUME NEW i \in 1..(n + 1) PROVE qs[i].to = qs[i + 1].from
    BY <1>3
  <2>1. CASE i \in 1..(n - 1)
    <3>1. i \in 1..n /\ i + 1 \in 1..n
      BY <1>3, <2>1
    <3>2. QED BY <1>3, <2>1, <3>1
  <2>2. CASE i = n
    <3>1. n \in 1..n /\ ps # <<>>
      BY <1>3, <2>2
    <3>2. ps[n].to = c /\ qs[n] = ps[n]
      BY <1>3, <3>1
    <3>3. QED BY <1>2, <1>3, <2>2, <3>2
  <2>3. CASE i = n + 1
    <3>1. qs[i] = a /\ qs[i + 1] = b
      BY <1>3, <2>3
    <3>2. QED BY <1>2, <3>1
  <2>4. QED BY <1>3, <2>1, <2>2, <2>3
<1>6. \A i \in 1..Len(qs) : qs[i].from <= qs[i].to
  <2> SUFFICES ASSUME NEW i \in 1..(n + 2) PROVE qs[i].from <= qs[i].to
    BY <1>3
  <2>1. CASE i \in 1..n
    BY <1>3, <2>1
  <2>2. CASE i = n + 1
    BY <1>2, <1>3, <2>2
  <2>3. CASE i = n + 2
    BY <1>1, <1>2, <1>3, <2>3
  <2>4. QED BY <1>3, <2>1, <2>2, <2>3
<1>7. qs[Len(qs)].to = e.end
  BY <1>2, <1>3
<1>8. QED BY <1>2, <1>3, <1>4, <1>5, <1>6, <1>7 DEF qs, a, b

LEMMA StepMaskTurn ==
    ASSUME PipelineInv, MaskTurn, UNCHANGED llmVars
    PROVE  PipelineInv'
<1> DEFINE e == Head(todo)
           n == Len(pieces)
           T == Turns
<1>1. /\ phase = "mask" /\ phase' = "mask" /\ todo # <<>>
      /\ todo' = Tail(todo)
      /\ UNCHANGED <<entities, kept, required, text>>
      /\ \/ /\ ContextAllows(e) /\ cursor' = e.end
            /\ pieces' = pieces \o <<Copied(cursor, e.start), Replaced(e)>>
         \/ ~ContextAllows(e) /\ cursor' = cursor /\ pieces' = pieces
  BY DEF MaskTurn, llmVars
<1>2. /\ PipelineTypeOK /\ KeptDisjoint /\ text \in Texts
      /\ \A i \in 1..Len(kept) : Valid(kept[i])
      /\ LoopInv /\ PiecesInv /\ ReplacedInv
  BY <1>1 DEF PipelineInv, SelectInv
<1>3. /\ kept \in Seq(Entities) /\ todo \in Seq(Entities) /\ pieces \in Seq(Pieces)
      /\ Len(kept) \in Nat /\ n \in Nat /\ cursor \in 0..TextLen /\ TextLen \in Nat
  BY <1>2, SpanConstants DEF PipelineTypeOK
<1>4. /\ Len(todo) \in Nat /\ 1 \in 1..Len(todo) /\ e = todo[1] /\ e \in Entities
      /\ Tail(todo) \in Seq(Entities) /\ Len(Tail(todo)) = Len(todo) - 1
      /\ \A j \in 1..Len(Tail(todo)) : Tail(todo)[j] = todo[j + 1] /\ j + 1 \in 1..Len(todo)
  BY <1>1, <1>3, TodoProps
<1>5. /\ Len(todo) <= Len(kept)
      /\ \A j \in 1..Len(todo) : todo[j] = kept[T + j] /\ cursor <= todo[j].start
  BY <1>1, <1>2 DEF LoopInv
<1>6. /\ T \in Nat /\ T + 1 \in 1..Len(kept)
      /\ Turns' = T + 1
      /\ \A j \in 1..Len(todo) : T + j \in 1..Len(kept)
  BY <1>1, <1>3, <1>4, <1>5 DEF Turns
<1>7. e = kept[T + 1] /\ Valid(e) /\ cursor <= e.start
  BY <1>2, <1>4, <1>5, <1>6
<1>8. /\ e.start \in Int /\ e.end \in Int /\ 0 <= e.start /\ e.start < e.end
      /\ e.end <= TextLen
  BY <1>4, <1>7, ValidSpan
<1>9. /\ pieces = <<>> => cursor = 0
      /\ pieces # <<>> => pieces[1].from = 0 /\ pieces[n].to = cursor
      /\ \A i \in 1..(n - 1) : pieces[i].to = pieces[i + 1].from
      /\ \A i \in 1..n : pieces[i].from <= pieces[i].to
  BY <1>1, <1>2 DEF PiecesInv
<1>10. /\ \A i \in 1..n : pieces[i].masked =>
             \E j \in 1..T : ContextAllows(kept[j]) /\ pieces[i] = Replaced(kept[j])
       /\ \A j \in 1..T : ContextAllows(kept[j]) =>
             \E i \in 1..n : pieces[i] = Replaced(kept[j])
  BY <1>1, <1>2 DEF ReplacedInv
<1>11. \A f : ContextAllows(f)' <=> ContextAllows(f)
  BY <1>1 DEF ContextAllows
<1> HIDE DEF e, n, T
<1>12. LoopInv'
  <2>1. ASSUME NEW j \in 1..Len(Tail(todo))
        PROVE  Tail(todo)[j] = kept[(T + 1) + j] /\ cursor' <= Tail(todo)[j].start
    <3>1. /\ j + 1 \in 1..Len(todo) /\ T + (j + 1) = (T + 1) + j
          /\ Tail(todo)[j] = kept[(T + 1) + j] /\ cursor <= Tail(todo)[j].start
      BY <1>4, <1>5, <1>6
    <3>2. (T + 1) + j \in 1..Len(kept) /\ T + 1 < (T + 1) + j
      BY <1>4, <1>6, <3>1
    <3>3. e.end <= kept[(T + 1) + j].start
      BY <1>2, <1>6, <1>7, <3>2 DEF KeptDisjoint
    <3>4. QED BY <1>1, <3>1, <3>3
  <2>2. Len(Tail(todo)) <= Len(kept)
    BY <1>3, <1>4, <1>5
  <2>3. QED BY <1>1, <1>6, <2>1, <2>2 DEF LoopInv
<1>13. CASE ContextAllows(e)
  <2> DEFINE qs == pieces \o <<Copied(cursor, e.start), Replaced(e)>>
  <2>1. pieces' = qs /\ cursor' = e.end
    BY <1>1, <1>13
  <2>2. /\ qs \in Seq(Pieces) /\ Len(qs) = n + 2
        /\ qs[1].from = 0 /\ qs[Len(qs)].to = e.end
        /\ \A i \in 1..(Len(qs) - 1) : qs[i].to = qs[i + 1].from
        /\ \A i \in 1..Len(qs) : qs[i].from <= qs[i].to
        /\ \A i \in 1..n : qs[i] = pieces[i]
        /\ qs[n + 1].masked = FALSE /\ qs[n + 2] = Replaced(e)
    BY <1>3, <1>4, <1>7, <1>9, PiecesGrow DEF n
  <2> HIDE DEF qs
  <2>3. PipelineTypeOK'
    <3>1. cursor' \in 0..TextLen
      BY <1>3, <1>8, <2>1
    <3>2. QED BY <1>1, <1>2, <1>4, <2>1, <2>2, <3>1 DEF PipelineTypeOK
  <2>4. PiecesInv'
    <3>1. qs # <<>>
      BY <1>3, <2>2
    <3>2. QED BY <2>1, <2>2, <3>1 DEF PiecesInv
  <2>5. ReplacedInv'
    <3>1. ASSUME NEW i \in 1..(n + 2), qs[i].masked
          PROVE  \E j \in 1..(T + 1) : ContextAllows(kept[j]) /\ qs[i] = Replaced(kept[j])
      <4>1. CASE i \in 1..n
        <5>1. PICK j \in 1..T : ContextAllows(kept[j]) /\ pieces[i] = Replaced(kept[j])
          BY <1>10, <2>2, <3>1, <4>1
        <5>2. j \in 1..(T + 1)
          BY <1>6
        <5>3. QED BY <2>2, <4>1, <5>1, <5>2
      <4>2. CASE i = n + 2
        <5>1. T + 1 \in 1..(T + 1)
          BY <1>6
        <5>2. QED BY <1>7, <1>13, <2>2, <4>2, <5>1
      <4>3. i = n + 1 => FALSE
        BY <2>2, <3>1
      <4>4. QED BY <1>3, <4>1, <4>2, <4>3
    <3>2. ASSUME NEW j \in 1..(T + 1), ContextAllows(kept[j])
          PROVE  \E i \in 1..(n + 2) : qs[i] = Replaced(kept[j])
      <4>1. CASE j \in 1..T
        <5>1. PICK i \in 1..n : pieces[i] = Replaced(kept[j])
          BY <1>10, <3>2, <4>1
        <5>2. i \in 1..(n + 2)
          BY <1>3
        <5>3. QED BY <2>2, <5>1, <5>2
      <4>2. CASE j = T + 1
        <5>1. n + 2 \in 1..(n + 2)
          BY <1>3
        <5>2. QED BY <1>7, <2>2, <4>2, <5>1
      <4>3. QED BY <1>6, <4>1, <4>2
    <3>3. /\ phase' # "done" /\ kept' = kept /\ Len(pieces') = n + 2 /\ pieces' = qs
          /\ Turns' = T + 1
      BY <1>1, <1>6, <2>1, <2>2
    <3>4. \A f : Replaced(f)' = Replaced(f)
      BY DEF Replaced
    <3>5. QED BY <1>11, <3>1, <3>2, <3>3, <3>4 DEF ReplacedInv
  <2>6. QED BY <2>3, <2>4, <2>5, <1>12, <1>1, <1>2
    DEF PipelineInv, KeptDisjoint, SelectInv, Valid, DetectInv, FreshInv, ResolveInv,
        LostOnlyToBetter, MaskedExactly
<1>14. CASE ~ContextAllows(e)
  <2>1. pieces' = pieces /\ cursor' = cursor
    BY <1>1, <1>14
  <2>2. PipelineTypeOK'
    BY <1>1, <1>2, <1>4, <2>1 DEF PipelineTypeOK
  <2>3. PiecesInv'
    BY <1>1, <1>2, <2>1 DEF PiecesInv
  <2>4. ReplacedInv'
    <3>1. ASSUME NEW j \in 1..(T + 1), ContextAllows(kept[j])
          PROVE  j \in 1..T
      BY <1>6, <1>7, <1>14, <3>1
    <3>2. \A j \in 1..T : j \in 1..(T + 1)
      BY <1>6
    <3>3. QED BY <1>1, <1>6, <1>10, <1>11, <2>1, <3>1, <3>2 DEF ReplacedInv, Replaced, n
  <2>5. QED BY <2>2, <2>3, <2>4, <1>12, <1>1, <1>2
    DEF PipelineInv, KeptDisjoint, SelectInv, Valid, DetectInv, FreshInv, ResolveInv,
        LostOnlyToBetter, MaskedExactly
<1>15. QED BY <1>13, <1>14

LEMMA StepJoin ==
    ASSUME PipelineInv, Join, UNCHANGED llmVars
    PROVE  PipelineInv'
<1> DEFINE n == Len(pieces)
           c == Copied(cursor, TextLen)
           T == Len(kept)
<1>1. /\ phase = "mask" /\ phase' = "done" /\ todo = <<>>
      /\ pieces' = Append(pieces, c)
      /\ UNCHANGED <<entities, todo, kept, required, cursor, text>>
  BY DEF Join, llmVars
<1>2. /\ PipelineTypeOK /\ KeptDisjoint /\ text \in Texts
      /\ \A i \in 1..Len(kept) : Valid(kept[i])
      /\ PiecesInv /\ ReplacedInv
  BY <1>1 DEF PipelineInv, SelectInv
<1>3. /\ kept \in Seq(Entities) /\ pieces \in Seq(Pieces)
      /\ T \in Nat /\ n \in Nat /\ cursor \in 0..TextLen /\ TextLen \in Nat
  BY <1>2, SpanConstants DEF PipelineTypeOK
<1>4. Turns = T /\ Turns' = T
  BY <1>1, <1>3 DEF Turns
<1>5. c \in Pieces /\ c.from = cursor /\ c.to = TextLen /\ c.masked = FALSE
  BY <1>3 DEF Copied, Pieces
<1>6. /\ pieces = <<>> => cursor = 0
      /\ pieces # <<>> => pieces[1].from = 0 /\ pieces[n].to = cursor
      /\ \A i \in 1..(n - 1) : pieces[i].to = pieces[i + 1].from
      /\ \A i \in 1..n : pieces[i].from <= pieces[i].to
  BY <1>1, <1>2 DEF PiecesInv
<1>7. /\ \A i \in 1..n : pieces[i].masked =>
            \E j \in 1..T : ContextAllows(kept[j]) /\ pieces[i] = Replaced(kept[j])
      /\ \A j \in 1..T : ContextAllows(kept[j]) =>
            \E i \in 1..n : pieces[i] = Replaced(kept[j])
  BY <1>1, <1>2, <1>4 DEF ReplacedInv
<1>8. \A f : ContextAllows(f)' <=> ContextAllows(f)
  BY <1>1 DEF ContextAllows
<1> DEFINE qs == Append(pieces, c)
<1> HIDE DEF c
<1>9. /\ qs \in Seq(Pieces) /\ Len(qs) = n + 1 /\ qs[n + 1] = c
      /\ \A i \in 1..n : qs[i] = pieces[i]
  BY <1>3, <1>5
<1> HIDE DEF qs, n, T
<1>10. \A i \in 1..(n + 1) : i \in 1..n \/ i = n + 1
  BY <1>3
<1>11. /\ \A i \in 1..(n + 1) : qs[i].masked =>
             \E j \in 1..T : ContextAllows(kept[j]) /\ qs[i] = Replaced(kept[j])
       /\ \A j \in 1..T : ContextAllows(kept[j]) =>
             \E i \in 1..(n + 1) : qs[i] = Replaced(kept[j])
  <2>1. \A i \in 1..(n + 1) : qs[i].masked =>
             \E j \in 1..T : ContextAllows(kept[j]) /\ qs[i] = Replaced(kept[j])
    BY <1>5, <1>7, <1>9, <1>10
  <2>2. \A i \in 1..n : i \in 1..(n + 1)
    BY <1>3
  <2>3. QED BY <1>7, <1>9, <2>1, <2>2
<1>12. PipelineTypeOK'
  BY <1>1, <1>2, <1>9 DEF PipelineTypeOK, Phases, qs
<1>13. ReplacedInv'
  BY <1>1, <1>4, <1>8, <1>9, <1>11 DEF ReplacedInv, Replaced, qs
<1>14. /\ qs[1].from = 0
       /\ \A i \in 1..n : qs[i].to = qs[i + 1].from
       /\ qs[n + 1].to = TextLen
       /\ \A i \in 1..(n + 1) : qs[i].from <= qs[i].to
  <2>1. qs[1].from = 0
    <3>1. CASE pieces = <<>>
      BY <1>5, <1>6, <1>9, <3>1 DEF n
    <3>2. CASE pieces # <<>>
      <4>1. 1 \in 1..n
        BY <1>3, <3>2, EmptySeq DEF n
      <4>2. QED BY <1>6, <1>9, <3>2, <4>1
    <3>3. QED BY <3>1, <3>2
  <2>2. ASSUME NEW i \in 1..n PROVE qs[i].to = qs[i + 1].from
    <3>1. CASE i = n
      <4>1. pieces # <<>>
        BY <1>3 DEF n
      <4>2. QED BY <1>5, <1>6, <1>9, <3>1, <4>1
    <3>2. CASE i # n
      <4>1. i \in 1..(n - 1) /\ i + 1 \in 1..n
        BY <1>3, <3>2
      <4>2. QED BY <1>6, <1>9, <4>1
    <3>3. QED BY <3>1, <3>2
  <2>3. \A i \in 1..(n + 1) : qs[i].from <= qs[i].to
    BY <1>3, <1>5, <1>6, <1>9, <1>10
  <2>4. QED BY <1>5, <1>9, <2>1, <2>2, <2>3
<1>15. Positions({e \in Range(kept) : ContextAllows(e)}) =
         {p \in 0..(TextLen - 1) : \E i \in 1..(n + 1) :
             qs[i].masked /\ qs[i].from <= p /\ p < qs[i].to}
  <2>1. Range(kept) = {kept[j] : j \in 1..T}
    BY <1>3, Elements DEF T
  <2>2. ASSUME NEW p \in 0..(TextLen - 1), NEW f \in Range(kept), ContextAllows(f),
               f.start <= p, p < f.end
        PROVE  \E i \in 1..(n + 1) : qs[i].masked /\ qs[i].from <= p /\ p < qs[i].to
    <3>1. PICK j \in 1..T : f = kept[j]
      BY <2>1
    <3>2. PICK i \in 1..(n + 1) : qs[i] = Replaced(f)
      BY <1>11, <2>2, <3>1
    <3>3. QED BY <2>2, <3>2 DEF Replaced
  <2>3. ASSUME NEW p \in 0..(TextLen - 1), NEW i \in 1..(n + 1),
               qs[i].masked, qs[i].from <= p, p < qs[i].to
        PROVE  \E f \in Range(kept) : ContextAllows(f) /\ f.start <= p /\ p < f.end
    <3>1. PICK j \in 1..T : ContextAllows(kept[j]) /\ qs[i] = Replaced(kept[j])
      BY <1>11, <2>3
    <3>2. kept[j] \in Range(kept)
      BY <2>1
    <3>3. QED BY <2>3, <3>1, <3>2 DEF Replaced
  <2>4. QED BY <2>2, <2>3 DEF Positions
<1>16. MaskedExactly'
  <2>1. (Positions({e \in Range(kept) : ContextAllows(e)}))' =
          Positions({e \in Range(kept) : ContextAllows(e)})
    BY <1>1, <1>8 DEF Positions
  <2>2. Len(qs) = n + 1 /\ Len(qs) - 1 = n
    BY <1>3, <1>9
  <2>3. pieces' = qs
    BY <1>1 DEF qs
  <2>4. /\ pieces'[1].from = 0
        /\ \A i \in 1..(Len(pieces') - 1) : pieces'[i].to = pieces'[i + 1].from
        /\ pieces'[Len(pieces')].to = TextLen
        /\ \A i \in 1..Len(pieces') : pieces'[i].from <= pieces'[i].to
    BY <1>14, <2>2, <2>3
  <2>5. (Positions({e \in Range(kept) : ContextAllows(e)}))' =
          {p \in 0..(TextLen - 1) : \E i \in 1..Len(pieces') :
             pieces'[i].masked /\ pieces'[i].from <= p /\ p < pieces'[i].to}
    BY <1>15, <2>1, <2>2, <2>3
  <2>6. QED BY <2>4, <2>5, Zenon DEF MaskedExactly
<1>17. QED BY <1>1, <1>2, <1>12, <1>13, <1>16
  DEF PipelineInv, KeptDisjoint, SelectInv, Valid, DetectInv, FreshInv, ResolveInv,
      LoopInv, PiecesInv, LostOnlyToBetter

-----------------------------------------------------------------------------
(* The theorems.                                                           *)

\* The stages after the mask, and stuttering, leave the pipeline alone.
LEMMA StepStutters ==
    ASSUME PipelineInv, UNCHANGED <<vars, text>>
    PROVE  PipelineInv'
<1>1. /\ phase' = phase /\ entities' = entities /\ todo' = todo /\ kept' = kept
      /\ required' = required /\ pieces' = pieces /\ cursor' = cursor /\ text' = text
  BY DEF vars
<1>2. PipelineTypeOK' /\ DetectInv' /\ FreshInv' /\ text' \in Texts
  BY <1>1 DEF PipelineInv, PipelineTypeOK, DetectInv, MatchesSurvive, FreshInv
<1>3. ResolveInv' /\ SelectInv' /\ KeptDisjoint' /\ LostOnlyToBetter'
  BY <1>1 DEF PipelineInv, ResolveInv, SelectInv, KeptDisjoint, LostOnlyToBetter
<1>4. LoopInv' /\ PiecesInv'
  BY <1>1 DEF PipelineInv, LoopInv, Turns, PiecesInv
<1>5. ReplacedInv'
  BY <1>1 DEF PipelineInv, ReplacedInv, Turns, ContextAllows
<1>6. MaskedExactly'
  BY <1>1 DEF PipelineInv, MaskedExactly, Positions, ContextAllows
<1>7. QED BY <1>2, <1>3, <1>4, <1>5, <1>6 DEF PipelineInv

\* Nothing is detected yet, or a caller is about to pass its entities.
LEMMA PipelineInitInv == SecureInit => PipelineInv
<1> SUFFICES ASSUME SecureInit PROVE PipelineInv
  OBVIOUS
<1>1. /\ phase \in {"detect", "call"} /\ entities = {} /\ todo = <<>> /\ kept = <<>>
      /\ required = [t \in Types |-> {}] /\ pieces = <<>> /\ cursor = 0 /\ text \in Texts
  BY DEF SecureInit, Init
<1>2. PipelineTypeOK
  <2>1. TextLen \in Nat
    BY SpanConstants
  <2>2. QED BY <1>1, <2>1 DEF PipelineTypeOK, Phases
<1>3. DetectInv /\ FreshInv /\ ResolveInv /\ LoopInv /\ PiecesInv /\ ReplacedInv
  BY <1>1 DEF DetectInv, MatchesSurvive, FreshInv, ResolveInv, LoopInv, PiecesInv, ReplacedInv
<1>4. SelectInv /\ KeptDisjoint /\ LostOnlyToBetter /\ MaskedExactly
  BY <1>1 DEF SelectInv, KeptDisjoint, LostOnlyToBetter, MaskedExactly
<1>5. QED BY <1>1, <1>2, <1>3, <1>4 DEF PipelineInv

\* Every action of the pipeline, and every stage around it.
LEMMA PipelineNextInv ==
    ASSUME PipelineInv, [SecureNext]_<<vars, llmVars>>
    PROVE  PipelineInv'
<1>1. ASSUME NEW t \in Types, NEW a \in 0..TextLen, NEW b \in 0..TextLen,
             DetectMatch(t, a, b)
      PROVE  PipelineInv'
  BY <1>1, StepDetectMatch
<1>2. ASSUME Next, UNCHANGED llmVars PROVE PipelineInv'
  <2>1. ASSUME NEW e \in Found, Detect(e) PROVE PipelineInv'
    BY <1>2, <2>1, StepDetect
  <2>2. ASSUME NEW e \in Given, Give(e) PROVE PipelineInv'
    BY <1>2, <2>2, StepGive
  <2>3. CASE Resolve
    BY <1>2, <2>3, StepResolve
  <2>4. CASE ResolveTurn
    BY <1>2, <2>4, StepResolveTurn
  <2>5. CASE Select
    BY <1>2, <2>5, StepSelect
  <2>6. CASE SelectTurn
    BY <1>2, <2>6, StepSelectTurn
  <2>7. CASE Mask
    BY <1>2, <2>7, StepMask
  <2>8. CASE MaskTurn
    BY <1>2, <2>8, StepMaskTurn
  <2>9. CASE Join
    BY <1>2, <2>9, StepJoin
  <2>10. CASE Done
    BY <1>2, <2>10, StepStutters DEF Done, llmVars
  <2>11. QED BY <1>2, <2>1, <2>2, <2>3, <2>4, <2>5, <2>6, <2>7, <2>8, <2>9, <2>10 DEF Next
<1>3. CASE Generate
  BY <1>3, StepStutters DEF Generate
<1>4. CASE RestoreTurn
  BY <1>4, StepStutters DEF RestoreTurn
<1>5. CASE Return
  BY <1>5, StepStutters DEF Return
<1>6. CASE UNCHANGED <<vars, llmVars>>
  BY <1>6, StepStutters DEF llmVars
<1>7. QED BY <1>1, <1>2, <1>3, <1>4, <1>5, <1>6 DEF SecureNext

\* The loops of resolve_spans, _select_spans and mask() keep the inductive
\* invariant, whatever the detectors find and in whatever order the sort
\* leaves equal entities.
THEOREM PipelineInvariance == SecureSpec => []PipelineInv
<1>1. SecureInit => PipelineInv
  BY PipelineInitInv
<1>2. PipelineInv /\ [SecureNext]_<<vars, llmVars>> => PipelineInv'
  BY PipelineNextInv
<1>3. QED BY <1>1, <1>2, PTL DEF SecureSpec

\* The entities, the spans kept, the rules in force and the pieces of the mask
\* have their types in every stage of MaskingEngine.mask, and the cursor never
\* leaves the text.
THEOREM PipelineTypeCorrect == SecureSpec => []PipelineTypeOK
<1>1. PipelineInv => PipelineTypeOK
  BY DEF PipelineInv
<1>2. QED BY <1>1, PipelineInvariance, PTL

\* resolve_spans and _select_spans compare an entity with the last one kept
\* only, and resolution may replace that one: no two entities they keep
\* overlap all the same (resolution.py:55).
THEOREM SpansDisjoint == SecureSpec => []KeptDisjoint
<1>1. PipelineInv => KeptDisjoint
  BY DEF PipelineInv
<1>2. QED BY <1>1, PipelineInvariance, PTL

\* An entity resolve_spans drops overlaps one that is preferred to it by type,
\* confidence and length, whatever becomes of that one later.
THEOREM LosersBeaten == SecureSpec => []LostOnlyToBetter
<1>1. PipelineInv => LostOnlyToBetter
  BY DEF PipelineInv
<1>2. QED BY <1>1, PipelineInvariance, PTL

\* The mask MaskingEngine.mask joins is the whole text in order, no character
\* lost or repeated, with exactly the selected spans replaced that the context
\* rules allow.
THEOREM MaskExact == SecureSpec => []MaskedExactly
<1>1. PipelineInv => MaskedExactly
  BY DEF PipelineInv
<1>2. QED BY <1>1, PipelineInvariance, PTL

\* What RegexDetector.detect reports after stripping and trimming a match is a
\* part of the text that is not empty and is its value: mask() drops none of
\* them, for any text, type and match.
THEOREM MatchesAllSurvive == SecureSpec => []MatchesSurvive
<1>1. PipelineInv => MatchesSurvive
  BY DEF PipelineInv, DetectInv, MatchesSurvive
<1>2. QED BY <1>1, PipelineInvariance, PTL

-----------------------------------------------------------------------------
(* Rewriting.                                                              *)

\* Induction over the naturals.
LEMMA AllNaturals ==
    ASSUME NEW G \in SUBSET Nat, 0 \in G, \A n \in G : n + 1 \in G
    PROVE  G = Nat
<1> DEFINE B == Nat \ G
           R == OpToRel(<, Nat)
<1>1. SUFFICES ASSUME B # {} PROVE FALSE
  OBVIOUS
<1>2. PICK m \in B : \A k \in B : ~(<<k, m>> \in R)
  <2>1. B \subseteq Nat
    OBVIOUS
  <2> HIDE DEF B
  <2>2. QED BY <1>1, <2>1, NatLessThanWellFounded, WFMin
<1>3. m \in Nat /\ m # 0 /\ m - 1 \in Nat /\ m - 1 < m
  OBVIOUS
<1>4. m - 1 \in G
  BY <1>2, <1>3 DEF OpToRel
<1>5. (m - 1) + 1 \in G /\ (m - 1) + 1 = m
  BY <1>3, <1>4
<1>6. QED BY <1>5

\* Texts of any length.
Strings == Seq(STRING)

\* Texts may be joined in any grouping.
LEMMA StringsAssociative ==
    ASSUME NEW a \in Strings, NEW b \in Strings, NEW c \in Strings
    PROVE  (a \o b) \o c = a \o (b \o c)
BY ConcatAssociative DEF Strings

\* One turn of the recursion of Rewrite.
RewriteTurn(pairs, f, r) ==
    LET pair == CHOOSE p \in Begun(pairs, r) : TRUE
    IN  CASE r = <<>> -> <<>>
          [] r # <<>> /\ Begun(pairs, r) # {} ->
                 pair[2] \o f[SubSeq(r, Len(pair[1]) + 1, Len(r))]
          [] OTHER -> <<Head(r)>> \o f[Tail(r)]

\* The function of that recursion.
Rewriting(pairs) == CHOOSE f : f = [r \in Seq(STRING) |-> RewriteTurn(pairs, f, r)]

\* Rewrite applies the function its recursion defines.
LEMMA RewriteUnfolded ==
    ASSUME NEW pairs, NEW s
    PROVE  Rewrite(pairs, s) = Rewriting(pairs)[s]
BY DEF Rewrite, Rewriting, RewriteTurn

\* What TOKENIZE makes of a set of values: each stands for a token of two
\* characters, the first of A and the second of B, and holds neither.
TokenPairs(P, A, B) ==
    /\ A \subseteq STRING /\ B \subseteq STRING /\ A \cap B = {}
    /\ \A p \in P : /\ p[1] \in Strings /\ Len(p[1]) = 2 /\ p[1][1] \in A /\ p[1][2] \in B
                    /\ p[2] \in Strings /\ p[2] # <<>>
                    /\ \A i \in 1..Len(p[2]) : p[2][i] \notin A \cup B
    /\ \A p, q \in P : p[1] = q[1] => p = q

\* The rest of a text after a turn.
RestOf(P, r) ==
    IF Begun(P, r) # {}
    THEN SubSeq(r, Len((CHOOSE p \in Begun(P, r) : TRUE)[1]) + 1, Len(r))
    ELSE Tail(r)

\* What a turn writes.
Lead(P, r) ==
    IF Begun(P, r) # {} THEN (CHOOSE p \in Begun(P, r) : TRUE)[2] ELSE <<Head(r)>>

\* A turn writes its lead and goes on with the rest.
LEMMA TurnIs ==
    ASSUME NEW P, NEW f, NEW r
    PROVE  RewriteTurn(P, f, r) = IF r = <<>> THEN <<>> ELSE Lead(P, r) \o f[RestOf(P, r)]
BY DEF RewriteTurn, Lead, RestOf

\* A text of one character.
LEMMA OneCharacter ==
    ASSUME NEW S, NEW c \in S
    PROVE  <<c>> \in Seq(S) /\ Len(<<c>>) = 1 /\ <<c>>[1] = c
OBVIOUS

\* A character before two texts.
LEMMA CharacterAssociative ==
    ASSUME NEW c \in STRING, NEW z \in Strings, NEW w \in Strings
    PROVE  (<<c>> \o z) \o w = <<c>> \o (z \o w)
<1> DEFINE d == <<c>>
<1>1. d \in Strings
  BY OneCharacter DEF Strings
<1> HIDE DEF d
<1>2. (d \o z) \o w = d \o (z \o w)
  BY <1>1, StringsAssociative
<1>3. QED BY <1>2 DEF d

\* The head of a text is its first character.
LEMMA FirstIsHead ==
    ASSUME NEW S, NEW r \in Seq(S), r # <<>>
    PROVE  Head(r) = r[1]
OBVIOUS

\* The characters of a text after its first n.
LEMMA SuffixProps ==
    ASSUME NEW S, NEW r \in Seq(S), NEW n \in 0..Len(r)
    PROVE  /\ SubSeq(r, n + 1, Len(r)) \in Seq(S)
           /\ Len(SubSeq(r, n + 1, Len(r))) = Len(r) - n
           /\ \A i \in 1..(Len(r) - n) : SubSeq(r, n + 1, Len(r))[i] = r[n + i]
<1>1. Len(r) \in Nat /\ n \in Nat /\ n <= Len(r) /\ n + 1 \in Int /\ Len(r) \in Int
  OBVIOUS
<1>2. \A i \in (n + 1)..Len(r) : r[i] \in S
  BY <1>1, ElementOfSeq
<1>3. /\ SubSeq(r, n + 1, Len(r)) \in Seq(S)
      /\ Len(SubSeq(r, n + 1, Len(r))) = IF n + 1 <= Len(r) THEN Len(r) - (n + 1) + 1 ELSE 0
      /\ \A i \in 1..(Len(r) - (n + 1) + 1) : SubSeq(r, n + 1, Len(r))[i] = r[n + 1 + i - 1]
  BY <1>1, <1>2, SubSeqProperties
<1>4. Len(SubSeq(r, n + 1, Len(r))) = Len(r) - n
  BY <1>1, <1>3
<1>5. ASSUME NEW i \in 1..(Len(r) - n) PROVE SubSeq(r, n + 1, Len(r))[i] = r[n + i]
  <2>1. i \in 1..(Len(r) - (n + 1) + 1) /\ n + 1 + i - 1 = n + i
    BY <1>1
  <2>2. QED BY <1>3, <2>1
<1>6. QED BY <1>3, <1>4, <1>5

\* A turn leaves a shorter text.
LEMMA TurnProps ==
    ASSUME NEW P, NEW A, NEW B, TokenPairs(P, A, B), NEW r \in Strings, r # <<>>
    PROVE  Lead(P, r) \in Strings /\ RestOf(P, r) \in Strings /\ Len(RestOf(P, r)) < Len(r)
<1>1. Len(r) \in Nat /\ Len(r) >= 1
  BY EmptySeq DEF Strings
<1>2. CASE Begun(P, r) = {}
  BY <1>1, <1>2 DEF Lead, RestOf, Strings
<1>3. CASE Begun(P, r) # {}
  <2> DEFINE p == CHOOSE p \in Begun(P, r) : TRUE
  <2>1. p \in Begun(P, r)
    BY <1>3
  <2>2. p \in P /\ IsPrefix(p[1], r)
    BY <2>1 DEF Begun
  <2>3. Len(p[1]) = 2 /\ p[2] \in Strings
    BY <2>2 DEF TokenPairs
  <2>4. Len(r) >= 2
    BY <2>2, <2>3 DEF IsPrefix
  <2> HIDE DEF p
  <2>5. SubSeq(r, 3, Len(r)) \in Strings /\ Len(SubSeq(r, 3, Len(r))) = Len(r) - 2
    <3>1. 2 \in 0..Len(r) /\ 2 + 1 = 3
      BY <1>1, <2>4
    <3>2. QED BY <3>1, SuffixProps DEF Strings
  <2>6. Lead(P, r) = p[2] /\ RestOf(P, r) = SubSeq(r, Len(p[1]) + 1, Len(r))
    BY <1>3, Zenon DEF Lead, RestOf, p
  <2>7. Len(p[1]) + 1 = 3
    BY <2>3
  <2>8. QED BY <1>1, <2>3, <2>5, <2>6, <2>7
<1>4. QED BY <1>2, <1>3

\* The recursion has a solution.
LEMMA RewritingExists ==
    ASSUME NEW P, NEW A, NEW B, TokenPairs(P, A, B)
    PROVE  /\ Rewriting(P) \in [Strings -> Strings]
           /\ \A r \in Strings : Rewriting(P)[r] = RewriteTurn(P, Rewriting(P), r)
<1> DEFINE Good(f, n) == /\ f \in [Strings -> Strings]
                         /\ \A r \in Strings : Len(r) <= n => f[r] = RewriteTurn(P, f, r)
           N == {n \in Nat : \E f : Good(f, n)}
<1>1. ASSUME NEW f, NEW g, NEW r \in Strings, r # <<>> => f[RestOf(P, r)] = g[RestOf(P, r)]
      PROVE  RewriteTurn(P, f, r) = RewriteTurn(P, g, r)
  BY <1>1, TurnIs
<1>2. ASSUME NEW f \in [Strings -> Strings], NEW r \in Strings
      PROVE  RewriteTurn(P, f, r) \in Strings
  <2>1. CASE r = <<>>
    BY <2>1, TurnIs DEF Strings
  <2>2. CASE r # <<>>
    <3>1. Lead(P, r) \in Strings /\ f[RestOf(P, r)] \in Strings
      BY <2>2, TurnProps
    <3>2. Lead(P, r) \o f[RestOf(P, r)] \in Strings
      BY <3>1, ConcatProperties DEF Strings
    <3>3. QED BY <2>2, <3>2, TurnIs
  <2>3. QED BY <2>1, <2>2
<1>3. \A r \in Strings : Len(r) \in Nat /\ (Len(r) = 0 => r = <<>>)
  BY EmptySeq DEF Strings
<1>4. \A r \in Strings : r # <<>> => RestOf(P, r) \in Strings /\ Len(RestOf(P, r)) < Len(r)
  BY TurnProps
<1>5. 0 \in N
  <2> DEFINE f == [r \in Strings |-> <<>>]
  <2>1. f \in [Strings -> Strings]
    BY DEF Strings
  <2>2. ASSUME NEW r \in Strings, Len(r) <= 0 PROVE f[r] = RewriteTurn(P, f, r)
    <3>1. r = <<>>
      BY <1>3, <2>2
    <3>2. QED BY <3>1, TurnIs
  <2>3. Good(f, 0)
    BY <2>1, <2>2
  <2>4. QED BY <2>3
<1>6. ASSUME NEW n \in N PROVE n + 1 \in N
  <2>1. n \in Nat
    OBVIOUS
  <2>2. PICK f : Good(f, n)
    OBVIOUS
  <2> DEFINE h == [r \in Strings |-> RewriteTurn(P, f, r)]
  <2>3. h \in [Strings -> Strings]
    BY <1>2, <2>2
  <2>4. ASSUME NEW r \in Strings, Len(r) <= n + 1 PROVE h[r] = RewriteTurn(P, h, r)
    <3>1. ASSUME r # <<>> PROVE f[RestOf(P, r)] = h[RestOf(P, r)]
      <4>1. RestOf(P, r) \in Strings /\ Len(RestOf(P, r)) <= n
        BY <1>3, <1>4, <2>1, <2>4, <3>1
      <4>2. f[RestOf(P, r)] = RewriteTurn(P, f, RestOf(P, r))
        BY <2>2, <4>1
      <4>3. QED BY <4>1, <4>2
    <3>2. h[r] = RewriteTurn(P, f, r)
      OBVIOUS
    <3> HIDE DEF h
    <3>3. RewriteTurn(P, f, r) = RewriteTurn(P, h, r)
      BY <1>1, <3>1
    <3>4. QED BY <3>2, <3>3
  <2> HIDE DEF h
  <2>5. Good(h, n + 1)
    BY <2>3, <2>4
  <2>6. QED BY <2>1, <2>5
<1>7. N = Nat
  <2>1. N \in SUBSET Nat
    OBVIOUS
  <2> HIDE DEF N
  <2>2. QED BY <1>5, <1>6, <2>1, AllNaturals
<1>8. ASSUME NEW f, NEW g, NEW m \in Nat, NEW n \in Nat, Good(f, m), Good(g, n),
             NEW s \in Strings, Len(s) <= m, Len(s) <= n
      PROVE  f[s] = g[s]
  <2> DEFINE K == {k \in Nat : \A r \in Strings : Len(r) <= k /\ k <= m /\ k <= n => f[r] = g[r]}
  <2>1. 0 \in K
    <3>1. ASSUME NEW r \in Strings, Len(r) <= 0 PROVE f[r] = g[r]
      <4>1. r = <<>> /\ Len(r) <= m /\ Len(r) <= n
        BY <1>3, <3>1
      <4>2. f[r] = RewriteTurn(P, f, r) /\ g[r] = RewriteTurn(P, g, r)
        BY <1>8, <4>1
      <4>3. QED BY <4>1, <4>2, TurnIs
    <3>2. QED BY <3>1
  <2>2. ASSUME NEW k \in K PROVE k + 1 \in K
    <3>1. ASSUME NEW r \in Strings, Len(r) <= k + 1, k + 1 <= m, k + 1 <= n PROVE f[r] = g[r]
      <4>1. k \in Nat /\ k <= m /\ k <= n /\ Len(r) \in Nat /\ Len(r) <= m /\ Len(r) <= n
        BY <1>3, <3>1
      <4>2. f[r] = RewriteTurn(P, f, r) /\ g[r] = RewriteTurn(P, g, r)
        BY <1>8, <4>1
      <4>3. ASSUME r # <<>> PROVE f[RestOf(P, r)] = g[RestOf(P, r)]
        <5>1. RestOf(P, r) \in Strings /\ Len(RestOf(P, r)) <= k
          BY <1>3, <1>4, <3>1, <4>1, <4>3
        <5>2. QED BY <4>1, <5>1
      <4>4. RewriteTurn(P, f, r) = RewriteTurn(P, g, r)
        BY <1>1, <4>3
      <4>5. QED BY <4>2, <4>4
    <3>2. QED BY <3>1
  <2>3. K = Nat
    <3>1. K \in SUBSET Nat
      OBVIOUS
    <3> HIDE DEF K
    <3>2. QED BY <2>1, <2>2, <3>1, AllNaturals
  <2>4. Len(s) \in K
    BY <1>3, <2>3
  <2>5. QED BY <1>3, <1>8, <2>4
<1> DEFINE At(n) == CHOOSE f : Good(f, n)
           F == [r \in Strings |-> At(Len(r))[r]]
<1>9. \A n \in Nat : Good(At(n), n)
  <2> HIDE DEF Good
  <2>1. QED BY <1>7
<1> HIDE DEF At
<1>10. F \in [Strings -> Strings]
  BY <1>3, <1>9
<1>11. ASSUME NEW r \in Strings PROVE F[r] = RewriteTurn(P, F, r)
  <2>1. Len(r) \in Nat /\ Good(At(Len(r)), Len(r))
    BY <1>3, <1>9
  <2>2. At(Len(r))[r] = RewriteTurn(P, At(Len(r)), r)
    BY <2>1
  <2>3. ASSUME r # <<>> PROVE At(Len(r))[RestOf(P, r)] = F[RestOf(P, r)]
    <3> DEFINE q == RestOf(P, r)
    <3>1. q \in Strings /\ Len(q) \in Nat /\ Len(q) <= Len(r)
      BY <1>3, <1>4, <2>1, <2>3
    <3> HIDE DEF q
    <3>2. Good(At(Len(q)), Len(q)) /\ Len(q) <= Len(q)
      BY <1>9, <3>1
    <3>3. At(Len(r))[q] = At(Len(q))[q]
      <4> HIDE DEF Good
      <4>1. QED BY <1>8, <2>1, <3>1, <3>2
    <3>4. F[q] = At(Len(q))[q]
      BY <3>1
    <3>5. QED BY <3>3, <3>4 DEF q
  <2>4. F[r] = At(Len(r))[r]
    OBVIOUS
  <2> HIDE DEF F
  <2>5. RewriteTurn(P, At(Len(r)), r) = RewriteTurn(P, F, r)
    BY <1>1, <2>3
  <2>6. QED BY <2>2, <2>4, <2>5
<1> HIDE DEF F
<1>12. F = [r \in Seq(STRING) |-> RewriteTurn(P, F, r)]
  BY <1>10, <1>11 DEF Strings
<1>13. Rewriting(P) = [r \in Seq(STRING) |-> RewriteTurn(P, Rewriting(P), r)]
  BY <1>12 DEF Rewriting
<1>14. \A r \in Strings : Rewriting(P)[r] = RewriteTurn(P, Rewriting(P), r)
  BY <1>13 DEF Strings
<1>15. DOMAIN Rewriting(P) = Strings
  BY <1>13 DEF Strings
<1> DEFINE K == {n \in Nat : \A r \in Strings : Len(r) <= n => Rewriting(P)[r] \in Strings}
<1>16. 0 \in K
  <2>1. ASSUME NEW r \in Strings, Len(r) <= 0 PROVE Rewriting(P)[r] \in Strings
    <3>1. r = <<>>
      BY <1>3, <2>1
    <3>2. RewriteTurn(P, Rewriting(P), r) = <<>>
      BY <3>1, TurnIs
    <3>3. <<>> \in Strings
      BY DEF Strings
    <3>4. QED BY <1>14, <3>2, <3>3
  <2>2. QED BY <2>1
<1>17. ASSUME NEW n \in K PROVE n + 1 \in K
  <2>1. ASSUME NEW r \in Strings, Len(r) <= n + 1, r # <<>> PROVE Rewriting(P)[r] \in Strings
    <3>1. /\ Lead(P, r) \in Strings /\ RestOf(P, r) \in Strings /\ Len(RestOf(P, r)) <= n
          /\ n \in Nat
      BY <1>3, <2>1, TurnProps
    <3>2. Rewriting(P)[RestOf(P, r)] \in Strings
      BY <3>1
    <3>3. Lead(P, r) \o Rewriting(P)[RestOf(P, r)] \in Strings
      BY <3>1, <3>2, ConcatProperties DEF Strings
    <3>4. QED BY <1>14, <2>1, <3>3, TurnIs
  <2>2. ASSUME NEW r \in Strings, r = <<>> PROVE Rewriting(P)[r] \in Strings
    <3>1. RewriteTurn(P, Rewriting(P), r) = <<>>
      BY <2>2, TurnIs
    <3>2. <<>> \in Strings
      BY DEF Strings
    <3>3. QED BY <1>14, <3>1, <3>2
  <2>3. QED BY <2>1, <2>2
<1>18. K = Nat
  <2>1. K \in SUBSET Nat
    OBVIOUS
  <2> HIDE DEF K
  <2>2. QED BY <1>16, <1>17, <2>1, AllNaturals
<1>19. \A r \in Strings : Rewriting(P)[r] \in Strings
  BY <1>3, <1>18
<1>20. QED
  <2>1. Rewriting(P) = [r \in Strings |-> Rewriting(P)[r]]
    BY <1>13 DEF Strings
  <2>2. QED BY <1>14, <1>19, <2>1

\* A token at the beginning of a text is one of P exactly when its two characters are.
LEMMA PrefixToken ==
    ASSUME NEW P, NEW A, NEW B, TokenPairs(P, A, B), NEW p \in P, NEW r \in Strings
    PROVE  IsPrefix(p[1], r) <=> Len(r) >= 2 /\ r[1] = p[1][1] /\ r[2] = p[1][2]
<1> DEFINE a == p[1]
<1>1. a \in Strings /\ Len(a) = 2 /\ Len(r) \in Nat
  BY DEF TokenPairs, Strings
<1> HIDE DEF a
<1>2. SubSeq(a, 1, 2) \in Strings /\ Len(SubSeq(a, 1, 2)) = 2
      /\ SubSeq(a, 1, 2)[1] = a[1] /\ SubSeq(a, 1, 2)[2] = a[2]
  <2>1. 2 \in 0..Len(a) /\ a \in Seq(STRING)
    BY <1>1 DEF Strings
  <2>2. /\ SubSeq(a, 1, 2) \in Seq(STRING) /\ Len(SubSeq(a, 1, 2)) = 2
        /\ \A i \in 1..2 : SubSeq(a, 1, 2)[i] = a[i]
    BY <2>1, PrefixProps
  <2>3. QED BY <2>2 DEF Strings
<1>3. ASSUME Len(r) >= 2
      PROVE  /\ SubSeq(r, 1, 2) \in Strings /\ Len(SubSeq(r, 1, 2)) = 2
             /\ SubSeq(r, 1, 2)[1] = r[1] /\ SubSeq(r, 1, 2)[2] = r[2]
  <2>1. 2 \in 0..Len(r)
    BY <1>1, <1>3
  <2>2. QED BY <2>1, PrefixProps DEF Strings
<1>4. ASSUME Len(r) >= 2, r[1] = a[1], r[2] = a[2] PROVE SubSeq(a, 1, 2) = SubSeq(r, 1, 2)
  <2>1. \A i \in 1..2 : i = 1 \/ i = 2
    OBVIOUS
  <2>2. \A i \in 1..2 : SubSeq(a, 1, 2)[i] = SubSeq(r, 1, 2)[i]
    BY <1>2, <1>3, <1>4, <2>1
  <2>3. QED BY <1>2, <1>3, <1>4, <2>2, SeqEqual DEF Strings
<1>5. IsPrefix(a, r) <=> Len(r) >= 2 /\ SubSeq(a, 1, 2) = SubSeq(r, 1, 2)
  BY <1>1 DEF IsPrefix
<1>6. QED BY <1>2, <1>3, <1>4, <1>5 DEF a

\* A text that begins with a token of P: the token's value comes first.
LEMMA RewriteToken ==
    ASSUME NEW P, NEW A, NEW B, TokenPairs(P, A, B), NEW p \in P, NEW u \in Strings
    PROVE  Rewrite(P, p[1] \o u) = p[2] \o Rewrite(P, u)
<1> DEFINE r == p[1] \o u
<1>1. p[1] \in Strings /\ Len(p[1]) = 2 /\ u \in Strings /\ Len(u) \in Nat
  BY DEF TokenPairs, Strings
<1>2. /\ r \in Strings /\ Len(r) = 2 + Len(u)
      /\ \A i \in 1..(2 + Len(u)) : r[i] = IF i <= 2 THEN p[1][i] ELSE u[i - 2]
  <2>1. p[1] \in Seq(STRING) /\ u \in Seq(STRING)
    BY <1>1 DEF Strings
  <2>2. /\ p[1] \o u \in Seq(STRING) /\ Len(p[1] \o u) = Len(p[1]) + Len(u)
        /\ \A i \in 1..(Len(p[1]) + Len(u)) :
              (p[1] \o u)[i] = IF i <= Len(p[1]) THEN p[1][i] ELSE u[i - Len(p[1])]
    BY <2>1, ConcatProperties
  <2>3. QED BY <1>1, <2>2 DEF Strings
<1>3. r[1] = p[1][1] /\ r[2] = p[1][2] /\ Len(r) >= 2 /\ r # <<>>
  BY <1>1, <1>2
<1> HIDE DEF r
<1>4. Begun(P, r) = {p}
  <2>1. p \in Begun(P, r)
    BY <1>2, <1>3, PrefixToken DEF Begun
  <2>2. ASSUME NEW q \in Begun(P, r) PROVE q = p
    <3>1. q \in P /\ r[1] = q[1][1] /\ r[2] = q[1][2]
      BY <1>2, PrefixToken DEF Begun
    <3>2. q[1] \in Strings /\ Len(q[1]) = 2
      BY <3>1 DEF TokenPairs
    <3>3. \A i \in 1..2 : i = 1 \/ i = 2
      OBVIOUS
    <3>4. \A i \in 1..2 : q[1][i] = p[1][i]
      BY <1>3, <3>1, <3>3
    <3>5. q[1] = p[1]
      BY <1>1, <3>2, <3>4, SeqEqual DEF Strings
    <3>6. QED BY <3>1, <3>5 DEF TokenPairs
  <2>3. QED BY <2>1, <2>2
<1>5. (CHOOSE q \in Begun(P, r) : TRUE) = p
  BY <1>4
<1>6. Lead(P, r) = p[2] /\ RestOf(P, r) = SubSeq(r, Len(p[1]) + 1, Len(r))
  BY <1>4, <1>5, Zenon DEF Lead, RestOf
<1>7. SubSeq(r, Len(p[1]) + 1, Len(r)) = u
  <2>1. 2 \in 0..Len(r) /\ Len(p[1]) + 1 = 2 + 1 /\ Len(r) - 2 = Len(u)
    BY <1>1, <1>2
  <2>2. /\ SubSeq(r, 2 + 1, Len(r)) \in Strings /\ Len(SubSeq(r, 2 + 1, Len(r))) = Len(u)
        /\ \A i \in 1..Len(u) : SubSeq(r, 2 + 1, Len(r))[i] = r[2 + i]
    BY <1>2, <2>1, SuffixProps DEF Strings
  <2>3. \A i \in 1..Len(u) : r[2 + i] = u[i]
    BY <1>1, <1>2
  <2>4. SubSeq(r, 2 + 1, Len(r)) = u
    BY <1>1, <2>2, <2>3, SeqEqual DEF Strings
  <2>5. QED BY <2>1, <2>4
<1>8. Rewriting(P)[r] = p[2] \o Rewriting(P)[u]
  <2>1. Rewriting(P)[r] = RewriteTurn(P, Rewriting(P), r)
    BY <1>2, RewritingExists
  <2>2. RewriteTurn(P, Rewriting(P), r) = Lead(P, r) \o Rewriting(P)[RestOf(P, r)]
    BY <1>3, TurnIs
  <2>3. QED BY <1>6, <1>7, <2>1, <2>2
<1>9. QED BY <1>8, RewriteUnfolded DEF r

\* A character no token of P begins with: it stays.
LEMMA RewriteCharacter ==
    ASSUME NEW P, NEW A, NEW B, TokenPairs(P, A, B), NEW c \in STRING, NEW u \in Strings,
           \A p \in P : ~(c = p[1][1] /\ u # <<>> /\ u[1] = p[1][2])
    PROVE  Rewrite(P, <<c>> \o u) = <<c>> \o Rewrite(P, u)
<1> DEFINE r == <<c>> \o u
<1>1. <<c>> \in Strings /\ Len(<<c>>) = 1 /\ <<c>>[1] = c /\ Len(u) \in Nat
      /\ (Len(u) >= 1 => u # <<>>)
  <2>1. <<c>> \in Seq(STRING) /\ Len(<<c>>) = 1 /\ <<c>>[1] = c
    BY OneCharacter
  <2>2. Len(u) \in Nat /\ (Len(u) >= 1 => u # <<>>)
    BY DEF Strings
  <2>3. QED BY <2>1, <2>2 DEF Strings
<1>2. /\ r \in Strings /\ Len(r) = 1 + Len(u)
      /\ \A i \in 1..(1 + Len(u)) : r[i] = IF i <= 1 THEN <<c>>[i] ELSE u[i - 1]
  <2> DEFINE d == <<c>>
  <2>1. d \in Seq(STRING) /\ u \in Seq(STRING) /\ Len(d) = 1
    BY <1>1 DEF Strings
  <2> HIDE DEF d
  <2>2. /\ d \o u \in Seq(STRING) /\ Len(d \o u) = Len(d) + Len(u)
        /\ \A i \in 1..(Len(d) + Len(u)) :
              (d \o u)[i] = IF i <= Len(d) THEN d[i] ELSE u[i - Len(d)]
    BY <2>1, ConcatProperties
  <2>3. QED BY <2>1, <2>2 DEF d, Strings
<1>3. r[1] = c /\ r # <<>> /\ (Len(r) >= 2 => u # <<>> /\ r[2] = u[1])
  BY <1>1, <1>2
<1> HIDE DEF r
<1>4. Begun(P, r) = {}
  <2>1. ASSUME NEW p \in Begun(P, r) PROVE FALSE
    <3>1. p \in P /\ Len(r) >= 2 /\ r[1] = p[1][1] /\ r[2] = p[1][2]
      BY <1>2, PrefixToken DEF Begun
    <3>2. QED BY <1>3, <3>1
  <2>2. QED BY <2>1
<1>5. Lead(P, r) = <<Head(r)>> /\ RestOf(P, r) = Tail(r)
  BY <1>4 DEF Lead, RestOf
<1>6. Head(r) = c
  BY <1>2, <1>3, FirstIsHead DEF Strings
<1>7. Tail(r) = u
  <2>1. /\ Tail(r) \in Strings /\ Len(Tail(r)) = Len(u)
        /\ \A i \in 1..Len(u) : Tail(r)[i] = r[i + 1]
    BY <1>1, <1>2, <1>3, HeadTailProperties DEF Strings
  <2>2. \A i \in 1..Len(u) : r[i + 1] = u[i]
    BY <1>1, <1>2
  <2>3. QED BY <2>1, <2>2, SeqEqual DEF Strings
<1>8. Rewriting(P)[r] = <<c>> \o Rewriting(P)[u]
  <2>1. Rewriting(P)[r] = RewriteTurn(P, Rewriting(P), r)
    BY <1>2, RewritingExists
  <2>2. RewriteTurn(P, Rewriting(P), r) = Lead(P, r) \o Rewriting(P)[RestOf(P, r)]
    BY <1>3, TurnIs
  <2>3. QED BY <1>5, <1>6, <1>7, <2>1, <2>2
<1>9. QED BY <1>8, RewriteUnfolded DEF r

\* The empty text stays, and texts become texts.
LEMMA RewriteType ==
    ASSUME NEW P, NEW A, NEW B, TokenPairs(P, A, B)
    PROVE  /\ Rewrite(P, <<>>) = <<>>
           /\ \A s \in Strings : Rewrite(P, s) \in Strings
<1>1. <<>> \in Strings
  BY DEF Strings
<1>2. Rewriting(P)[<<>>] = <<>>
  BY <1>1, RewritingExists, TurnIs
<1>3. QED BY <1>2, RewritingExists, RewriteUnfolded

\* A text that is not empty is its first character and the rest.
LEMMA ConsProps ==
    ASSUME NEW S, NEW r \in Seq(S), r # <<>>
    PROVE  /\ r[1] \in S /\ Tail(r) \in Seq(S) /\ Len(Tail(r)) = Len(r) - 1 /\ Len(r) \in Nat
           /\ r = <<r[1]>> \o Tail(r)
           /\ \A i \in 1..Len(Tail(r)) : Tail(r)[i] = r[i + 1] /\ i + 1 \in 1..Len(r)
           /\ 1 \in 1..Len(r)
<1>1. /\ Len(r) \in Nat /\ Tail(r) \in Seq(S) /\ Len(Tail(r)) = Len(r) - 1 /\ 1 \in 1..Len(r)
      /\ \A i \in 1..Len(Tail(r)) : Tail(r)[i] = r[i + 1]
  BY HeadTailProperties, EmptySeq
<1>2. r[1] \in S
  BY <1>1, ElementOfSeq
<1> DEFINE t == <<r[1]>> \o Tail(r)
<1>3. <<r[1]>> \in Seq(S) /\ Len(<<r[1]>>) = 1 /\ <<r[1]>>[1] = r[1]
  BY <1>2, OneCharacter
<1>4. /\ t \in Seq(S) /\ Len(t) = 1 + Len(Tail(r))
      /\ \A i \in 1..(1 + Len(Tail(r))) : t[i] = IF i <= 1 THEN <<r[1]>>[i] ELSE Tail(r)[i - 1]
  BY <1>1, <1>3, ConcatProperties
<1> HIDE DEF t
<1>5. Len(t) = Len(r)
  BY <1>1, <1>4
<1>6. ASSUME NEW i \in 1..Len(t) PROVE t[i] = r[i]
  <2>1. CASE i = 1
    BY <1>1, <1>3, <1>4, <1>5, <2>1
  <2>2. CASE i # 1
    <3>1. i - 1 \in 1..Len(Tail(r)) /\ i \in 1..(1 + Len(Tail(r))) /\ ~(i <= 1)
          /\ (i - 1) + 1 = i
      BY <1>1, <1>5, <2>2
    <3>2. QED BY <1>1, <1>4, <3>1
  <2>3. QED BY <2>1, <2>2
<1>7. t = r
  BY <1>4, <1>5, <1>6, SeqEqual
<1>8. \A i \in 1..Len(Tail(r)) : i + 1 \in 1..Len(r)
  BY <1>1
<1>9. QED BY <1>1, <1>2, <1>7, <1>8 DEF t

\* A text without beginnings of tokens stays, whatever follows it.
LEMMA RewritePlain ==
    ASSUME NEW P, NEW A, NEW B, TokenPairs(P, A, B), NEW x \in Strings, NEW u \in Strings,
           \A i \in 1..Len(x) : x[i] \notin A
    PROVE  Rewrite(P, x \o u) = x \o Rewrite(P, u)
<1> DEFINE Plain(y) == \A i \in 1..Len(y) : y[i] \notin A
           N == {n \in Nat : \A y \in Strings : Len(y) = n /\ Plain(y) =>
                                 Rewrite(P, y \o u) = y \o Rewrite(P, u)}
<1>1. \A y \in Strings : Len(y) \in Nat /\ (Len(y) = 0 => y = <<>>)
  BY EmptySeq DEF Strings
<1>2. Rewrite(P, u) \in Strings
  BY RewriteType
<1>3. 0 \in N
  <2>1. <<>> \o u = u /\ <<>> \o Rewrite(P, u) = Rewrite(P, u)
    BY <1>2, ConcatEmptySeq DEF Strings
  <2>2. QED BY <1>1, <2>1
<1>4. ASSUME NEW n \in N PROVE n + 1 \in N
  <2>1. ASSUME NEW y \in Strings, Len(y) = n + 1, Plain(y)
        PROVE  Rewrite(P, y \o u) = y \o Rewrite(P, u)
    <3>1. y # <<>> /\ n \in Nat
      BY <2>1, EmptySeq
    <3> DEFINE c == y[1]
               z == Tail(y)
    <3>2. /\ c \in STRING /\ z \in Strings /\ Len(z) = n /\ y = <<c>> \o z
          /\ 1 \in 1..Len(y)
          /\ \A i \in 1..Len(z) : z[i] = y[i + 1] /\ i + 1 \in 1..Len(y)
      BY <2>1, <3>1, ConsProps DEF Strings
    <3>3. c \notin A /\ Plain(z)
      BY <2>1, <3>2
    <3> HIDE DEF c, z
    <3>4. Rewrite(P, z \o u) = z \o Rewrite(P, u)
      BY <3>2, <3>3
    <3>5. <<c>> \in Strings /\ z \o u \in Strings
      BY <3>2, OneCharacter, ConcatProperties DEF Strings
    <3> HIDE DEF N, Plain
    <3>6. y \o u = <<c>> \o (z \o u)
      BY <3>2, CharacterAssociative
    <3>7. \A p \in P : p[1][1] \in A
      BY DEF TokenPairs
    <3>8. Rewrite(P, <<c>> \o (z \o u)) = <<c>> \o Rewrite(P, z \o u)
      <4> DEFINE t == z \o u
      <4>1. t \in Strings /\ c \in STRING
        BY <3>2, <3>5
      <4> HIDE DEF t
      <4>2. \A p \in P : ~(c = p[1][1] /\ t # <<>> /\ t[1] = p[1][2])
        BY <3>3, <3>7
      <4>3. Rewrite(P, <<c>> \o t) = <<c>> \o Rewrite(P, t)
        BY <4>1, <4>2, RewriteCharacter
      <4>4. QED BY <4>3 DEF t
    <3>9. <<c>> \o (z \o Rewrite(P, u)) = y \o Rewrite(P, u)
      BY <1>2, <3>2, CharacterAssociative
    <3>10. QED BY <3>4, <3>6, <3>8, <3>9
  <2>2. QED BY <2>1
<1>5. N = Nat
  <2>1. N \in SUBSET Nat
    OBVIOUS
  <2> HIDE DEF N
  <2>2. QED BY <1>3, <1>4, <2>1, AllNaturals
<1>6. Len(x) \in N
  BY <1>1, <1>5
<1>7. QED BY <1>6

\* A text is empty, or begins with a token, or with a character that no token
\* begins with here.
LEMMA TextCases ==
    ASSUME NEW P, NEW A, NEW B, TokenPairs(P, A, B), NEW s \in Strings, s # <<>>
    PROVE  \/ \E p \in P, w \in Strings : s = p[1] \o w /\ Len(w) < Len(s)
           \/ \E c \in STRING, u \in Strings :
                 /\ s = <<c>> \o u /\ Len(u) < Len(s) /\ s[1] = c
                 /\ \A p \in P : ~(c = p[1][1] /\ u # <<>> /\ u[1] = p[1][2])
<1>1. /\ s[1] \in STRING /\ Tail(s) \in Strings /\ Len(Tail(s)) = Len(s) - 1 /\ Len(s) \in Nat
      /\ s = <<s[1]>> \o Tail(s)
      /\ \A i \in 1..Len(Tail(s)) : Tail(s)[i] = s[i + 1]
  BY ConsProps DEF Strings
<1>2. CASE \A p \in P : ~(s[1] = p[1][1] /\ Tail(s) # <<>> /\ Tail(s)[1] = p[1][2])
  <2>1. Len(Tail(s)) < Len(s)
    BY <1>1
  <2>2. QED BY <1>1, <1>2, <2>1
<1>3. ASSUME NEW p \in P, s[1] = p[1][1], Tail(s) # <<>>, Tail(s)[1] = p[1][2]
      PROVE  \E w \in Strings : s = p[1] \o w /\ Len(w) < Len(s)
  <2>1. Len(Tail(s)) \in Nat /\ Len(Tail(s)) >= 1
    BY <1>1, <1>3, EmptySeq DEF Strings
  <2>2. Len(s) >= 2 /\ s[2] = p[1][2]
    BY <1>1, <1>3, <2>1
  <2>3. p[1] \in Strings /\ Len(p[1]) = 2
    BY DEF TokenPairs
  <2> DEFINE w == SubSeq(s, 2 + 1, Len(s))
             t == p[1] \o w
  <2>4. w \in Strings /\ Len(w) = Len(s) - 2 /\ \A i \in 1..(Len(s) - 2) : w[i] = s[2 + i]
    <3>1. 2 \in 0..Len(s)
      BY <1>1, <2>2
    <3>2. QED BY <3>1, SuffixProps DEF Strings
  <2> HIDE DEF w
  <2>5. /\ t \in Strings /\ Len(t) = Len(p[1]) + Len(w)
        /\ \A i \in 1..(Len(p[1]) + Len(w)) :
              t[i] = IF i <= Len(p[1]) THEN p[1][i] ELSE w[i - Len(p[1])]
    BY <2>3, <2>4, ConcatProperties DEF Strings
  <2> HIDE DEF t
  <2>6. Len(t) = Len(s)
    BY <1>1, <2>2, <2>3, <2>4, <2>5
  <2>7. ASSUME NEW i \in 1..Len(t) PROVE t[i] = s[i]
    <3>1. CASE i = 1 \/ i = 2
      BY <1>1, <1>3, <2>2, <2>3, <2>4, <2>5, <2>6, <3>1
    <3>2. CASE i # 1 /\ i # 2
      <4>1. i - 2 \in 1..(Len(s) - 2) /\ 2 + (i - 2) = i /\ ~(i <= 2)
        BY <1>1, <2>6, <3>2
      <4>2. QED BY <2>3, <2>4, <2>5, <2>6, <4>1
    <3>3. QED BY <3>1, <3>2
  <2>8. t = s
    BY <2>5, <2>6, <2>7, SeqEqual DEF Strings
  <2>9. Len(w) < Len(s)
    BY <1>1, <2>4
  <2>10. QED BY <2>4, <2>8, <2>9 DEF t
<1>4. QED BY <1>2, <1>3

\* The first character of two texts joined.
LEMMA ConcatFirst ==
    ASSUME NEW S, NEW a \in Seq(S), NEW b \in Seq(S), a # <<>>
    PROVE  a \o b \in Seq(S) /\ a \o b # <<>> /\ (a \o b)[1] = a[1] /\ 1 \in 1..Len(a)
<1>1. Len(a) \in Nat /\ Len(b) \in Nat /\ Len(a) >= 1
  BY EmptySeq
<1>2. /\ a \o b \in Seq(S) /\ Len(a \o b) = Len(a) + Len(b)
      /\ \A i \in 1..(Len(a) + Len(b)) : (a \o b)[i] = IF i <= Len(a) THEN a[i] ELSE b[i - Len(a)]
  BY ConcatProperties
<1>3. Len(a \o b) # 0
  BY <1>1, <1>2
<1>4. a \o b # <<>>
  BY <1>2, <1>3, EmptySeq
<1>5. QED BY <1>1, <1>2, <1>4

\* A second half of a token at the beginning of what a text becomes was there.
LEMMA FirstOf ==
    ASSUME NEW P, NEW A, NEW B, TokenPairs(P, A, B), NEW u \in Strings,
           Rewrite(P, u) # <<>>, Rewrite(P, u)[1] \in B
    PROVE  u # <<>> /\ u[1] = Rewrite(P, u)[1]
<1>1. u # <<>>
  BY RewriteType
<1>2. ASSUME NEW p \in P, NEW w \in Strings, u = p[1] \o w PROVE FALSE
  <2>1. Rewrite(P, u) = p[2] \o Rewrite(P, w) /\ Rewrite(P, w) \in Strings
    BY <1>2, RewriteToken, RewriteType
  <2>2. p[2] \in Strings /\ p[2] # <<>> /\ \A i \in 1..Len(p[2]) : p[2][i] \notin B
    BY DEF TokenPairs
  <2>3. Rewrite(P, u)[1] = p[2][1] /\ 1 \in 1..Len(p[2])
    BY <2>1, <2>2, ConcatFirst DEF Strings
  <2>4. QED BY <2>2, <2>3
<1>3. ASSUME NEW c \in STRING, NEW v \in Strings, u = <<c>> \o v, u[1] = c,
             \A p \in P : ~(c = p[1][1] /\ v # <<>> /\ v[1] = p[1][2])
      PROVE  u[1] = Rewrite(P, u)[1]
  <2>1. Rewrite(P, u) = <<c>> \o Rewrite(P, v) /\ Rewrite(P, v) \in Strings
    BY <1>3, RewriteCharacter, RewriteType
  <2>2. <<c>> \in Seq(STRING) /\ Len(<<c>>) = 1 /\ <<c>>[1] = c
    BY OneCharacter
  <2>3. <<c>> # <<>>
    BY <2>2
  <2>4. (<<c>> \o Rewrite(P, v))[1] = <<c>>[1]
    BY <2>1, <2>2, <2>3, ConcatFirst DEF Strings
  <2>5. QED BY <1>3, <2>1, <2>2, <2>4
<1>4. QED
  <2>1. \/ \E p \in P, w \in Strings : u = p[1] \o w /\ Len(w) < Len(u)
        \/ \E c \in STRING, v \in Strings :
              /\ u = <<c>> \o v /\ Len(v) < Len(u) /\ u[1] = c
              /\ \A p \in P : ~(c = p[1][1] /\ v # <<>> /\ v[1] = p[1][2])
    BY <1>1, TextCases, Zenon
  <2>2. QED BY <1>1, <1>2, <1>3, <2>1

\* A text of two characters.
LEMMA TwoCharacters ==
    ASSUME NEW S, NEW a \in Seq(S), Len(a) = 2
    PROVE  a[1] \in S /\ a[2] \in S /\ a = <<a[1]>> \o <<a[2]>>
<1>1. a[1] \in S /\ a[2] \in S
  <2>1. 1 \in 1..Len(a) /\ 2 \in 1..Len(a)
    OBVIOUS
  <2>2. QED BY <2>1, ElementOfSeq
<1>2. a # <<>>
  BY EmptySeq
<1>3. /\ Tail(a) \in Seq(S) /\ Len(Tail(a)) = 1 /\ a = <<a[1]>> \o Tail(a)
      /\ Tail(a)[1] = a[2]
  <2>1. /\ Tail(a) \in Seq(S) /\ Len(Tail(a)) = Len(a) - 1 /\ a = <<a[1]>> \o Tail(a)
        /\ \A i \in 1..Len(Tail(a)) : Tail(a)[i] = a[i + 1]
    BY <1>2, ConsProps
  <2>2. Len(Tail(a)) = 1 /\ 1 \in 1..Len(Tail(a)) /\ 1 + 1 = 2
    BY <2>1
  <2>3. QED BY <2>1, <2>2
<1>4. <<a[2]>> \in Seq(S) /\ Len(<<a[2]>>) = 1 /\ <<a[2]>>[1] = a[2]
  BY <1>1, OneCharacter
<1>5. \A i \in 1..1 : Tail(a)[i] = <<a[2]>>[i]
  <2>1. \A i \in 1..1 : i = 1
    OBVIOUS
  <2>2. QED BY <1>3, <1>4, <2>1
<1>6. Tail(a) = <<a[2]>>
  BY <1>3, <1>4, <1>5, SeqEqual
<1>7. QED BY <1>1, <1>3, <1>6

\* A token that is none of P: it stays, and the rest is rewritten.
LEMMA RewriteOther ==
    ASSUME NEW P, NEW A, NEW B, NEW p, TokenPairs(P \cup {p}, A, B), p \notin P,
           NEW w \in Strings
    PROVE  Rewrite(P, p[1] \o w) = p[1] \o Rewrite(P, w)
<1> DEFINE a == p[1][1]
           b == p[1][2]
<1>1. TokenPairs(P, A, B)
  BY DEF TokenPairs
<1>2. p[1] \in Strings /\ Len(p[1]) = 2 /\ a \in A /\ b \in B
  BY DEF TokenPairs
<1>3. a \in STRING /\ b \in STRING /\ p[1] = <<a>> \o <<b>>
  BY <1>2, TwoCharacters DEF Strings
<1> HIDE DEF a, b
<1>4. <<a>> \in Strings /\ <<b>> \in Strings /\ Rewrite(P, w) \in Strings /\ <<b>>[1] = b
  BY <1>1, <1>3, OneCharacter, RewriteType DEF Strings
<1>5. <<b>> \o w \in Strings /\ <<b>> \o w # <<>> /\ (<<b>> \o w)[1] = b
  <2>1. <<b>> # <<>>
    OBVIOUS
  <2>2. QED BY <1>4, <2>1, ConcatFirst DEF Strings
<1>6. Rewrite(P, <<b>> \o w) = <<b>> \o Rewrite(P, w)
  <2>1. \A q \in P : q[1][1] \in A /\ b \notin A
    BY <1>2 DEF TokenPairs
  <2>2. QED BY <1>1, <1>3, <2>1, RewriteCharacter
<1>7. Rewrite(P, <<a>> \o (<<b>> \o w)) = <<a>> \o Rewrite(P, <<b>> \o w)
  <2>1. ASSUME NEW q \in P, a = q[1][1], b = q[1][2] PROVE FALSE
    <3>1. q[1] \in Strings /\ Len(q[1]) = 2
      BY DEF TokenPairs
    <3>2. q[1] = <<q[1][1]>> \o <<q[1][2]>>
      BY <3>1, TwoCharacters DEF Strings
    <3>3. q[1] = p[1]
      BY <1>3, <2>1, <3>2
    <3>4. QED BY <3>3 DEF TokenPairs
  <2>2. QED BY <1>1, <1>3, <1>5, <2>1, RewriteCharacter
<1>8. p[1] \o w = <<a>> \o (<<b>> \o w)
  BY <1>3, <1>4, ConcatAssociative DEF Strings
<1>9. p[1] \o Rewrite(P, w) = <<a>> \o (<<b>> \o Rewrite(P, w))
  BY <1>3, <1>4, ConcatAssociative DEF Strings
<1>10. QED BY <1>6, <1>7, <1>8, <1>9

\* Rewriting with one more pair afterwards is rewriting with it from the
\* beginning: no token arises across a value written before, and none is in one.
LEMMA RewriteAfter ==
    ASSUME NEW P, NEW A, NEW B, NEW Q, TokenPairs(Q, A, B), NEW p \in Q, NEW R,
           \A q : q \in R <=> q = p, \A q : q \in Q <=> q \in P \/ q \in R,
           NEW s \in Strings
    PROVE  Rewrite(R, Rewrite(P, s)) = Rewrite(Q, s)
<1> DEFINE Same(r) == Rewrite(R, Rewrite(P, r)) = Rewrite(Q, r)
           N == {n \in Nat : \A r \in Strings : Len(r) <= n => Same(r)}
<1>1. TokenPairs(P, A, B) /\ TokenPairs(R, A, B) /\ TokenPairs(Q, A, B)
  <2>1. TokenPairs(P, A, B)
    BY DEF TokenPairs
  <2>2. TokenPairs(R, A, B)
    BY DEF TokenPairs
  <2>3. QED BY <2>1, <2>2
<1>2. \A r \in Strings : Len(r) \in Nat /\ (Len(r) = 0 => r = <<>>)
  BY EmptySeq DEF Strings
<1>3. Same(<<>>)
  BY <1>1, RewriteType
<1>4. ASSUME NEW r \in Strings, r # <<>>,
             \A w \in Strings : Len(w) < Len(r) => Same(w)
      PROVE  Same(r)
  <2>1. ASSUME NEW q \in Q, NEW w \in Strings, r = q[1] \o w, Len(w) < Len(r)
        PROVE  Same(r)
    <3>1. Same(w) /\ Rewrite(P, w) \in Strings
      BY <1>1, <1>4, <2>1, RewriteType
    <3>2. Rewrite(Q, r) = q[2] \o Rewrite(Q, w)
      BY <1>1, <2>1, RewriteToken
    <3>3. CASE q \in P
      <4>1. Rewrite(P, r) = q[2] \o Rewrite(P, w)
        BY <1>1, <2>1, <3>3, RewriteToken
      <4>2. q[2] \in Strings /\ \A i \in 1..Len(q[2]) : q[2][i] \notin A
        BY <1>1, <3>3 DEF TokenPairs
      <4>3. Rewrite(R, q[2] \o Rewrite(P, w)) = q[2] \o Rewrite(R, Rewrite(P, w))
        BY <1>1, <3>1, <4>2, RewritePlain
      <4>4. QED BY <3>1, <3>2, <4>1, <4>3
    <3>4. CASE q \notin P
      <4>1. q = p /\ p \notin P /\ p \in R
        BY <3>4
      <4>2. Rewrite(P, r) = p[1] \o Rewrite(P, w)
        BY <2>1, <4>1, RewriteOther
      <4>3. Rewrite(R, p[1] \o Rewrite(P, w)) = p[2] \o Rewrite(R, Rewrite(P, w))
        BY <1>1, <3>1, <4>1, RewriteToken
      <4>4. QED BY <3>1, <3>2, <4>1, <4>2, <4>3
    <3>5. QED BY <3>3, <3>4
  <2>2. ASSUME NEW c \in STRING, NEW u \in Strings, r = <<c>> \o u, Len(u) < Len(r),
               \A q \in Q : ~(c = q[1][1] /\ u # <<>> /\ u[1] = q[1][2])
        PROVE  Same(r)
    <3> DEFINE X == Rewrite(P, u)
    <3>1. Same(u) /\ X \in Strings
      BY <1>1, <1>4, <2>2, RewriteType
    <3>2. Rewrite(Q, r) = <<c>> \o Rewrite(Q, u)
      BY <1>1, <2>2, RewriteCharacter
    <3>3. Rewrite(P, r) = <<c>> \o X
      <4>1. \A q \in P : ~(c = q[1][1] /\ u # <<>> /\ u[1] = q[1][2])
        BY <2>2
      <4>2. QED BY <1>1, <2>2, <4>1, RewriteCharacter
    <3>4. ~(c = p[1][1] /\ X # <<>> /\ X[1] = p[1][2])
      <4>1. p[1][2] \in B /\ p \in Q
        BY <1>1 DEF TokenPairs
      <4>2. QED BY <1>1, <2>2, <4>1, FirstOf
    <3>5. Rewrite(R, <<c>> \o X) = <<c>> \o Rewrite(R, X)
      <4> HIDE DEF X
      <4>1. \A q \in R : ~(c = q[1][1] /\ X # <<>> /\ X[1] = q[1][2])
        BY <3>4
      <4>2. QED BY <1>1, <3>1, <4>1, RewriteCharacter
    <3>6. QED BY <3>1, <3>2, <3>3, <3>5
  <2>3. \/ \E q \in Q, w \in Strings : r = q[1] \o w /\ Len(w) < Len(r)
        \/ \E c \in STRING, u \in Strings :
              /\ r = <<c>> \o u /\ Len(u) < Len(r) /\ r[1] = c
              /\ \A q \in Q : ~(c = q[1][1] /\ u # <<>> /\ u[1] = q[1][2])
    <3>1. QED BY <1>1, <1>4, TextCases, Zenon
  <2> HIDE DEF Same
  <2>4. QED BY <2>1, <2>2, <2>3
<1> HIDE DEF Same
<1>5. 0 \in N
  BY <1>2, <1>3
<1>6. ASSUME NEW n \in N PROVE n + 1 \in N
  <2>1. ASSUME NEW r \in Strings, Len(r) <= n + 1 PROVE Same(r)
    <3>1. CASE r = <<>>
      BY <1>3, <3>1
    <3>2. CASE r # <<>>
      <4>1. \A w \in Strings : Len(w) < Len(r) => Len(w) <= n
        BY <1>2, <2>1
      <4>2. \A w \in Strings : Len(w) < Len(r) => Same(w)
        BY <4>1
      <4>3. QED BY <1>4, <3>2, <4>2
    <3>3. QED BY <3>1, <3>2
  <2>2. QED BY <2>1
<1>7. N = Nat
  <2>1. N \in SUBSET Nat
    OBVIOUS
  <2> HIDE DEF N
  <2>2. QED BY <1>5, <1>6, <2>1, AllNaturals
<1>8. Same(s)
  BY <1>2, <1>7
<1>9. QED BY <1>8 DEF Same

\* Without pairs a text stays.
LEMMA RewriteNothing ==
    ASSUME NEW s \in Strings
    PROVE  Rewrite({}, s) = s
<1>1. ASSUME NEW P, P = {}, NEW A, A = {} PROVE Rewrite(P, s) = s
  <2>1. TokenPairs(P, A, A)
    BY <1>1 DEF TokenPairs
  <2>2. <<>> \in Strings /\ s \o <<>> = s
    BY ConcatEmptySeq DEF Strings
  <2>3. \A i \in 1..Len(s) : s[i] \notin A
    BY <1>1
  <2>4. Rewrite(P, s \o <<>>) = s \o Rewrite(P, <<>>)
    BY <2>1, <2>2, <2>3, RewritePlain
  <2>5. Rewrite(P, <<>>) = <<>>
    BY <2>1, RewriteType
  <2>6. QED BY <2>2, <2>4, <2>5
<1>2. QED BY <1>1

-----------------------------------------------------------------------------
(* The stages of run().                                                    *)

\* Copied and replaced pieces take turns: each entity masked gave two, and
\* the rest of the text the last.
PairsInv ==
    phase \in {"mask", "done"} =>
        /\ Len(pieces) % 2 = IF phase = "mask" THEN 0 ELSE 1
        /\ \A i \in 1..Len(pieces) : pieces[i].masked <=> i % 2 = 0

\* An answer is restored when the mask is complete, to the last mapping.
StageInv ==
    stage \in {"restore", "answered"} =>
        /\ phase = "done" /\ strategy \in Strategies
        /\ stage = "answered" => mappings = <<>>

\* The tokens of the mappings done are restored, all of them at once.
RestoreInv ==
    stage \in {"restore", "answered"} /\ strategy = "TOKENIZE" =>
        /\ output \in Strings
        /\ \E k \in 0..Len(Mappings("TOKENIZE")) :
              /\ mappings = SubSeq(Mappings("TOKENIZE"), k + 1, Len(Mappings("TOKENIZE")))
              /\ restored = Rewrite({Mappings("TOKENIZE")[n] : n \in 1..k}, output)

\* The inductive invariant of run().
SecureInv == PipelineInv /\ PairsInv /\ StageInv /\ RestoreInv

\* A turn of mask() adds two pieces or none, and the end one.
LEMMA StepPairs ==
    ASSUME PipelineInv, PairsInv, [SecureNext]_<<vars, llmVars>>
    PROVE  PairsInv'
<1>1. PipelineTypeOK /\ FreshInv
  BY DEF PipelineInv
<1>2. pieces \in Seq(Pieces) /\ Len(pieces) \in Nat
  BY <1>1 DEF PipelineTypeOK
<1>3. CASE UNCHANGED <<phase, pieces>>
  BY <1>3 DEF PairsInv
<1>4. CASE phase' \notin {"mask", "done"}
  BY <1>4 DEF PairsInv
<1>5. CASE Mask
  <2>1. phase' = "mask" /\ pieces' = <<>>
    BY <1>1, <1>5 DEF Mask, FreshInv
  <2>2. QED BY <2>1 DEF PairsInv
<1>6. CASE MaskTurn
  <2> DEFINE e == Head(todo)
             two == <<Copied(cursor, e.start), Replaced(e)>>
             qs == pieces \o two
             n == Len(pieces)
  <2>1. phase = "mask" /\ phase' = "mask" /\ todo # <<>> /\ (pieces' = pieces \/ pieces' = qs)
    BY <1>6 DEF MaskTurn
  <2>2. e \in Entities /\ cursor \in Int
    BY <1>1, <2>1, TodoProps, SpanConstants DEF PipelineTypeOK
  <2> HIDE DEF e
  <2>3. /\ two \in Seq(Pieces) /\ Len(two) = 2 /\ two[1].masked = FALSE /\ two[2].masked = TRUE
    <3>1. Copied(cursor, e.start) \in Pieces /\ Replaced(e) \in Pieces
      BY <2>2, EntityFields DEF Copied, Replaced, Pieces
    <3>2. QED BY <3>1 DEF Copied, Replaced
  <2> HIDE DEF two
  <2>4. /\ Len(qs) = n + 2
        /\ \A i \in 1..(n + 2) : qs[i] = IF i <= n THEN pieces[i] ELSE two[i - n]
    <3>1. /\ Len(qs) = n + Len(two)
          /\ \A i \in 1..(n + Len(two)) : qs[i] = IF i <= n THEN pieces[i] ELSE two[i - n]
      BY <1>2, <2>3, ConcatProperties
    <3>2. QED BY <2>3, <3>1
  <2> HIDE DEF qs
  <2>5. /\ n % 2 = 0 /\ n \in Nat
        /\ \A i \in 1..n : pieces[i].masked <=> i % 2 = 0
    BY <1>2, <2>1 DEF PairsInv
  <2> HIDE DEF n
  <2>6. (n + 2) % 2 = 0 /\ (n + 1) % 2 = 1
    BY <2>5
  <2>7. ASSUME NEW i \in 1..(n + 2) PROVE qs[i].masked <=> i % 2 = 0
    <3>1. CASE i <= n
      BY <2>4, <2>5, <3>1
    <3>2. CASE i = n + 1
      <4>1. qs[i] = two[1] /\ i % 2 # 0
        BY <2>4, <2>5, <2>6, <3>2
      <4>2. QED BY <2>3, <4>1
    <3>3. CASE i = n + 2
      <4>1. qs[i] = two[2] /\ i % 2 = 0
        BY <2>4, <2>5, <2>6, <3>3
      <4>2. QED BY <2>3, <4>1
    <3>4. QED BY <2>5, <3>1, <3>2, <3>3
  <2>8. QED BY <2>1, <2>4, <2>5, <2>6, <2>7 DEF PairsInv, n
<1>7. CASE Join
  <2> DEFINE c == Copied(cursor, TextLen)
             n == Len(pieces)
  <2>1. phase = "mask" /\ phase' = "done" /\ pieces' = Append(pieces, c)
    BY <1>7 DEF Join
  <2>2. c \in Pieces /\ c.masked = FALSE
    BY <1>1, SpanConstants DEF Copied, Pieces, PipelineTypeOK
  <2> HIDE DEF c
  <2>3. /\ Len(Append(pieces, c)) = n + 1 /\ Append(pieces, c)[n + 1] = c
        /\ \A i \in 1..n : Append(pieces, c)[i] = pieces[i]
    BY <1>2, <2>2
  <2>4. /\ n % 2 = 0 /\ n \in Nat
        /\ \A i \in 1..n : pieces[i].masked <=> i % 2 = 0
    BY <1>2, <2>1 DEF PairsInv
  <2> HIDE DEF n
  <2>5. (n + 1) % 2 = 1
    BY <2>4
  <2>6. ASSUME NEW i \in 1..(n + 1) PROVE Append(pieces, c)[i].masked <=> i % 2 = 0
    <3>1. i \in 1..n \/ i = n + 1
      BY <2>4
    <3>2. QED BY <2>2, <2>3, <2>4, <2>5, <3>1
  <2>7. QED BY <2>1, <2>3, <2>5, <2>6 DEF PairsInv
<1>8. QED
  <2>1. ASSUME Next PROVE PairsInv'
    BY <1>3, <1>4, <1>5, <1>6, <1>7, <2>1
      DEF Next, Detect, Give, Resolve, ResolveTurn, Select, SelectTurn, Done, vars, FreshInv
  <2>2. ASSUME ~Next PROVE UNCHANGED <<phase, pieces>>
    BY <2>2 DEF SecureNext, DetectMatch, Generate, RestoreTurn, Return, vars
  <2>3. QED BY <1>3, <2>1, <2>2

-----------------------------------------------------------------------------
(* The pieces of a complete mask.                                          *)

\* A part of the text.
LEMMA SliceProps ==
    ASSUME text \in Texts, NEW a \in Int, NEW b \in Int, 0 <= a, a <= b, b <= TextLen
    PROVE  /\ Slice(text, a, b) \in Strings /\ Len(Slice(text, a, b)) = b - a
           /\ \A i \in 1..(b - a) : Slice(text, a, b)[i] = text[a + i] /\ a + i \in 1..TextLen
<1>1. TextLen \in Nat /\ text \in [1..TextLen -> STRING]
  BY SpanConstants, SecureConstants
<1>2. text \in Seq(STRING) /\ Len(text) = TextLen
  BY <1>1
<1>3. Slice(text, a, b) = SubSeq(text, a + 1, b)
  BY <1>2 DEF Slice
<1>4. \A i \in (a + 1)..b : text[i] \in STRING
  BY <1>1
<1>5. /\ SubSeq(text, a + 1, b) \in Seq(STRING)
      /\ Len(SubSeq(text, a + 1, b)) = IF a + 1 <= b THEN b - (a + 1) + 1 ELSE 0
      /\ \A i \in 1..(b - (a + 1) + 1) : SubSeq(text, a + 1, b)[i] = text[(a + 1) + i - 1]
  BY <1>4, SubSeqProperties
<1>6. /\ b - (a + 1) + 1 = b - a
      /\ \A i \in 1..(b - a) : (a + 1) + i - 1 = a + i /\ a + i \in 1..TextLen
      /\ (~(a + 1 <= b) => b - a = 0)
  BY <1>1
<1>7. QED BY <1>3, <1>5, <1>6 DEF Strings

\* A masked piece is an entity's, and only that entity begins where it does.
LEMMA MaskedPiece ==
    ASSUME PipelineInv, phase = "done", NEW i \in 1..Len(pieces), pieces[i].masked
    PROVE  /\ EntityOf(pieces[i]) \in Entities /\ Valid(EntityOf(pieces[i]))
           /\ EntityOf(pieces[i]).type \in Types
           /\ pieces[i] = Replaced(EntityOf(pieces[i]))
<1> DEFINE p == pieces[i]
<1>1. /\ kept \in Seq(Entities) /\ todo = <<>> /\ KeptDisjoint /\ ReplacedInv
      /\ \A j \in 1..Len(kept) : Valid(kept[j])
  BY DEF PipelineInv, PipelineTypeOK, ReplacedInv, SelectInv
<1>2. Len(kept) \in Nat /\ Range(kept) = {kept[j] : j \in 1..Len(kept)}
      /\ \A j \in 1..Len(kept) : kept[j] \in Entities
  BY <1>1, Elements
<1>3. Turns = Len(kept)
  BY <1>1, <1>2 DEF Turns
<1>4. PICK j \in 1..Len(kept) : p = Replaced(kept[j])
  BY <1>1, <1>3 DEF ReplacedInv
<1>5. p.from = kept[j].start /\ kept[j] \in Range(kept)
  BY <1>2, <1>4 DEF Replaced
<1>6. ASSUME NEW e \in Range(kept), e.start = p.from PROVE e = kept[j]
  <2>1. PICK k \in 1..Len(kept) : e = kept[k]
    BY <1>2
  <2>2. /\ kept[k].start \in Int /\ kept[k].end \in Int /\ kept[k].start < kept[k].end
        /\ kept[j].start \in Int /\ kept[j].end \in Int /\ kept[j].start < kept[j].end
    BY <1>1, <1>2, ValidSpan
  <2>3. k = j
    <3>1. k < j => kept[k].end <= kept[j].start
      BY <1>1 DEF KeptDisjoint
    <3>2. j < k => kept[j].end <= kept[k].start
      BY <1>1 DEF KeptDisjoint
    <3>3. QED BY <1>5, <1>6, <2>1, <2>2, <3>1, <3>2
  <2>4. QED BY <2>1, <2>3
<1> HIDE DEF p
<1>7. EntityOf(p) = kept[j]
  BY <1>5, <1>6 DEF EntityOf
<1>8. QED BY <1>1, <1>2, <1>4, <1>7, EntityFields DEF p

\* Every piece is a part of the text, and a masked one is not empty.
LEMMA PieceSpan ==
    ASSUME PipelineInv, PairsInv, phase = "done", NEW i \in 1..Len(pieces)
    PROVE  /\ pieces[i].from \in Int /\ pieces[i].to \in Int
           /\ 0 <= pieces[i].from /\ pieces[i].from <= pieces[i].to /\ pieces[i].to <= TextLen
           /\ pieces[i].masked => pieces[i].from < pieces[i].to
<1>1. /\ pieces \in Seq(Pieces) /\ Len(pieces) \in Nat /\ TextLen \in Nat
      /\ \A k \in 1..Len(pieces) : pieces[k] \in Pieces
  BY SpanConstants DEF PipelineInv, PipelineTypeOK
<1>2. /\ pieces[1].from = 0 /\ pieces[Len(pieces)].to = TextLen
      /\ \A k \in 1..(Len(pieces) - 1) : pieces[k].to = pieces[k + 1].from
      /\ \A k \in 1..Len(pieces) : pieces[k].from <= pieces[k].to
  BY DEF PipelineInv, MaskedExactly
<1>3. ASSUME NEW k \in 1..Len(pieces), pieces[k].masked
      PROVE  /\ pieces[k].from \in Int /\ pieces[k].to \in Int
             /\ 0 <= pieces[k].from /\ pieces[k].from < pieces[k].to /\ pieces[k].to <= TextLen
  <2> DEFINE e == EntityOf(pieces[k])
  <2>1. e \in Entities /\ Valid(e) /\ pieces[k] = Replaced(e)
    BY <1>3, MaskedPiece
  <2> HIDE DEF e
  <2>2. pieces[k].from = e.start /\ pieces[k].to = e.end
    BY <2>1 DEF Replaced
  <2>3. QED BY <2>1, <2>2, ValidSpan
<1>4. \A k \in 1..Len(pieces) : pieces[k].masked <=> k % 2 = 0
  BY DEF PairsInv
<1>5. pieces[i].from \in Int /\ pieces[i].to \in Int
  BY <1>1 DEF Pieces
<1>6. CASE pieces[i].masked
  BY <1>2, <1>3, <1>6
<1>7. CASE ~pieces[i].masked
  <2>1. 0 <= pieces[i].from
    <3>1. CASE i = 1
      BY <1>2, <3>1
    <3>2. CASE i # 1
      <4>1. i - 1 \in 1..(Len(pieces) - 1) /\ i - 1 \in 1..Len(pieces) /\ (i - 1) + 1 = i
        BY <1>1, <3>2
      <4>2. (i - 1) % 2 = 0
        BY <1>4, <1>7
      <4>3. /\ 0 <= pieces[i - 1].from /\ pieces[i - 1].from < pieces[i - 1].to
            /\ pieces[i - 1].from \in Int /\ pieces[i - 1].to \in Int
        BY <1>3, <1>4, <4>1, <4>2
      <4>4. QED BY <1>2, <4>1, <4>3
    <3>3. QED BY <3>1, <3>2
  <2>2. pieces[i].to <= TextLen
    <3>1. CASE i = Len(pieces)
      BY <1>1, <1>2, <3>1
    <3>2. CASE i # Len(pieces)
      <4>1. i \in 1..(Len(pieces) - 1) /\ i + 1 \in 1..Len(pieces)
        BY <1>1, <3>2
      <4>2. (i + 1) % 2 = 0
        BY <1>4, <1>7
      <4>3. pieces[i + 1].from < pieces[i + 1].to /\ pieces[i + 1].to <= TextLen
            /\ pieces[i + 1].from \in Int /\ pieces[i + 1].to \in Int
        BY <1>3, <1>4, <4>1, <4>2
      <4>4. QED BY <1>1, <1>2, <4>1, <4>3
    <3>3. QED BY <3>1, <3>2
  <2>3. QED BY <1>2, <1>5, <1>7, <2>1, <2>2
<1>8. QED BY <1>6, <1>7

\* The masked pieces are those with an even number.
LEMMA MaskedNumbers ==
    ASSUME PipelineInv, PairsInv, phase = "done"
    PROVE  /\ Len(pieces) \div 2 \in Nat
           /\ \A n \in 1..(Len(pieces) \div 2) :
                 2 * n \in 1..Len(pieces) /\ pieces[2 * n].masked
           /\ \A i \in 1..Len(pieces) : pieces[i].masked =>
                 \E n \in 1..(Len(pieces) \div 2) : i = 2 * n
<1>1. Len(pieces) \in Nat
  BY DEF PipelineInv, PipelineTypeOK
<1>2. \A i \in 1..Len(pieces) : pieces[i].masked <=> i % 2 = 0
  BY DEF PairsInv
<1> DEFINE L == Len(pieces)
<1> HIDE DEF L
<1>3. L \in Nat => /\ L \div 2 \in Nat /\ 2 * (L \div 2) <= L
                   /\ \A n \in 1..(L \div 2) : 2 * n \in 1..L /\ (2 * n) % 2 = 0
  OBVIOUS
<1>4. L \in Nat => \A i \in 1..L : i % 2 = 0 =>
                      i \div 2 \in 1..(L \div 2) /\ i = 2 * (i \div 2)
  OBVIOUS
<1>5. QED BY <1>1, <1>2, <1>3, <1>4 DEF L

-----------------------------------------------------------------------------
(* Tokens.                                                                 *)

\* What secrets.token_hex may draw.
Draws == {Random[n] : n \in 0..TextLen}

\* A token has two characters.
LEMMA PairOf ==
    ASSUME NEW S, NEW a \in S, NEW b \in S
    PROVE  <<a, b>> \in Seq(S) /\ Len(<<a, b>>) = 2 /\ <<a, b>>[1] = a /\ <<a, b>>[2] = b
OBVIOUS

\* What a piece was, of any kind: a text without parts of tokens.
LEMMA OriginalProps ==
    ASSUME PipelineInv, PairsInv, phase = "done", NEW i \in 1..Len(pieces)
    PROVE  /\ Original(pieces[i]) \in Strings
           /\ Len(Original(pieces[i])) = pieces[i].to - pieces[i].from
           /\ pieces[i].masked => Original(pieces[i]) # <<>>
           /\ \A k \in 1..Len(Original(pieces[i])) :
                 Original(pieces[i])[k] \notin Types \cup Draws
<1> DEFINE a == pieces[i].from
           b == pieces[i].to
           v == Original(pieces[i])
<1>1. /\ a \in Int /\ b \in Int /\ 0 <= a /\ a <= b /\ b <= TextLen
      /\ pieces[i].masked => a < b
  BY PieceSpan
<1>2. text \in Texts /\ TextLen \in Nat
  BY SpanConstants DEF PipelineInv
<1>3. v = Slice(text, a, b)
  BY DEF Original
<1> HIDE DEF a, b, v
<1>4. /\ v \in Strings /\ Len(v) = b - a
      /\ \A k \in 1..(b - a) : v[k] = text[a + k] /\ a + k \in 1..TextLen
  BY <1>1, <1>2, <1>3, SliceProps
<1>5. \A k \in 1..TextLen : text[k] \notin Types /\ \A n \in 0..TextLen : text[k] # Random[n]
  BY <1>2, SecureConstants
<1>6. \A k \in 1..Len(v) : v[k] \notin Types \cup Draws
  BY <1>4, <1>5 DEF Draws
<1>7. pieces[i].masked => v # <<>>
  <2>1. pieces[i].masked => Len(v) # 0
    BY <1>1, <1>4
  <2>2. QED BY <2>1
<1>8. QED BY <1>4, <1>6, <1>7 DEF a, b, v

\* What stands for a masked piece: the token drawn where it begins.
LEMMA TokenProps ==
    ASSUME PipelineInv, PairsInv, phase = "done", NEW i \in 1..Len(pieces), pieces[i].masked
    PROVE  LET w == Written("TOKENIZE", pieces[i])
           IN  /\ w \in Strings /\ Len(w) = 2
               /\ w[1] \in Types /\ w[2] = Random[pieces[i].from] /\ w[2] \in Draws
               /\ pieces[i].from \in 0..TextLen
<1> DEFINE p == pieces[i]
           t == EntityOf(p).type
           w == Written("TOKENIZE", p)
<1>1. p.from \in 0..TextLen
  BY PieceSpan, SpanConstants
<1>2. t \in Types /\ t \in STRING /\ Random[p.from] \in STRING /\ Random[p.from] \in Draws
  <2>1. t \in Types
    BY MaskedPiece
  <2>2. Types \subseteq STRING /\ Random \in [0..TextLen -> STRING \ Types]
    BY SecureConstants
  <2> HIDE DEF p, t
  <2>3. QED BY <1>1, <2>1, <2>2 DEF Draws
<1>3. w = <<t, Random[p.from]>>
  <2>1. w = Replacement("TOKENIZE", t, Original(p), p.from)
    BY DEF Written
  <2> HIDE DEF t, w, p
  <2>2. Replacement("TOKENIZE", t, Original(p), p.from) = Token(t, p.from)
    BY DEF Replacement
  <2>3. QED BY <2>1, <2>2 DEF Token
<1> HIDE DEF t, w
<1>4. w \in Seq(STRING) /\ Len(w) = 2 /\ w[1] = t /\ w[2] = Random[p.from]
  BY <1>2, <1>3, PairOf
<1>5. QED BY <1>1, <1>2, <1>4 DEF Strings, w

\* The mappings, one for each masked piece.
LEMMA MappingsProps ==
    ASSUME PipelineInv, PairsInv, phase = "done", NEW s
    PROVE  /\ Mappings(s) \in Seq({<<Written(s, pieces[i]), Original(pieces[i])>> :
                                      i \in {k \in 1..Len(pieces) : pieces[k].masked}})
           /\ Len(Mappings(s)) = Len(pieces) \div 2
           /\ \A n \in 1..(Len(pieces) \div 2) :
                 Mappings(s)[n] = <<Written(s, pieces[2 * n]), Original(pieces[2 * n])>>
<1> DEFINE K == Len(pieces) \div 2
           U == {<<Written(s, pieces[i]), Original(pieces[i])>> :
                    i \in {k \in 1..Len(pieces) : pieces[k].masked}}
<1>1. K \in Nat /\ \A n \in 1..K : 2 * n \in 1..Len(pieces) /\ pieces[2 * n].masked
  BY MaskedNumbers
<1>2. MaskedPieces = [n \in 1..K |-> pieces[2 * n]] /\ DOMAIN MaskedPieces = 1..K
  BY DEF MaskedPieces
<1>3. Mappings(s) = [n \in 1..K |-> <<Written(s, pieces[2 * n]), Original(pieces[2 * n])>>]
  BY <1>2, Zenon DEF Mappings
<1> HIDE DEF K
<1>4. \A n \in 1..K : <<Written(s, pieces[2 * n]), Original(pieces[2 * n])>> \in U
  BY <1>1
<1> HIDE DEF U
<1>5. Mappings(s) \in [1..K -> U]
  BY <1>3, <1>4
<1>6. Mappings(s) \in Seq(U) /\ Len(Mappings(s)) = K
  BY <1>1, <1>5
<1>7. QED BY <1>3, <1>6 DEF K, U

\* The mappings of TOKENIZE are pairs of a token and a text without any.
LEMMA TokenMappings ==
    ASSUME PipelineInv, PairsInv, phase = "done"
    PROVE  TokenPairs(Range(Mappings("TOKENIZE")), Types, Draws)
<1> DEFINE M == Mappings("TOKENIZE")
           w(i) == Written("TOKENIZE", pieces[i])
           v(i) == Original(pieces[i])
           I == {k \in 1..Len(pieces) : pieces[k].masked}
<1>1. \A p \in Range(M) : \E i \in I : p = <<w(i), v(i)>>
  <2>1. M \in Seq({<<w(i), v(i)>> : i \in I})
    BY MappingsProps
  <2> HIDE DEF M, w, v, I
  <2>2. \A n \in 1..Len(M) : M[n] \in {<<w(i), v(i)>> : i \in I}
    BY <2>1
  <2>3. Range(M) = {M[n] : n \in 1..Len(M)}
    BY <2>1, Elements
  <2>4. QED BY <2>2, <2>3
<1>2. \A i \in I : /\ w(i) \in Strings /\ Len(w(i)) = 2
                   /\ w(i)[1] \in Types /\ w(i)[2] = Random[pieces[i].from]
                   /\ w(i)[2] \in Draws /\ pieces[i].from \in 0..TextLen
  BY TokenProps
<1>3. \A i \in I : /\ v(i) \in Strings /\ v(i) # <<>>
                   /\ \A k \in 1..Len(v(i)) : v(i)[k] \notin Types \cup Draws
  BY OriginalProps
<1>4. ASSUME NEW i \in I, NEW j \in I, w(i) = w(j) PROVE v(i) = v(j)
  <2>1. Random[pieces[i].from] = Random[pieces[j].from]
    <3> HIDE DEF w, I
    <3>1. QED BY <1>2, <1>4
  <2>2. pieces[i].from = pieces[j].from
    BY <1>2, <2>1, SecureConstants
  <2>3. EntityOf(pieces[i]) = EntityOf(pieces[j])
    BY <2>2 DEF EntityOf
  <2>4. pieces[i] = Replaced(EntityOf(pieces[i])) /\ pieces[j] = Replaced(EntityOf(pieces[j]))
    BY MaskedPiece
  <2>5. QED BY <2>3, <2>4
<1>5. Types \subseteq STRING /\ Draws \subseteq STRING /\ Types \cap Draws = {}
  BY SecureConstants DEF Draws
<1> HIDE DEF M, w, v, I
<1>6. ASSUME NEW p \in Range(M)
      PROVE  /\ p[1] \in Strings /\ Len(p[1]) = 2 /\ p[1][1] \in Types /\ p[1][2] \in Draws
             /\ p[2] \in Strings /\ p[2] # <<>>
             /\ \A i \in 1..Len(p[2]) : p[2][i] \notin Types \cup Draws
  <2>1. PICK i \in I : p = <<w(i), v(i)>>
    BY <1>1
  <2>2. p[1] = w(i) /\ p[2] = v(i)
    BY <2>1
  <2>3. QED BY <1>2, <1>3, <2>2
<1>7. ASSUME NEW p \in Range(M), NEW q \in Range(M), p[1] = q[1] PROVE p = q
  <2>1. PICK i \in I : p = <<w(i), v(i)>>
    BY <1>1
  <2>2. PICK j \in I : q = <<w(j), v(j)>>
    BY <1>1
  <2>3. w(i) = w(j)
    BY <1>7, <2>1, <2>2
  <2>4. QED BY <1>4, <2>1, <2>2, <2>3
<1>8. QED BY <1>5, <1>6, <1>7 DEF TokenPairs, M

\* Some of the pairs are pairs of the same kind.
LEMMA FewerPairs ==
    ASSUME NEW P, NEW A, NEW B, TokenPairs(P, A, B), NEW Q \in SUBSET P
    PROVE  TokenPairs(Q, A, B)
BY DEF TokenPairs

-----------------------------------------------------------------------------
(* Texts joined.                                                           *)

\* FlattenSeq joins one text after another.
LEMMA Flattened ==
    ASSUME NEW n \in Nat, n >= 1, NEW q \in [1..n -> Strings]
    PROVE  \E f \in [1..n -> Strings] :
              /\ f[1] = q[1]
              /\ \A i \in 1..(n - 1) : f[i + 1] = f[i] \o q[i + 1]
              /\ FlattenSeq(q) = f[n]
<1> DEFINE Turn(f, i) == IF i = 1 THEN q[i] ELSE f[i - 1] \o q[i]
           Joined(f, m) == f = [i \in 1..m |-> Turn(f, i)]
           N == {m \in Nat : m <= n => \E f : Joined(f, m)}
           F == CHOOSE f : Joined(f, n)
<1>1. q \in Seq(Strings) /\ Len(q) = n
  OBVIOUS
<1>2. 0 \in N
  <2> DEFINE f == [i \in 1..0 |-> q]
  <2>1. f = [i \in 1..0 |-> Turn(f, i)]
    OBVIOUS
  <2>2. QED BY <2>1
<1>3. ASSUME NEW m \in N PROVE m + 1 \in N
  <2>1. ASSUME m + 1 <= n PROVE \E f : Joined(f, m + 1)
    <3>1. m \in Nat /\ m <= n
      BY <2>1
    <3>2. PICK f : Joined(f, m)
      BY <3>1
    <3> DEFINE g == [i \in 1..(m + 1) |-> Turn(f, i)]
    <3>3. ASSUME NEW i \in 1..(m + 1), i # 1 PROVE g[i - 1] = f[i - 1]
      <4>1. i - 1 \in 1..(m + 1) /\ i - 1 \in 1..m
        BY <3>1, <3>3
      <4>2. g[i - 1] = Turn(f, i - 1)
        BY <4>1
      <4>3. f[i - 1] = Turn(f, i - 1)
        <5> HIDE DEF Turn
        <5>1. QED BY <3>2, <4>1
      <4>4. QED BY <4>2, <4>3
    <3> HIDE DEF g
    <3>4. \A i \in 1..(m + 1) : Turn(f, i) = Turn(g, i)
      BY <3>3
    <3>5. g = [i \in 1..(m + 1) |-> Turn(g, i)]
      <4> HIDE DEF Turn
      <4>1. QED BY <3>4 DEF g
    <3>6. QED BY <3>5
  <2>2. m + 1 \in Nat
    OBVIOUS
  <2> HIDE DEF Joined
  <2>3. QED BY <2>1, <2>2
<1>4. N = Nat
  <2>1. N \in SUBSET Nat
    OBVIOUS
  <2> HIDE DEF N
  <2>2. QED BY <1>2, <1>3, <2>1, AllNaturals
<1>5. Joined(F, n)
  <2> HIDE DEF Joined
  <2>1. n \in N
    BY <1>4
  <2>2. \E f : Joined(f, n)
    BY <2>1
  <2>3. QED BY <2>2
<1>6. FlattenSeq(q) = F[n]
  <2>1. F = CHOOSE f : f = [i \in 1..Len(q) |-> IF i = 1 THEN q[i] ELSE f[i - 1] \o q[i]]
    BY <1>1
  <2> HIDE DEF F
  <2>2. FlattenSeq(q) = F[Len(q)]
    BY <1>1, <2>1 DEF FlattenSeq
  <2>3. QED BY <1>1, <2>2
<1> HIDE DEF F
<1>7. DOMAIN F = 1..n /\ \A i \in 1..n : F[i] = IF i = 1 THEN q[i] ELSE F[i - 1] \o q[i]
  BY <1>5
<1> DEFINE G == {m \in Nat : m + 1 <= n => F[m + 1] \in Strings}
<1>8. 0 \in G
  BY <1>7
<1>9. ASSUME NEW m \in G PROVE m + 1 \in G
  <2>1. ASSUME (m + 1) + 1 <= n PROVE F[(m + 1) + 1] \in Strings
    <3>1. m \in Nat /\ m + 1 <= n /\ (m + 1) + 1 \in 1..n /\ (m + 1) + 1 # 1
          /\ ((m + 1) + 1) - 1 = m + 1
      BY <2>1
    <3>2. F[(m + 1) + 1] = F[m + 1] \o q[(m + 1) + 1]
      BY <1>7, <3>1
    <3>3. F[m + 1] \in Strings /\ q[(m + 1) + 1] \in Strings
      BY <3>1
    <3>4. QED BY <3>2, <3>3, ConcatProperties DEF Strings
  <2>2. QED BY <2>1
<1>10. G = Nat
  <2>1. G \in SUBSET Nat
    OBVIOUS
  <2> HIDE DEF G
  <2>2. QED BY <1>8, <1>9, <2>1, AllNaturals
<1>11. ASSUME NEW i \in 1..n PROVE F[i] \in Strings
  <2>1. i - 1 \in Nat /\ (i - 1) + 1 = i /\ i <= n
    OBVIOUS
  <2>2. i - 1 \in G
    BY <1>10, <2>1
  <2>3. QED BY <2>1, <2>2
<1>12. F \in [1..n -> Strings]
  <2>1. F = [i \in 1..n |-> F[i]]
    BY <1>5
  <2>2. QED BY <1>11, <2>1
<1>13. ASSUME NEW i \in 1..(n - 1) PROVE F[i + 1] = F[i] \o q[i + 1]
  <2>1. i + 1 \in 1..n /\ i + 1 # 1 /\ (i + 1) - 1 = i
    OBVIOUS
  <2>2. QED BY <1>7, <2>1
<1>14. F[1] = q[1]
  BY <1>7
<1>15. QED BY <1>6, <1>12, <1>13, <1>14

\* A part of the text after what comes before it.
LEMMA PrefixSlice ==
    ASSUME text \in Texts, NEW a \in Int, NEW b \in Int, 0 <= a, a <= b, b <= TextLen
    PROVE  /\ SubSeq(text, 1, a) \in Strings
           /\ SubSeq(text, 1, a) \o Slice(text, a, b) = SubSeq(text, 1, b)
<1> DEFINE x == SubSeq(text, 1, a)
           y == Slice(text, a, b)
           z == SubSeq(text, 1, b)
<1>1. TextLen \in Nat /\ text \in Seq(STRING) /\ Len(text) = TextLen
  BY SpanConstants, SecureConstants
<1>2. a \in 0..Len(text) /\ b \in 0..Len(text)
  BY <1>1
<1>3. x \in Seq(STRING) /\ Len(x) = a /\ \A i \in 1..a : x[i] = text[i]
  BY <1>1, <1>2, PrefixProps
<1>4. z \in Seq(STRING) /\ Len(z) = b /\ \A i \in 1..b : z[i] = text[i]
  BY <1>1, <1>2, PrefixProps
<1>5. y \in Seq(STRING) /\ Len(y) = b - a /\ \A i \in 1..(b - a) : y[i] = text[a + i]
  BY SliceProps DEF Strings
<1> HIDE DEF x, y, z
<1>6. /\ x \o y \in Seq(STRING) /\ Len(x \o y) = Len(x) + Len(y)
      /\ \A i \in 1..(Len(x) + Len(y)) : (x \o y)[i] = IF i <= Len(x) THEN x[i] ELSE y[i - Len(x)]
  BY <1>3, <1>5, ConcatProperties
<1>7. Len(x) + Len(y) = b
  BY <1>3, <1>5
<1>8. ASSUME NEW i \in 1..b PROVE (x \o y)[i] = z[i]
  <2>1. CASE i <= a
    <3>1. i \in 1..a
      BY <2>1
    <3>2. QED BY <1>3, <1>4, <1>6, <1>7, <2>1, <3>1
  <2>2. CASE ~(i <= a)
    <3>1. i - a \in 1..(b - a) /\ a + (i - a) = i
      BY <2>2
    <3>2. y[i - a] = text[i]
      BY <1>5, <3>1
    <3>3. QED BY <1>3, <1>4, <1>6, <1>7, <2>2, <3>2
  <2>3. QED BY <2>1, <2>2
<1>9. x \o y = z
  BY <1>4, <1>6, <1>7, <1>8, SeqEqual
<1>10. QED BY <1>3, <1>9 DEF x, y, z, Strings

\* Rewriting gives the original of a piece for what was written in its place.
LEMMA PieceRestored ==
    ASSUME PipelineInv, PairsInv, phase = "done", NEW i \in 1..Len(pieces), NEW u \in Strings
    PROVE  /\ Written("TOKENIZE", pieces[i]) \in Strings
           /\ Rewrite(Range(Mappings("TOKENIZE")), Written("TOKENIZE", pieces[i]) \o u) =
                 Original(pieces[i]) \o Rewrite(Range(Mappings("TOKENIZE")), u)
<1> DEFINE M == Mappings("TOKENIZE")
           w == Written("TOKENIZE", pieces[i])
           v == Original(pieces[i])
<1>1. TokenPairs(Range(M), Types, Draws)
  BY TokenMappings
<1>2. v \in Strings /\ \A k \in 1..Len(v) : v[k] \notin Types
  BY OriginalProps
<1>3. CASE pieces[i].masked
  <2>1. w \in Strings
    BY <1>3, TokenProps
  <2>2. PICK n \in 1..(Len(pieces) \div 2) : i = 2 * n
    BY <1>3, MaskedNumbers
  <2>3. M[n] = <<w, v>> /\ n \in 1..Len(M)
    BY <2>2, MappingsProps
  <2>4. M[n] \in Range(M)
    <3>1. PICK U : M \in Seq(U)
      BY MappingsProps, Zenon
    <3> HIDE DEF M
    <3>2. Range(M) = {M[k] : k \in 1..Len(M)}
      BY <3>1, Elements
    <3>3. QED BY <2>3, <3>2
  <2> HIDE DEF M, w, v
  <2>5. M[n][1] = w /\ M[n][2] = v
    BY <2>3
  <2>6. Rewrite(Range(M), M[n][1] \o u) = M[n][2] \o Rewrite(Range(M), u)
    BY <1>1, <2>4, RewriteToken
  <2>7. QED BY <2>1, <2>5, <2>6 DEF M, w, v
<1>4. CASE ~pieces[i].masked
  <2>1. w = v
    BY <1>4 DEF Written
  <2> HIDE DEF M, w, v
  <2>2. Rewrite(Range(M), v \o u) = v \o Rewrite(Range(M), u)
    BY <1>1, <1>2, RewritePlain
  <2>3. QED BY <1>2, <2>1, <2>2 DEF M, w, v
<1>5. QED BY <1>3, <1>4

\* A prompt is a text, and rewriting its tokens gives the consumer's.
LEMMA PromptRestored ==
    ASSUME PipelineInv, PairsInv, phase = "done"
    PROVE  /\ MaskedText("TOKENIZE") \in Strings
           /\ Rewrite(Range(Mappings("TOKENIZE")), MaskedText("TOKENIZE")) = text
<1> DEFINE P == Range(Mappings("TOKENIZE"))
           L == Len(pieces)
           q == [i \in DOMAIN pieces |-> Written("TOKENIZE", pieces[i])]
           v(i) == Original(pieces[i])
           upTo(i) == SubSeq(text, 1, pieces[i].to)
<1>1. L \in Nat /\ L >= 1 /\ DOMAIN pieces = 1..L
  <2>1. pieces \in Seq(Pieces) /\ Len(pieces) \in Nat /\ Len(pieces) % 2 = 1
    BY DEF PipelineInv, PipelineTypeOK, PairsInv
  <2>2. QED BY <2>1
<1>2. text \in Texts /\ TextLen \in Nat /\ text \in Seq(STRING) /\ Len(text) = TextLen
  BY SpanConstants, SecureConstants DEF PipelineInv
<1>3. q \in [1..L -> Strings] /\ \A i \in 1..L : q[i] = Written("TOKENIZE", pieces[i])
  <2>1. <<>> \in Strings
    BY DEF Strings
  <2>2. \A i \in 1..L : Written("TOKENIZE", pieces[i]) \in Strings
    BY <2>1, PieceRestored
  <2>3. QED BY <1>1, <2>2
<1>4. MaskedText("TOKENIZE") = FlattenSeq(q)
  BY DEF MaskedText
<1>5. \A i \in 1..L, u \in Strings : Rewrite(P, q[i] \o u) = v(i) \o Rewrite(P, u)
  BY <1>3, PieceRestored
<1>6. TokenPairs(P, Types, Draws)
  BY TokenMappings
<1>7. \A i \in 1..L : /\ pieces[i].from \in Int /\ pieces[i].to \in Int /\ 0 <= pieces[i].from
                      /\ pieces[i].from <= pieces[i].to /\ pieces[i].to <= TextLen
  BY PieceSpan
<1>8. /\ pieces[1].from = 0 /\ pieces[L].to = TextLen
      /\ \A i \in 1..(L - 1) : pieces[i].to = pieces[i + 1].from
  BY DEF PipelineInv, MaskedExactly
<1>9. \A i \in 1..L : v(i) \in Strings
  BY OriginalProps
<1>10. \A i \in 1..L : /\ upTo(i) \in Strings
                       /\ SubSeq(text, 1, pieces[i].from) \o v(i) = upTo(i)
  <2>1. ASSUME NEW i \in 1..L
        PROVE  upTo(i) \in Strings /\ SubSeq(text, 1, pieces[i].from) \o v(i) = upTo(i)
    <3>1. SubSeq(text, 1, pieces[i].from) \o v(i) = upTo(i)
      BY <1>2, <1>7, PrefixSlice DEF Original
    <3>2. SubSeq(text, 1, pieces[i].to) \in Strings
      <4>1. pieces[i].to \in Int /\ 0 <= pieces[i].to /\ pieces[i].to <= pieces[i].to
            /\ pieces[i].to <= TextLen
        BY <1>7
      <4>2. QED BY <1>2, <4>1, PrefixSlice
    <3>3. QED BY <3>1, <3>2
  <2>2. QED BY <2>1
<1>11. PICK f \in [1..L -> Strings] :
          /\ f[1] = q[1]
          /\ \A i \in 1..(L - 1) : f[i + 1] = f[i] \o q[i + 1]
          /\ FlattenSeq(q) = f[L]
  <2> HIDE DEF L, q
  <2>1. QED BY <1>1, <1>3, Flattened
<1> DEFINE Holds(i) == \A u \in Strings : Rewrite(P, f[i] \o u) = upTo(i) \o Rewrite(P, u)
<1>12. Holds(1)
  <2>1. 1 \in 1..L
    BY <1>1
  <2>2. upTo(1) = v(1)
    <3>1. SubSeq(text, 1, 0) = <<>>
      BY <1>2
    <3>2. <<>> \o v(1) = upTo(1)
      BY <1>8, <1>10, <2>1, <3>1
    <3>3. <<>> \o v(1) = v(1)
      BY <1>9, <2>1, ConcatEmptySeq DEF Strings
    <3>4. QED BY <3>2, <3>3
  <2> HIDE DEF upTo, v, q, P
  <2>3. QED BY <1>5, <1>11, <2>1, <2>2
<1>13. ASSUME NEW i \in 1..(L - 1), Holds(i) PROVE Holds(i + 1)
  <2>1. ASSUME NEW u \in Strings
        PROVE  Rewrite(P, f[i + 1] \o u) = upTo(i + 1) \o Rewrite(P, u)
    <3>1. i \in 1..L /\ i + 1 \in 1..L
      BY <1>1
    <3>2. /\ f[i] \in Strings /\ q[i + 1] \in Strings /\ v(i + 1) \in Strings
          /\ upTo(i) \in Strings /\ Rewrite(P, u) \in Strings /\ q[i + 1] \o u \in Strings
      <4>1. f[i] \in Strings /\ q[i + 1] \in Strings
        BY <1>3, <1>11, <3>1
      <4>2. q[i + 1] \o u \in Strings
        BY <4>1, ConcatProperties DEF Strings
      <4>3. Rewrite(P, u) \in Strings
        BY <1>6, RewriteType
      <4>4. QED BY <1>9, <1>10, <3>1, <4>1, <4>2, <4>3
    <3>3. upTo(i) \o v(i + 1) = upTo(i + 1)
      BY <1>8, <1>10, <3>1
    <3> HIDE DEF upTo, v, q, P
    <3>4. f[i + 1] \o u = f[i] \o (q[i + 1] \o u)
      <4>1. (f[i] \o q[i + 1]) \o u = f[i] \o (q[i + 1] \o u)
        <5> DEFINE x == f[i]
                   y == q[i + 1]
        <5>1. x \in Strings /\ y \in Strings
          BY <3>2
        <5> HIDE DEF x, y
        <5>2. (x \o y) \o u = x \o (y \o u)
          BY <5>1, StringsAssociative
        <5>3. QED BY <5>2 DEF x, y
      <4>2. QED BY <1>11, <4>1
    <3>5. Rewrite(P, f[i] \o (q[i + 1] \o u)) = upTo(i) \o Rewrite(P, q[i + 1] \o u)
      BY <1>13, <3>2
    <3>6. Rewrite(P, q[i + 1] \o u) = v(i + 1) \o Rewrite(P, u)
      BY <1>5, <3>1
    <3>7. upTo(i) \o (v(i + 1) \o Rewrite(P, u)) = upTo(i + 1) \o Rewrite(P, u)
      <4>1. (upTo(i) \o v(i + 1)) \o Rewrite(P, u) = upTo(i) \o (v(i + 1) \o Rewrite(P, u))
        <5> DEFINE x == upTo(i)
                   y == v(i + 1)
                   z == Rewrite(P, u)
        <5>1. x \in Strings /\ y \in Strings /\ z \in Strings
          BY <3>2
        <5> HIDE DEF x, y, z
        <5>2. (x \o y) \o z = x \o (y \o z)
          BY <5>1, StringsAssociative
        <5>3. QED BY <5>2 DEF x, y, z
      <4>2. QED BY <3>3, <4>1
    <3>8. QED BY <3>4, <3>5, <3>6, <3>7
  <2>2. QED BY <2>1
<1> DEFINE N == {m \in Nat : m + 1 \in 1..L => Holds(m + 1)}
<1>14. Holds(L)
  <2> HIDE DEF Holds
  <2>1. 0 \in N
    BY <1>12
  <2>2. ASSUME NEW m \in N PROVE m + 1 \in N
    <3>1. ASSUME (m + 1) + 1 \in 1..L PROVE Holds((m + 1) + 1)
      <4>1. m + 1 \in 1..(L - 1) /\ m + 1 \in 1..L
        BY <1>1, <3>1
      <4>2. QED BY <1>13, <4>1
    <3>2. QED BY <3>1
  <2>3. N = Nat
    <3>1. N \in SUBSET Nat
      OBVIOUS
    <3> HIDE DEF N
    <3>2. QED BY <2>1, <2>2, <3>1, AllNaturals
  <2>4. L - 1 \in N /\ (L - 1) + 1 = L /\ L \in 1..L
    <3>1. L - 1 \in Nat /\ (L - 1) + 1 = L /\ L \in 1..L
      BY <1>1
    <3> HIDE DEF N, L
    <3>2. QED BY <2>3, <3>1
  <2> HIDE DEF L
  <2>5. QED BY <2>4
<1>15. upTo(L) = text
  <2>1. SubSeq(text, 1, Len(text)) = text
    BY <1>2
  <2>2. QED BY <1>2, <1>8, <2>1
<1>16. <<>> \in Strings /\ Rewrite(P, <<>>) = <<>> /\ f[L] \in Strings
  <2>1. <<>> \in Strings
    BY DEF Strings
  <2>2. L \in 1..L
    BY <1>1
  <2>3. QED BY <1>6, <1>11, <2>1, <2>2, RewriteType
<1>17. f[L] \o <<>> = f[L] /\ text \o <<>> = text
  BY <1>2, <1>16, ConcatEmptySeq DEF Strings
<1> HIDE DEF upTo, P, q, L
<1>18. Rewrite(P, f[L] \o <<>>) = upTo(L) \o Rewrite(P, <<>>)
  BY <1>14, <1>16
<1>19. Rewrite(P, f[L]) = text
  BY <1>15, <1>16, <1>17, <1>18
<1>20. QED BY <1>4, <1>11, <1>16, <1>19 DEF P

-----------------------------------------------------------------------------
(* Restoring.                                                              *)

\* What the LLM answers is a text.
LEMMA ResponseType ==
    ASSUME NEW x \in Strings, NEW r \in Responses(x)
    PROVE  r \in Strings
<1>1. CASE r = x
  BY <1>1
<1>2. CASE r = x \o x
  BY <1>2, ConcatProperties DEF Strings
<1>3. ASSUME NEW i \in DOMAIN x, r = RemoveAt(x, i) PROVE r \in Strings
  <2>1. x \in Seq(STRING) /\ Len(x) \in Nat /\ i \in 1..Len(x)
    BY DEF Strings
  <2>2. i - 1 \in 0..Len(x) /\ i \in 0..Len(x)
    BY <2>1
  <2>3. SubSeq(x, 1, i - 1) \in Seq(STRING) /\ SubSeq(x, i + 1, Len(x)) \in Seq(STRING)
    BY <2>1, <2>2, PrefixProps, SuffixProps
  <2>4. SubSeq(x, 1, i - 1) \o SubSeq(x, i + 1, Len(x)) \in Seq(STRING)
    BY <2>3, ConcatProperties
  <2>5. QED BY <1>3, <2>4 DEF RemoveAt, Strings
<1>4. QED BY <1>1, <1>2, <1>3 DEF Responses

\* The mappings left after the first k.
LEMMA RestProps ==
    ASSUME NEW S, NEW M \in Seq(S), NEW k \in 0..Len(M)
    PROVE  /\ SubSeq(M, k + 1, Len(M)) = <<>> => k = Len(M)
           /\ SubSeq(M, k + 1, Len(M)) # <<>> =>
                 /\ k + 1 \in 1..Len(M) /\ k + 1 \in 0..Len(M)
                 /\ Head(SubSeq(M, k + 1, Len(M))) = M[k + 1]
                 /\ Tail(SubSeq(M, k + 1, Len(M))) = SubSeq(M, (k + 1) + 1, Len(M))
<1> DEFINE r == SubSeq(M, k + 1, Len(M))
           t == SubSeq(M, (k + 1) + 1, Len(M))
<1>1. Len(M) \in Nat /\ k \in Nat /\ k <= Len(M)
  OBVIOUS
<1>2. r \in Seq(S) /\ Len(r) = Len(M) - k /\ \A i \in 1..(Len(M) - k) : r[i] = M[k + i]
  BY SuffixProps
<1> HIDE DEF r
<1>3. r = <<>> => k = Len(M)
  <2>1. r = <<>> => Len(r) = 0
    OBVIOUS
  <2>2. QED BY <1>1, <1>2, <2>1
<1>4. ASSUME r # <<>>
      PROVE  k + 1 \in 1..Len(M) /\ k + 1 \in 0..Len(M) /\ Head(r) = M[k + 1] /\ Tail(r) = t
  <2>1. Len(r) >= 1
    BY <1>2, <1>4, EmptySeq
  <2>2. k + 1 \in 1..Len(M) /\ k + 1 \in 0..Len(M) /\ 1 \in 1..(Len(M) - k)
    BY <1>1, <1>2, <2>1
  <2>3. Head(r) = r[1] /\ r[1] = M[k + 1]
    BY <1>2, <1>4, <2>2, FirstIsHead
  <2>4. /\ Tail(r) \in Seq(S) /\ Len(Tail(r)) = Len(r) - 1
        /\ \A i \in 1..Len(Tail(r)) : Tail(r)[i] = r[i + 1]
    BY <1>2, <1>4, ConsProps
  <2>5. /\ t \in Seq(S) /\ Len(t) = Len(M) - (k + 1)
        /\ \A i \in 1..(Len(M) - (k + 1)) : t[i] = M[(k + 1) + i]
    BY <2>2, SuffixProps
  <2> HIDE DEF t
  <2>6. Len(t) = Len(Tail(r))
    BY <1>1, <1>2, <2>4, <2>5
  <2>7. ASSUME NEW i \in 1..Len(t) PROVE Tail(r)[i] = t[i]
    <3>1. i + 1 \in 1..(Len(M) - k) /\ k + (i + 1) = (k + 1) + i /\ i \in 1..(Len(M) - (k + 1))
      BY <1>1, <2>5
    <3>2. QED BY <1>2, <2>4, <2>5, <2>6, <3>1
  <2>8. Tail(r) = t
    BY <2>4, <2>5, <2>6, <2>7, SeqEqual
  <2>9. QED BY <2>2, <2>3, <2>8
<1>5. QED BY <1>3, <1>4 DEF r, t

\* The mappings of a complete mask stay what they are.
LEMMA MappingsSame ==
    ASSUME UNCHANGED <<vars, text>>, NEW CONSTANT s
    PROVE  Mappings(s)' = Mappings(s)
BY DEF vars, Mappings, MaskedPieces, Written, Original, EntityOf

\* Once the LLM has answered, nothing but the restoration goes on.
LEMMA StepAfterMask ==
    ASSUME StageInv, [SecureNext]_<<vars, llmVars>>, stage' \in {"restore", "answered"},
           ~Generate, ~RestoreTurn, ~Return
    PROVE  UNCHANGED <<vars, llmVars>>
<1>1. CASE UNCHANGED <<vars, llmVars>>
  BY <1>1
<1>2. ASSUME NEW t \in Types, NEW a \in 0..TextLen, NEW b \in 0..TextLen, DetectMatch(t, a, b)
      PROVE  FALSE
  BY <1>2 DEF DetectMatch, StageInv, llmVars
<1>3. CASE Next /\ UNCHANGED llmVars
  <2>1. phase = "done"
    BY <1>3 DEF StageInv, llmVars
  <2>2. Done
    BY <1>3, <2>1 DEF Next, Detect, Give, Resolve, ResolveTurn, Select, SelectTurn, Mask,
      MaskTurn, Join
  <2>3. QED BY <1>3, <2>2 DEF Done
<1>4. QED BY <1>1, <1>2, <1>3 DEF SecureNext

\* The LLM answers, and the restoration begins with all the mappings.
LEMMA StepGenerate ==
    ASSUME SecureInv, Generate
    PROVE  StageInv' /\ RestoreInv'
<1> DEFINE M == Mappings("TOKENIZE")
<1>1. /\ stage = "mask" /\ phase = "done" /\ stage' = "restore" /\ restored' = output'
      /\ UNCHANGED <<vars, text>>
      /\ \E s \in Strategies : strategy' = s /\ output' \in Responses(MaskedText(s))
                               /\ mappings' = Mappings(s)
  BY DEF Generate
<1>2. StageInv'
  BY <1>1 DEF StageInv, vars
<1>3. M' = M
  BY <1>1, MappingsSame
<1>4. ASSUME strategy' = "TOKENIZE" PROVE RestoreInv'
  <2>1. output' \in Responses(MaskedText("TOKENIZE")) /\ mappings' = M
    BY <1>1, <1>4
  <2>2. PipelineInv /\ PairsInv
    BY DEF SecureInv
  <2>3. output' \in Strings
    BY <1>1, <2>1, <2>2, PromptRestored, ResponseType
  <2>4. PICK U : M \in Seq(U)
    BY <1>1, <2>2, MappingsProps, Zenon
  <2> HIDE DEF M
  <2>5. Len(M) \in Nat /\ 0 \in 0..Len(M) /\ SubSeq(M, 0 + 1, Len(M)) = M
    BY <2>4
  <2>6. {M[n] : n \in 1..0} = {}
    OBVIOUS
  <2>7. restored' = Rewrite({M[n] : n \in 1..0}, output')
    BY <1>1, <2>3, <2>6, RewriteNothing
  <2>8. \E k \in 0..Len(M) : /\ mappings' = SubSeq(M, k + 1, Len(M))
                             /\ restored' = Rewrite({M[n] : n \in 1..k}, output')
    BY <2>1, <2>5, <2>7
  <2>9. (\E k \in 0..Len(M) : /\ mappings = SubSeq(M, k + 1, Len(M))
                              /\ restored = Rewrite({M[n] : n \in 1..k}, output))'
    BY <1>3, <2>8, Zenon
  <2>10. QED BY <2>3, <2>9, Zenon DEF RestoreInv, M
<1>5. ASSUME strategy' # "TOKENIZE" PROVE RestoreInv'
  BY <1>5 DEF RestoreInv
<1>6. QED BY <1>2, <1>4, <1>5

\* A turn restores the next mapping, as if it had been with the ones before.
LEMMA StepRestoreTurn ==
    ASSUME SecureInv, RestoreTurn
    PROVE  StageInv' /\ RestoreInv'
<1> DEFINE M == Mappings("TOKENIZE")
<1>1. /\ stage = "restore" /\ stage' = "restore" /\ mappings # <<>>
      /\ restored' = Rewrite({<<Head(mappings)[1], Head(mappings)[2]>>}, restored)
      /\ mappings' = Tail(mappings)
      /\ UNCHANGED <<vars, text>> /\ strategy' = strategy /\ output' = output
  BY DEF RestoreTurn, Replace
<1>2. StageInv' /\ phase = "done"
  BY <1>1 DEF SecureInv, StageInv, vars
<1>3. M' = M
  BY <1>1, MappingsSame
<1>4. ASSUME strategy = "TOKENIZE" PROVE RestoreInv'
  <2>1. PipelineInv /\ PairsInv
    BY DEF SecureInv
  <2>2. output \in Strings /\ \E k \in 0..Len(M) :
           /\ mappings = SubSeq(M, k + 1, Len(M))
           /\ restored = Rewrite({M[n] : n \in 1..k}, output)
    BY <1>1, <1>4 DEF SecureInv, RestoreInv
  <2>3. PICK k \in 0..Len(M) : /\ mappings = SubSeq(M, k + 1, Len(M))
                               /\ restored = Rewrite({M[n] : n \in 1..k}, output)
    BY <2>2
  <2>4. TokenPairs(Range(M), Types, Draws)
    BY <1>2, <2>1, TokenMappings
  <2>5. /\ Len(M) = Len(pieces) \div 2
        /\ \A n \in 1..Len(M) :
              M[n] = <<Written("TOKENIZE", pieces[2 * n]), Original(pieces[2 * n])>>
    BY <1>2, <2>1, MappingsProps
  <2>6. PICK U : M \in Seq(U)
    BY <1>2, <2>1, MappingsProps, Zenon
  <2> HIDE DEF M
  <2>7. /\ k + 1 \in 1..Len(M) /\ k + 1 \in 0..Len(M)
        /\ Head(mappings) = M[k + 1] /\ Tail(mappings) = SubSeq(M, (k + 1) + 1, Len(M))
    BY <1>1, <2>3, <2>6, RestProps
  <2> DEFINE P == {M[n] : n \in 1..k}
             p == M[k + 1]
  <2>8. <<p[1], p[2]>> = p
    BY <2>5, <2>7
  <2>9. P \cup {p} = {M[n] : n \in 1..(k + 1)} /\ P \cup {p} \in SUBSET Range(M)
    <3>1. Range(M) = {M[n] : n \in 1..Len(M)} /\ Len(M) \in Nat
      BY <2>6, Elements
    <3>2. k \in Nat /\ k <= Len(M) /\ \A n : n \in 1..(k + 1) <=> n \in 1..k \/ n = k + 1
      BY <2>7, <3>1
    <3>3. \A n \in 1..(k + 1) : n \in 1..Len(M)
      BY <2>7, <3>1
    <3>4. P \cup {p} = {M[n] : n \in 1..(k + 1)}
      BY <3>2
    <3>5. {M[n] : n \in 1..(k + 1)} \subseteq Range(M)
      BY <3>1, <3>3
    <3>6. QED BY <3>4, <3>5
  <2>10. TokenPairs(P \cup {p}, Types, Draws)
    <3> HIDE DEF P, p
    <3>1. QED BY <2>4, <2>9, FewerPairs
  <2>11. restored' = Rewrite({p}, Rewrite(P, output))
    BY <1>1, <2>3, <2>7, <2>8
  <2>12. Rewrite({p}, Rewrite(P, output)) = Rewrite(P \cup {p}, output)
    <3> HIDE DEF P, p
    <3>1. output \in Strings
      BY <2>2
    <3> DEFINE Q == P \cup {p}
               R == {p}
    <3>2. /\ TokenPairs(Q, Types, Draws) /\ p \in Q
          /\ \A q : q \in R <=> q = p
          /\ \A q : q \in Q <=> q \in P \/ q \in R
      BY <2>10
    <3> HIDE DEF Q, R
    <3>3. Rewrite(R, Rewrite(P, output)) = Rewrite(Q, output)
      BY <3>1, <3>2, RewriteAfter
    <3>4. QED BY <3>3 DEF Q, R
  <2>13. restored' = Rewrite({M[n] : n \in 1..(k + 1)}, output)
    <3> HIDE DEF P, p
    <3>1. QED BY <2>9, <2>11, <2>12
  <2>14. \E m \in 0..Len(M) : /\ mappings' = SubSeq(M, m + 1, Len(M))
                              /\ restored' = Rewrite({M[n] : n \in 1..m}, output')
    BY <1>1, <2>7, <2>13
  <2>15. (\E m \in 0..Len(M) : /\ mappings = SubSeq(M, m + 1, Len(M))
                               /\ restored = Rewrite({M[n] : n \in 1..m}, output))'
    BY <1>3, <2>14, Zenon
  <2>16. output' \in Strings
    BY <1>1, <2>2
  <2>17. QED BY <2>15, <2>16, Zenon DEF RestoreInv, M
<1>5. ASSUME strategy # "TOKENIZE" PROVE RestoreInv'
  BY <1>1, <1>5 DEF RestoreInv
<1>6. QED BY <1>2, <1>4, <1>5

\* The answer is returned, or nothing happens to it.
LEMMA StepKeeps ==
    ASSUME RestoreInv, stage' \in {"restore", "answered"} => stage \in {"restore", "answered"},
           UNCHANGED <<vars, text, strategy, mappings, output, restored>>
    PROVE  RestoreInv'
<1> DEFINE M == Mappings("TOKENIZE")
<1>1. M' = M
  BY MappingsSame
<1>2. ASSUME stage' \in {"restore", "answered"}, strategy' = "TOKENIZE" PROVE RestoreInv'
  <2>1. output' \in Strings /\ \E k \in 0..Len(M) :
           /\ mappings' = SubSeq(M, k + 1, Len(M))
           /\ restored' = Rewrite({M[n] : n \in 1..k}, output')
    BY <1>2 DEF RestoreInv
  <2> HIDE DEF M
  <2>2. (\E k \in 0..Len(M) : /\ mappings = SubSeq(M, k + 1, Len(M))
                              /\ restored = Rewrite({M[n] : n \in 1..k}, output))'
    BY <1>1, <2>1, Zenon
  <2>3. QED BY <2>1, <2>2, Zenon DEF RestoreInv, M
<1>3. QED BY <1>2 DEF RestoreInv

\* No answer is there yet.
LEMMA SecureInitInv == SecureInit => SecureInv
<1> SUFFICES ASSUME SecureInit PROVE SecureInv
  OBVIOUS
<1>1. PipelineInv
  BY PipelineInitInv
<1>2. phase \in {"detect", "call"} /\ stage \in {"call", "mask"}
  BY DEF SecureInit, Init
<1>3. PairsInv /\ StageInv /\ RestoreInv
  BY <1>2 DEF PairsInv, StageInv, RestoreInv
<1>4. QED BY <1>1, <1>3 DEF SecureInv

\* Every stage of run() keeps its invariant.
LEMMA SecureNextInv ==
    ASSUME SecureInv, [SecureNext]_<<vars, llmVars>>
    PROVE  SecureInv'
<1>1. PipelineInv' /\ PairsInv'
  BY PipelineNextInv, StepPairs DEF SecureInv
<1>2. CASE Generate
  BY <1>1, <1>2, StepGenerate DEF SecureInv
<1>3. CASE RestoreTurn
  BY <1>1, <1>3, StepRestoreTurn DEF SecureInv
<1>4. CASE Return
  <2>1. StageInv'
    BY <1>4 DEF SecureInv, StageInv, Return, vars
  <2>2. RestoreInv'
    BY <1>4, StepKeeps DEF SecureInv, Return
  <2>3. QED BY <1>1, <2>1, <2>2 DEF SecureInv
<1>5. CASE ~Generate /\ ~RestoreTurn /\ ~Return
  <2>1. CASE stage' \in {"restore", "answered"}
    <3>1. UNCHANGED <<vars, llmVars>>
      BY <1>5, <2>1, StepAfterMask DEF SecureInv
    <3>2. StageInv'
      BY <3>1 DEF SecureInv, StageInv, vars, llmVars
    <3>3. RestoreInv'
      BY <3>1, StepKeeps DEF SecureInv, llmVars
    <3>4. QED BY <1>1, <3>2, <3>3 DEF SecureInv
  <2>2. CASE stage' \notin {"restore", "answered"}
    <3>1. StageInv' /\ RestoreInv'
      BY <2>2 DEF StageInv, RestoreInv
    <3>2. QED BY <1>1, <3>1 DEF SecureInv
  <2>3. QED BY <2>1, <2>2
<1>6. QED BY <1>2, <1>3, <1>4, <1>5

\* Whatever the LLM makes of its prompt, after every turn of the loop of run()
\* the answer is what restoring the mappings done all at once would give.
THEOREM RestorationInvariance == SecureSpec => []SecureInv
<1>1. SecureInit => SecureInv
  BY SecureInitInv
<1>2. SecureInv /\ [SecureNext]_<<vars, llmVars>> => SecureInv'
  BY SecureNextInv
<1>3. QED BY <1>1, <1>2, PTL DEF SecureSpec

\* The order of the mappings does not matter to run(): the loop gives what one
\* pass over the LLM's answer would, which is the consumer's text when the LLM
\* returns its prompt, for every text, policy of tokens and number of entities.
THEOREM TokensComeBack == SecureSpec => []TokensRestored
<1>1. ASSUME SecureInv, stage = "answered", strategy = "TOKENIZE"
      PROVE  /\ restored = Rewrite(Range(Mappings(strategy)), output)
             /\ output = MaskedText(strategy) => restored = text
  <2> DEFINE M == Mappings("TOKENIZE")
  <2>1. PipelineInv /\ PairsInv /\ phase = "done" /\ mappings = <<>>
    BY <1>1 DEF SecureInv, StageInv
  <2>2. PICK k \in 0..Len(M) : /\ mappings = SubSeq(M, k + 1, Len(M))
                               /\ restored = Rewrite({M[n] : n \in 1..k}, output)
    BY <1>1 DEF SecureInv, RestoreInv
  <2>3. PICK U : M \in Seq(U)
    BY <2>1, MappingsProps, Zenon
  <2>4. Rewrite(Range(M), MaskedText("TOKENIZE")) = text
    BY <2>1, PromptRestored
  <2> HIDE DEF M
  <2>5. k = Len(M)
    BY <2>1, <2>2, <2>3, RestProps
  <2>6. Range(M) = {M[n] : n \in 1..k}
    BY <2>3, <2>5, Elements
  <2>7. restored = Rewrite(Range(M), output)
    BY <2>2, <2>6
  <2>8. QED BY <1>1, <2>4, <2>7 DEF M
<1>2. SecureInv => TokensRestored
  BY <1>1, Zenon DEF TokensRestored
<1>3. QED BY <1>2, RestorationInvariance, PTL

-----------------------------------------------------------------------------
(* Digits.                                                                 *)

\* The places of the digits DigitsUpTo counts.
DigitPlaces(v, n) == {i \in 1..n : v[i] \in Digits}

\* DigitsUpTo is the size of a finite set of places.
LEMMA DigitPlacesFinite ==
    ASSUME NEW v, NEW n \in Nat
    PROVE  /\ IsFiniteSet(DigitPlaces(v, n)) /\ Cardinality(DigitPlaces(v, n)) \in Nat
           /\ DigitsUpTo(v, n) = Cardinality(DigitPlaces(v, n))
<1>1. IsFiniteSet(1..n)
  BY FS_Interval
<1>2. DigitPlaces(v, n) \in SUBSET (1..n)
  BY DEF DigitPlaces
<1>3. IsFiniteSet(DigitPlaces(v, n))
  BY <1>1, <1>2, FS_Subset
<1>4. QED BY <1>3, FS_CardinalityType DEF DigitPlaces, DigitsUpTo

\* A text without digits shows none.
LEMMA NoDigits ==
    ASSUME NEW v, NEW n \in Nat, \A i \in 1..n : v[i] \notin Digits
    PROVE  DigitsUpTo(v, n) = 0
<1>1. DigitPlaces(v, n) = {}
  BY DEF DigitPlaces
<1>2. QED BY <1>1, DigitPlacesFinite, FS_EmptySet

\* Where all digits are replaced by stars none is left.
LEMMA StarredDigits ==
    ASSUME NEW v \in Strings, NEW S, Digits \subseteq S
    PROVE  DigitsUpTo(Starred(v, S), Len(Starred(v, S))) = 0
<1> DEFINE m == Starred(v, S)
<1>1. Len(v) \in Nat /\ DOMAIN v = 1..Len(v)
  BY DEF Strings
<1>2. m = [i \in 1..Len(v) |-> IF v[i] \in S THEN "*" ELSE v[i]]
  BY <1>1 DEF Starred
<1>3. Len(m) = Len(v)
  BY <1>1, <1>2
<1>4. "*" \notin Digits
  BY DEF Digits
<1>5. \A i \in 1..Len(m) : m[i] \notin Digits
  BY <1>2, <1>3, <1>4
<1> HIDE DEF m
<1>6. DigitsUpTo(m, Len(m)) = 0
  BY <1>1, <1>3, <1>5, NoDigits
<1>7. QED BY <1>6 DEF m

\* A set of positions has a first one.
LEMMA FirstAmong ==
    ASSUME NEW n \in Nat, NEW T \in SUBSET (0..n), T # {}
    PROVE  \E i \in T : \A j \in T : i <= j
<1> DEFINE U == {n - i : i \in T}
<1>1. U \in SUBSET (0..n) /\ U # {}
  <2>1. \A i \in T : n - i \in 0..n
    OBVIOUS
  <2>2. QED BY <2>1
<1> HIDE DEF U
<1>2. PICK x \in U : \A y \in U : y <= x
  BY <1>1, LastOf
<1> USE DEF U
<1>3. PICK i \in T : x = n - i
  OBVIOUS
<1>4. ASSUME NEW j \in T PROVE i <= j
  <2>1. n - j <= n - i /\ i \in 0..n /\ j \in 0..n
    BY <1>2, <1>3
  <2>2. QED BY <2>1
<1>5. QED BY <1>4

\* At most e digits are among the first e.
LEMMA FirstDigits ==
    ASSUME NEW v, NEW n \in Nat, NEW e \in Nat
    PROVE  LET A == {i \in DigitPlaces(v, n) : DigitsUpTo(v, i) <= e}
           IN  IsFiniteSet(A) /\ Cardinality(A) \in Nat /\ Cardinality(A) <= e
<1> DEFINE D == DigitPlaces(v, n)
           A == {i \in D : DigitsUpTo(v, i) <= e}
<1>1. IsFiniteSet(D) /\ D \subseteq 1..n
  BY DigitPlacesFinite DEF DigitPlaces
<1> HIDE DEF D
<1>2. IsFiniteSet(A) /\ Cardinality(A) \in Nat
  <2>1. A \in SUBSET D
    OBVIOUS
  <2> HIDE DEF A
  <2>2. QED BY <1>1, <2>1, FS_Subset, FS_CardinalityType
<1>3. CASE A = {}
  <2>1. Cardinality({}) = 0
    BY FS_EmptySet
  <2>2. QED BY <1>2, <1>3, <2>1 DEF D
<1>4. CASE A # {}
  <2>1. A \in SUBSET (0..n)
    <3>1. \A i \in 1..n : i \in 0..n
      OBVIOUS
    <3>2. A \subseteq D
      OBVIOUS
    <3> HIDE DEF A
    <3>3. QED BY <1>1, <3>1, <3>2
  <2>2. PICK a \in A : \A j \in A : j <= a
    <3> HIDE DEF A
    <3>1. QED BY <1>4, <2>1, LastOf
  <2>3. a \in 1..n /\ a \in Nat /\ DigitsUpTo(v, a) <= e
    BY <1>1
  <2>4. A \in SUBSET DigitPlaces(v, a)
    <3>1. \A j \in A : j \in 1..n /\ v[j] \in Digits
      BY DEF D, DigitPlaces
    <3> HIDE DEF A
    <3>2. \A j \in A : j \in 1..a
      BY <2>2, <2>3, <3>1
    <3>3. QED BY <3>1, <3>2 DEF DigitPlaces
  <2> HIDE DEF A
  <2>5. Cardinality(A) <= Cardinality(DigitPlaces(v, a))
    BY <2>3, <2>4, DigitPlacesFinite, FS_Subset
  <2>6. Cardinality(A) <= e
    BY <1>2, <2>3, <2>5, DigitPlacesFinite
  <2>7. QED BY <1>2, <2>6 DEF A, D
<1>5. QED BY <1>3, <1>4

\* At most e digits are among the last e.
LEMMA LastDigits ==
    ASSUME NEW v, NEW n \in Nat, NEW e \in Nat
    PROVE  LET B == {i \in DigitPlaces(v, n) : DigitsUpTo(v, i) > DigitsUpTo(v, n) - e}
           IN  IsFiniteSet(B) /\ Cardinality(B) \in Nat /\ Cardinality(B) <= e
<1> DEFINE D == DigitPlaces(v, n)
           total == DigitsUpTo(v, n)
           B == {i \in D : DigitsUpTo(v, i) > total - e}
<1>1. IsFiniteSet(D) /\ D \subseteq 1..n /\ total = Cardinality(D) /\ total \in Nat
  BY DigitPlacesFinite DEF DigitPlaces
<1> HIDE DEF D, total
<1>2. IsFiniteSet(B) /\ Cardinality(B) \in Nat
  <2>1. B \in SUBSET D
    OBVIOUS
  <2> HIDE DEF B
  <2>2. QED BY <1>1, <2>1, FS_Subset, FS_CardinalityType
<1>3. CASE B = {}
  <2>1. Cardinality({}) = 0
    BY FS_EmptySet
  <2>2. QED BY <1>2, <1>3, <2>1 DEF D, total
<1>4. CASE B # {}
  <2>1. B \in SUBSET (0..n)
    <3>1. \A i \in 1..n : i \in 0..n
      OBVIOUS
    <3>2. B \subseteq D
      OBVIOUS
    <3> HIDE DEF B
    <3>3. QED BY <1>1, <3>1, <3>2
  <2>2. PICK b \in B : \A j \in B : b <= j
    <3> HIDE DEF B
    <3>1. QED BY <1>4, <2>1, FirstAmong
  <2>3. b \in 1..n /\ b \in Nat /\ b \in D /\ DigitsUpTo(v, b) > total - e
    BY <1>1
  <2> DEFINE C == DigitPlaces(v, b)
             R == D \ C
  <2>4. C \subseteq D /\ D \cap C = C
    BY <2>3 DEF D, DigitPlaces
  <2>5. B \in SUBSET (R \cup {b})
    <3>1. ASSUME NEW j \in B, j # b PROVE j \in R
      <4>1. j \in D /\ j \in 1..n /\ b <= j
        BY <1>1, <2>2
      <4>2. j \notin 1..b
        BY <2>3, <3>1, <4>1
      <4>3. QED BY <4>1, <4>2 DEF DigitPlaces
    <3> HIDE DEF B, R
    <3>2. QED BY <3>1
  <2>6. IsFiniteSet(C) /\ Cardinality(C) \in Nat /\ Cardinality(C) > total - e
    <3> HIDE DEF B
    <3>1. QED BY <2>3, DigitPlacesFinite
  <2> HIDE DEF B, C
  <2>7. IsFiniteSet(R) /\ Cardinality(R) = total - Cardinality(C)
    BY <1>1, <2>4, FS_Difference
  <2> HIDE DEF R
  <2>8. /\ IsFiniteSet(R \cup {b})
        /\ Cardinality(R \cup {b}) = IF b \in R THEN Cardinality(R) ELSE Cardinality(R) + 1
    BY <2>7, FS_AddElement
  <2>9. Cardinality(B) <= Cardinality(R \cup {b})
    BY <2>5, <2>8, FS_Subset
  <2>10. Cardinality(B) <= e
    BY <1>1, <1>2, <2>6, <2>7, <2>8, <2>9
  <2>11. QED BY <1>2, <2>10 DEF B, D, total
<1>5. QED BY <1>3, <1>4

\* _mask_numeric_edges shows the first and last digits of a long number, and
\* never as many as it has.
LEMMA NumericEdges ==
    ASSUME NEW v \in Strings
    PROVE  LET m == MaskNumericEdges(v)
               shown == DigitsUpTo(m, Len(m))
               had == DigitsUpTo(v, Len(v))
           IN  shown <= 2 * NumericVisibleEdge /\ (had > 0 => shown < had)
<1> DEFINE n == Len(v)
           e == NumericVisibleEdge
           total == DigitsUpTo(v, n)
           m == MaskNumericEdges(v)
           D == DigitPlaces(v, n)
           A == {i \in D : DigitsUpTo(v, i) <= e}
           B == {i \in D : DigitsUpTo(v, i) > total - e}
<1>1. n \in Nat /\ DOMAIN v = 1..n /\ e \in Nat /\ NumericMinDigits \in Nat
      /\ 2 * e <= NumericMinDigits
  BY StrategyConstants DEF Strings
<1>2. total \in Nat
  BY <1>1, DigitPlacesFinite
<1>3. CASE total <= NumericMinDigits
  <2>1. m = Starred(v, Digits)
    BY <1>3 DEF MaskNumericEdges, MaskDigits
  <2>2. DigitsUpTo(m, Len(m)) = 0
    BY <2>1, StarredDigits
  <2> HIDE DEF m, total, e, n
  <2>3. QED BY <1>1, <1>2, <2>2 DEF m, total, e, n
<1>4. CASE ~(total <= NumericMinDigits)
  <2> DEFINE Edge(i) == DigitsUpTo(v, i) <= e \/ DigitsUpTo(v, i) > total - e
  <2>1. m = [i \in 1..n |-> IF v[i] \in Digits /\ ~Edge(i) THEN "*" ELSE v[i]]
    BY <1>1, <1>4 DEF MaskNumericEdges
  <2> HIDE DEF m, n
  <2>2. Len(m) = n
    BY <1>1, <2>1
  <2>3. "*" \notin Digits
    BY DEF Digits
  <2>4. \A i \in 1..n : m[i] \in Digits <=> v[i] \in Digits /\ Edge(i)
    BY <2>1, <2>3
  <2>5. DigitPlaces(m, n) = A \cup B
    <3> HIDE DEF total, e
    <3>1. QED BY <2>4 DEF DigitPlaces
  <2>6. /\ IsFiniteSet(A) /\ Cardinality(A) \in Nat /\ Cardinality(A) <= e
        /\ IsFiniteSet(B) /\ Cardinality(B) \in Nat /\ Cardinality(B) <= e
    <3> HIDE DEF e
    <3>1. QED BY <1>1, FirstDigits, LastDigits
  <2> HIDE DEF A, B
  <2>7. /\ Cardinality(A \cup B) = Cardinality(A) + Cardinality(B) - Cardinality(A \cap B)
        /\ Cardinality(A \cap B) \in Nat
    BY <2>6, FS_Union, FS_Intersection, FS_CardinalityType
  <2>8. DigitsUpTo(m, Len(m)) = Cardinality(A \cup B) /\ Cardinality(A \cup B) \in Nat
    BY <1>1, <2>2, <2>5, DigitPlacesFinite
  <2> HIDE DEF total, e
  <2>9. DigitsUpTo(m, Len(m)) <= 2 * e /\ DigitsUpTo(m, Len(m)) < total
    BY <1>1, <1>2, <1>4, <2>6, <2>7, <2>8
  <2>10. QED BY <2>9 DEF m, total, e, n
<1>5. QED BY <1>3, <1>4

\* What PARTIAL_MASK shows of a value of any type.
LEMMA PartialDigits ==
    ASSUME NEW t, NEW v \in Strings
    PROVE  LET m == PartialMask(t, v)
               shown == DigitsUpTo(m, Len(m))
               had == DigitsUpTo(v, Len(v))
           IN  /\ t \in NumericEdgeTypes =>
                     shown <= 2 * NumericVisibleEdge /\ (had > 0 => shown < had)
               /\ t \notin NumericEdgeTypes \cup InitialsTypes \cup EmailTypes => shown = 0
<1>1. CASE t \in NumericEdgeTypes
  <2>1. t \notin InitialsTypes /\ t \notin DigitsOnlyTypes /\ t \notin EmailTypes
    BY <1>1, StrategyConstants
  <2>2. PartialMask(t, v) = MaskNumericEdges(v)
    BY <1>1, <2>1 DEF PartialMask
  <2>3. QED BY <1>1, <2>2, NumericEdges
<1>2. CASE t \notin NumericEdgeTypes \cup InitialsTypes \cup EmailTypes
  <2>1. Digits \subseteq Alnum
    BY DEF Alnum
  <2>2. PartialMask(t, v) = Starred(v, Digits) \/ PartialMask(t, v) = Starred(v, Alnum)
    BY <1>2 DEF PartialMask, MaskDigits, MaskAllAlnum
  <2>3. DigitsUpTo(PartialMask(t, v), Len(PartialMask(t, v))) = 0
    BY <2>1, <2>2, StarredDigits
  <2>4. QED BY <1>2, <2>3
<1>3. QED BY <1>1, <1>2

\* Of the digits of a span PARTIAL_MASK shows at most the edges of a number, and
\* never all of them: in the mask of every text, whichever spans resolution and
\* selection left, for every width of the edges the strategy allows.
THEOREM DigitsStayHidden == SecureSpec => []DigitsHidden
<1>1. ASSUME SecureInv, stage = "restore", strategy = "PARTIAL_MASK",
             NEW n \in DOMAIN MaskedPieces
      PROVE  LET e == EntityOf(MaskedPieces[n])
                 mask == Mappings(strategy)[n][1]
                 value == Mappings(strategy)[n][2]
                 shown == DigitsUpTo(mask, Len(mask))
                 had == DigitsUpTo(value, Len(value))
             IN  /\ e.type \in NumericEdgeTypes =>
                       shown <= 2 * NumericVisibleEdge /\ (had > 0 => shown < had)
                 /\ e.type \notin NumericEdgeTypes \cup InitialsTypes \cup EmailTypes =>
                       shown = 0
  <2> DEFINE p == pieces[2 * n]
             v == Original(p)
             t == EntityOf(p).type
             mask == Mappings(strategy)[n][1]
             value == Mappings(strategy)[n][2]
  <2>1. PipelineInv /\ PairsInv /\ phase = "done"
    BY <1>1 DEF SecureInv, StageInv
  <2>2. n \in 1..(Len(pieces) \div 2) /\ MaskedPieces[n] = p
    BY <1>1 DEF MaskedPieces
  <2>3. 2 * n \in 1..Len(pieces) /\ p.masked
    BY <2>1, <2>2, MaskedNumbers
  <2>4. Mappings(strategy)[n] = <<Written(strategy, p), v>>
    BY <2>1, <2>2, MappingsProps
  <2>5. v \in Strings
    BY <2>1, <2>3, OriginalProps
  <2>6. Written("PARTIAL_MASK", p) = PartialMask(t, v)
    BY <2>3 DEF Written, Replacement
  <2> HIDE DEF v, t, p
  <2>7. mask = PartialMask(t, v) /\ value = v
    BY <1>1, <2>4, <2>6
  <2> HIDE DEF mask, value
  <2>8. LET shown == DigitsUpTo(mask, Len(mask))
            had == DigitsUpTo(value, Len(value))
        IN  /\ t \in NumericEdgeTypes =>
                  shown <= 2 * NumericVisibleEdge /\ (had > 0 => shown < had)
            /\ t \notin NumericEdgeTypes \cup InitialsTypes \cup EmailTypes => shown = 0
    BY <2>5, <2>7, PartialDigits
  <2>9. EntityOf(MaskedPieces[n]).type = t
    BY <2>2 DEF t
  <2>10. QED BY <2>8, <2>9 DEF mask, value
<1>2. SecureInv => DigitsHidden
  BY <1>1, Zenon DEF DigitsHidden
<1>3. QED BY <1>2, RestorationInvariance, PTL
=============================================================================
