--------------------------- MODULE SpanResolution ---------------------------
(***************************************************************************)
(* Entities and the rules that choose between overlapping ones:            *)
(* app/detection/resolution.py for what the detectors found, and           *)
(* app/masking/engine.py for what is masked.  A text is its length; an     *)
(* entity is a type, a span start..end-1 and a confidence.  matches says   *)
(* whether the entity's value is the text of its span.                     *)
(***************************************************************************)
EXTENDS Integers, Sequences, Functions

CONSTANTS
    Types,             \* PIIType
    Priority,          \* _priority
    Confidences,
    TextLen,           \* len(text)
    MaxEntities        \* bound on the entities of one text

ASSUME SpanConstants ==
    /\ Priority \in [Types -> Nat]
    /\ Confidences \subseteq Nat
    /\ TextLen \in Nat
    /\ MaxEntities \in Nat

Entities == [type : Types, start : Int, end : Int,
             conf : Confidences, matches : BOOLEAN]

\* What a detector may return: the span of a match is in the text and the
\* value is its text.  A language model may name the empty string, which
\* text.find finds at 0.
Detectable ==
    {e \in Entities :
        /\ e.matches
        /\ \/ 0 <= e.start /\ e.start < e.end /\ e.end <= TextLen
           \/ e.start = 0 /\ e.end = 0}

Length(e) == e.end - e.start

Overlaps(a, b) == a.start < b.end /\ b.start < a.end

\* Mutant: confidence is compared before the type.
Better_ConfidenceFirst(a, b) ==
    IF a.conf # b.conf THEN IF a.conf > b.conf THEN a ELSE b
    ELSE IF Priority[a.type] >= Priority[b.type] THEN a ELSE b

\* _better
Better(a, b) ==
    IF Priority[a.type] # Priority[b.type]
    THEN IF Priority[a.type] > Priority[b.type] THEN a ELSE b
    ELSE IF a.conf # b.conf
    THEN IF a.conf > b.conf THEN a ELSE b
    ELSE IF Length(a) >= Length(b) THEN a ELSE b

\* Of the entities with one type and span, the most confident stays.
Dedup(C) ==
    {e \in C : \A f \in C :
        f.type = e.type /\ f.start = e.start /\ f.end = e.end => f.conf <= e.conf}

\* The sequences without repetition whose elements are those of S.
Listings(S) ==
    {s \in UNION {[1..n -> S] : n \in 0..MaxEntities} :
        /\ \A e \in S : \E i \in DOMAIN s : s[i] = e
        /\ \A i, j \in DOMAIN s : s[i] = s[j] => i = j}

\* sorted by (start, end): equal spans stay in the order they were found in,
\* which may be any.
ResolveOrders(S) ==
    {s \in Listings(S) : \A i, j \in DOMAIN s : i < j =>
        \/ s[i].start < s[j].start
        \/ s[i].start = s[j].start /\ s[i].end <= s[j].end}

\* Mutant: an overlapping entity is kept beside the last one.
ResolveInto_Append(r, e) == Append(r, e)

\* One turn of the loop of resolve_spans.
ResolveInto(r, e) ==
    IF r # <<>> /\ Overlaps(r[Len(r)], e)
    THEN [r EXCEPT ![Len(r)] = Better(r[Len(r)], e)]
    ELSE Append(r, e)

\* Mutant: the end of the span is not compared with the text.
Valid_AnyEnd(e) == 0 <= e.start /\ e.start < e.end /\ e.matches

\* The spans _select_spans does not drop at once.
Valid(e) ==
    /\ 0 <= e.start /\ e.end <= TextLen /\ e.start < e.end
    /\ e.matches

\* sorted by (start, -length)
SelectOrders(S) ==
    {s \in Listings({e \in S : Valid(e)}) : \A i, j \in DOMAIN s : i < j =>
        \/ s[i].start < s[j].start
        \/ s[i].start = s[j].start /\ s[i].end >= s[j].end}

\* Mutant: a span is skipped only when it begins with the last one.
SelectInto_SameStart(r, e) ==
    IF r # <<>> /\ e.start = r[Len(r)].start THEN r ELSE Append(r, e)

\* One turn of the loop of _select_spans.
SelectInto(r, e) ==
    IF r # <<>> /\ e.start < r[Len(r)].end THEN r ELSE Append(r, e)
=============================================================================
