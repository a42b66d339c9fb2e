--------------------------- MODULE MaskStrategies ---------------------------
(***************************************************************************)
(* app/masking/strategies/impl.py: the text that stands for a value.  A    *)
(* text is a sequence of characters.  The placeholder of TOKENIZE and of   *)
(* SYNTHETIC, which differ in a word only, is the type and a random part,  *)
(* written as two characters of their own.                                 *)
(***************************************************************************)
EXTENDS Characters, FiniteSets

CONSTANTS
    InitialsTypes,     \* _INITIALS_TYPES
    NumericEdgeTypes,  \* _NUMERIC_EDGE_TYPES
    DigitsOnlyTypes,   \* _DIGITS_ONLY_TYPES
    EmailTypes,        \* _EMAIL_TYPES
    NumericVisibleEdge,
    NumericMinDigits,
    Random             \* what secrets.token_hex draws, by the place of the span

ASSUME StrategyConstants ==
    /\ {NumericVisibleEdge, NumericMinDigits} \subseteq Nat
    /\ 2 * NumericVisibleEdge <= NumericMinDigits
    \* no type has two formats
    /\ NumericEdgeTypes \cap (InitialsTypes \cup DigitsOnlyTypes \cup EmailTypes) = {}
    /\ InitialsTypes \cap (DigitsOnlyTypes \cup EmailTypes) = {}
    /\ DigitsOnlyTypes \cap EmailTypes = {}

\* The characters of S replaced by stars.
Starred(v, S) == [i \in DOMAIN v |-> IF v[i] \in S THEN "*" ELSE v[i]]

MaskAllAlnum(v) == Starred(v, Alnum)

MaskDigits(v) == Starred(v, Digits)

\* The number of digits among the first n characters.
DigitsUpTo(v, n) == Cardinality({i \in 1..n : v[i] \in Digits})

\* Mutant: a digit too many is kept at the end.
MaskNumericEdges_OffByOne(v) ==
    LET total == DigitsUpTo(v, Len(v))
        Edge(n) == n <= NumericVisibleEdge \/ n >= total - NumericVisibleEdge
    IN  IF total <= NumericMinDigits
        THEN MaskDigits(v)
        ELSE [i \in DOMAIN v |-> IF v[i] \in Digits /\ ~Edge(DigitsUpTo(v, i))
                                 THEN "*" ELSE v[i]]

MaskNumericEdges(v) ==
    LET total == DigitsUpTo(v, Len(v))
        Edge(n) == n <= NumericVisibleEdge \/ n > total - NumericVisibleEdge
    IN  IF total <= NumericMinDigits
        THEN MaskDigits(v)
        ELSE [i \in DOMAIN v |-> IF v[i] \in Digits /\ ~Edge(DigitsUpTo(v, i))
                                 THEN "*" ELSE v[i]]

\* The places where a word, \w+, begins.
WordStarts(v) ==
    {i \in DOMAIN v : v[i] \in Alnum /\ (i = 1 \/ v[i - 1] \notin Alnum)}

MaskInitials(v) ==
    LET starts == SetToSortSeq(WordStarts(v), <)
    IN  IF starts = <<>>
        THEN v
        ELSE FlattenSeq([n \in DOMAIN starts |->
                IF n = 1 THEN <<v[starts[n]], ".">> ELSE <<" ", v[starts[n]], ".">>])

MaskEmail(v) ==
    LET ats == {i \in DOMAIN v : v[i] = "@"}
        at == CHOOSE i \in ats : \A j \in ats : i <= j
        domain == SubSeq(v, at, Len(v))
    IN  CASE ats = {} -> MaskAllAlnum(v)
          [] ats # {} /\ at = 1 -> <<"*">> \o domain
          [] OTHER -> <<v[1], "*", "*", "*">> \o domain

\* PartialMaskStrategy.mask
PartialMask(t, v) ==
    CASE t \in InitialsTypes -> MaskInitials(v)
      [] t \in NumericEdgeTypes -> MaskNumericEdges(v)
      [] t \in DigitsOnlyTypes -> MaskDigits(v)
      [] t \in EmailTypes -> MaskEmail(v)
      [] OTHER -> MaskAllAlnum(v)

\* Mutant: the placeholder has no random part.
Token_OfType(t, n) == <<t>>

\* The token drawn for an entity that begins at n.
Token(t, n) == <<t, Random[n]>>

\* MaskingStrategy.mask of an entity that begins at n, for each strategy.
Replacement(strategy, t, v, n) ==
    CASE strategy = "FULL_MASK" -> MaskAllAlnum(v)
      [] strategy = "PARTIAL_MASK" -> PartialMask(t, v)
      [] OTHER -> Token(t, n)
=============================================================================
