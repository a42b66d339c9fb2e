--------------------------- MODULE RegexDetector ---------------------------
(***************************************************************************)
(* app/detection/regex/detector.py: what is made of a match of a rule.     *)
(* Which spans a pattern matches is Python's affair; Shaped says what      *)
(* every match looks like.  Some letters stand for words: a marker, a word *)
(* for a bank, a word that tells a person's data from a bank's.            *)
(***************************************************************************)
EXTENDS Characters

CONSTANTS
    Alphabet,          \* _RULES: the characters a type's pattern captures
    GroupedTypes,      \* _GROUPED_TYPES
    IssuerTypes,       \* PASSPORT_ISSUER
    ComponentTypes,    \* _ADDRESS_COMPONENT_TYPES
    MarkerTypes,       \* _MARKER_TYPES
    Dismissed,         \* the <<type, value>> that fail the test on the value alone:
                       \* a validator, _COUNTRY_NAMES, _is_full_address or, of an
                       \* issuer, the phrase for a year
    MarkerWord, BankWord, PersonalWord,
    MarkerWindow,      \* _MARKER_WINDOW
    BankBefore,        \* the window of _is_bank_context
    BankAfter

ASSUME DetectorConstants ==
    {MarkerWindow, BankBefore, BankAfter} \subseteq Nat

\* What the patterns match: words of a type's characters, a mail address with
\* its sign inside.
Shaped(t, v) ==
    /\ v # <<>>
    /\ \A i \in DOMAIN v : v[i] \in Alphabet[t]
    /\ v[1] \in Alnum
    /\ v[Len(v)] # " "
    /\ "@" \in Alphabet[t] => \E i \in 2..(Len(v) - 1) : v[i] = "@"

\* The last n characters of v are all in S.
EndsIn(v, n, S) == n <= Len(v) /\ \A i \in (Len(v) - n + 1)..Len(v) : v[i] \in S

\* v without its longest end in S.
Trimmed(v, S) ==
    SubSeq(v, 1, CHOOSE n \in 0..Len(v) :
                    /\ EndsIn(v, Len(v) - n, S)
                    /\ n > 0 => v[n] \notin S)

\* The loop that strips trailing punctuation off a group ending at end; as every
\* pattern captures a letter or a digit first, it never empties it.
Strip(v, end) ==
    LET s == Trimmed(v, {".", " "})
    IN  [value |-> s, end |-> end - (Len(v) - Len(s))]

\* \s+\d{1,2}$: one or two digits at the end, after a space.
EndsInFragment(v) ==
    \E n \in {1, 2} :
        /\ EndsIn(v, n, Digits)
        /\ Len(v) > n /\ v[Len(v) - n] = " "

WithoutFragment(v) == Trimmed(Trimmed(v, Digits), {" "})

Numeric(v) == \A i \in DOMAIN v : v[i] \in Digits

\* Mutant: the end stays where it was.
CleanIssuer_KeepsEnd(r, start) ==
    LET cut == IF EndsInFragment(r.value) THEN WithoutFragment(r.value) ELSE r.value
    IN  IF Numeric(cut) THEN [value |-> <<>>, end |-> start] ELSE [r EXCEPT !.value = cut]

\* _clean_issuer: a fragment of a date is cut off and a number is no issuer,
\* nor is the empty value.  What it does before a date changes nothing, as the
\* group was stripped.
CleanIssuer(r, start) ==
    LET cut == IF EndsInFragment(r.value) THEN WithoutFragment(r.value) ELSE r.value
    IN  CASE Numeric(cut) -> [value |-> <<>>, end |-> start]
          [] ~Numeric(cut) /\ cut # r.value -> [value |-> cut, end |-> start + Len(cut)]
          [] OTHER -> r

\* Value and end of a match that spans start..end-1 of text.
Cleaned(text, t, start, end) ==
    LET v == Slice(text, start, end)
    IN  CASE t \in IssuerTypes -> CleanIssuer(Strip(v, end), start)
          [] t \in GroupedTypes \ IssuerTypes -> Strip(v, end)
          [] OTHER -> [value |-> v, end |-> end]

Before(a, n) == IF a > n THEN a - n ELSE 0

HasMarker(text, start, end) ==
    Contains(Slice(text, Before(start, MarkerWindow), end + MarkerWindow), MarkerWord)

IsBankContext(text, start) ==
    LET window == Slice(text, Before(start, BankBefore), start + BankAfter)
    IN  Contains(window, BankWord) /\ ~Contains(window, PersonalWord)

\* The match, cleaned to r, is reported.
Reports(text, t, start, r) ==
    /\ r.value # <<>>
    /\ <<t, r.value>> \notin Dismissed
    /\ t \in ComponentTypes => ~IsBankContext(text, start)
    /\ t \in MarkerTypes => HasMarker(text, start, r.end)
=============================================================================
