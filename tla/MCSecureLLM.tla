---------------------------- MODULE MCSecureLLM ----------------------------
(***************************************************************************)
(* Instances of SecureLLM for TLC.  The regular expressions know five      *)
(* types, the language model two; the policy does not mask PINs, and a     *)
(* rule may ask for issuers to be masked only beside a phone.  The letters *)
(* m, k and p stand for a marker, a bank and a person.                     *)
(***************************************************************************)
EXTENDS SecureLLM

CONSTANTS phone, email, name, issuer, pin

MCPriority ==
    [t \in Types |-> CASE t \in {phone, email} -> 80 [] t = pin -> 30 [] OTHER -> 60]

MCSpans == {<<a, b>> \in (0..TextLen) \X (0..TextLen) : a < b \/ a + b = 0}

MCFound ==
    {[type |-> t, start |-> s[1], end |-> s[2], conf |-> 8, matches |-> TRUE] :
        t \in {phone, issuer}, s \in MCSpans}

\* Every span inside the text, and some that are reversed, outside it or not
\* the text they claim to be.
MCGiven ==
    {[type |-> t, start |-> s[1], end |-> s[2], conf |-> 10, matches |-> TRUE] :
        t \in {phone, issuer}, s \in MCSpans \cup {<<-1, 1>>, <<2, 1>>, <<2, TextLen + 1>>}}
    \cup {[type |-> phone, start |-> 0, end |-> 2, conf |-> 10, matches |-> FALSE]}

MCRule(on, S) == [type |-> issuer, enabled |-> on, requires |-> S]

MCRuleLists ==
    {<<>>,
     <<MCRule(TRUE, {phone})>>,
     <<MCRule(TRUE, {phone, pin}), MCRule(TRUE, {phone, Unknown})>>,
     <<MCRule(TRUE, {phone}), MCRule(FALSE, {})>>}

MCLetters == {"a", "b", "k", "m", "p"}

MCTexts ==
    {<<"1", "2", " ", "3">>, <<"a", "1", " ", "2">>, <<"a", "@", "b", ".">>,
     <<"k", "1", "m", "2">>, <<"k", "1", "p", " ">>}

MCAlphabet ==
    [t \in Types |->
        CASE t = phone -> Digits \cup {" "}
          [] t = email -> Alnum \cup {"@", "."}
          [] t = name -> Letters \cup {" "}
          [] t = issuer -> Alnum \cup {".", " "}
          [] OTHER -> Digits]

\* A country that is no name.
MCDismissed == {<<name, <<"k">>>>}

MCRandom == [n \in 0..TextLen |-> <<"r0", "r1", "r2", "r3", "r4">>[n + 1]]

\* Of the instances only: a value is found where it was read (text.find).
ASSUME MCBounds ==
    \A t \in Texts : \A i, j \in DOMAIN t : t[i] = t[j] => i = j
=============================================================================
