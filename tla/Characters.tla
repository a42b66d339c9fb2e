----------------------------- MODULE Characters -----------------------------
(***************************************************************************)
(* Texts as sequences of characters, and Python's slices of them.          *)
(***************************************************************************)
EXTENDS Naturals, SequencesExt

CONSTANT Letters

Digits == {"0", "1", "2", "3", "4", "5", "6", "7", "8", "9"}

Alnum == Digits \cup Letters

\* text[a:b], which Python cuts to the text.
Slice(text, a, b) == SubSeq(text, a + 1, IF b <= Len(text) THEN b ELSE Len(text))
=============================================================================
