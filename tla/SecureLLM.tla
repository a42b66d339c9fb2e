----------------------------- MODULE SecureLLM -----------------------------
(***************************************************************************)
(* SecureLLMPipeline.run on a text of characters: the regular expressions  *)
(* and a language model detect, the entities go through resolution and     *)
(* masking (MaskPipeline), strategies write the masks, the masked text is  *)
(* sent to an LLM, and its answer is restored one mapping after another.   *)
(***************************************************************************)
EXTENDS MaskPipeline, MaskStrategies, RegexDetector

CONSTANTS
    None,
    Texts,         \* the texts of a consumer, all of length TextLen
    Strategies     \* the strategies of the policies, one for all types

ASSUME SecureConstants ==
    /\ Texts \subseteq [1..TextLen -> STRING]
    /\ Strategies \subseteq {"FULL_MASK", "PARTIAL_MASK", "TOKENIZE"}
    \* a match has confidence 1.0, what the language model names less
    /\ 10 \in Confidences
    /\ \A e \in Found : e.conf # 10
    \* secrets.token_hex does not repeat itself, and no text holds half a token
    /\ Types \subseteq STRING
    /\ Random \in [0..TextLen -> STRING \ Types]
    /\ \A m, n \in 0..TextLen : Random[m] = Random[n] => m = n
    /\ \A t \in Texts : \A i \in 1..TextLen :
          t[i] \notin Types /\ \A n \in 0..TextLen : t[i] # Random[n]

VARIABLES
    text,          \* text
    strategy,      \* policy.masking, once it is applied
    stage,         \* "call" for a call of mask() alone, or the stage of run()
    mappings,      \* the mappings still to restore
    output,        \* llm_output
    restored       \* restored

llmVars == <<text, strategy, stage, mappings, output, restored>>

SecureInit ==
    /\ Init
    /\ text \in Texts
    /\ strategy = None
    /\ stage = IF phase = "call" THEN "call" ELSE "mask"
    \* what mask() keeps of the entities it is given does not depend on the text
    /\ stage = "call" => text = CHOOSE t \in Texts : TRUE
    /\ mappings = <<>>
    /\ output = <<>>
    /\ restored = <<>>

\* RegexDetector.detect appends an entity for a match.
DetectMatch(t, start, end) ==
    LET r == Cleaned(text, t, start, end)
    IN  /\ phase = "detect"
        /\ Cardinality(entities) < MaxEntities
        /\ Shaped(t, Slice(text, start, end))
        /\ Reports(text, t, start, r)
        /\ entities' = entities \cup
              {[type |-> t, start |-> start, end |-> r.end, conf |-> 10,
                matches |-> Slice(text, start, r.end) = r.value]}
        /\ UNCHANGED <<phase, todo, kept, required, pieces, cursor, llmVars>>

\* The masked pieces: each entity gave two, the text before it and its own.
MaskedPieces == [n \in 1..(Len(pieces) \div 2) |-> pieces[2 * n]]

\* The entity a masked piece stands for.
EntityOf(p) == CHOOSE e \in Range(kept) : e.start = p.from

\* The original text of a piece, and what the masked text has in its place.
Original(p) == Slice(text, p.from, p.to)

Written(s, p) ==
    IF p.masked THEN Replacement(s, EntityOf(p).type, Original(p), p.from) ELSE Original(p)

\* (replacement, entity.value) for each entity masked.
Mappings(s) ==
    [n \in DOMAIN MaskedPieces |->
        <<Written(s, MaskedPieces[n]), Original(MaskedPieces[n])>>]

\* "".join(pieces)
MaskedText(s) == FlattenSeq([i \in DOMAIN pieces |-> Written(s, pieces[i])])

\* What an LLM may answer: the prompt, as the adapter in the repository does,
\* the prompt twice, or the prompt without one of its characters.
Responses(prompt) ==
    {prompt, prompt \o prompt} \cup {RemoveAt(prompt, i) : i \in DOMAIN prompt}

Generate ==
    /\ stage = "mask"
    /\ phase = "done"
    /\ stage' = "restore"
    /\ \E s \in Strategies :
          /\ strategy' = s
          /\ output' \in Responses(MaskedText(s))
          /\ mappings' = Mappings(s)
    /\ restored' = output'
    /\ UNCHANGED <<vars, text>>

\* The pairs whose first part r begins with.
Begun(pairs, r) == {p \in pairs : IsPrefix(p[1], r)}

\* s from left to right, with new wherever old begins, for any pair <<old, new>>.
Rewrite(pairs, s) ==
    LET f[r \in Seq(STRING)] ==
            LET pair == CHOOSE p \in Begun(pairs, r) : TRUE
            IN  CASE r = <<>> -> <<>>
                  [] r # <<>> /\ Begun(pairs, r) # {} ->
                         pair[2] \o f[SubSeq(r, Len(pair[1]) + 1, Len(r))]
                  [] OTHER -> <<Head(r)>> \o f[Tail(r)]
    IN  f[s]

\* s.replace(old, new)
Replace(s, old, new) == Rewrite({<<old, new>>}, s)

\* One turn of the loop over the mappings.
RestoreTurn ==
    /\ stage = "restore"
    /\ mappings # <<>>
    /\ restored' = Replace(restored, Head(mappings)[1], Head(mappings)[2])
    /\ mappings' = Tail(mappings)
    /\ UNCHANGED <<vars, text, strategy, stage, output>>

Return ==
    /\ stage = "restore"
    /\ mappings = <<>>
    /\ stage' = "answered"
    /\ UNCHANGED <<vars, text, strategy, mappings, output, restored>>

SecureNext ==
    \/ \E t \in Types, a, b \in 0..TextLen : DetectMatch(t, a, b)
    \/ Next /\ UNCHANGED llmVars
    \/ Generate
    \/ RestoreTurn
    \/ Return

SecureSpec == SecureInit /\ [][SecureNext]_<<vars, llmVars>>

-----------------------------------------------------------------------------
(* Properties.                                                             *)

\* Every entity of the regular expressions is a part of the text that is not
\* empty and is its value, also when its end was stripped and trimmed: mask()
\* drops none of them as invalid or mismatched.
MatchesSurvive ==
    phase = "detect" => \A e \in entities : e.conf = 10 => Valid(e)

\* masking/strategies/impl.py:9-13: of a number the first and last digits are
\* kept and never all; what is no number, name or address of mail shows no
\* digit.  It is so of the masks in the text, whichever span was selected.
DigitsHidden ==
    stage = "restore" /\ strategy = "PARTIAL_MASK" =>
        \A n \in DOMAIN MaskedPieces :
            LET e == EntityOf(MaskedPieces[n])
                mask == Mappings(strategy)[n][1]
                value == Mappings(strategy)[n][2]
                shown == DigitsUpTo(mask, Len(mask))
                had == DigitsUpTo(value, Len(value))
            IN  /\ e.type \in NumericEdgeTypes =>
                      shown <= 2 * NumericVisibleEdge /\ (had > 0 => shown < had)
                /\ e.type \notin NumericEdgeTypes \cup InitialsTypes \cup EmailTypes =>
                      shown = 0

\* Restoring one token after another gives what restoring all at once would,
\* whether the LLM repeats them, cuts them or drops them: no token is taken for
\* another, and none is found in a value restored before.  What comes back
\* unchanged is the text itself.
TokensRestored ==
    stage = "answered" /\ strategy = "TOKENIZE" =>
        /\ restored = Rewrite(Range(Mappings(strategy)), output)
        /\ output = MaskedText(strategy) => restored = text

\* secure_llm_pipeline.py:20, "Runs a masked prompt through an LLM and restores
\* the response": an LLM that returns its prompt gives the consumer's text back.
EchoRestored ==
    stage = "answered" /\ output = MaskedText(strategy) => restored = text
=============================================================================
