---------------------------- MODULE MaskPipeline ----------------------------
(***************************************************************************)
(* From a text to its mask: DetectionEngine.detect, the filter of          *)
(* ProcessService._prepare_mask and MaskingEngine.mask, loop turn by loop  *)
(* turn.  MaskingEngine.mask may also be called by itself, with any        *)
(* entities.  The masked text is a sequence of pieces of the original,     *)
(* each copied or replaced.                                                *)
(***************************************************************************)
EXTENDS SpanResolution, FiniteSets

CONSTANTS
    Found,         \* entities a detector may report
    Given,         \* entities a direct call of mask() may pass
    EnabledTypes,  \* policy.enabled_types
    RuleLists,     \* policies' context_rules
    Unknown        \* a name that is no PIIType

ASSUME PipelineConstants ==
    /\ Found \subseteq Detectable
    /\ Given \subseteq Entities
    /\ EnabledTypes \subseteq Types
    /\ Unknown \notin Types
    /\ RuleLists \subseteq Seq([type : Types \cup {Unknown}, enabled : BOOLEAN,
                               requires : SUBSET (Types \cup {Unknown})])

VARIABLES
    phase,         \* the stage of the pipeline
    entities,      \* the entities that entered the stage
    todo,          \* those its loop has still to look at
    kept,          \* resolved, then selected
    required,      \* the context rules in force
    pieces,        \* pieces
    cursor         \* cursor

vars == <<phase, entities, todo, kept, required, pieces, cursor>>

Init ==
    /\ phase \in {"detect", "call"}
    /\ entities = {}
    /\ todo = <<>>
    /\ kept = <<>>
    /\ required = [t \in Types |-> {}]
    /\ pieces = <<>>
    /\ cursor = 0

\* A detector adds a candidate; one whose language model fails adds none.
Detect(e) ==
    /\ phase = "detect"
    /\ Cardinality(entities) < MaxEntities
    /\ entities' = entities \cup {e}
    /\ UNCHANGED <<phase, todo, kept, required, pieces, cursor>>

\* A caller of mask() passes an entity.
Give(e) ==
    /\ phase = "call"
    /\ Cardinality(entities) < MaxEntities
    /\ entities' = entities \cup {e}
    /\ UNCHANGED <<phase, todo, kept, required, pieces, cursor>>

\* resolve_spans: remove duplicates and sort.
Resolve ==
    /\ phase = "detect"
    /\ phase' = "resolve"
    /\ entities' = Dedup(entities)
    /\ todo' \in ResolveOrders(entities')
    /\ UNCHANGED <<kept, required, pieces, cursor>>

ResolveTurn ==
    /\ phase = "resolve"
    /\ todo # <<>>
    /\ kept' = ResolveInto(kept, Head(todo))
    /\ todo' = Tail(todo)
    /\ UNCHANGED <<phase, entities, required, pieces, cursor>>

\* What mask() is called with: the resolved entities of enabled types.
Filtered == {e \in Range(kept) : e.type \in EnabledTypes}

\* _select_spans: drop invalid spans and sort.
Select ==
    /\ \/ phase = "resolve" /\ todo = <<>> /\ entities' = Filtered
       \/ phase = "call" /\ UNCHANGED entities
    /\ phase' = "select"
    /\ todo' \in SelectOrders(entities')
    /\ kept' = <<>>
    /\ UNCHANGED <<required, pieces, cursor>>

SelectTurn ==
    /\ phase = "select"
    /\ todo # <<>>
    /\ kept' = SelectInto(kept, Head(todo))
    /\ todo' = Tail(todo)
    /\ UNCHANGED <<phase, entities, required, pieces, cursor>>

\* A context rule that is not skipped: its type is known, and unless it is
\* switched off it lists known types.
Usable(r) ==
    /\ r.type \in Types
    /\ r.enabled => r.requires # {} /\ r.requires \subseteq Types

\* _resolve_context_rules: the last usable rule for a type counts; without
\* one the default requires nothing.
ResolveContextRules(rules) ==
    [t \in Types |->
        LET mine == {i \in DOMAIN rules : rules[i].type = t /\ Usable(rules[i])}
            last == CHOOSE i \in mine : \A j \in mine : j <= i
        IN  IF mine = {} \/ ~rules[last].enabled THEN {} ELSE rules[last].requires]

\* The spans are selected; the loop over them begins.
Mask ==
    /\ phase = "select"
    /\ todo = <<>>
    /\ phase' = "mask"
    /\ todo' = kept
    /\ \E rules \in RuleLists : required' = ResolveContextRules(rules)
    /\ UNCHANGED <<entities, kept, pieces, cursor>>

\* _context_allows
ContextAllows(e) ==
    \/ required[e.type] = {}
    \/ \E f \in Range(kept) : f.type \in required[e.type]

Copied(a, b) == [from |-> a, to |-> b, masked |-> FALSE]

Replaced(e) == [from |-> e.start, to |-> e.end, masked |-> TRUE]

\* Mutant: the text before the entity is copied from its end.
MaskTurn_LostCursor ==
    /\ phase = "mask"
    /\ todo # <<>>
    /\ LET e == Head(todo)
       IN  IF ContextAllows(e)
           THEN /\ pieces' = pieces \o <<Copied(cursor, e.start), Replaced(e)>>
                /\ UNCHANGED cursor
           ELSE UNCHANGED <<pieces, cursor>>
    /\ todo' = Tail(todo)
    /\ UNCHANGED <<phase, entities, kept, required>>

MaskTurn ==
    /\ phase = "mask"
    /\ todo # <<>>
    /\ LET e == Head(todo)
       IN  IF ContextAllows(e)
           THEN /\ pieces' = pieces \o <<Copied(cursor, e.start), Replaced(e)>>
                /\ cursor' = e.end
           ELSE UNCHANGED <<pieces, cursor>>
    /\ todo' = Tail(todo)
    /\ UNCHANGED <<phase, entities, kept, required>>

\* The rest of the text is copied and the pieces are joined.
Join ==
    /\ phase = "mask"
    /\ todo = <<>>
    /\ phase' = "done"
    /\ pieces' = Append(pieces, Copied(cursor, TextLen))
    /\ UNCHANGED <<entities, todo, kept, required, cursor>>

Done == phase = "done" /\ UNCHANGED vars

Next ==
    \/ \E e \in Found : Detect(e)
    \/ \E e \in Given : Give(e)
    \/ Resolve
    \/ ResolveTurn
    \/ Select
    \/ SelectTurn
    \/ Mask
    \/ MaskTurn
    \/ Join
    \/ Done

Spec == Init /\ [][Next]_vars

-----------------------------------------------------------------------------
(* Properties.                                                             *)

Phases == {"detect", "call", "resolve", "select", "mask", "done"}

Pieces == [from : Int, to : Int, masked : BOOLEAN]

\* Every variable has its type.
PipelineTypeOK ==
    /\ phase \in Phases
    /\ entities \subseteq Entities
    /\ todo \in Seq(Entities)
    /\ kept \in Seq(Entities)
    /\ required \in [Types -> SUBSET Types]
    /\ pieces \in Seq(Pieces)
    /\ cursor \in 0..TextLen

\* resolution.py:55, "Return non-overlapping entities sorted by start
\* ascending", and the same of _select_spans: although each turn compares with
\* the last entity only, and resolution may replace it, no two entities kept
\* overlap.
KeptDisjoint ==
    \A i, j \in 1..Len(kept) : i < j => kept[i].end <= kept[j].start

\* f is preferred to e: by type, then confidence, then length.
Beats(f, e) ==
    \/ Priority[f.type] > Priority[e.type]
    \/ /\ Priority[f.type] = Priority[e.type]
       /\ \/ f.conf > e.conf
          \/ f.conf = e.conf /\ Length(f) >= Length(e)

\* docs/architecture.md:74-75, "Overlapping spans are resolved by type priority
\* and span length": an entity looked at and not kept overlaps another that is
\* preferred to it, also when that one has been replaced in turn.
LostOnlyToBetter ==
    phase = "resolve" =>
        \A e \in entities :
            \/ e \in Range(kept) \cup Range(todo)
            \/ \E f \in entities \ {e} : Overlaps(e, f) /\ Beats(f, e)

\* The positions of the text a set of spans covers.
Positions(S) == {p \in 0..(TextLen - 1) : \E e \in S : e.start <= p /\ p < e.end}

\* tests/unit/test_masking.py:109, "test_text_outside_spans_is_unchanged", and
\* its converse: the mask consists of the whole text in order, no character lost
\* or repeated, and exactly the spans selected and allowed by their context are
\* replaced in it.
MaskedExactly ==
    phase = "done" =>
        /\ pieces[1].from = 0
        /\ \A i \in 1..(Len(pieces) - 1) : pieces[i].to = pieces[i + 1].from
        /\ pieces[Len(pieces)].to = TextLen
        /\ \A i \in 1..Len(pieces) : pieces[i].from <= pieces[i].to
        /\ Positions({e \in Range(kept) : ContextAllows(e)}) =
              {p \in 0..(TextLen - 1) : \E i \in 1..Len(pieces) :
                  pieces[i].masked /\ pieces[i].from <= p /\ p < pieces[i].to}
=============================================================================
