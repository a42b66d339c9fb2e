-------------------------- MODULE ProcessService --------------------------
(***************************************************************************)
(* The decisions of app/processing/process_service.py, as operators: which *)
(* state a request prepares, which state the transition callback returns   *)
(* for the state it finds, and what the client is answered.  The modules   *)
(* that put a store behind it run these operators in their actions.        *)
(*                                                                         *)
(* Texts are payloads; detection and masking are abstracted to the set of  *)
(* masks they may produce for a text under a consumer's policy: the        *)
(* TOKENIZE strategy draws random tokens and the LLM detector may fail, so *)
(* two runs on one text need not agree.                                    *)
(***************************************************************************)
EXTENDS RestorationBase, Naturals

CONSTANTS
    Consumers,         \* consumer ids with a policy
    PayloadIds,
    Texts,             \* non-empty payloads
    NoText,            \* the empty payload
    Hashes,
    HashPayload,       \* hash_payload: blake2b of a text
    MaskResults,       \* masks the engines may produce, by consumer and text
    DemaskingEnabled,  \* policy.demasking_enabled at first, by consumer
    NoConsumer         \* the "" of a record without consumer_id

\* RestorationStateStatus
Statuses == {"MASKED", "DEMASKED"}

\* RestorationState, without what neither decides nor is answered
States == [hash : Hashes, original : Texts, masked : Texts,
           status : Statuses, consumer : Consumers \cup {NoConsumer}]

\* What a backend stores: records of an older release have no consumer_id.
StoredStates ==
    States \cup [hash : Hashes, original : Texts, masked : Texts,
                status : Statuses]

\* RestorationState.to_json writes every field ...
ToJson(s) == s

\* ... and from_json reads a missing consumer_id as the empty one.
FromJson(r) ==
    [hash |-> r.hash, original |-> r.original, masked |-> r.masked,
     status |-> r.status,
     consumer |-> IF "consumer" \in DOMAIN r THEN r.consumer ELSE NoConsumer]

\* _state_key: injective, so the pair itself
StateKey(c, p) == <<c, p>>

StateKeys == {StateKey(c, p) : c \in Consumers, p \in PayloadIds}

\* blake2b is taken to be collision free; consumer ids are file stems, hence
\* never empty; masking a non-empty text leaves a non-empty text.
ASSUME ServiceConstants ==
    /\ HashPayload \in [Texts -> Hashes]
    /\ \A t, u \in Texts : HashPayload[t] = HashPayload[u] => t = u
    /\ MaskResults \in [Consumers -> [Texts -> SUBSET Texts]]
    /\ DemaskingEnabled \in [Consumers -> BOOLEAN]
    /\ NoConsumer \notin Consumers
    /\ NoText \notin Texts
    /\ Keys = StateKeys
    /\ Values = States
    /\ None \notin [original : Texts, masked : Texts, status : Statuses]

ConsumerOf(k) == k[1]

\* _prepare_mask: the states one run of detection and masking may build.
PrepareMask(c, t) ==
    {[hash |-> HashPayload[t], original |-> t, masked |-> m,
      status |-> "MASKED", consumer |-> c] : m \in MaskResults[c][t]}

\* Mutant: a DEMASKED state accepts any payload.
Keeps_AnyDemasked(s, t) ==
    \/ s.status = "MASKED" /\ HashPayload[t] = s.hash
    \/ s.status = "DEMASKED"

\* The payload repeats the original of a state still MASKED, or the mask of
\* a state already DEMASKED: the state stays as it is.
Keeps(s, t) ==
    \/ s.status = "MASKED" /\ HashPayload[t] = s.hash
    \/ s.status = "DEMASKED" /\ t = s.masked

\* The payload is the mask of a state still MASKED (and not its original).
Demasks(s, t) ==
    /\ s.status = "MASKED"
    /\ HashPayload[t] # s.hash
    /\ t = s.masked

\* Mutant: the owner of the state is not compared with the consumer.
Transition_AnyOwner(s, c, t, prepared, enabled) ==
    IF s = None
    THEN IF prepared = None THEN PrepareMask(c, t) ELSE {prepared}
    ELSE {new \in {s, [s EXCEPT !.status = "DEMASKED"]} :
            \/ new = s /\ Keeps(s, t)
            \/ /\ new.status = "DEMASKED"
               /\ Demasks(s, t)
               /\ enabled}

\* Mutant: the policy's demasking switch is not consulted.
Transition_AlwaysDemasks(s, c, t, prepared, enabled) ==
    IF s = None
    THEN IF prepared = None THEN PrepareMask(c, t) ELSE {prepared}
    ELSE {new \in {s, [s EXCEPT !.status = "DEMASKED"]} :
            /\ s.consumer = c
            /\ \/ new = s /\ Keeps(s, t)
               \/ new.status = "DEMASKED" /\ Demasks(s, t)}

\* _transition: the states the callback may return, under a policy that has
\* demasking enabled or not; none when it raises.
Transition(s, c, t, prepared, enabled) ==
    IF s = None
    THEN IF prepared = None THEN PrepareMask(c, t) ELSE {prepared}
    ELSE {new \in {s, [s EXCEPT !.status = "DEMASKED"]} :
            /\ s.consumer = c
            /\ \/ new = s /\ Keeps(s, t)
               \/ /\ new.status = "DEMASKED"
                  /\ Demasks(s, t)
                  /\ enabled}

\* Mutant: a mismatch is a BadRequestError.
TransitionError_BadRequest(s, c, t) ==
    IF s.consumer = c /\ Demasks(s, t) THEN 500 ELSE 400

\* The status code of the error it raises otherwise: ProcessingError when
\* demasking is disabled, InvalidPayloadError for any other mismatch.
TransitionError(s, c, t) ==
    IF s.consumer = c /\ Demasks(s, t) THEN 500 ELSE 422

\* _outcome_from_state, with the payload it answers.
Outcome(s, t) ==
    IF s.status = "MASKED"
    THEN [op |-> "MASK", payload |-> t, result |-> s.masked]
    ELSE [op |-> "DEMASK", payload |-> t, result |-> s.original]

Answers == [op : {"MASK", "DEMASK"}, payload : Texts, result : Texts]

\* Status codes of a reply; None while the request is being processed.
Codes == {200, 422, 429, 500}
=============================================================================
