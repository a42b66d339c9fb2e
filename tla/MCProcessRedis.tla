--------------------------- MODULE MCProcessRedis ---------------------------
(***************************************************************************)
(* Instances of ProcessRedis for TLC.  The originals t1 and t2 get the     *)
(* same mask m1, but what is personal in t2 is not always detected; a mask *)
(* sent as a new text is masked to itself.  Demasking is enabled at first, *)
(* and every key starts with a record of an older release.                 *)
(***************************************************************************)
EXTENDS ProcessRedis

CONSTANTS t1, t2, m1

MCKeys == StateKeys

MCValues == States

MCRecords == StoredStates

MCDecode == [r \in StoredStates |-> FromJson(r)]

MCEncode == [s \in States |-> ToJson(s)]

MCHashPayload == [t \in Texts |-> <<"blake2b", t>>]

MCHashes == {<<"blake2b", t>> : t \in Texts}

MCMaskResults ==
    [c \in Consumers |-> [t \in Texts |->
        CASE t = t1 -> {m1}
          [] t = t2 -> {m1, t2}
          [] OTHER  -> {t}]]

MCDemasking == [c \in Consumers |-> TRUE]

MCInitialRecords ==
    [k \in Keys |-> [hash |-> HashPayload[t1], original |-> t1, masked |-> m1,
                     status |-> "MASKED"]]
=============================================================================
