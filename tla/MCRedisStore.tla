---------------------------- MODULE MCRedisStore ----------------------------
(***************************************************************************)
(* An instance of RedisStore for TLC: any callback, and plain writes that  *)
(* are as many as they like.  The key starts with a record.                *)
(***************************************************************************)
EXTENDS RedisStore

CONSTANTS v1

MCRecords == {<<"fernet", v>> : v \in Values}

MCDecode == [r \in Records |-> r[2]]

MCEncode == [v \in Values |-> <<"fernet", v>>]

MCInitialRecords == [k \in Keys |-> <<"fernet", v1>>]
=============================================================================
