-------------------------- MODULE RestorationBase --------------------------
(***************************************************************************)
(* The vocabulary of the RestorationStore interface                        *)
(* (app/restoration/base.py), shared by every store and its callers.       *)
(***************************************************************************)

CONSTANTS
    Keys,          \* storage keys (payload_id of the store interface)
    Values,        \* restoration states
    None           \* Python's None: no state

ASSUME NoneIsNoState == None \notin Values \cup Keys
=============================================================================
