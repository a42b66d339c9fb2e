------------------------------ MODULE MCLoadRun ------------------------------
(***************************************************************************)
(* Two steps with the same target, and the organizer profile.  The loads   *)
(* are one that may pass, one in which Locust did not see two requests,    *)
(* too few to exceed a limit, and one with most other ways to go wrong.    *)
(***************************************************************************)
EXTENDS LoadRun

CONSTANTS rps100, root

Did(S) == [o \in Outcomes |-> IF o \in S THEN 1 ELSE 0]

\* A hundred good pairs and one task of each outcome in S.
Mostly(S) == [Did(S) EXCEPT !["pair"] = 100]

MCTargets == <<rps100, rps100>>

MCLoads == {Mostly({"cut"}),
            Mostly({"maskNoStatus", "demaskRaised", "maskRefused"}),
            Did({"pair", "maskError", "maskWrong", "demaskTorn", "demaskRefused", "demaskWrong"})}

MCLevels == [process |-> {1, 2}, docker |-> {1}, connections |-> {1}]

MCOldLoad == Did({"pair"})
=============================================================================
