---------------------------- MODULE MCTaskBoard ----------------------------
(***************************************************************************)
(* Values of TaskBoard's constants for TLC: who can do what, and how many  *)
(* faults and calls a behaviour may have.                                  *)
(***************************************************************************)
EXTENDS TaskBoardProperties, TLC

CONSTANTS m1, w1, t1

AllCapable == Workers \X Tasks
OneRunner == {w1}
NoRunner == {}

\* Any two of: every fault once, one cancellation, two waits (the second one
\* meets what the first one left behind).
AnyTwo == [k \in BudgetKinds |-> IF k \in {"any", "wait"} THEN 2 ELSE 1]

\* Processes crash and masters wait; connections and the database do not fail.
OneCrash == [k \in BudgetKinds |-> CASE k \in {"crash", "wait"} -> 1
                                     [] k = "any" -> 2
                                     [] OTHER -> 0]
=============================================================================
