--------------------------- MODULE MCWorkerAgent ---------------------------
EXTENDS WorkerAgent, TLC

CONSTANTS m1, w1, t1, t2

MCCapable == Workers \X Tasks

MCBudget == [direct |-> 1, cancel |-> 1, call |-> 1, fault |-> 1]

TaskSymmetry == Permutations(Tasks)
============================================================================
