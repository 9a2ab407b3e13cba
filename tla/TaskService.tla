---------------------------- MODULE TaskService ----------------------------
(***************************************************************************)
(* What the task board of Mqtt_bbs_server/persistence.py promises to the   *)
(* caller of post_task() and wait_task(), with no broker, no database and  *)
(* no thread in sight: an answer is an output that some capable worker     *)
(* produced for a task somebody posted.  A task may be executed any number *)
(* of times, and a master that restarts forgets the answers it had.        *)
(***************************************************************************)
CONSTANTS Masters,   \* agents that post tasks and wait for them
          Workers,   \* agents that execute tasks
          Tasks,     \* task ids
          Capable,   \* pairs <<w, t>>: worker w accepts the type of task t
          None       \* no output

VARIABLES posted,    \* the tasks posted so far
          produced,  \* pairs <<t, o>>: some worker finished t with output o
          answered   \* answered[m][t]: the output master m was given for t

svars == <<posted, produced, answered>>

\* TaskOutput: who ran the task, how it ended, whether a result came with it.
Outputs == [agent : Workers, status : {"completed", "failed"},
            result : {"value", "none"}]

ServiceInit ==
    /\ posted = {}
    /\ produced = {}
    /\ answered = [m \in Masters |-> [t \in Tasks |-> None]]

Post(t) ==
    /\ t \notin posted
    /\ posted' = posted \cup {t}
    /\ UNCHANGED <<produced, answered>>

Produce(t, o) ==
    /\ t \in posted
    /\ <<o.agent, t>> \in Capable
    /\ produced' = produced \cup {<<t, o>>}
    /\ UNCHANGED <<posted, answered>>

Answer(m, t, o) ==
    /\ <<t, o>> \in produced
    /\ answered' = [answered EXCEPT ![m][t] = o]
    /\ UNCHANGED <<posted, produced>>

Forget(m) ==
    /\ answered' = [answered EXCEPT ![m] = [t \in Tasks |-> None]]
    /\ UNCHANGED <<posted, produced>>

ServiceNext ==
    \/ \E t \in Tasks : Post(t)
    \/ \E t \in Tasks, o \in Outputs : Produce(t, o)
    \/ \E m \in Masters, t \in Tasks, o \in Outputs : Answer(m, t, o)
    \/ \E m \in Masters : Forget(m)

ServiceSpec == ServiceInit /\ [][ServiceNext]_svars
=============================================================================
