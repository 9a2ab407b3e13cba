------------------------ MODULE TaskBoardProperties ------------------------
(***************************************************************************)
(* What the task board has to guarantee to those who post tasks, execute   *)
(* them and wait for their outputs.                                        *)
(***************************************************************************)
EXTENDS TaskBoard

\* The type invariant: a topic only ever holds values of its kind, whoever has
\* to do with a task knows which, no master is in a state of a worker.
TypeOK ==
    /\ posted \subseteq Tasks
    /\ produced \subseteq Tasks \X Outputs
    /\ proc \in [Agents -> {"idle", "subscribing", "recovering", "polling",
                            "claimed", "returning", "completing", "down"}]
    /\ job \in [Agents -> Tasks \cup {None}]
    /\ \A a \in Agents : job[a] = None <=> proc[a] \in {"idle", "down"}
    /\ \A m \in Masters : proc[m] \notin {"claimed", "returning", "completing"}
    /\ \A w \in Workers :
          proc[w] \notin {"subscribing", "recovering", "polling"}
    /\ outbox \in [Agents -> Seq(Messages)]
    /\ netq \in [Agents -> Seq(Packets)]
    /\ inbox \in [Agents -> Seq(Messages)]
    /\ link \in [Agents -> BOOLEAN]
    /\ running \subseteq Agents
    /\ subs \in [Agents -> SUBSET Topics]
    /\ DOMAIN retained = Topics /\ DOMAIN db = Topics
    /\ \A s \in Topics : /\ retained[s] \in Values[s[2]] \cup {None}
                         /\ db[s] \in Values[s[2]] \cup {None}
    /\ holder \in [Masters -> Outputs \cup {None}]
    /\ results \in [Masters -> [Tasks -> Outputs \cup {None}]]
    /\ spent \in [BudgetKinds -> Nat]

\* No value is invented or mixed up on its way through the database, the
\* broker, the queues and the closures of wait_task.  Wherever an output of a
\* task is found, a worker capable of that task called complete() with it;
\* wherever an input is found, some master posted the task.
MessagesAbout(tasks, outputs) ==
    {msg \in Messages :
       /\ msg.topic[2] = "input" => msg.topic[1] \in tasks
       /\ msg.topic[2] = "output" => <<msg.topic[1], msg.value>> \in outputs}
GenuineMessages == MessagesAbout(posted, produced)

GenuinePackets ==
    {packet \in Packets :
       packet.type = "publish" => packet.msg \in GenuineMessages}

QueuesGenuine ==
    /\ outbox \in [Agents -> Seq(GenuineMessages)]
    /\ inbox \in [Agents -> Seq(GenuineMessages)]
    /\ netq \in [Agents -> Seq(GenuinePackets)]

StoresGenuine ==
    \A s \in Topics :
       /\ retained[s] # None => Message(s, retained[s]) \in GenuineMessages
       /\ db[s] # None => Message(s, db[s]) \in GenuineMessages

WorkGenuine ==
    /\ \A p \in produced : p[1] \in posted /\ <<p[2].agent, p[1]>> \in Capable
    /\ \A w \in Workers :
          job[w] # None => job[w] \in posted /\ <<w, job[w]>> \in Capable

AnswersGenuine ==
    \A m \in Masters :
       /\ job[m] # None /\ holder[m] # None
             => <<job[m], holder[m]>> \in produced
       /\ \A t \in Tasks :
             results[m][t] # None => <<t, results[m][t]>> \in produced

OutputsGenuine ==
    QueuesGenuine /\ StoresGenuine /\ WorkGenuine /\ AnswersGenuine

\* complete() publishes the output before the status and the end signal, so
\* whoever reads "done", "failed" or [ROUND_END] finds the output as well: in
\* the database as long as no statement failed, at the broker as long as no
\* message was dropped, however agents crash, reconnect and interleave.
SaysEnded(store, t) == \/ store[<<t, "status">>] \in {"done", "failed"}
                       \/ store[<<t, "signal">>] = "[ROUND_END]"

EndedHasOutput ==
    \A t \in Tasks :
       /\ spent["db"] = 0 /\ SaysEnded(db, t) => db[OutputTopic(t)] # None
       /\ spent["drop"] = 0 /\ SaysEnded(retained, t)
             => retained[OutputTopic(t)] # None

\* wait_task looks into the database before it subscribes, so an output may
\* arrive in between.  It is not missed: a subscribed master with nothing
\* under way and an empty holder waits for a task without a retained output.
NoLostWakeup ==
    \A m \in Masters :
       /\ proc[m] = "polling" /\ holder[m] = None
       /\ OutputTopic(job[m]) \in subs[m]
       /\ inbox[m] = <<>> /\ netq[m] = <<>>
       => retained[OutputTopic(job[m])] = None

\* A task that has an output keeps one, in the database and at the broker,
\* through re-execution, cancellation, crashes and restarts (the base class of
\* bbs.py clears the retained output instead).
OutputNeverRetracted ==
    [][\A t \in Tasks :
          /\ db[OutputTopic(t)] # None => db'[OutputTopic(t)] # None
          /\ retained[OutputTopic(t)] # None
                => retained'[OutputTopic(t)] # None]_vars

\* The board implements the at-least-once service of TaskService: wait_task
\* answers with an output somebody produced, and only a crash forgets it.
Service == INSTANCE TaskService WITH answered <- results
ServiceSpec == Service!ServiceSpec

\* Broadcast at least once: a worker that is capable of a task whose input the
\* broker holds executes it sooner or later, even if it joins afterwards or
\* crashes before it has done so.
Executed(w, t) == \E o \in Outputs : o.agent = w /\ <<t, o>> \in produced

EveryCapableWorkerExecutes ==
    \A w \in Workers, t \in Tasks :
       <<w, t>> \in Capable /\ retained[<<t, "input">>] # None ~> Executed(w, t)

\* While connections stay up, a master waiting for a task that has an output at
\* the broker is answered or crashes; it never depends on its timeout.
WaitsEnd ==
    \A m \in Masters, t \in Tasks :
       job[m] = t /\ retained[OutputTopic(t)] # None ~> job[m] = None
=============================================================================
