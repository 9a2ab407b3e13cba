----------------------------- MODULE TaskBoard -----------------------------
(***************************************************************************)
(* The task board of Mqtt_bbs_server/persistence.py:                       *)
(* AgentBoardWithPersistence (masters) and WorkerAgentWithPersistence      *)
(* (workers), each on a BBSClientWithPersistence, an MQTT broker with      *)
(* retained messages and the MariaDB table retained_messages.              *)
(*                                                                         *)
(* Every agent has two threads.  The application thread runs post_task,    *)
(* wait_task and cancel_task; the paho thread runs the callbacks, and a    *)
(* worker's whole claim_task is one callback.  A method that publishes     *)
(* leaves its remaining publish() calls in outbox and makes them one by    *)
(* one, so the other agents run between two calls.                         *)
(***************************************************************************)
EXTENDS Naturals, Sequences, FiniteSets

CONSTANTS
    Masters,         \* AgentBoardWithPersistence instances
    Workers,         \* WorkerAgentWithPersistence instances
    Tasks,           \* task ids; post_task draws them from uuid4, all longer
                     \* than the one character a LIKE '_' stands for
    Capable,         \* pairs <<w, t>>: the type of t is in w's capabilities
    SelfCompleting,  \* workers of mqtt_agent_runner, whose handler calls
                     \* complete() itself and returns nothing
    Prefix,          \* config.TOPIC_PREFIX: "agent/" unless the environment
                     \* says otherwise
    Budget,          \* bound: faults and calls of each kind in a behaviour
    MaxInFlight,     \* bound: packets of a connected agent not yet processed
    None             \* no value

Agents == Masters \cup Workers
BudgetKinds ==
    {"drop", "db", "link", "crash", "stop", "cancel", "wait", "any"}

VARIABLES
    posted,    \* tasks a master has posted (uuid4 never repeats an id)
    produced,  \* history: outputs complete() was called with
    proc,      \* proc[a]: what the agent's method is doing
    job,       \* the task a worker's claim_task is about, a master waits for
    outbox,    \* outbox[a]: publish() calls its method has still to make
    netq,      \* netq[a]: packets the broker has not processed yet
    link,      \* link[a]: is the MQTT connection up
    running,   \* the agents whose process runs and was not told to stop
    subs,      \* subs[a]: topics of a's broker session
    inbox,     \* inbox[a]: messages sent to a whose callback has not run
    retained,  \* the broker's retained messages
    db,        \* the rows of retained_messages
    holder,    \* holder[m]: result_holder["output"] of the current wait
    results,   \* results[m][t]: AgentBoardWithPersistence._results
    spent      \* what is used up of Budget

history == <<posted, produced>>
connections == <<link, running>>
broker == <<subs, inbox, retained>>
waits == <<holder, results>>
vars == <<posted, produced, proc, job, outbox, netq, link, running, subs,
          inbox, retained, db, holder, results, spent>>

-----------------------------------------------------------------------------
(* Topics and messages.                                                    *)

Kinds == {"input", "status", "claim", "output", "signal"}
TaskTopics == Tasks \X Kinds                    \* board/task/{id}/{kind}
CurrentTopics == Workers \X {"current"}         \* node/{id}/task/current
Topics == TaskTopics \cup CurrentTopics
InputTopics == Tasks \X {"input"}               \* filter board/task/+/input
OutputTopic(t) == <<t, "output">>

Outputs == [agent : Workers, status : {"completed", "failed"},
            result : {"value", "none"}]
Statuses == {"pending", "running", "done", "failed", "cancelled"}
Signals == {"[ROUND_END]", "[CANCEL]"}

ASSUME BoardAssumption ==
    /\ Masters \cap Workers = {}
    /\ Capable \subseteq Workers \X Tasks
    /\ SelfCompleting \subseteq Workers
    /\ Prefix \in STRING
    /\ Budget \in [BudgetKinds -> Nat]
    /\ MaxInFlight \in Nat \ {0}
    /\ IsFiniteSet(Tasks)
    /\ None \notin Tasks \cup Workers
    /\ None \notin Outputs
    /\ None \notin Statuses \cup Signals \cup {"task"}

\* What can be published on a topic of each kind.
Values == [input   |-> {"task"},
           status  |-> Statuses,
           claim   |-> Workers,
           output  |-> Outputs,
           signal  |-> Signals,
           current |-> Tasks \cup {None}]

Message(topic, value) == [topic |-> topic, value |-> value]
Messages == UNION {[topic : {s}, value : Values[s[2]]] : s \in Topics}

\* BBSClient.publish prefixes every topic; BBSClient.subscribe leaves those
\* that start with board/ as they are.
PublishedAs(suffix) == <<Prefix, suffix>>
SubscribedAs(suffix) == <<"", suffix>>
Routed(suffix) == PublishedAs(suffix) = SubscribedAs(suffix)

\* Control packets an agent sends on its connection, in order.
PublishPacket(msg) == [type |-> "publish", msg |-> msg]
SubscribePacket(filter) == [type |-> "subscribe", filter |-> filter]
DisconnectPacket == [type |-> "disconnect"]
Filters == {{}, InputTopics} \cup {{OutputTopic(t)} : t \in Tasks}
Packets == [type : {"publish"}, msg : Messages]
           \cup [type : {"subscribe"}, filter : Filters]
           \cup {DisconnectPacket}

\* paho resends unacknowledged publications after a reconnect and forgets the
\* other packets: in their place stands a SUBSCRIBE to nothing.
Resent(queue) == [i \in DOMAIN queue |-> IF queue[i].type = "publish"
                                         THEN queue[i] ELSE SubscribePacket({})]

\* The retained messages of a new subscription arrive in some order.
Orderings(S) == {q \in [1..Cardinality(S) -> S] :
                    \A i, j \in DOMAIN q : q[i] = q[j] => i = j}
RetainedOn(filter) ==
    {Message(s, retained[s]) : s \in {u \in filter : retained[u] # None}}

\* A fault or a call that counts against the bounds of its kinds and against
\* the bound of all together; past them it does not happen.
Uses(kinds) ==
    LET counted == kinds \cup {"any"} IN
    /\ \A k \in counted : spent[k] < Budget[k]
    /\ spent' = [k \in BudgetKinds |->
                    IF k \in counted THEN spent[k] + 1 ELSE spent[k]]

-----------------------------------------------------------------------------
Init ==
    /\ posted = {}
    /\ produced = {}
    /\ proc = [a \in Agents |-> IF a \in Masters THEN "idle" ELSE "down"]
    /\ job = [a \in Agents |-> None]
    /\ outbox = [a \in Agents |-> <<>>]
    /\ netq = [a \in Agents |-> <<>>]
    /\ link = [a \in Agents |-> a \in Masters]
    /\ running = Masters
    /\ subs = [a \in Agents |-> {}]
    /\ inbox = [a \in Agents |-> <<>>]
    /\ retained = [s \in Topics |-> None]
    /\ db = [s \in Topics |-> None]
    /\ holder = [m \in Masters |-> None]
    /\ results = [m \in Masters |-> [t \in Tasks |-> None]]
    /\ spent = [k \in BudgetKinds |-> 0]

-----------------------------------------------------------------------------
(* BBSClientWithPersistence.publish: upsert the row, then hand the message *)
(* to paho.  The database may fail, the rate limiter may drop the message; *)
(* neither is reported to the caller.                                      *)

Publish(a) ==
    /\ outbox[a] # <<>>
    /\ link[a] => Len(netq[a]) < MaxInFlight
    /\ \E lost \in SUBSET {"db", "drop"} :
          /\ IF lost = {} THEN UNCHANGED spent ELSE Uses(lost)
          /\ LET msg == Head(outbox[a]) IN
             /\ db' = IF "db" \in lost THEN db
                      ELSE [db EXCEPT ![msg.topic] = msg.value]
             /\ netq' = IF "drop" \in lost THEN netq
                        ELSE [netq EXCEPT ![a] = Append(@, PublishPacket(msg))]
    /\ outbox' = [outbox EXCEPT ![a] = Tail(@)]
    /\ UNCHANGED <<history, proc, job, connections, broker, waits>>

-----------------------------------------------------------------------------
(* Masters.                                                                *)

Calls(m) == m \in running /\ proc[m] = "idle" /\ outbox[m] = <<>>

\* post_task: input first, then the status; board/open is not retained and
\* nobody subscribes to it.
PostTask(m, t) ==
    /\ Calls(m)
    /\ t \notin posted
    /\ posted' = posted \cup {t}
    /\ outbox' = [outbox EXCEPT ![m] =
                    <<Message(<<t, "input">>, "task"),
                      Message(<<t, "status">>, "pending")>>]
    /\ UNCHANGED <<produced, proc, job, netq, connections, broker, db,
                   waits, spent>>

\* cancel_task: any master may cancel any posted task, finished or not.
CancelTask(m, t) ==
    /\ Calls(m)
    /\ t \in posted
    /\ Uses({"cancel"})
    /\ outbox' = [outbox EXCEPT ![m] =
                    <<Message(<<t, "signal">>, "[CANCEL]"),
                      Message(<<t, "status">>, "cancelled")>>]
    /\ UNCHANGED <<history, proc, job, netq, connections, broker, db, waits>>

\* wait_task, step 1: the row of the output answers at once; a failed query
\* reads as no row.
WaitLookup(m, t) ==
    /\ Calls(m)
    /\ t \in posted
    /\ \/ /\ db[OutputTopic(t)] # None
          /\ Uses({"wait"})
          /\ results' = [results EXCEPT ![m][t] = db[OutputTopic(t)]]
          /\ UNCHANGED <<proc, job, holder>>
       \/ /\ \/ db[OutputTopic(t)] = None /\ Uses({"wait"})
             \/ Uses({"wait", "db"})
          /\ proc' = [proc EXCEPT ![m] = "subscribing"]
          /\ job' = [job EXCEPT ![m] = t]
          /\ holder' = [holder EXCEPT ![m] = None]
          /\ UNCHANGED results
    /\ UNCHANGED <<history, outbox, netq, connections, broker, db>>

\* Mutation: no SUBSCRIBE, only the database is looked at.
WaitWithoutSubscribe(m) ==
    /\ proc[m] = "subscribing"
    /\ proc' = [proc EXCEPT ![m] = "recovering"]
    /\ UNCHANGED <<history, job, outbox, netq, connections, broker, db,
                   waits, spent>>

\* wait_task, step 2a: register the callback, send SUBSCRIBE.  paho does not
\* queue a SUBSCRIBE while disconnected.
WaitSubscribe(m) ==
    /\ proc[m] = "subscribing"
    /\ proc' = [proc EXCEPT ![m] = "recovering"]
    /\ netq' = IF link[m]
               THEN [netq EXCEPT ![m] =
                       Append(@, SubscribePacket({OutputTopic(job[m])}))]
               ELSE netq
    /\ UNCHANGED <<history, job, outbox, connections, broker, db, waits,
                   spent>>

\* _recover_retained for the output topic of the task waited for: the row, if
\* there is one and the query succeeds, goes through the callback.
Recover(m) ==
    LET row == db[OutputTopic(job[m])] IN
    \/ /\ holder' = IF row # None THEN [holder EXCEPT ![m] = row] ELSE holder
       /\ UNCHANGED spent
    \/ Uses({"db"}) /\ UNCHANGED holder

\* wait_task, step 2b: subscribe() then replays the row from the database.
WaitRecover(m) ==
    /\ proc[m] = "recovering"
    /\ proc' = [proc EXCEPT ![m] = "polling"]
    /\ Recover(m)
    /\ UNCHANGED <<history, job, outbox, netq, connections, broker, db,
                   results>>

\* wait_task, the polling loop finds the output.
WaitReturn(m) ==
    /\ proc[m] = "polling"
    /\ holder[m] # None
    /\ results' = [results EXCEPT ![m][job[m]] = holder[m]]
    /\ proc' = [proc EXCEPT ![m] = "idle"]
    /\ job' = [job EXCEPT ![m] = None]
    /\ UNCHANGED <<history, outbox, netq, connections, broker, db, holder,
                   spent>>

\* Mutation: a timeout is answered like a failed task.
WaitTimeoutAsFailure(m) ==
    /\ proc[m] = "polling"
    /\ \E w \in Workers :
          results' = [results EXCEPT ![m][job[m]] =
                        [agent |-> w, status |-> "failed", result |-> "none"]]
    /\ proc' = [proc EXCEPT ![m] = "idle"]
    /\ job' = [job EXCEPT ![m] = None]
    /\ UNCHANGED <<history, outbox, netq, connections, broker, db, holder,
                   spent>>

\* wait_task raises TimeoutError: the deadline may pass during the last sleep,
\* with or without an output in the holder.
WaitTimeout(m) ==
    /\ proc[m] = "polling"
    /\ proc' = [proc EXCEPT ![m] = "idle"]
    /\ job' = [job EXCEPT ![m] = None]
    /\ UNCHANGED <<history, outbox, netq, connections, broker, db, waits,
                   spent>>

\* The paho thread runs on_output.  Its closure writes the holder of the wait
\* it was made for; the callback exists once subscribe() has been called.
WaitingOnceSubscribed(m) == proc[m] = "polling"  \* mutation: registers it late
Waiting(m) == proc[m] \in {"recovering", "polling"}

OnOutput(m) ==
    /\ m \in Masters
    /\ inbox[m] # <<>>
    /\ LET msg == Head(inbox[m]) IN
       holder' = IF Waiting(m) /\ msg.topic = OutputTopic(job[m])
                 THEN [holder EXCEPT ![m] = msg.value] ELSE holder
    /\ inbox' = [inbox EXCEPT ![m] = Tail(@)]
    /\ UNCHANGED <<history, proc, job, outbox, netq, connections, subs,
                   retained, db, results, spent>>

-----------------------------------------------------------------------------
(* Workers.  The callback on_new_task runs claim_task to its end before    *)
(* paho looks at the next message.                                         *)

\* Mutation: subscribes before it is connected, so the SUBSCRIBE is lost.
StartWithoutConnection(w) ==
    /\ w \in Workers
    /\ proc[w] = "down"
    /\ proc' = [proc EXCEPT ![w] = "idle"]
    /\ link' = [link EXCEPT ![w] = TRUE]
    /\ running' = running \cup {w}
    /\ UNCHANGED <<history, job, outbox, netq, broker, db, waits, spent>>

\* start(): connect, then subscribe to board/task/+/input.  The LIKE pattern
\* board/task/_/input finds no row for ids longer than one character.
Start(w) ==
    /\ w \in Workers
    /\ proc[w] = "down"
    /\ proc' = [proc EXCEPT ![w] = "idle"]
    /\ link' = [link EXCEPT ![w] = TRUE]
    /\ running' = running \cup {w}
    /\ netq' = [netq EXCEPT ![w] = <<SubscribePacket(InputTopics)>>]
    /\ UNCHANGED <<history, job, outbox, broker, db, waits, spent>>

\* on_new_task's guards: running, a matching type, not the current task.
Accepts(w, t) == w \in running /\ <<w, t>> \in Capable /\ t # job[w]

\* claim_task up to the call of the handler.
ClaimMessages(w, t) ==
    <<Message(<<t, "claim">>, w),
      Message(<<t, "status">>, "running"),
      Message(<<w, "current">>, t)>>

OnNewTask(w) ==
    /\ w \in Workers
    /\ proc[w] = "idle"
    /\ inbox[w] # <<>>
    /\ LET topic == Head(inbox[w]).topic
           t == topic[1] IN
       IF topic \in InputTopics /\ Accepts(w, t)
       THEN /\ job' = [job EXCEPT ![w] = t]
            /\ proc' = [proc EXCEPT ![w] = "claimed"]
            /\ outbox' = [outbox EXCEPT ![w] = ClaimMessages(w, t)]
       ELSE UNCHANGED <<job, proc, outbox>>
    /\ inbox' = [inbox EXCEPT ![w] = Tail(@)]
    /\ UNCHANGED <<history, netq, connections, subs, retained, db, waits,
                   spent>>

\* Mutations of CompleteMessages: the status before the output; no result in
\* the output; the output cleared when done, as in bbs.py.
CompleteStatusFirst(w, t, output) ==
    <<Message(<<t, "status">>,
              IF output.status = "completed" THEN "done" ELSE "failed"),
      Message(OutputTopic(t), output),
      Message(<<t, "signal">>, "[ROUND_END]"),
      Message(<<w, "current">>, None)>>
CompleteWithoutResult(w, t, output) ==
    CompleteStatusFirst(w, t, [output EXCEPT !.result = "none"])
CompleteThenClear(w, t, output) ==
    Append(CompleteStatusFirst(w, t, output), Message(OutputTopic(t), None))

\* complete(): the four retained messages of an ended task.
CompleteMessages(w, t, output) ==
    <<Message(OutputTopic(t), output),
      Message(<<t, "status">>,
              IF output.status = "completed" THEN "done" ELSE "failed"),
      Message(<<t, "signal">>, "[ROUND_END]"),
      Message(<<w, "current">>, None)>>

OutputOf(w, status, result) ==
    [agent |-> w, status |-> status, result |-> result]

Complete(w, output, next) ==
    /\ outbox[w] = <<>>
    /\ produced' = produced \cup {<<job[w], output>>}
    /\ outbox' = [outbox EXCEPT ![w] = CompleteMessages(w, job[w], output)]
    /\ proc' = [proc EXCEPT ![w] = next]
    /\ UNCHANGED <<posted, job, netq, connections, broker, db, waits, spent>>

\* The handler of mqtt_agent_runner reports the result itself and returns None.
HandlerCompletes(w) ==
    /\ w \in SelfCompleting
    /\ proc[w] = "claimed"
    /\ Complete(w, OutputOf(w, "completed", "value"), "returning")

\* The handler returned, or raised.
HandlerReturns(w) ==
    /\ proc[w] = "claimed"
    /\ \/ /\ w \notin SelfCompleting
          /\ Complete(w, OutputOf(w, "completed", "value"), "completing")
       \/ Complete(w, OutputOf(w, "failed", "none"), "completing")

RunnerReturns(w) ==
    /\ proc[w] = "returning"
    /\ Complete(w, OutputOf(w, "completed", "none"), "completing")

\* Mutation: the current task is not reset.
FinishKeepsTask(w) ==
    /\ proc[w] = "completing"
    /\ outbox[w] = <<>>
    /\ proc' = [proc EXCEPT ![w] = "idle"]
    /\ UNCHANGED <<history, job, outbox, netq, connections, broker, db,
                   waits, spent>>

\* The end of complete(): no current task, paho takes the next message.
Finish(w) ==
    /\ proc[w] = "completing"
    /\ outbox[w] = <<>>
    /\ proc' = [proc EXCEPT ![w] = "idle"]
    /\ job' = [job EXCEPT ![w] = None]
    /\ UNCHANGED <<history, outbox, netq, connections, broker, db, waits,
                   spent>>

\* stop(): the application thread disconnects, a running claim_task goes on.
Stop(w) ==
    /\ w \in Workers
    /\ w \in running
    /\ Uses({"stop"})
    /\ running' = running \ {w}
    /\ netq' = [netq EXCEPT ![w] = Append(@, DisconnectPacket)]
    /\ UNCHANGED <<history, proc, job, outbox, link, broker, db, waits>>

-----------------------------------------------------------------------------
(* The broker and the connections (paho clean_start, session expiry 0).    *)

\* A retained PUBLISH replaces the retained message and goes to every session
\* with a matching subscription.
BrokerPublish(a) ==
    /\ link[a] /\ netq[a] # <<>> /\ Head(netq[a]).type = "publish"
    /\ LET msg == Head(netq[a]).msg IN
       /\ retained' = [retained EXCEPT ![msg.topic] = msg.value]
       /\ inbox' = [b \in Agents |-> IF msg.topic \in subs[b]
                                     THEN Append(inbox[b], msg)
                                     ELSE inbox[b]]
    /\ netq' = [netq EXCEPT ![a] = Tail(@)]
    /\ UNCHANGED <<history, proc, job, outbox, connections, subs, db, waits,
                   spent>>

\* A SUBSCRIBE adds the topics and is answered with their retained messages.
BrokerSubscribe(a) ==
    /\ link[a] /\ netq[a] # <<>> /\ Head(netq[a]).type = "subscribe"
    /\ LET filter == {s \in Head(netq[a]).filter : Routed(s)} IN
       /\ subs' = [subs EXCEPT ![a] = @ \cup filter]
       /\ \E msgs \in Orderings(RetainedOn(filter)) :
             inbox' = [inbox EXCEPT ![a] = @ \o msgs]
    /\ netq' = [netq EXCEPT ![a] = Tail(@)]
    /\ UNCHANGED <<history, proc, job, outbox, connections, retained, db,
                   waits, spent>>

\* The session ends with the connection.
EndSession(a, kept) ==
    /\ link' = [link EXCEPT ![a] = FALSE]
    /\ subs' = [subs EXCEPT ![a] = {}]
    /\ inbox' = [inbox EXCEPT ![a] = <<>>]
    /\ netq' = [netq EXCEPT ![a] = kept]

BrokerDisconnect(a) ==
    /\ link[a] /\ netq[a] # <<>> /\ Head(netq[a]).type = "disconnect"
    /\ EndSession(a, <<>>)
    /\ UNCHANGED <<history, proc, job, outbox, running, retained, db, waits,
                   spent>>

LinkLost(a) ==
    /\ link[a]
    /\ Uses({"link"})
    /\ EndSession(a, Resent(netq[a]))
    /\ UNCHANGED <<history, proc, job, outbox, running, retained, db, waits>>

\* paho reconnects by itself, in its own thread, so not during a callback.
\* _on_connect replays rows from the database and does not subscribe again.
Reconnect(a) ==
    /\ ~link[a] /\ a \in running
    /\ a \in Workers => proc[a] = "idle"
    /\ link' = [link EXCEPT ![a] = TRUE]
    /\ IF a \in Masters /\ Waiting(a)
       THEN Recover(a) ELSE UNCHANGED <<holder, spent>>
    /\ UNCHANGED <<history, proc, job, outbox, netq, running, broker, db,
                   results>>

-----------------------------------------------------------------------------
(* Crashes: everything in the process is lost, the broker and the database *)
(* stay.  A stopped worker that has nothing left to do exits the same way. *)

Exit(a) ==
    /\ EndSession(a, <<>>)
    /\ running' = running \ {a}
    /\ proc' = [proc EXCEPT ![a] = "down"]
    /\ job' = [job EXCEPT ![a] = None]
    /\ outbox' = [outbox EXCEPT ![a] = <<>>]
    /\ IF a \in Masters
       THEN /\ holder' = [holder EXCEPT ![a] = None]
            /\ results' = [results EXCEPT ![a] = [t \in Tasks |-> None]]
       ELSE UNCHANGED <<waits>>

Crash(a) ==
    /\ proc[a] # "down"
    /\ Uses({"crash"})
    /\ Exit(a)
    /\ UNCHANGED <<history, retained, db>>

ExitStopped(w) ==
    /\ w \in Workers \ running
    /\ proc[w] = "idle" /\ ~link[w]
    /\ Exit(w)
    /\ UNCHANGED <<history, retained, db, spent>>

\* A new AgentBoardWithPersistence of the same agent.
RestartMaster(m) ==
    /\ m \in Masters
    /\ proc[m] = "down"
    /\ proc' = [proc EXCEPT ![m] = "idle"]
    /\ link' = [link EXCEPT ![m] = TRUE]
    /\ running' = running \cup {m}
    /\ UNCHANGED <<history, job, outbox, netq, broker, db, waits, spent>>

-----------------------------------------------------------------------------
MasterStep(m) ==
    \/ \E t \in Tasks : PostTask(m, t) \/ CancelTask(m, t) \/ WaitLookup(m, t)
    \/ WaitSubscribe(m) \/ WaitRecover(m) \/ WaitReturn(m) \/ WaitTimeout(m)
    \/ OnOutput(m) \/ RestartMaster(m)

WorkerStep(w) ==
    \/ Start(w) \/ OnNewTask(w) \/ HandlerCompletes(w) \/ HandlerReturns(w)
    \/ RunnerReturns(w) \/ Finish(w) \/ Stop(w) \/ ExitStopped(w)

BrokerStep(a) == BrokerPublish(a) \/ BrokerSubscribe(a) \/ BrokerDisconnect(a)

Next ==
    \/ \E m \in Masters : MasterStep(m)
    \/ \E w \in Workers : WorkerStep(w)
    \/ \E a \in Agents : Publish(a) \/ BrokerStep(a) \/ LinkLost(a)
                         \/ Reconnect(a) \/ Crash(a)

\* A thread that can go on does, a handler returns, the network and the broker
\* deliver, paho reconnects and an agent that died is started again.  Nobody
\* has to call post_task, cancel_task or wait_task, and no wait has to time out.
Fairness ==
    /\ \A a \in Agents : WF_vars(Publish(a)) /\ WF_vars(BrokerStep(a))
                         /\ WF_vars(Reconnect(a))
    /\ \A w \in Workers :
          WF_vars(Start(w) \/ OnNewTask(w) \/ HandlerCompletes(w)
                  \/ HandlerReturns(w) \/ RunnerReturns(w) \/ Finish(w))
    /\ \A m \in Masters :
          /\ WF_vars(WaitSubscribe(m) \/ WaitRecover(m) \/ WaitReturn(m))
          /\ WF_vars(OnOutput(m))

Spec == Init /\ [][Next]_vars
FairSpec == Spec /\ Fairness
=============================================================================
