-------------------------- MODULE TaskBoardProofs --------------------------
(***************************************************************************)
(* Proofs about the task board, for any number of masters, workers and     *)
(* tasks, any capabilities and any number of faults.                       *)
(***************************************************************************)
EXTENDS TaskBoardProperties, FiniteSetTheorems, SequenceTheorems, TLAPS

-----------------------------------------------------------------------------
(* Topics, messages and packets.                                           *)

\* A message is a topic with a value of the topic's kind, and nothing else.
LEMMA MessageType ==
    /\ \A s \in Topics : \A v \in Values[s[2]] :
          /\ Message(s, v) \in Messages
          /\ Message(s, v).topic = s /\ Message(s, v).value = v
    /\ \A msg \in Messages :
          msg.topic \in Topics /\ msg.value \in Values[msg.topic[2]]
<1>1. ASSUME NEW s \in Topics, NEW v \in Values[s[2]]
      PROVE  /\ Message(s, v) \in Messages
             /\ Message(s, v).topic = s /\ Message(s, v).value = v
  <2>1. Message(s, v) \in [topic : {s}, value : Values[s[2]]]
    BY DEF Message
  <2> QED
    BY <2>1 DEF Messages, Message
<1>2. ASSUME NEW msg \in Messages
      PROVE  msg.topic \in Topics /\ msg.value \in Values[msg.topic[2]]
  <2>1. PICK s \in Topics : msg \in [topic : {s}, value : Values[s[2]]]
    BY DEF Messages
  <2> QED
    BY <2>1
<1> QED
    BY <1>1, <1>2

\* The topics of a task and of a worker, and what their kinds allow.
LEMMA TopicType ==
    /\ \A t \in Tasks : \A k \in Kinds : <<t, k>> \in Topics
    /\ \A w \in Workers : <<w, "current">> \in Topics
    /\ \A t \in Tasks : OutputTopic(t) \in Topics
    /\ Values["input"] = {"task"} /\ Values["status"] = Statuses
    /\ Values["claim"] = Workers /\ Values["output"] = Outputs
    /\ Values["signal"] = Signals /\ Values["current"] = Tasks \cup {None}
BY DEF Topics, TaskTopics, CurrentTopics, Kinds, OutputTopic, Values

\* What the methods hand to publish() are messages.
LEMMA PublishedType ==
    ASSUME NEW t \in Tasks
    PROVE  /\ <<Message(<<t, "input">>, "task"),
                Message(<<t, "status">>, "pending")>>
                 \in Seq(Messages)
           /\ <<Message(<<t, "signal">>, "[CANCEL]"),
                Message(<<t, "status">>, "cancelled")>> \in Seq(Messages)
           /\ \A w \in Workers : ClaimMessages(w, t) \in Seq(Messages)
           /\ \A w \in Workers, o \in Outputs :
                 CompleteMessages(w, t, o) \in Seq(Messages)
<1>1. \A k \in Kinds : \A v \in Values[k] : Message(<<t, k>>, v) \in Messages
  BY MessageType, TopicType
<1>2. \A w \in Workers : \A v \in Tasks \cup {None} :
         Message(<<w, "current">>, v) \in Messages
  BY MessageType, TopicType
<1>3. /\ Message(<<t, "input">>, "task") \in Messages
      /\ \A v \in Statuses : Message(<<t, "status">>, v) \in Messages
      /\ \A v \in Signals : Message(<<t, "signal">>, v) \in Messages
      /\ \A v \in Workers : Message(<<t, "claim">>, v) \in Messages
      /\ \A v \in Outputs : Message(<<t, "output">>, v) \in Messages
  BY <1>1, TopicType DEF Kinds
<1> QED
  BY <1>2, <1>3
     DEF ClaimMessages, CompleteMessages, OutputTopic, Statuses, Signals

\* Packets of each type are packets.
LEMMA PacketType ==
    /\ \A msg \in Messages : PublishPacket(msg) \in Packets
    /\ \A filter \in Filters : SubscribePacket(filter) \in Packets
    /\ DisconnectPacket \in Packets
    /\ \A packet \in Packets :
          /\ packet.type = "publish" => packet.msg \in Messages
          /\ packet.type = "subscribe" => packet.filter \in Filters
    /\ \A filter \in Filters : filter \subseteq Topics
BY DEF PublishPacket, SubscribePacket, DisconnectPacket, Packets, Filters,
       InputTopics, OutputTopic, Topics, TaskTopics, Kinds

\* What paho keeps of a queue of packets is a queue of packets.
LEMMA ResentType ==
    ASSUME NEW q \in Seq(Packets)
    PROVE  Resent(q) \in Seq(Packets)
<1>1. q \in [1..Len(q) -> Packets] /\ Len(q) \in Nat
  BY LenProperties
<1>2. SubscribePacket({}) \in Packets
  BY PacketType DEF Filters
<1>3. Resent(q) \in [1..Len(q) -> Packets]
  BY <1>1, <1>2 DEF Resent
<1> QED
  BY <1>1, <1>3

\* The retained messages a SUBSCRIBE is answered with, all of them, in any order.
LEMMA RetainedType ==
    ASSUME TypeOK,
           NEW filter \in Filters,
           NEW msgs \in Orderings(RetainedOn({s \in filter : Routed(s)}))
    PROVE  /\ msgs \in Seq(Messages)
           /\ \A i \in DOMAIN msgs :
                 /\ msgs[i].topic \in filter
                 /\ retained[msgs[i].topic] # None
                 /\ msgs[i].value = retained[msgs[i].topic]
           /\ \A s \in filter : Routed(s) /\ retained[s] # None
                 => \E i \in DOMAIN msgs : msgs[i].topic = s
<1> DEFINE U == {s \in {u \in filter : Routed(u)} : retained[s] # None}
           R == RetainedOn({s \in filter : Routed(s)})
<1>1. R = {Message(s, retained[s]) : s \in U}
  BY DEF RetainedOn
<1>2. U \subseteq Topics /\ U \subseteq filter
  BY PacketType
<1>3. \A s \in U : retained[s] \in Values[s[2]] /\ retained[s] # None
  BY <1>2 DEF TypeOK
<1>4. R \subseteq Messages
  BY <1>1, <1>2, <1>3, MessageType
<1>5. \A msg \in R : msg.topic \in U /\ msg.value = retained[msg.topic]
  BY <1>1, <1>2, <1>3, MessageType
<1>6. IsFiniteSet(filter)
  <2>1. IsFiniteSet(Tasks)
    BY BoardAssumption
  <2>2. IsFiniteSet(InputTopics)
    <3> DEFINE f == [t \in Tasks |-> <<t, "input">>]
    <3>1. f \in Surjection(Tasks, InputTopics)
      <4>1. f \in [Tasks -> InputTopics]
        BY DEF InputTopics
      <4>2. ASSUME NEW s \in InputTopics
            PROVE  \E t \in Tasks : f[t] = s
        <5>1. s[1] \in Tasks /\ s = <<s[1], "input">>
          BY DEF InputTopics
        <5> QED
          BY <5>1
      <4> QED
        BY <4>1, <4>2 DEF Surjection
    <3> QED
      BY <2>1, <3>1, FS_Surjection
  <2> QED
    <3>1. IsFiniteSet({}) /\ \A t \in Tasks : IsFiniteSet({OutputTopic(t)})
      BY FS_EmptySet, FS_Singleton, Zenon
    <3> QED
      BY <2>2, <3>1 DEF Filters
<1>7. IsFiniteSet(R)
  <2>1. IsFiniteSet(U)
    BY <1>2, <1>6, FS_Subset
  <2> DEFINE f == [s \in U |-> Message(s, retained[s])]
  <2>2. f \in Surjection(U, R)
    BY <1>1 DEF Surjection
  <2> HIDE DEF f, U, R
  <2> QED
    BY <2>1, <2>2, FS_Surjection
<1>8. Cardinality(R) \in Nat
  BY <1>7, FS_CardinalityType
<1>9. msgs \in [1..Cardinality(R) -> R]
  BY DEF Orderings
<1>10. \A msg \in R : \E i \in DOMAIN msgs : msgs[i] = msg
  <2> DEFINE N == 1..Cardinality(R)
  <2>1. IsFiniteSet(N) /\ Cardinality(N) = Cardinality(R)
    BY <1>8, FS_Interval
  <2>2. msgs \in Injection(N, R)
    BY <1>9 DEF Orderings, Injection, IsInjective
  <2> HIDE DEF R, N
  <2>3. msgs \in Surjection(N, R)
    BY <1>7, <2>1, <2>2, FS_Injection
  <2> QED
    BY <2>3 DEF Surjection
<1>11. \A s \in U : \E i \in DOMAIN msgs : msgs[i].topic = s
  <2>1. \A s \in U : Message(s, retained[s]) \in R /\ Message(s, retained[s]).topic = s
    BY <1>1, <1>2, <1>3, MessageType
  <2> HIDE DEF R, U
  <2> QED
    BY <1>10, <2>1
<1>12. \A s \in filter : Routed(s) /\ retained[s] # None => s \in U
  OBVIOUS
<1> HIDE DEF R, U
<1> QED
  BY <1>2, <1>3, <1>4, <1>5, <1>8, <1>9, <1>11, <1>12

\* The bounds are counted up only.
LEMMA UsesType ==
    ASSUME spent \in [BudgetKinds -> Nat], NEW kinds, Uses(kinds)
    PROVE  spent' \in [BudgetKinds -> Nat]
BY DEF Uses

-----------------------------------------------------------------------------
(* Type correctness.                                                       *)

\* No agent runs but the idle masters; nothing is stored or under way.
LEMMA TypeInit == Init => TypeOK
BY BoardAssumption DEF Init, TypeOK, Agents

\* complete(), whatever the worker's method does next.
LEMMA CompleteType ==
    ASSUME TypeOK, NEW w \in Workers, NEW o \in Outputs, job[w] \in Tasks,
           NEW next \in {"returning", "completing"}, Complete(w, o, next)
    PROVE  TypeOK'
<1>1. outbox' \in [Agents -> Seq(Messages)]
  BY PublishedType DEF Complete, TypeOK
<1>2. produced' \subseteq Tasks \X Outputs
  BY DEF Complete, TypeOK
<1>3. job[w] # None
  BY BoardAssumption
<1> QED
  BY <1>1, <1>2, <1>3, BoardAssumption
     DEF Complete, Agents, TypeOK, history, connections, broker, waits

\* Every step of a master, a worker, the broker or the network keeps the types.
LEMMA TypeStep == TypeOK /\ [Next]_vars => TypeOK'
<1> SUFFICES ASSUME TypeOK, [Next]_vars PROVE TypeOK'
  OBVIOUS
<1>1. CASE UNCHANGED vars
  BY <1>1 DEF TypeOK, vars
<1>2. ASSUME NEW a \in Agents, Publish(a)
      PROVE  TypeOK'
  BY <1>2, BoardAssumption, TopicType, MessageType, PacketType, UsesType,
     SMTT(30)
     DEF Publish, Agents, TypeOK, history, connections, broker, waits
<1>3. ASSUME NEW m \in Masters, NEW t \in Tasks, PostTask(m, t)
      PROVE  TypeOK'
  BY <1>3, BoardAssumption, TopicType, PublishedType
     DEF PostTask, Agents, Calls, TypeOK, history, connections, broker, waits
<1>4. ASSUME NEW m \in Masters, NEW t \in Tasks, CancelTask(m, t)
      PROVE  TypeOK'
  BY <1>4, BoardAssumption, TopicType, PublishedType, UsesType
     DEF CancelTask, Agents, Calls, TypeOK, history, connections, broker, waits
<1>5. ASSUME NEW m \in Masters, NEW t \in Tasks, WaitLookup(m, t)
      PROVE  TypeOK'
  <2>1. /\ m \in Agents /\ proc[m] = "idle"
        /\ db[OutputTopic(t)] \in Outputs \cup {None}
    BY <1>5, TopicType DEF WaitLookup, Calls, OutputTopic, Agents, TypeOK
  <2>2. spent' \in [BudgetKinds -> Nat]
    BY <1>5, UsesType DEF WaitLookup, TypeOK
  <2>3. CASE db[OutputTopic(t)] # None /\ UNCHANGED <<proc, job, holder>>
             /\ results' = [results EXCEPT ![m][t] = db[OutputTopic(t)]]
    BY <1>5, <2>1, <2>2, <2>3
       DEF WaitLookup, TypeOK, history, connections, broker, waits
  <2>4. CASE /\ proc' = [proc EXCEPT ![m] = "subscribing"]
             /\ job' = [job EXCEPT ![m] = t]
             /\ holder' = [holder EXCEPT ![m] = None]
             /\ UNCHANGED results
    BY <1>5, <2>1, <2>2, <2>4, BoardAssumption
       DEF WaitLookup, TypeOK, history, connections, broker, waits
  <2> QED
    BY <1>5, <2>3, <2>4 DEF WaitLookup
<1>6. ASSUME NEW m \in Masters, WaitSubscribe(m)
      PROVE  TypeOK'
  <2>1. m \in Agents /\ proc[m] = "subscribing" /\ job[m] \in Tasks
    BY <1>6 DEF WaitSubscribe, Agents, TypeOK
  <2>2. SubscribePacket({OutputTopic(job[m])}) \in Packets
    BY <2>1, PacketType DEF Filters
  <2>3. netq' \in [Agents -> Seq(Packets)]
    BY <1>6, <2>1, <2>2 DEF WaitSubscribe, TypeOK
  <2> QED
    BY <1>6, <2>1, <2>3, BoardAssumption
       DEF WaitSubscribe, Agents, TypeOK, history, connections, broker, waits
<1>7. ASSUME NEW m \in Masters, WaitRecover(m)
      PROVE  TypeOK'
  <2>1. m \in Agents /\ proc[m] = "recovering" /\ job[m] \in Tasks
    BY <1>7 DEF WaitRecover, Agents, TypeOK
  <2>2. db[OutputTopic(job[m])] \in Outputs \cup {None}
    BY <2>1, TopicType DEF OutputTopic, TypeOK
  <2>3. spent' \in [BudgetKinds -> Nat]
    BY <1>7, UsesType DEF WaitRecover, Recover, TypeOK
  <2>4. holder' \in [Masters -> Outputs \cup {None}]
    BY <1>7, <2>2 DEF WaitRecover, Recover, TypeOK
  <2> QED
    BY <1>7, <2>1, <2>3, <2>4, BoardAssumption
       DEF WaitRecover, Agents, TypeOK, history, connections, broker, waits
<1>8. ASSUME NEW m \in Masters, WaitReturn(m)
      PROVE  TypeOK'
  BY <1>8, BoardAssumption, TopicType
     DEF WaitReturn, Agents, TypeOK, history, connections, broker, waits
<1>9. ASSUME NEW m \in Masters, WaitTimeout(m)
      PROVE  TypeOK'
  BY <1>9, BoardAssumption, TopicType
     DEF WaitTimeout, Agents, TypeOK, history, connections, broker, waits
<1>10. ASSUME NEW m \in Masters, OnOutput(m)
      PROVE  TypeOK'
  BY <1>10, BoardAssumption, TopicType, MessageType
     DEF OnOutput, Agents, Waiting, OutputTopic, TypeOK, history, connections,
         broker, waits
<1>11. ASSUME NEW m \in Masters, RestartMaster(m)
      PROVE  TypeOK'
  BY <1>11, BoardAssumption, TopicType
     DEF RestartMaster, Agents, TypeOK, history, connections, broker, waits
<1>12. ASSUME NEW w \in Workers, Start(w)
      PROVE  TypeOK'
  BY <1>12, BoardAssumption, TopicType, PacketType
     DEF Start, Agents, Filters, TypeOK, history, connections, broker, waits
<1>13. ASSUME NEW w \in Workers, OnNewTask(w)
      PROVE  TypeOK'
  <2>1. w \in Agents /\ w \notin Masters /\ inbox[w] \in Seq(Messages)
    BY BoardAssumption DEF Agents, TypeOK
  <2>2. inbox' \in [Agents -> Seq(Messages)]
    BY <1>13, <2>1 DEF OnNewTask, TypeOK
  <2> DEFINE t == Head(inbox[w]).topic[1]
  <2>3. CASE UNCHANGED <<job, proc, outbox>>
    BY <1>13, <2>2, <2>3
       DEF OnNewTask, TypeOK, history, connections, broker, waits
  <2>4. CASE /\ Accepts(w, t)
             /\ job' = [job EXCEPT ![w] = t]
             /\ proc' = [proc EXCEPT ![w] = "claimed"]
             /\ outbox' = [outbox EXCEPT ![w] = ClaimMessages(w, t)]
    <3>1. t \in Tasks /\ t # None
      BY <2>4, BoardAssumption DEF Accepts
    <3>2. outbox' \in [Agents -> Seq(Messages)]
      BY <2>4, <3>1, PublishedType DEF TypeOK
    <3> HIDE DEF t
    <3> QED
      BY <1>13, <2>1, <2>2, <2>4, <3>1, <3>2
         DEF OnNewTask, TypeOK, history, connections, broker, waits
  <2> QED
    BY <1>13, <2>3, <2>4 DEF OnNewTask
<1>14. ASSUME NEW w \in Workers, HandlerCompletes(w)
      PROVE  TypeOK'
  <2>1. job[w] \in Tasks
    BY <1>14 DEF HandlerCompletes, Agents, TypeOK
  <2>2. PICK o \in Outputs, next \in {"returning", "completing"} :
           Complete(w, o, next)
    BY <1>14 DEF HandlerCompletes, OutputOf, Outputs
  <2> QED
    BY <2>1, <2>2, CompleteType
<1>15. ASSUME NEW w \in Workers, HandlerReturns(w)
      PROVE  TypeOK'
  <2>1. job[w] \in Tasks
    BY <1>15 DEF HandlerReturns, Agents, TypeOK
  <2>2. PICK o \in Outputs, next \in {"returning", "completing"} :
           Complete(w, o, next)
    BY <1>15 DEF HandlerReturns, OutputOf, Outputs
  <2> QED
    BY <2>1, <2>2, CompleteType
<1>16. ASSUME NEW w \in Workers, RunnerReturns(w)
      PROVE  TypeOK'
  <2>1. job[w] \in Tasks
    BY <1>16 DEF RunnerReturns, Agents, TypeOK
  <2>2. PICK o \in Outputs, next \in {"returning", "completing"} :
           Complete(w, o, next)
    BY <1>16 DEF RunnerReturns, OutputOf, Outputs
  <2> QED
    BY <2>1, <2>2, CompleteType
<1>17. ASSUME NEW w \in Workers, Finish(w)
      PROVE  TypeOK'
  BY <1>17, BoardAssumption, TopicType
     DEF Finish, Agents, TypeOK, history, connections, broker, waits
<1>18. ASSUME NEW w \in Workers, Stop(w)
      PROVE  TypeOK'
  BY <1>18, BoardAssumption, TopicType, PacketType, UsesType
     DEF Stop, Agents, TypeOK, history, connections, broker, waits
<1>19. ASSUME NEW w \in Workers, ExitStopped(w)
      PROVE  TypeOK'
  BY <1>19, BoardAssumption, TopicType
     DEF ExitStopped, Agents, Exit, EndSession, TypeOK, history, connections,
         broker, waits
<1>20. ASSUME NEW a \in Agents, BrokerPublish(a)
      PROVE  TypeOK'
  BY <1>20, BoardAssumption, TopicType, MessageType, PacketType
     DEF BrokerPublish, Agents, TypeOK, history, connections, broker, waits
<1>21. ASSUME NEW a \in Agents, BrokerSubscribe(a)
      PROVE  TypeOK'
  <2> DEFINE filter == Head(netq[a]).filter
             routed == {s \in filter : Routed(s)}
  <2>1. filter \in Filters /\ filter \subseteq Topics
    BY <1>21, PacketType DEF BrokerSubscribe, TypeOK
  <2>2. PICK msgs \in Orderings(RetainedOn(routed)) :
           inbox' = [inbox EXCEPT ![a] = inbox[a] \o msgs]
    BY <1>21 DEF BrokerSubscribe
  <2>3. msgs \in Seq(Messages)
    BY <2>1, <2>2, RetainedType
  <2>4. inbox' \in [Agents -> Seq(Messages)]
    BY <2>2, <2>3 DEF TypeOK
  <2>5. netq' \in [Agents -> Seq(Packets)]
    BY <1>21 DEF BrokerSubscribe, TypeOK
  <2>6. subs' \in [Agents -> SUBSET Topics]
    BY <1>21, <2>1 DEF BrokerSubscribe, TypeOK
  <2> QED
    BY <1>21, <2>4, <2>5, <2>6
       DEF BrokerSubscribe, TypeOK, history, connections, broker, waits
<1>22. ASSUME NEW a \in Agents, BrokerDisconnect(a)
      PROVE  TypeOK'
  BY <1>22, BoardAssumption, TopicType
     DEF BrokerDisconnect, Agents, EndSession, TypeOK, history, connections,
         broker, waits
<1>23. ASSUME NEW a \in Agents, LinkLost(a)
      PROVE  TypeOK'
  BY <1>23, BoardAssumption, TopicType, ResentType, UsesType
     DEF LinkLost, Agents, EndSession, TypeOK, history, connections, broker,
         waits
<1>24. ASSUME NEW a \in Agents, Reconnect(a)
      PROVE  TypeOK'
  <2>1. /\ link' = [link EXCEPT ![a] = TRUE]
        /\ IF a \in Masters /\ Waiting(a)
           THEN Recover(a) ELSE UNCHANGED <<holder, spent>>
        /\ UNCHANGED <<posted, produced, proc, job, outbox, netq, running, subs, inbox,
                       retained, db, results>>
    BY <1>24 DEF Reconnect, history, broker
  <2>2. spent' \in [BudgetKinds -> Nat]
    BY <2>1, UsesType DEF Recover, TypeOK
  <2>3. holder' \in [Masters -> Outputs \cup {None}]
    <3>1. CASE a \in Masters /\ Waiting(a)
      <4>1. job[a] \in Tasks
        BY <3>1 DEF Waiting, TypeOK, Agents
      <4>2. db[OutputTopic(job[a])] \in Outputs \cup {None}
        BY <4>1, TopicType DEF OutputTopic, TypeOK
      <4> QED
        BY <2>1, <3>1, <4>2 DEF Recover, TypeOK
    <3> QED
      BY <2>1, <3>1 DEF TypeOK
  <2> QED
    BY <2>1, <2>2, <2>3 DEF TypeOK
<1>25. ASSUME NEW a \in Agents, Crash(a)
      PROVE  TypeOK'
  <2>1. spent' \in [BudgetKinds -> Nat]
    BY <1>25, UsesType DEF Crash, TypeOK
  <2>2. /\ holder' \in [Masters -> Outputs \cup {None}]
        /\ results' \in [Masters -> [Tasks -> Outputs \cup {None}]]
    <3>1. CASE a \in Masters
      <4>1. /\ holder' = [holder EXCEPT ![a] = None]
            /\ results' = [results EXCEPT ![a] = [t \in Tasks |-> None]]
        BY <1>25, <3>1 DEF Crash, Exit
      <4> QED
        BY <3>1, <4>1 DEF TypeOK
    <3>2. CASE a \notin Masters
      BY <1>25, <3>2 DEF Crash, Exit, TypeOK, waits
    <3> QED
      BY <3>1, <3>2
  <2>3. /\ proc' = [proc EXCEPT ![a] = "down"]
        /\ job' = [job EXCEPT ![a] = None]
        /\ outbox' = [outbox EXCEPT ![a] = <<>>]
        /\ inbox' = [inbox EXCEPT ![a] = <<>>]
        /\ netq' = [netq EXCEPT ![a] = <<>>]
        /\ link' = [link EXCEPT ![a] = FALSE]
        /\ subs' = [subs EXCEPT ![a] = {}] /\ running' = running \ {a}
        /\ UNCHANGED <<posted, produced, retained, db>>
    BY <1>25 DEF Crash, Exit, EndSession, history
  <2> QED
    BY <2>1, <2>2, <2>3 DEF Agents, TypeOK
<1> QED
  BY <1>1, <1>2, <1>3, <1>4, <1>5, <1>6, <1>7, <1>8, <1>9, <1>10, <1>11,
     <1>12, <1>13, <1>14, <1>15, <1>16, <1>17, <1>18, <1>19, <1>20, <1>21,
     <1>22, <1>23, <1>24, <1>25
     DEF Next, MasterStep, WorkerStep, BrokerStep

\* Every variable keeps its type, for any number of agents, tasks and faults.
THEOREM TypeCorrect == Spec => []TypeOK
BY TypeInit, TypeStep, PTL DEF Spec

-----------------------------------------------------------------------------
(* Outputs are genuine.                                                    *)

\* Genuine messages: from a topic and a value, and what publish() is given.
LEMMA MessagesAboutType ==
    ASSUME NEW P, NEW O
    PROVE  /\ MessagesAbout(P, O) \subseteq Messages
           /\ \A s \in Topics : \A v \in Values[s[2]] :
                 Message(s, v) \in MessagesAbout(P, O) <=>
                    /\ s[2] = "input" => s[1] \in P
                    /\ s[2] = "output" => <<s[1], v>> \in O
           /\ \A msg \in MessagesAbout(P, O) :
                 msg.topic[2] = "input" => msg.topic[1] \in P
           /\ \A msg \in MessagesAbout(P, O) :
                 msg.topic[2] = "output" => <<msg.topic[1], msg.value>> \in O
BY MessageType DEF MessagesAbout

\* What post_task, cancel_task, claim_task and complete() publish is genuine
\* once the task is posted and the output produced.
LEMMA PublishedGenuine ==
    ASSUME NEW P, NEW O, NEW t \in Tasks
    PROVE  /\ t \in P => <<Message(<<t, "input">>, "task"),
                          Message(<<t, "status">>, "pending")>>
                            \in Seq(MessagesAbout(P, O))
           /\ <<Message(<<t, "signal">>, "[CANCEL]"),
                Message(<<t, "status">>, "cancelled")>>
                   \in Seq(MessagesAbout(P, O))
           /\ \A w \in Workers :
                 ClaimMessages(w, t) \in Seq(MessagesAbout(P, O))
           /\ \A w \in Workers, o \in Outputs : <<t, o>> \in O =>
                 CompleteMessages(w, t, o) \in Seq(MessagesAbout(P, O))
<1> DEFINE G == MessagesAbout(P, O)
<1>1. \A k \in Kinds \ {"input", "output"} : \A v \in Values[k] :
         Message(<<t, k>>, v) \in G
  BY MessagesAboutType, TopicType
<1>2. \A w \in Workers : \A v \in Tasks \cup {None} :
         Message(<<w, "current">>, v) \in G
  BY MessagesAboutType, TopicType
<1>3. /\ t \in P => Message(<<t, "input">>, "task") \in G
      /\ \A o \in Outputs : <<t, o>> \in O => Message(<<t, "output">>, o) \in G
  BY MessagesAboutType, TopicType DEF Kinds
<1>4. /\ \A v \in Statuses : Message(<<t, "status">>, v) \in G
      /\ \A v \in Signals : Message(<<t, "signal">>, v) \in G
      /\ \A v \in Workers : Message(<<t, "claim">>, v) \in G
  BY <1>1, TopicType DEF Kinds
<1> HIDE DEF G
<1>5. t \in P => <<Message(<<t, "input">>, "task"),
                 Message(<<t, "status">>, "pending")>> \in Seq(G)
  BY <1>3, <1>4 DEF Statuses
<1>6. <<Message(<<t, "signal">>, "[CANCEL]"),
        Message(<<t, "status">>, "cancelled")>> \in Seq(G)
  BY <1>4 DEF Statuses, Signals
<1>7. \A w \in Workers : ClaimMessages(w, t) \in Seq(G)
  BY <1>2, <1>4 DEF ClaimMessages, Statuses
<1>8. \A w \in Workers, o \in Outputs : <<t, o>> \in O =>
         CompleteMessages(w, t, o) \in Seq(G)
  BY <1>2, <1>3, <1>4 DEF CompleteMessages, OutputTopic, Statuses, Signals
<1> QED
  BY <1>5, <1>6, <1>7, <1>8 DEF G

\* Genuine packets are made of genuine messages.
LEMMA GenuineType ==
    /\ \A msg \in GenuineMessages : PublishPacket(msg) \in GenuinePackets
    /\ \A packet \in GenuinePackets :
          /\ packet \in Packets
          /\ packet.type = "publish" => packet.msg \in GenuineMessages
    /\ \A filter \in Filters : SubscribePacket(filter) \in GenuinePackets
    /\ DisconnectPacket \in GenuinePackets
BY PacketType, MessagesAboutType
   DEF GenuineMessages, GenuinePackets, PublishPacket, SubscribePacket,
       DisconnectPacket

\* Tasks stay posted and outputs stay produced, so what was genuine is.
LEMMA Kept ==
    ASSUME OutputsGenuine,
           posted \subseteq posted', produced \subseteq produced'
    PROVE  /\ GenuineMessages \subseteq GenuineMessages'
           /\ GenuinePackets \subseteq GenuinePackets'
           /\ UNCHANGED <<posted, produced>>
                 => GenuineMessages' = GenuineMessages
           /\ UNCHANGED <<posted, produced>> => GenuinePackets' = GenuinePackets
           /\ outbox \in [Agents -> Seq(GenuineMessages')]
           /\ inbox \in [Agents -> Seq(GenuineMessages')]
           /\ netq \in [Agents -> Seq(GenuinePackets')]
           /\ UNCHANGED <<outbox, inbox, netq>> => QueuesGenuine'
           /\ UNCHANGED <<retained, db>> => StoresGenuine'
           /\ UNCHANGED <<produced, job>> => WorkGenuine'
           /\ UNCHANGED <<job, holder, results>> => AnswersGenuine'
<1>1. GenuineMessages \subseteq GenuineMessages'
  BY DEF GenuineMessages, MessagesAbout
<1>2. GenuinePackets \subseteq GenuinePackets'
  BY <1>1 DEF GenuinePackets
<1>3. /\ outbox \in [Agents -> Seq(GenuineMessages')]
      /\ inbox \in [Agents -> Seq(GenuineMessages')]
      /\ netq \in [Agents -> Seq(GenuinePackets')]
  BY <1>1, <1>2, SeqMonotonic DEF OutputsGenuine, QueuesGenuine
<1>4. UNCHANGED <<outbox, inbox, netq>> => QueuesGenuine'
  BY <1>3 DEF QueuesGenuine
<1>5. UNCHANGED <<retained, db>> => StoresGenuine'
  BY <1>1 DEF OutputsGenuine, StoresGenuine
<1>6. UNCHANGED <<produced, job>> => WorkGenuine'
  BY DEF OutputsGenuine, WorkGenuine
<1>7. UNCHANGED <<job, holder, results>> => AnswersGenuine'
  BY DEF OutputsGenuine, AnswersGenuine
<1>8. UNCHANGED <<posted, produced>> =>
         GenuineMessages' = GenuineMessages /\ GenuinePackets' = GenuinePackets
  BY DEF GenuineMessages, GenuinePackets
<1> QED
  BY <1>1, <1>2, <1>3, <1>4, <1>5, <1>6, <1>7, <1>8

\* complete() with an output that is not there yet.
LEMMA CompleteGenuine ==
    ASSUME TypeOK, OutputsGenuine, NEW w \in Workers, NEW o \in Outputs,
           o.agent = w, job[w] \in Tasks,
           NEW next \in {"returning", "completing"}, Complete(w, o, next)
    PROVE  OutputsGenuine'
<1>1. posted' = posted /\ produced' = produced \cup {<<job[w], o>>}
  BY DEF Complete
<1>2. StoresGenuine'
  BY <1>1, Kept DEF Complete, broker
<1>3. AnswersGenuine'
  BY <1>1, Kept DEF Complete, waits
<1>4. WorkGenuine'
  <2>1. job[w] # None
    BY BoardAssumption
  <2> QED
    BY <1>1, <2>1 DEF Complete, OutputsGenuine, WorkGenuine
<1>5. QueuesGenuine'
  <2>1. CompleteMessages(w, job[w], o) \in Seq(GenuineMessages')
    BY <1>1, PublishedGenuine DEF GenuineMessages
  <2> QED
    BY <1>1, <2>1, Kept DEF Complete, QueuesGenuine, broker
<1> QED
  BY <1>2, <1>3, <1>4, <1>5 DEF OutputsGenuine

\* A process that exits leaves nothing behind that is not genuine.
LEMMA ExitGenuine ==
    ASSUME TypeOK, OutputsGenuine, NEW a \in Agents, Exit(a),
           UNCHANGED <<posted, produced>>
    PROVE  QueuesGenuine' /\ WorkGenuine' /\ AnswersGenuine'
<1>1. QueuesGenuine'
  BY Kept DEF Exit, EndSession, OutputsGenuine, QueuesGenuine
<1>2. WorkGenuine'
  BY DEF Exit, OutputsGenuine, WorkGenuine, TypeOK
<1>3. AnswersGenuine'
  <2>1. CASE a \in Masters
    <3>1. /\ holder' = [holder EXCEPT ![a] = None]
          /\ results' = [results EXCEPT ![a] = [t \in Tasks |-> None]]
          /\ job' = [job EXCEPT ![a] = None]
      BY <2>1 DEF Exit
    <3> QED
      BY <2>1, <3>1 DEF OutputsGenuine, AnswersGenuine, TypeOK, Agents
  <2>2. CASE a \notin Masters
    BY <2>2 DEF Exit, waits, OutputsGenuine, AnswersGenuine, TypeOK, Agents
  <2> QED
    BY <2>1, <2>2
<1> QED
  BY <1>1, <1>2, <1>3

\* The output of a task that the database holds is genuine.
LEMMA StoredOutput ==
    ASSUME TypeOK, OutputsGenuine, NEW t \in Tasks, db[OutputTopic(t)] # None
    PROVE  <<t, db[OutputTopic(t)]>> \in produced
<1> DEFINE s == OutputTopic(t)
<1>1. s \in Topics /\ s[1] = t /\ s[2] = "output"
  BY TopicType DEF OutputTopic
<1>2. db[s] \in Values[s[2]]
  BY <1>1 DEF TypeOK
<1>3. Message(s, db[s]) \in MessagesAbout(posted, produced)
  BY <1>1 DEF OutputsGenuine, StoresGenuine, GenuineMessages
<1> HIDE DEF s
<1> QED
  BY <1>1, <1>2, <1>3, MessagesAboutType DEF s

\* What a waiting master recovers from the database is genuine.
LEMMA RecoverGenuine ==
    ASSUME TypeOK, OutputsGenuine, NEW m \in Masters, job[m] # None, Recover(m),
           UNCHANGED <<posted, produced, job, results>>
    PROVE  AnswersGenuine'
<1>1. job[m] \in Tasks
  BY DEF TypeOK, Agents
<1>2. db[OutputTopic(job[m])] # None =>
         <<job[m], db[OutputTopic(job[m])]>> \in produced
  BY <1>1, StoredOutput
<1> QED
  BY <1>1, <1>2 DEF Recover, OutputsGenuine, AnswersGenuine, TypeOK

\* What paho keeps of a genuine queue is genuine.
LEMMA ResentGenuine ==
    ASSUME NEW q \in Seq(GenuinePackets)
    PROVE  Resent(q) \in Seq(GenuinePackets)
<1>1. q \in [1..Len(q) -> GenuinePackets] /\ Len(q) \in Nat
  BY LenProperties
<1>2. SubscribePacket({}) \in GenuinePackets
  BY GenuineType DEF Filters
<1>3. Resent(q) \in [1..Len(q) -> GenuinePackets]
  BY <1>1, <1>2 DEF Resent
<1> QED
  BY <1>1, <1>3

\* A message is genuine as long as it is kept under its topic.
LEMMA StoreType ==
    \A msg \in GenuineMessages :
       /\ msg.topic \in Topics /\ msg.value \in Values[msg.topic[2]]
       /\ Message(msg.topic, msg.value) \in GenuineMessages
BY MessageType, MessagesAboutType DEF GenuineMessages

\* At the start there is no message, no row and no answer.
LEMMA GenuineInit == Init => OutputsGenuine
BY DEF Init, OutputsGenuine, QueuesGenuine, StoresGenuine, WorkGenuine,
       AnswersGenuine, Agents

\* No step invents a value or moves it to the topic of another task.
LEMMA GenuineStep == TypeOK /\ OutputsGenuine /\ [Next]_vars => OutputsGenuine'
<1> SUFFICES ASSUME TypeOK, OutputsGenuine, [Next]_vars PROVE OutputsGenuine'
  OBVIOUS
<1>1. CASE UNCHANGED vars
  BY <1>1, Kept DEF vars, OutputsGenuine
<1>2. ASSUME NEW a \in Agents, Publish(a)
      PROVE  OutputsGenuine'
  <2>1. WorkGenuine' /\ AnswersGenuine'
    BY <1>2, Kept DEF Publish, history, broker, waits
  <2>2. QueuesGenuine'
    BY <1>2, Kept, GenuineType
       DEF Publish, OutputsGenuine, QueuesGenuine, history, broker
  <2>3. StoresGenuine'
    BY <1>2, Kept, StoreType
       DEF Publish, OutputsGenuine, QueuesGenuine, StoresGenuine, TypeOK,
           broker, history
  <2> QED
    BY <2>1, <2>2, <2>3 DEF OutputsGenuine
<1>3. ASSUME NEW m \in Masters, NEW t \in Tasks, PostTask(m, t)
      PROVE  OutputsGenuine'
  <2>1. StoresGenuine' /\ AnswersGenuine'
    BY <1>3, Kept DEF PostTask, history, broker, waits
  <2>2. QueuesGenuine'
    BY <1>3, Kept, PublishedGenuine
       DEF PostTask, GenuineMessages, OutputsGenuine, QueuesGenuine, history,
           broker
  <2>3. WorkGenuine'
    BY <1>3, BoardAssumption
       DEF PostTask, OutputsGenuine, WorkGenuine, TypeOK, Agents, history
  <2> QED
    BY <2>1, <2>2, <2>3 DEF OutputsGenuine
<1>4. ASSUME NEW m \in Masters, NEW t \in Tasks, CancelTask(m, t)
      PROVE  OutputsGenuine'
  <2>1. StoresGenuine' /\ WorkGenuine' /\ AnswersGenuine'
    BY <1>4, Kept DEF CancelTask, history, broker, waits
  <2>2. QueuesGenuine'
    BY <1>4, Kept, PublishedGenuine
       DEF CancelTask, GenuineMessages, OutputsGenuine, QueuesGenuine,
           history, broker
  <2> QED
    BY <2>1, <2>2 DEF OutputsGenuine
<1>5. ASSUME NEW m \in Masters, NEW t \in Tasks, WaitLookup(m, t)
      PROVE  OutputsGenuine'
  <2>1. QueuesGenuine' /\ StoresGenuine'
    BY <1>5, Kept DEF WaitLookup, history, broker, waits
  <2>2. WorkGenuine'
    BY <1>5, BoardAssumption
       DEF WaitLookup, OutputsGenuine, WorkGenuine, TypeOK, Agents, history
  <2>3. AnswersGenuine'
    <3>1. CASE /\ db[OutputTopic(t)] # None /\ UNCHANGED <<job, holder>>
               /\ results' = [results EXCEPT ![m][t] = db[OutputTopic(t)]]
      <4>1. <<t, db[OutputTopic(t)]>> \in produced
        BY <3>1, StoredOutput
      <4> QED
        BY <1>5, <3>1, <4>1, ZenonT(40)
           DEF WaitLookup, OutputsGenuine, AnswersGenuine, TypeOK, history
    <3>2. CASE /\ job' = [job EXCEPT ![m] = t] /\ UNCHANGED results
               /\ holder' = [holder EXCEPT ![m] = None]
      BY <1>5, <3>2
         DEF WaitLookup, OutputsGenuine, AnswersGenuine, TypeOK, Agents, history
    <3> QED
      BY <1>5, <3>1, <3>2 DEF WaitLookup
  <2> QED
    BY <2>1, <2>2, <2>3 DEF OutputsGenuine
<1>6. ASSUME NEW m \in Masters, WaitSubscribe(m)
      PROVE  OutputsGenuine'
  <2>1. StoresGenuine' /\ WorkGenuine' /\ AnswersGenuine'
    BY <1>6, Kept DEF WaitSubscribe, history, broker, waits
  <2>2. QueuesGenuine'
    <3>1. job[m] \in Tasks
      BY <1>6 DEF WaitSubscribe, Agents, TypeOK
    <3>2. SubscribePacket({OutputTopic(job[m])}) \in GenuinePackets
      BY <3>1, GenuineType DEF Filters
    <3> QED
      BY <1>6, <3>2, Kept
         DEF WaitSubscribe, OutputsGenuine, QueuesGenuine, history, broker
  <2> QED
    BY <2>1, <2>2 DEF OutputsGenuine
<1>7. ASSUME NEW m \in Masters, WaitRecover(m)
      PROVE  OutputsGenuine'
  <2>1. QueuesGenuine' /\ StoresGenuine' /\ WorkGenuine'
    BY <1>7, Kept DEF WaitRecover, history, broker, waits
  <2>2. AnswersGenuine'
    BY <1>7, RecoverGenuine DEF WaitRecover, TypeOK, Agents, history
  <2> QED
    BY <2>1, <2>2 DEF OutputsGenuine
<1>8. ASSUME NEW m \in Masters, WaitReturn(m)
      PROVE  OutputsGenuine'
  <2>1. QueuesGenuine' /\ StoresGenuine'
    BY <1>8, Kept DEF WaitReturn, history, broker, waits
  <2>2. WorkGenuine'
    BY <1>8, BoardAssumption
       DEF WaitReturn, OutputsGenuine, WorkGenuine, TypeOK, Agents, history
  <2>3. AnswersGenuine'
    BY <1>8, BoardAssumption
       DEF WaitReturn, OutputsGenuine, AnswersGenuine, TypeOK, Agents,
           history, waits
  <2> QED
    BY <2>1, <2>2, <2>3 DEF OutputsGenuine
<1>9. ASSUME NEW m \in Masters, WaitTimeout(m)
      PROVE  OutputsGenuine'
  <2>1. QueuesGenuine' /\ StoresGenuine'
    BY <1>9, Kept DEF WaitTimeout, history, broker, waits
  <2>2. WorkGenuine'
    BY <1>9, BoardAssumption
       DEF WaitTimeout, OutputsGenuine, WorkGenuine, TypeOK, Agents, history
  <2>3. AnswersGenuine'
    BY <1>9, BoardAssumption
       DEF WaitTimeout, OutputsGenuine, AnswersGenuine, TypeOK, Agents,
           history, waits
  <2> QED
    BY <2>1, <2>2, <2>3 DEF OutputsGenuine
<1>10. ASSUME NEW m \in Masters, OnOutput(m)
      PROVE  OutputsGenuine'
  <2>1. StoresGenuine' /\ WorkGenuine'
    BY <1>10, Kept DEF OnOutput, history, broker, waits
  <2>2. QueuesGenuine'
    BY <1>10, Kept DEF OnOutput, OutputsGenuine, QueuesGenuine, history, broker
  <2>3. AnswersGenuine'
    <3> DEFINE msg == Head(inbox[m])
    <3>1. msg \in MessagesAbout(posted, produced)
      BY <1>10
         DEF OnOutput, OutputsGenuine, QueuesGenuine, GenuineMessages, Agents
    <3>2. holder' = IF Waiting(m) /\ msg.topic = OutputTopic(job[m])
                    THEN [holder EXCEPT ![m] = msg.value] ELSE holder
      BY <1>10 DEF OnOutput
    <3> HIDE DEF msg
    <3>3. msg.topic = OutputTopic(job[m]) => <<job[m], msg.value>> \in produced
      <4> SUFFICES ASSUME msg.topic = OutputTopic(job[m])
                   PROVE  <<job[m], msg.value>> \in produced
        OBVIOUS
      <4>1. msg.topic[1] = job[m] /\ msg.topic[2] = "output"
        BY DEF OutputTopic
      <4>2. <<msg.topic[1], msg.value>> \in produced
        BY <3>1, <4>1, MessagesAboutType
      <4> QED
        BY <4>1, <4>2
    <3> QED
      BY <1>10, <3>2, <3>3
         DEF OnOutput, OutputsGenuine, AnswersGenuine, TypeOK, history
  <2> QED
    BY <2>1, <2>2, <2>3 DEF OutputsGenuine
<1>11. ASSUME NEW m \in Masters, RestartMaster(m)
      PROVE  OutputsGenuine'
  BY <1>11, Kept DEF RestartMaster, OutputsGenuine, history, broker, waits
<1>12. ASSUME NEW w \in Workers, Start(w)
      PROVE  OutputsGenuine'
  <2>1. StoresGenuine' /\ WorkGenuine' /\ AnswersGenuine'
    BY <1>12, Kept DEF Start, history, broker, waits
  <2>2. QueuesGenuine'
    BY <1>12, Kept, GenuineType
       DEF Start, Filters, OutputsGenuine, QueuesGenuine, history, broker
  <2> QED
    BY <2>1, <2>2 DEF OutputsGenuine
<1>13. ASSUME NEW w \in Workers, OnNewTask(w)
      PROVE  OutputsGenuine'
  <2> DEFINE topic == Head(inbox[w]).topic
  <2>1. StoresGenuine'
    BY <1>13, Kept DEF OnNewTask, history, broker, waits
  <2>2. QueuesGenuine'
    <3>1. inbox' \in [Agents -> Seq(GenuineMessages')]
      BY <1>13, Kept DEF OnNewTask, Agents, history
    <3>2. outbox' \in [Agents -> Seq(GenuineMessages')]
      <4>1. CASE UNCHANGED outbox
        BY <4>1, <1>13, Kept DEF OnNewTask, history
      <4>2. CASE /\ Accepts(w, topic[1])
                 /\ outbox' = [outbox EXCEPT ![w] = ClaimMessages(w, topic[1])]
        <5>1. topic[1] \in Tasks
          BY <4>2, BoardAssumption DEF Accepts
        <5>2. ClaimMessages(w, topic[1]) \in Seq(GenuineMessages')
          BY <5>1, PublishedGenuine DEF GenuineMessages
        <5> HIDE DEF topic
        <5> QED
          BY <4>2, <5>2, <1>13, Kept DEF OnNewTask, history
      <4> QED
        BY <1>13, <4>1, <4>2 DEF OnNewTask
    <3> QED
      BY <1>13, <3>1, <3>2, Kept DEF OnNewTask, QueuesGenuine, history
  <2>3. WorkGenuine'
    <3>1. Head(inbox[w]) \in MessagesAbout(posted, produced)
      BY <1>13
         DEF OnNewTask, OutputsGenuine, QueuesGenuine, GenuineMessages, Agents
    <3>2. topic[2] = "input" => topic[1] \in posted
      BY <3>1, MessagesAboutType
    <3>3. CASE UNCHANGED job
      BY <1>13, <3>3 DEF OnNewTask, OutputsGenuine, WorkGenuine, history
    <3>4. CASE /\ topic \in InputTopics /\ Accepts(w, topic[1])
               /\ job' = [job EXCEPT ![w] = topic[1]]
      <4>1. topic[1] \in posted /\ <<w, topic[1]>> \in Capable
        BY <3>2, <3>4 DEF InputTopics, Accepts
      <4> HIDE DEF topic
      <4> QED
        BY <1>13, <3>4, <4>1
           DEF OnNewTask, OutputsGenuine, WorkGenuine, TypeOK, Agents, history
    <3> QED
      BY <1>13, <3>3, <3>4 DEF OnNewTask
  <2>4. AnswersGenuine'
    BY <1>13, BoardAssumption, SMTT(30)
       DEF OnNewTask, OutputsGenuine, AnswersGenuine, TypeOK, Agents, history,
           waits
  <2> QED
    BY <2>1, <2>2, <2>3, <2>4 DEF OutputsGenuine
<1>14. ASSUME NEW w \in Workers, HandlerCompletes(w)
      PROVE  OutputsGenuine'
  <2>1. job[w] \in Tasks
    BY <1>14 DEF HandlerCompletes, Agents, TypeOK
  <2>2. PICK o \in Outputs, next \in {"returning", "completing"} :
           o.agent = w /\ Complete(w, o, next)
    BY <1>14 DEF HandlerCompletes, OutputOf, Outputs
  <2> QED
    BY <2>1, <2>2, CompleteGenuine
<1>15. ASSUME NEW w \in Workers, HandlerReturns(w)
      PROVE  OutputsGenuine'
  <2>1. job[w] \in Tasks
    BY <1>15 DEF HandlerReturns, Agents, TypeOK
  <2>2. PICK o \in Outputs, next \in {"returning", "completing"} :
           o.agent = w /\ Complete(w, o, next)
    BY <1>15 DEF HandlerReturns, OutputOf, Outputs
  <2> QED
    BY <2>1, <2>2, CompleteGenuine
<1>16. ASSUME NEW w \in Workers, RunnerReturns(w)
      PROVE  OutputsGenuine'
  <2>1. job[w] \in Tasks
    BY <1>16 DEF RunnerReturns, Agents, TypeOK
  <2>2. PICK o \in Outputs, next \in {"returning", "completing"} :
           o.agent = w /\ Complete(w, o, next)
    BY <1>16 DEF RunnerReturns, OutputOf, Outputs
  <2> QED
    BY <2>1, <2>2, CompleteGenuine
<1>17. ASSUME NEW w \in Workers, Finish(w)
      PROVE  OutputsGenuine'
  <2>1. QueuesGenuine' /\ StoresGenuine'
    BY <1>17, Kept DEF Finish, history, broker, waits
  <2>2. WorkGenuine'
    BY <1>17, BoardAssumption
       DEF Finish, OutputsGenuine, WorkGenuine, TypeOK, Agents, history
  <2>3. AnswersGenuine'
    BY <1>17, BoardAssumption
       DEF Finish, OutputsGenuine, AnswersGenuine, TypeOK, Agents, history,
           waits
  <2> QED
    BY <2>1, <2>2, <2>3 DEF OutputsGenuine
<1>18. ASSUME NEW w \in Workers, Stop(w)
      PROVE  OutputsGenuine'
  <2>1. StoresGenuine' /\ WorkGenuine' /\ AnswersGenuine'
    BY <1>18, Kept DEF Stop, history, broker, waits
  <2>2. QueuesGenuine'
    BY <1>18, Kept, GenuineType
       DEF Stop, OutputsGenuine, QueuesGenuine, history, broker
  <2> QED
    BY <2>1, <2>2 DEF OutputsGenuine
<1>19. ASSUME NEW w \in Workers, ExitStopped(w)
      PROVE  OutputsGenuine'
  <2>1. StoresGenuine'
    BY <1>19, Kept DEF ExitStopped, history, broker, waits
  <2>2. QueuesGenuine'
    BY <1>19, ExitGenuine DEF Agents, ExitStopped, history
  <2>3. WorkGenuine'
    BY <1>19, ExitGenuine DEF Agents, ExitStopped, history
  <2>4. AnswersGenuine'
    BY <1>19, ExitGenuine DEF Agents, ExitStopped, history
  <2> QED
    BY <2>1, <2>2, <2>3, <2>4 DEF OutputsGenuine
<1>20. ASSUME NEW a \in Agents, BrokerPublish(a)
      PROVE  OutputsGenuine'
  <2>1. WorkGenuine' /\ AnswersGenuine'
    BY <1>20, Kept DEF BrokerPublish, history, broker, waits
  <2>2. QueuesGenuine'
    BY <1>20, Kept, GenuineType
       DEF BrokerPublish, OutputsGenuine, QueuesGenuine, history, broker
  <2>3. StoresGenuine'
    BY <1>20, Kept, GenuineType, StoreType
       DEF BrokerPublish, OutputsGenuine, QueuesGenuine, StoresGenuine,
           TypeOK, history
  <2> QED
    BY <2>1, <2>2, <2>3 DEF OutputsGenuine
<1>21. ASSUME NEW a \in Agents, BrokerSubscribe(a)
      PROVE  OutputsGenuine'
  <2>1. StoresGenuine' /\ WorkGenuine' /\ AnswersGenuine'
    BY <1>21, Kept DEF BrokerSubscribe, history, broker, waits
  <2>2. QueuesGenuine'
    <3> DEFINE filter == Head(netq[a]).filter
               routed == {s \in filter : Routed(s)}
    <3>1. filter \in Filters /\ filter \subseteq Topics
      BY <1>21, PacketType DEF BrokerSubscribe, TypeOK
    <3>2. PICK msgs \in Orderings(RetainedOn(routed)) :
             inbox' = [inbox EXCEPT ![a] = inbox[a] \o msgs]
      BY <1>21 DEF BrokerSubscribe
    <3>3. /\ msgs \in Seq(Messages)
          /\ \A i \in DOMAIN msgs : /\ retained[msgs[i].topic] # None
                                  /\ msgs[i].value = retained[msgs[i].topic]
      BY <3>1, <3>2, RetainedType
    <3>4. \A i \in DOMAIN msgs : msgs[i] \in GenuineMessages
      <4> SUFFICES ASSUME NEW i \in DOMAIN msgs
                   PROVE  msgs[i] \in GenuineMessages
        OBVIOUS
      <4>1. msgs[i] \in Messages /\ msgs[i].topic \in Topics
        BY <3>3, MessageType
      <4>2. Message(msgs[i].topic, msgs[i].value) \in GenuineMessages
        BY <3>3, <4>1 DEF OutputsGenuine, StoresGenuine
      <4>3. msgs[i] = Message(msgs[i].topic, msgs[i].value)
        BY <4>1 DEF Messages, Message
      <4> QED
        BY <4>2, <4>3
    <3>5. msgs \in Seq(GenuineMessages)
      BY <3>3, <3>4
    <3>6. inbox' \in [Agents -> Seq(GenuineMessages)]
      BY <3>2, <3>5 DEF OutputsGenuine, QueuesGenuine
    <3>7. netq' \in [Agents -> Seq(GenuinePackets)]
      BY <1>21 DEF BrokerSubscribe, OutputsGenuine, QueuesGenuine
    <3> QED
      BY <1>21, <3>6, <3>7, Kept
         DEF BrokerSubscribe, OutputsGenuine, QueuesGenuine, history
  <2> QED
    BY <2>1, <2>2 DEF OutputsGenuine
<1>22. ASSUME NEW a \in Agents, BrokerDisconnect(a)
      PROVE  OutputsGenuine'
  <2>1. StoresGenuine' /\ WorkGenuine' /\ AnswersGenuine'
    BY <1>22, Kept DEF BrokerDisconnect, EndSession, history, broker, waits
  <2>2. QueuesGenuine'
    BY <1>22, Kept
       DEF BrokerDisconnect, EndSession, OutputsGenuine, QueuesGenuine,
           history, broker
  <2> QED
    BY <2>1, <2>2 DEF OutputsGenuine
<1>23. ASSUME NEW a \in Agents, LinkLost(a)
      PROVE  OutputsGenuine'
  <2>1. StoresGenuine' /\ WorkGenuine' /\ AnswersGenuine'
    BY <1>23, Kept DEF LinkLost, EndSession, history, broker, waits
  <2>2. QueuesGenuine'
    BY <1>23, Kept, ResentGenuine
       DEF LinkLost, EndSession, OutputsGenuine, QueuesGenuine, history, broker
  <2> QED
    BY <2>1, <2>2 DEF OutputsGenuine
<1>24. ASSUME NEW a \in Agents, Reconnect(a)
      PROVE  OutputsGenuine'
  <2>1. QueuesGenuine' /\ StoresGenuine' /\ WorkGenuine'
    BY <1>24, Kept DEF Reconnect, history, broker, waits
  <2>2. AnswersGenuine'
    BY <1>24, Kept, RecoverGenuine
       DEF Reconnect, Waiting, TypeOK, Agents, history
  <2> QED
    BY <2>1, <2>2 DEF OutputsGenuine
<1>25. ASSUME NEW a \in Agents, Crash(a)
      PROVE  OutputsGenuine'
  <2>1. StoresGenuine'
    BY <1>25, Kept DEF Crash, history, broker, waits
  <2>2. QueuesGenuine'
    BY <1>25, ExitGenuine DEF Crash, history
  <2>3. WorkGenuine'
    BY <1>25, ExitGenuine DEF Crash, history
  <2>4. AnswersGenuine'
    BY <1>25, ExitGenuine DEF Crash, history
  <2> QED
    BY <2>1, <2>2, <2>3, <2>4 DEF OutputsGenuine
<1> QED
  BY <1>1, <1>2, <1>3, <1>4, <1>5, <1>6, <1>7, <1>8, <1>9, <1>10, <1>11,
     <1>12, <1>13, <1>14, <1>15, <1>16, <1>17, <1>18, <1>19, <1>20, <1>21,
     <1>22, <1>23, <1>24, <1>25
     DEF Next, MasterStep, WorkerStep, BrokerStep

\* Whatever output is found anywhere was produced by a capable worker for a
\* task somebody posted, for any number of agents, tasks and faults.
THEOREM OutputsAreGenuine == Spec => []OutputsGenuine
<1>1. TypeOK /\ OutputsGenuine /\ [Next]_vars => (TypeOK /\ OutputsGenuine)'
  BY TypeStep, GenuineStep
<1> QED
  BY TypeInit, GenuineInit, <1>1, PTL DEF Spec

-----------------------------------------------------------------------------
(* The board implements the service.                                       *)

\* A step that posts, produces and answers nothing.
Silent == UNCHANGED <<posted, produced, results>>

\* Every step of the board is a step of the service or does not show in it.
LEMMA ServiceStep ==
    TypeOK /\ OutputsGenuine /\ [Next]_vars
       => [Service!ServiceNext]_(Service!svars)
<1> SUFFICES ASSUME TypeOK, OutputsGenuine, [Next]_vars
             PROVE  Silent \/ Service!ServiceNext
  BY DEF Silent, Service!svars
<1>1. CASE UNCHANGED vars
  BY <1>1 DEF Silent, vars
<1>2. ASSUME NEW m \in Masters, NEW t \in Tasks, PostTask(m, t)
      PROVE  Service!Post(t)
  BY <1>2 DEF PostTask, waits, Service!Post
<1>3. ASSUME NEW m \in Masters, NEW t \in Tasks, WaitLookup(m, t)
      PROVE  Silent \/ \E o \in Outputs : Service!Answer(m, t, o)
  <2>1. CASE /\ db[OutputTopic(t)] # None
             /\ results' = [results EXCEPT ![m][t] = db[OutputTopic(t)]]
    <3>1. <<t, db[OutputTopic(t)]>> \in produced
      BY <2>1, StoredOutput
    <3>2. db[OutputTopic(t)] \in Outputs
      BY <3>1 DEF TypeOK
    <3> QED
      BY <1>3, <2>1, <3>1, <3>2 DEF WaitLookup, Service!Answer, history
  <2> QED
    BY <1>3, <2>1 DEF WaitLookup, Silent, history
<1>4. ASSUME NEW m \in Masters, WaitReturn(m)
      PROVE  \E t \in Tasks, o \in Outputs : Service!Answer(m, t, o)
  <2>1. job[m] \in Tasks /\ job[m] # None
    BY <1>4 DEF WaitReturn, TypeOK, Agents
  <2>2. <<job[m], holder[m]>> \in produced /\ holder[m] \in Outputs
    BY <1>4, <2>1 DEF WaitReturn, OutputsGenuine, AnswersGenuine, TypeOK
  <2>3. Service!Answer(m, job[m], holder[m])
    BY <1>4, <2>2 DEF WaitReturn, Service!Answer, history
  <2> QED
    BY <2>1, <2>2, <2>3
<1>5. ASSUME NEW w \in Workers,
             HandlerCompletes(w) \/ HandlerReturns(w) \/ RunnerReturns(w)
      PROVE  \E t \in Tasks, o \in Outputs : Service!Produce(t, o)
  <2>1. job[w] \in Tasks /\ job[w] # None
    BY <1>5 DEF HandlerCompletes, HandlerReturns, RunnerReturns, TypeOK, Agents
  <2>2. job[w] \in posted /\ <<w, job[w]>> \in Capable
    BY <2>1 DEF OutputsGenuine, WorkGenuine
  <2>3. PICK o \in Outputs, next \in {"returning", "completing"} :
           o.agent = w /\ Complete(w, o, next)
    BY <1>5
       DEF HandlerCompletes, HandlerReturns, RunnerReturns, OutputOf, Outputs
  <2>4. Service!Produce(job[w], o)
    BY <2>2, <2>3 DEF Complete, Service!Produce, waits
  <2> QED
    BY <2>1, <2>4
<1>6. ASSUME NEW a \in Agents, Exit(a), UNCHANGED <<posted, produced>>
      PROVE  Silent \/ \E m \in Masters : Service!Forget(m)
  BY <1>6 DEF Exit, Silent, waits, Service!Forget
<1>7. ASSUME NEW m \in Masters, NEW t \in Tasks, CancelTask(m, t)
      PROVE  Silent
  BY <1>7 DEF CancelTask, Silent, history, waits
<1>8. ASSUME NEW m \in Masters,
             \/ WaitSubscribe(m) \/ WaitRecover(m)
             \/ WaitTimeout(m) \/ OnOutput(m) \/ RestartMaster(m)
      PROVE  Silent
  BY <1>8 DEF WaitSubscribe, WaitRecover, WaitTimeout, OnOutput,
              RestartMaster, Silent, history, waits
<1>9. ASSUME NEW w \in Workers,
             Start(w) \/ OnNewTask(w) \/ Finish(w) \/ Stop(w)
      PROVE  Silent
  BY <1>9 DEF Start, OnNewTask, Finish, Stop, Silent, history, waits
<1>10. ASSUME NEW a \in Agents,
              Publish(a) \/ BrokerStep(a) \/ LinkLost(a) \/ Reconnect(a)
       PROVE  Silent
  BY <1>10 DEF Publish, BrokerStep, BrokerPublish, BrokerSubscribe,
               BrokerDisconnect, LinkLost, Reconnect, Recover, Silent,
               history, waits
<1>11. ASSUME NEW m \in Masters, MasterStep(m)
       PROVE  Silent \/ Service!ServiceNext
  BY <1>2, <1>3, <1>4, <1>7, <1>8, <1>11
     DEF MasterStep, Service!ServiceNext, Service!Outputs, Outputs
<1>12. ASSUME NEW w \in Workers, WorkerStep(w)
       PROVE  Silent \/ Service!ServiceNext
  BY <1>5, <1>6, <1>9, <1>12
     DEF WorkerStep, ExitStopped, history, Agents, Service!ServiceNext,
         Service!Outputs, Outputs
<1>13. ASSUME NEW a \in Agents, Crash(a)
       PROVE  Silent \/ Service!ServiceNext
  BY <1>6, <1>13 DEF Crash, history, Service!ServiceNext
<1> QED
  BY <1>1, <1>10, <1>11, <1>12, <1>13 DEF Next

\* The task board implements the at-least-once service of TaskService, for any
\* number of agents, tasks and faults.
THEOREM BoardImplementsService == Spec => ServiceSpec
<1>1. Init => Service!ServiceInit
  BY DEF Init, Service!ServiceInit
<1> QED
  BY <1>1, ServiceStep, TypeCorrect, OutputsAreGenuine, PTL
     DEF Spec, ServiceSpec, Service!ServiceSpec
-----------------------------------------------------------------------------
(* Outputs are not retracted, overtaken or missed.                         *)

\* The message says that the task has ended.
Ends(msg, t) ==
    \/ msg.topic = <<t, "status">> /\ msg.value \in {"done", "failed"}
    \/ msg.topic = <<t, "signal">> /\ msg.value = "[ROUND_END]"

Sends(packet, t) == packet.type = "publish" /\ packet.msg.topic = OutputTopic(t)

\* Among the calls a method still makes, the output goes before the end.
Leads(calls, t) ==
    \A i \in DOMAIN calls : Ends(calls[i], t)
       => \E j \in DOMAIN calls : j < i /\ calls[j].topic = OutputTopic(t)

\* Among the packets of a connection, the same.
SentIn(queue, t) == \E i \in DOMAIN queue : Sends(queue[i], t)
PacketsLead(queue, t) ==
    \A i \in DOMAIN queue :
       queue[i].type = "publish" /\ Ends(queue[i].msg, t)
          => \E j \in DOMAIN queue : j < i /\ Sends(queue[j], t)

\* An agent that neither is connected nor will be sends nothing any more.
Connects(a) == link[a] \/ a \in running

\* The output is stored already, or its agent stores it before the end; the
\* broker has it, or gets it before the end.
AgentLeads(a) ==
    \A t \in Tasks :
       /\ spent["db"] = 0 /\ db[OutputTopic(t)] = None => Leads(outbox[a], t)
       /\ spent["drop"] = 0 /\ retained[OutputTopic(t)] = None /\ Connects(a)
             => /\ SentIn(netq[a], t) \/ Leads(outbox[a], t)
                /\ PacketsLead(netq[a], t)

OutputsLead == \A a \in Agents : AgentLeads(a)

\* A process that is down left nothing behind, and only a stopped one has said
\* goodbye.
DownIsClean ==
    \A a \in Agents :
       /\ proc[a] = "down"
             => outbox[a] = <<>> /\ netq[a] = <<>> /\ a \notin running
       /\ a \in running
             => \A i \in DOMAIN netq[a] : netq[a][i].type # "disconnect"

\* What complete() publishes is not None.
LEMMA OutputType ==
    \A t \in Tasks :
       /\ OutputTopic(t) \in Topics
       /\ \A msg \in Messages : msg.topic = OutputTopic(t) => msg.value # None
       /\ \A msg \in Messages : msg.topic = OutputTopic(t) => ~Ends(msg, t)
<1> SUFFICES ASSUME NEW t \in Tasks
             PROVE  /\ OutputTopic(t) \in Topics
                    /\ \A msg \in Messages : msg.topic = OutputTopic(t)
                          => msg.value # None /\ ~Ends(msg, t)
  OBVIOUS
<1>1. OutputTopic(t) \in Topics /\ OutputTopic(t)[2] = "output"
  BY TopicType DEF OutputTopic
<1>2. None \notin Values["output"]
  BY TopicType, BoardAssumption DEF Outputs
<1>3. \A msg \in Messages : msg.value \in Values[msg.topic[2]]
  BY MessageType
<1>4. \A msg \in Messages : msg.topic = OutputTopic(t) => ~Ends(msg, t)
  BY DEF Ends, OutputTopic
<1> QED
  BY <1>1, <1>2, <1>3, <1>4

\* Only publish() and the broker store.
LEMMA StoresChange ==
    ASSUME [Next]_vars
    PROVE  \/ db' = db /\ retained' = retained
           \/ \E a \in Agents : Publish(a) \/ BrokerPublish(a)
<1>1. ASSUME NEW m \in Masters, MasterStep(m)
      PROVE  db' = db /\ retained' = retained
  BY <1>1 DEF MasterStep, PostTask, CancelTask, WaitLookup, WaitSubscribe,
              WaitRecover, WaitReturn, WaitTimeout, OnOutput, RestartMaster, broker
<1>2. ASSUME NEW w \in Workers, WorkerStep(w)
      PROVE  db' = db /\ retained' = retained
  BY <1>2 DEF WorkerStep, Start, OnNewTask, HandlerCompletes, HandlerReturns,
              RunnerReturns, Complete, Finish, Stop, ExitStopped, broker
<1>3. ASSUME NEW a \in Agents,
             BrokerSubscribe(a) \/ BrokerDisconnect(a) \/ LinkLost(a)
             \/ Reconnect(a) \/ Crash(a)
      PROVE  db' = db /\ retained' = retained
  BY <1>3 DEF BrokerSubscribe, BrokerDisconnect, LinkLost, Reconnect, Crash, broker
<1>4. UNCHANGED vars => db' = db /\ retained' = retained
  BY DEF vars
<1> QED
  BY <1>1, <1>2, <1>3, <1>4 DEF Next, BrokerStep

\* What they store under the topic of an output is one.
LEMMA OutputsStay ==
    ASSUME TypeOK, [Next]_vars, NEW t \in Tasks
    PROVE  /\ db[OutputTopic(t)] # None => db'[OutputTopic(t)] # None
           /\ retained[OutputTopic(t)] # None => retained'[OutputTopic(t)] # None
<1> DEFINE s == OutputTopic(t)
<1>1. s \in Topics /\ \A msg \in Messages : msg.topic = s => msg.value # None
  BY OutputType
<1> HIDE DEF s
<1>2. ASSUME NEW a \in Agents, Publish(a)
      PROVE  retained' = retained /\ (db[s] # None => db'[s] # None)
  <2>1. Head(outbox[a]) \in Messages
    BY <1>2 DEF Publish, TypeOK
  <2>2. \/ db' = db
        \/ db' = [db EXCEPT ![Head(outbox[a]).topic] = Head(outbox[a]).value]
    BY <1>2 DEF Publish
  <2>3. retained' = retained
    BY <1>2 DEF Publish, broker
  <2> QED
    BY <1>1, <2>1, <2>2, <2>3 DEF TypeOK
<1>3. ASSUME NEW a \in Agents, BrokerPublish(a)
      PROVE  db' = db /\ (retained[s] # None => retained'[s] # None)
  <2>1. Head(netq[a]).msg \in Messages
    BY <1>3, PacketType DEF BrokerPublish, TypeOK
  <2>2. /\ retained' = [retained EXCEPT ![Head(netq[a]).msg.topic] =
                                            Head(netq[a]).msg.value]
        /\ db' = db
    BY <1>3 DEF BrokerPublish
  <2> QED
    BY <1>1, <2>1, <2>2 DEF TypeOK
<1> QED
  BY <1>2, <1>3, StoresChange DEF s

\* Faults are counted up only.
LEMMA FaultsStay ==
    ASSUME TypeOK, [Next]_vars
    PROVE  \A k \in {"db", "drop"} : spent'[k] = 0 => spent[k] = 0
<1>1. ASSUME NEW kinds, Uses(kinds)
      PROVE  \A k \in {"db", "drop"} : spent'[k] = 0 => spent[k] = 0
  <2>1. ASSUME NEW k \in BudgetKinds, spent'[k] = 0 PROVE spent[k] = 0
    <3>1. spent'[k] = spent[k] + 1 \/ spent'[k] = spent[k]
      BY <1>1 DEF Uses
    <3>2. spent[k] \in Nat
      BY DEF TypeOK
    <3> QED
      BY <2>1, <3>1, <3>2
  <2> QED
    BY <2>1 DEF BudgetKinds
<1>2. ASSUME NEW m \in Masters, MasterStep(m)
      PROVE  spent' = spent \/ \E kinds : Uses(kinds)
  <2>1. ASSUME NEW t \in Tasks, PostTask(m, t) \/ CancelTask(m, t) \/ WaitLookup(m, t)
        PROVE  spent' = spent \/ \E kinds : Uses(kinds)
    BY <2>1 DEF PostTask, CancelTask, WaitLookup
  <2>2. CASE WaitSubscribe(m) \/ WaitReturn(m) \/ WaitTimeout(m) \/ OnOutput(m)
             \/ RestartMaster(m)
    BY <2>2 DEF WaitSubscribe, WaitReturn, WaitTimeout, OnOutput, RestartMaster
  <2>3. CASE WaitRecover(m)
    BY <2>3 DEF WaitRecover, Recover
  <2> QED
    BY <1>2, <2>1, <2>2, <2>3 DEF MasterStep
<1>3. ASSUME NEW w \in Workers, WorkerStep(w)
      PROVE  spent' = spent \/ \E kinds : Uses(kinds)
  <2>1. CASE Start(w) \/ OnNewTask(w) \/ Finish(w) \/ Stop(w) \/ ExitStopped(w)
    BY <2>1 DEF Start, OnNewTask, Finish, Stop, ExitStopped
  <2>2. CASE HandlerCompletes(w) \/ HandlerReturns(w) \/ RunnerReturns(w)
    BY <2>2 DEF HandlerCompletes, HandlerReturns, RunnerReturns, Complete
  <2> QED
    BY <1>3, <2>1, <2>2 DEF WorkerStep
<1>4. ASSUME NEW a \in Agents,
             Publish(a) \/ BrokerStep(a) \/ LinkLost(a) \/ Reconnect(a) \/ Crash(a)
      PROVE  spent' = spent \/ \E kinds : Uses(kinds)
  <2>1. CASE Publish(a)
    BY <2>1 DEF Publish
  <2>2. CASE BrokerStep(a)
    BY <2>2 DEF BrokerStep, BrokerPublish, BrokerSubscribe, BrokerDisconnect
  <2>3. CASE Reconnect(a)
    BY <2>3 DEF Reconnect, Recover
  <2>4. CASE LinkLost(a) \/ Crash(a)
    BY <2>4 DEF LinkLost, Crash
  <2> QED
    BY <1>4, <2>1, <2>2, <2>3, <2>4
<1>5. UNCHANGED vars => spent' = spent
  BY DEF vars
<1>6. spent' = spent \/ \E kinds : Uses(kinds)
  BY <1>2, <1>3, <1>4, <1>5 DEF Next
<1> QED
  BY <1>1, <1>6

\* No step takes an output away, whether it executes, cancels, crashes or
\* restarts (publish of persistence.py; complete() does not clear its output).
THEOREM OutputsAreNeverRetracted == Spec => OutputNeverRetracted
<1>1. TypeOK /\ [Next]_vars =>
        \A t \in Tasks :
          /\ db[OutputTopic(t)] # None => db'[OutputTopic(t)] # None
          /\ retained[OutputTopic(t)] # None
                => retained'[OutputTopic(t)] # None
  BY OutputsStay
<1> QED
  BY <1>1, TypeCorrect, PTL DEF Spec, OutputNeverRetracted

-----------------------------------------------------------------------------
(* Queues in which the output goes first.                                  *)

\* The first of the calls is made.
LEMMA LeadsTail ==
    ASSUME NEW calls \in Seq(Messages), calls # <<>>, NEW t \in Tasks,
           Leads(calls, t)
    PROVE  /\ ~Ends(Head(calls), t)
           /\ Head(calls).topic # OutputTopic(t) => Leads(Tail(calls), t)
<1>1. Len(calls) \in Nat /\ Len(calls) > 0 /\ DOMAIN calls = 1..Len(calls)
  BY EmptySeq, LenProperties
<1>2. /\ Tail(calls) \in Seq(Messages) /\ Head(calls) = calls[1]
      /\ Len(Tail(calls)) = Len(calls) - 1
      /\ DOMAIN Tail(calls) = 1..(Len(calls) - 1)
      /\ \A i \in 1..(Len(calls) - 1) : Tail(calls)[i] = calls[i + 1]
  BY HeadTailProperties, LenProperties
<1>3. ~Ends(Head(calls), t)
  BY <1>1, <1>2 DEF Leads
<1>4. ASSUME Head(calls).topic # OutputTopic(t),
             NEW i \in DOMAIN Tail(calls), Ends(Tail(calls)[i], t)
      PROVE  \E j \in DOMAIN Tail(calls) :
                j < i /\ Tail(calls)[j].topic = OutputTopic(t)
  <2>1. i + 1 \in DOMAIN calls /\ Ends(calls[i + 1], t) /\ i \in Nat
    BY <1>1, <1>2, <1>4
  <2>2. PICK j \in DOMAIN calls : j < i + 1 /\ calls[j].topic = OutputTopic(t)
    BY <2>1 DEF Leads
  <2>3. j # 1 /\ j \in Nat /\ j - 1 \in DOMAIN Tail(calls) /\ j - 1 < i
        /\ calls[(j - 1) + 1] = calls[j]
    BY <1>1, <1>2, <1>4, <2>1, <2>2
  <2>4. Tail(calls)[j - 1] = calls[j]
    BY <1>2, <2>3
  <2> QED
    BY <2>2, <2>3, <2>4
<1> QED
  BY <1>3, <1>4 DEF Leads

\* The broker takes the first packet.
LEMMA PacketsTail ==
    ASSUME NEW queue \in Seq(Packets), queue # <<>>, NEW t \in Tasks,
           ~Sends(Head(queue), t)
    PROVE  /\ SentIn(queue, t) => SentIn(Tail(queue), t)
           /\ PacketsLead(queue, t) => PacketsLead(Tail(queue), t)
<1>1. Len(queue) \in Nat /\ Len(queue) > 0 /\ DOMAIN queue = 1..Len(queue)
  BY EmptySeq, LenProperties
<1>2. /\ Tail(queue) \in Seq(Packets) /\ Head(queue) = queue[1]
      /\ Len(Tail(queue)) = Len(queue) - 1
      /\ DOMAIN Tail(queue) = 1..(Len(queue) - 1)
      /\ \A i \in 1..(Len(queue) - 1) : Tail(queue)[i] = queue[i + 1]
  BY HeadTailProperties, LenProperties
<1>3. ASSUME NEW j \in DOMAIN queue, Sends(queue[j], t)
      PROVE  /\ j \in Nat /\ j - 1 \in DOMAIN Tail(queue)
             /\ Sends(Tail(queue)[j - 1], t)
  <2>1. j # 1 /\ j \in Nat /\ j - 1 \in 1..(Len(queue) - 1)
        /\ queue[(j - 1) + 1] = queue[j]
    BY <1>1, <1>2, <1>3
  <2>2. Tail(queue)[j - 1] = queue[j]
    BY <1>2, <2>1
  <2> QED
    BY <1>2, <1>3, <2>1, <2>2
<1>4. ASSUME PacketsLead(queue, t), NEW i \in DOMAIN Tail(queue),
             Tail(queue)[i].type = "publish", Ends(Tail(queue)[i].msg, t)
      PROVE  \E j \in DOMAIN Tail(queue) : j < i /\ Sends(Tail(queue)[j], t)
  <2>1. i + 1 \in DOMAIN queue /\ queue[i + 1] = Tail(queue)[i] /\ i \in Nat
    BY <1>1, <1>2
  <2>2. PICK j \in DOMAIN queue : j < i + 1 /\ Sends(queue[j], t)
    BY <1>4, <2>1 DEF PacketsLead
  <2>3. j \in Nat /\ j - 1 \in DOMAIN Tail(queue) /\ Sends(Tail(queue)[j - 1], t)
    BY <1>3, <2>2
  <2>4. j - 1 < i
    BY <2>1, <2>2, <2>3
  <2> QED
    BY <2>3, <2>4
<1> QED
  BY <1>3, <1>4 DEF SentIn, PacketsLead

\* The agent appends a packet.
LEMMA PacketsAppend ==
    ASSUME NEW queue \in Seq(Packets), NEW packet \in Packets, NEW t \in Tasks
    PROVE  /\ SentIn(queue, t) \/ Sends(packet, t)
                 => SentIn(Append(queue, packet), t)
           /\ /\ PacketsLead(queue, t)
              /\ packet.type = "publish" /\ Ends(packet.msg, t)
                    => SentIn(queue, t)
              => PacketsLead(Append(queue, packet), t)
<1> DEFINE n == Len(queue)
           q == Append(queue, packet)
<1>1. n \in Nat /\ DOMAIN queue = 1..n
  BY LenProperties
<1>2. /\ DOMAIN q = 1..(n + 1) /\ q[n + 1] = packet
      /\ \A i \in 1..n : q[i] = queue[i]
  BY AppendProperties, LenProperties
<1> HIDE DEF n, q
<1>3. SentIn(queue, t) \/ Sends(packet, t) => SentIn(q, t)
  <2>1. n + 1 \in DOMAIN q /\ \A i \in DOMAIN queue : i \in DOMAIN q /\ q[i] = queue[i]
    BY <1>1, <1>2
  <2> QED
    BY <1>2, <2>1 DEF SentIn
<1>4. ASSUME PacketsLead(queue, t),
             packet.type = "publish" /\ Ends(packet.msg, t) => SentIn(queue, t),
             NEW i \in DOMAIN q, q[i].type = "publish", Ends(q[i].msg, t)
      PROVE  \E j \in DOMAIN q : j < i /\ Sends(q[j], t)
  <2>1. PICK j \in DOMAIN queue : j < i /\ Sends(queue[j], t)
    <3>1. CASE i \in 1..n
      BY <1>1, <1>2, <1>4, <3>1 DEF PacketsLead
    <3>2. CASE i = n + 1
      <4>1. PICK j \in DOMAIN queue : Sends(queue[j], t)
        BY <1>2, <1>4, <3>2 DEF SentIn
      <4>2. j < i
        BY <1>1, <3>2, <4>1
      <4> QED
        BY <4>1, <4>2
    <3>3. i \in 1..n \/ i = n + 1
      BY <1>1, <1>2
    <3> QED
      BY <3>1, <3>2, <3>3
  <2>2. j \in DOMAIN q /\ q[j] = queue[j]
    BY <1>1, <1>2
  <2> QED
    BY <2>1, <2>2
<1> QED
  BY <1>3, <1>4 DEF PacketsLead, q

\* paho keeps the publications in their places.
LEMMA PacketsResent ==
    ASSUME NEW queue \in Seq(Packets), NEW t \in Tasks
    PROVE  /\ SentIn(queue, t) => SentIn(Resent(queue), t)
           /\ PacketsLead(queue, t) => PacketsLead(Resent(queue), t)
<1>1. /\ DOMAIN Resent(queue) = DOMAIN queue
      /\ \A i \in DOMAIN queue :
            \/ queue[i].type = "publish" /\ Resent(queue)[i] = queue[i]
            \/ queue[i].type # "publish" /\ Resent(queue)[i].type = "subscribe"
  BY DEF Resent, SubscribePacket
<1>2. \A i \in DOMAIN queue : Sends(queue[i], t) => Sends(Resent(queue)[i], t)
  BY <1>1 DEF Sends
<1>3. \A i \in DOMAIN queue : Resent(queue)[i].type = "publish"
                                 => Resent(queue)[i] = queue[i]
  BY <1>1
<1> QED
  BY <1>1, <1>2, <1>3 DEF SentIn, PacketsLead

\* What the methods publish at once: only complete() says that a task has
\* ended, and its output is the first.
LEMMA MethodsLead ==
    ASSUME NEW t \in Tasks, NEW u \in Tasks
    PROVE  /\ Leads(<<>>, u)
           /\ Leads(<<Message(<<t, "input">>, "task"),
                      Message(<<t, "status">>, "pending")>>, u)
           /\ Leads(<<Message(<<t, "signal">>, "[CANCEL]"),
                      Message(<<t, "status">>, "cancelled")>>, u)
           /\ \A w \in Workers : Leads(ClaimMessages(w, t), u)
           /\ \A w \in Workers, o \in Outputs : Leads(CompleteMessages(w, t, o), u)
<1>1. Leads(<<>>, u)
  BY DEF Leads
<1>2. Leads(<<Message(<<t, "input">>, "task"),
              Message(<<t, "status">>, "pending")>>, u)
  BY DEF Leads, Ends, Message
<1>3. Leads(<<Message(<<t, "signal">>, "[CANCEL]"),
              Message(<<t, "status">>, "cancelled")>>, u)
  BY DEF Leads, Ends, Message
<1>4. ASSUME NEW w \in Workers PROVE Leads(ClaimMessages(w, t), u)
  BY DEF Leads, Ends, Message, ClaimMessages
<1>5. ASSUME NEW w \in Workers, NEW o \in Outputs
      PROVE  Leads(CompleteMessages(w, t, o), u)
  BY DEF Leads, Ends, Message, CompleteMessages, OutputTopic
<1> QED
  BY <1>1, <1>2, <1>3, <1>4, <1>5

\* The packets after one was appended, sent, or kept for the next connection.
LEMMA PacketsOf ==
    ASSUME NEW queue \in Seq(Packets), NEW packet \in Packets
    PROVE  /\ \A i \in DOMAIN queue : /\ i \in DOMAIN Append(queue, packet)
                                     /\ Append(queue, packet)[i] = queue[i]
           /\ \A i \in DOMAIN Append(queue, packet) :
                 \/ i \in DOMAIN queue /\ Append(queue, packet)[i] = queue[i]
                 \/ Append(queue, packet)[i] = packet
           /\ \E i \in DOMAIN Append(queue, packet) :
                 Append(queue, packet)[i] = packet
           /\ queue # <<>> =>
                 \A i \in DOMAIN Tail(queue) :
                    \E j \in DOMAIN queue : Tail(queue)[i] = queue[j]
           /\ \A i \in DOMAIN Resent(queue) :
                 Resent(queue)[i].type \in {"publish", "subscribe"}
<1> DEFINE n == Len(queue)
           q == Append(queue, packet)
<1>1. n \in Nat /\ DOMAIN queue = 1..n
  BY LenProperties
<1>2. /\ DOMAIN q = 1..(n + 1) /\ q[n + 1] = packet
      /\ \A i \in 1..n : q[i] = queue[i]
  BY AppendProperties, LenProperties
<1>3. /\ \A i \in DOMAIN queue : i \in DOMAIN q /\ q[i] = queue[i]
      /\ \A i \in DOMAIN q : (i \in DOMAIN queue /\ q[i] = queue[i]) \/ q[i] = packet
      /\ \E i \in DOMAIN q : q[i] = packet
  <2> HIDE DEF n, q
  <2>1. n + 1 \in DOMAIN q /\ \A i \in 1..(n + 1) : i \in 1..n \/ i = n + 1
    BY <1>1, <1>2
  <2> QED
    BY <1>1, <1>2, <2>1
<1>4. ASSUME queue # <<>>, NEW i \in DOMAIN Tail(queue)
      PROVE  \E j \in DOMAIN queue : Tail(queue)[i] = queue[j]
  <2>1. n > 0
    BY <1>1, <1>4, EmptySeq
  <2>2. /\ DOMAIN Tail(queue) = 1..(n - 1)
        /\ Tail(queue)[i] = queue[i + 1]
    BY <1>4, HeadTailProperties, LenProperties
  <2>3. i + 1 \in DOMAIN queue
    BY <1>1, <2>1, <2>2
  <2> QED
    BY <2>2, <2>3
<1>5. \A i \in DOMAIN Resent(queue) : Resent(queue)[i].type \in {"publish", "subscribe"}
  BY DEF Resent, SubscribePacket
<1> HIDE DEF n, q
<1> QED
  BY <1>3, <1>4, <1>5 DEF q

\* The steps of which process and connection know nothing.
LEMMA CleanKept ==
    ASSUME DownIsClean, NEW a \in Agents, UNCHANGED <<proc, running, netq>>,
           \A b \in Agents : b # a => outbox'[b] = outbox[b],
           proc[a] # "down"
    PROVE  DownIsClean'
BY DEF DownIsClean

\* A process that is down left nothing behind, whatever happens to others.
LEMMA CleanStep == TypeOK /\ DownIsClean /\ [Next]_vars => DownIsClean'
<1> SUFFICES ASSUME TypeOK, DownIsClean, [Next]_vars PROVE DownIsClean'
  OBVIOUS
<1>0. /\ netq \in [Agents -> Seq(Packets)] /\ outbox \in [Agents -> Seq(Messages)]
      /\ DOMAIN proc = Agents
  BY DEF TypeOK
<1>1. CASE UNCHANGED vars
  BY <1>1 DEF DownIsClean, vars
<1>2. ASSUME NEW a \in Agents, Publish(a)
      PROVE  DownIsClean'
  <2>1. /\ outbox[a] # <<>> /\ proc' = proc /\ running' = running
        /\ outbox' = [outbox EXCEPT ![a] = Tail(@)]
        /\ \/ netq' = netq
           \/ netq' = [netq EXCEPT ![a] = Append(@, PublishPacket(Head(outbox[a])))]
    BY <1>2 DEF Publish, connections
  <2>2. proc[a] # "down"
    BY <2>1 DEF DownIsClean
  <2>3. PublishPacket(Head(outbox[a])) \in Packets
        /\ PublishPacket(Head(outbox[a])).type = "publish"
    BY <1>0, <2>1, PacketType DEF PublishPacket
  <2>4. \A i \in DOMAIN netq'[a] : netq'[a][i].type = "publish"
           \/ (i \in DOMAIN netq[a] /\ netq'[a][i] = netq[a][i])
    <3>1. netq'[a] = netq[a] \/ netq'[a] = Append(netq[a], PublishPacket(Head(outbox[a])))
      BY <1>0, <2>1
    <3>2. netq[a] \in Seq(Packets)
      BY <1>0, <2>1
    <3> QED
      BY <2>3, <3>1, <3>2, PacketsOf
  <2>5. \A b \in Agents : b # a => netq'[b] = netq[b] /\ outbox'[b] = outbox[b]
    BY <1>0, <2>1
  <2>6. ASSUME NEW b \in Agents
        PROVE  /\ proc[b] = "down"
                     => outbox'[b] = <<>> /\ netq'[b] = <<>> /\ b \notin running
               /\ b \in running
                     => \A i \in DOMAIN netq'[b] : netq'[b][i].type # "disconnect"
    BY <2>2, <2>4, <2>5 DEF DownIsClean
  <2> QED
    BY <2>1, <2>6 DEF DownIsClean
<1>3. ASSUME NEW m \in Masters, NEW t \in Tasks, PostTask(m, t) \/ CancelTask(m, t)
      PROVE  DownIsClean'
  <2>1. m \in Agents /\ proc[m] # "down" /\ UNCHANGED <<proc, running, netq>>
        /\ \A b \in Agents : b # m => outbox'[b] = outbox[b]
    BY <1>0, <1>3 DEF PostTask, CancelTask, Calls, Agents, connections
  <2> QED
    BY <2>1, CleanKept
<1>4. ASSUME NEW m \in Masters, NEW t \in Tasks, WaitLookup(m, t)
      PROVE  DownIsClean'
  <2>1. /\ m \in Agents /\ proc[m] = "idle" /\ UNCHANGED <<running, netq, outbox>>
        /\ \/ proc' = proc \/ proc' = [proc EXCEPT ![m] = "subscribing"]
    BY <1>4 DEF WaitLookup, Calls, Agents, connections
  <2> QED
    BY <1>0, <2>1 DEF DownIsClean
<1>5. ASSUME NEW m \in Masters, WaitSubscribe(m)
      PROVE  DownIsClean'
  <2> DEFINE packet == SubscribePacket({OutputTopic(job[m])})
  <2>1. /\ m \in Agents /\ proc[m] = "subscribing" /\ UNCHANGED <<running, outbox>>
        /\ proc' = [proc EXCEPT ![m] = "recovering"]
        /\ netq' = netq \/ netq' = [netq EXCEPT ![m] = Append(@, packet)]
    BY <1>5 DEF WaitSubscribe, Agents, connections
  <2>2. packet \in Packets /\ packet.type = "subscribe"
    <3>1. job[m] \in Tasks
      BY <2>1 DEF TypeOK
    <3> QED
      BY <3>1, PacketType DEF Filters, SubscribePacket
  <2> HIDE DEF packet
  <2>3. \A i \in DOMAIN netq'[m] : netq'[m][i].type = "subscribe"
           \/ (i \in DOMAIN netq[m] /\ netq'[m][i] = netq[m][i])
    <3>1. netq'[m] = netq[m] \/ netq'[m] = Append(netq[m], packet)
      BY <1>0, <2>1
    <3>2. netq[m] \in Seq(Packets)
      BY <1>0, <2>1
    <3> QED
      BY <2>2, <3>1, <3>2, PacketsOf
  <2>4. \A b \in Agents : b # m => netq'[b] = netq[b] /\ proc'[b] = proc[b]
    BY <1>0, <2>1
  <2>5. proc'[m] = "recovering"
    BY <1>0, <2>1
  <2> QED
    BY <2>1, <2>3, <2>4, <2>5 DEF DownIsClean
<1>6. ASSUME NEW m \in Masters,
             WaitRecover(m) \/ WaitReturn(m) \/ WaitTimeout(m) \/ OnOutput(m)
      PROVE  DownIsClean'
  <2>1. /\ m \in Agents /\ UNCHANGED <<running, netq, outbox>>
        /\ \/ proc' = proc
           \/ /\ proc[m] \in {"recovering", "polling"}
              /\ \E p \in {"polling", "idle"} : proc' = [proc EXCEPT ![m] = p]
    BY <1>6 DEF WaitRecover, WaitReturn, WaitTimeout, OnOutput, Agents, connections
  <2> QED
    BY <1>0, <2>1 DEF DownIsClean
<1>7. ASSUME NEW m \in Masters, RestartMaster(m)
      PROVE  DownIsClean'
  <2>1. /\ m \in Agents /\ proc[m] = "down" /\ UNCHANGED <<netq, outbox>>
        /\ running' = running \cup {m} /\ proc' = [proc EXCEPT ![m] = "idle"]
    BY <1>7 DEF RestartMaster, Agents
  <2>2. netq[m] = <<>>
    BY <2>1 DEF DownIsClean
  <2> QED
    BY <1>0, <2>1, <2>2 DEF DownIsClean
<1>8. ASSUME NEW w \in Workers, Start(w)
      PROVE  DownIsClean'
  <2>1. /\ w \in Agents /\ proc[w] = "down" /\ UNCHANGED outbox
        /\ running' = running \cup {w} /\ proc' = [proc EXCEPT ![w] = "idle"]
        /\ netq' = [netq EXCEPT ![w] = <<SubscribePacket(InputTopics)>>]
    BY <1>8 DEF Start, Agents
  <2>2. /\ proc'[w] = "idle" /\ netq'[w] = <<SubscribePacket(InputTopics)>>
        /\ \A b \in Agents : b # w => netq'[b] = netq[b] /\ proc'[b] = proc[b]
    BY <1>0, <2>1
  <2>3. \A i \in DOMAIN netq'[w] : netq'[w][i].type = "subscribe"
    BY <2>2 DEF SubscribePacket
  <2> QED
    BY <2>1, <2>2, <2>3 DEF DownIsClean
<1>9. ASSUME NEW w \in Workers, OnNewTask(w)
      PROVE  DownIsClean'
  <2>1. /\ w \in Agents /\ proc[w] = "idle" /\ UNCHANGED <<running, netq>>
        /\ \/ UNCHANGED <<proc, outbox>>
           \/ /\ proc' = [proc EXCEPT ![w] = "claimed"]
              /\ \A b \in Agents : b # w => outbox'[b] = outbox[b]
    BY <1>0, <1>9 DEF OnNewTask, Agents, connections
  <2> QED
    BY <1>0, <2>1 DEF DownIsClean
<1>10. ASSUME NEW w \in Workers,
              HandlerCompletes(w) \/ HandlerReturns(w) \/ RunnerReturns(w) \/ Finish(w)
       PROVE  DownIsClean'
  <2>1. /\ w \in Agents /\ proc[w] # "down" /\ UNCHANGED <<running, netq>>
        /\ \A b \in Agents : b # w => outbox'[b] = outbox[b]
        /\ \E p \in {"returning", "completing", "idle"} :
              proc' = [proc EXCEPT ![w] = p]
    BY <1>0, <1>10 DEF HandlerCompletes, HandlerReturns, RunnerReturns, Complete,
                       Finish, Agents, connections
  <2> QED
    BY <1>0, <2>1 DEF DownIsClean
<1>11. ASSUME NEW w \in Workers, Stop(w)
       PROVE  DownIsClean'
  <2>1. /\ w \in Agents /\ w \in running /\ UNCHANGED <<proc, outbox>>
        /\ running' = running \ {w}
        /\ netq' = [netq EXCEPT ![w] = Append(@, DisconnectPacket)]
    BY <1>11 DEF Stop, Agents
  <2>2. proc[w] # "down"
    BY <2>1 DEF DownIsClean
  <2> QED
    BY <1>0, <2>1, <2>2 DEF DownIsClean
<1>12. ASSUME NEW a \in Agents, Exit(a)
       PROVE  DownIsClean'
  <2>1. /\ proc' = [proc EXCEPT ![a] = "down"] /\ outbox' = [outbox EXCEPT ![a] = <<>>]
        /\ netq' = [netq EXCEPT ![a] = <<>>] /\ running' = running \ {a}
    BY <1>12 DEF Exit, EndSession
  <2>2. /\ outbox'[a] = <<>> /\ netq'[a] = <<>>
        /\ \A b \in Agents : b # a => /\ netq'[b] = netq[b] /\ outbox'[b] = outbox[b]
                                     /\ proc'[b] = proc[b]
    BY <1>0, <2>1
  <2> QED
    BY <2>1, <2>2 DEF DownIsClean
<1>13. ASSUME NEW a \in Agents, BrokerPublish(a) \/ BrokerSubscribe(a)
       PROVE  DownIsClean'
  <2>1. /\ netq[a] # <<>> /\ UNCHANGED <<proc, running, outbox>>
        /\ netq' = [netq EXCEPT ![a] = Tail(@)]
    BY <1>13 DEF BrokerPublish, BrokerSubscribe, connections
  <2>2. \A i \in DOMAIN netq'[a] : \E j \in DOMAIN netq[a] : netq'[a][i] = netq[a][j]
    BY <1>0, <2>1, PacketsOf, PacketType
  <2>3. proc[a] # "down" /\ \A b \in Agents : b # a => netq'[b] = netq[b]
    BY <1>0, <2>1 DEF DownIsClean
  <2> QED
    BY <2>1, <2>2, <2>3 DEF DownIsClean
<1>14. ASSUME NEW a \in Agents, BrokerDisconnect(a)
       PROVE  DownIsClean'
  <2>1. /\ UNCHANGED <<proc, running, outbox>> /\ netq' = [netq EXCEPT ![a] = <<>>]
    BY <1>14 DEF BrokerDisconnect, EndSession
  <2> QED
    BY <1>0, <2>1 DEF DownIsClean
<1>15. ASSUME NEW a \in Agents, LinkLost(a)
       PROVE  DownIsClean'
  <2>1. /\ UNCHANGED <<proc, running, outbox>>
        /\ netq' = [netq EXCEPT ![a] = Resent(netq[a])]
    BY <1>15 DEF LinkLost, EndSession
  <2>2. \A i \in DOMAIN netq'[a] : netq'[a][i].type # "disconnect"
    BY <1>0, <2>1, PacketsOf, PacketType
  <2>3. netq[a] = <<>> => netq'[a] = <<>>
    BY <1>0, <2>1 DEF Resent
  <2>4. \A b \in Agents : b # a => netq'[b] = netq[b]
    BY <1>0, <2>1
  <2> QED
    BY <2>1, <2>2, <2>3, <2>4 DEF DownIsClean
<1>16. ASSUME NEW a \in Agents, Reconnect(a)
       PROVE  DownIsClean'
  BY <1>16 DEF Reconnect, DownIsClean
<1>17. ASSUME NEW w \in Workers, WorkerStep(w)
       PROVE  DownIsClean'
  BY <1>8, <1>9, <1>10, <1>11, <1>12, <1>17 DEF WorkerStep, ExitStopped, Agents
<1>18. ASSUME NEW m \in Masters, MasterStep(m)
       PROVE  DownIsClean'
  BY <1>3, <1>4, <1>5, <1>6, <1>7, <1>18 DEF MasterStep
<1> QED
  BY <1>1, <1>2, <1>12, <1>13, <1>14, <1>15, <1>16, <1>17, <1>18
     DEF Next, BrokerStep, Crash

\* An agent whose queues a step leaves alone.
LEMMA LeadsKept ==
    ASSUME TypeOK, [Next]_vars, NEW a \in Agents, AgentLeads(a),
           outbox'[a] = outbox[a], netq'[a] = netq[a], Connects(a)' => Connects(a)
    PROVE  AgentLeads(a)'
<1>1. \A t \in Tasks :
        /\ db'[OutputTopic(t)] = None => db[OutputTopic(t)] = None
        /\ retained'[OutputTopic(t)] = None => retained[OutputTopic(t)] = None
  BY OutputsStay
<1>2. /\ spent'["db"] = 0 => spent["db"] = 0
      /\ spent'["drop"] = 0 => spent["drop"] = 0
  BY FaultsStay
<1> QED
  BY <1>1, <1>2 DEF AgentLeads

\* An agent whose method has something new to publish.
LEMMA LeadsCalls ==
    ASSUME TypeOK, [Next]_vars, NEW a \in Agents, AgentLeads(a),
           \A t \in Tasks : Leads(outbox'[a], t),
           netq'[a] = netq[a], Connects(a)' => Connects(a)
    PROVE  AgentLeads(a)'
<1>1. \A t \in Tasks :
        retained'[OutputTopic(t)] = None => retained[OutputTopic(t)] = None
  BY OutputsStay
<1>2. spent'["drop"] = 0 => spent["drop"] = 0
  BY FaultsStay
<1> QED
  BY <1>1, <1>2 DEF AgentLeads

\* An agent whose connection changes, but the publications on it do not.
LEMMA LeadsPackets ==
    ASSUME TypeOK, [Next]_vars, NEW a \in Agents, AgentLeads(a),
           outbox'[a] = outbox[a], Connects(a)' => Connects(a),
           \A t \in Tasks :
              /\ SentIn(netq[a], t) => SentIn(netq'[a], t)
              /\ PacketsLead(netq[a], t) => PacketsLead(netq'[a], t)
    PROVE  AgentLeads(a)'
<1>1. \A t \in Tasks :
        /\ db'[OutputTopic(t)] = None => db[OutputTopic(t)] = None
        /\ retained'[OutputTopic(t)] = None => retained[OutputTopic(t)] = None
  BY OutputsStay
<1>2. /\ spent'["db"] = 0 => spent["db"] = 0
      /\ spent'["drop"] = 0 => spent["drop"] = 0
  BY FaultsStay
<1> QED
  BY <1>1, <1>2 DEF AgentLeads

\* An agent that has nothing to publish.
LEMMA LeadsNothing ==
    ASSUME NEW a \in Agents, outbox'[a] = <<>>,
           \A i \in DOMAIN netq'[a] : netq'[a][i].type # "publish"
    PROVE  AgentLeads(a)'
<1>1. \A t \in Tasks : Leads(outbox'[a], t) /\ PacketsLead(netq'[a], t)
  BY DEF Leads, PacketsLead
<1> QED
  BY <1>1 DEF AgentLeads

\* A publish() moves a call to the database and to the connection.
LEMMA LeadsPublish ==
    ASSUME TypeOK, [Next]_vars, NEW a \in Agents, AgentLeads(a), Publish(a)
    PROVE  AgentLeads(a)'
<1> DEFINE msg == Head(outbox[a])
<1>1. /\ outbox[a] \in Seq(Messages) /\ outbox[a] # <<>> /\ msg \in Messages
      /\ netq[a] \in Seq(Packets) /\ Connects(a)' = Connects(a)
      /\ retained' = retained /\ outbox'[a] = Tail(outbox[a])
  BY DEF Publish, TypeOK, connections, broker, Connects
<1>2. /\ \/ db' = [db EXCEPT ![msg.topic] = msg.value]
         \/ spent'["db"] # 0
      /\ \/ netq' = [netq EXCEPT ![a] = Append(@, PublishPacket(msg))]
         \/ spent'["drop"] # 0
  <2>1. PICK lost \in SUBSET {"db", "drop"} :
           /\ IF lost = {} THEN UNCHANGED spent ELSE Uses(lost)
           /\ db' = IF "db" \in lost THEN db ELSE [db EXCEPT ![msg.topic] = msg.value]
           /\ netq' = IF "drop" \in lost THEN netq
                      ELSE [netq EXCEPT ![a] = Append(@, PublishPacket(msg))]
    BY DEF Publish
  <2>2. ASSUME NEW k \in lost PROVE spent'[k] # 0
    <3>1. k \in BudgetKinds /\ spent'[k] = spent[k] + 1 /\ spent[k] \in Nat
      BY <2>1, <2>2 DEF Uses, BudgetKinds, TypeOK
    <3> QED
      BY <3>1
  <2> QED
    BY <2>1, <2>2
<1> HIDE DEF msg
<1>3. ASSUME NEW t \in Tasks, spent'["db"] = 0, db'[OutputTopic(t)] = None
      PROVE  Leads(outbox'[a], t)
  <2>1. spent["db"] = 0 /\ db[OutputTopic(t)] = None
    BY <1>3, FaultsStay, OutputsStay
  <2>2. Leads(outbox[a], t)
    BY <2>1 DEF AgentLeads
  <2>3. msg.topic # OutputTopic(t)
    <3>1. msg.topic = OutputTopic(t) => msg.value # None
      BY <1>1, OutputType
    <3>2. db' = [db EXCEPT ![msg.topic] = msg.value] /\ OutputTopic(t) \in DOMAIN db
      BY <1>2, <1>3, OutputType DEF TypeOK
    <3> QED
      BY <1>3, <3>1, <3>2
  <2> QED
    BY <1>1, <2>2, <2>3, LeadsTail DEF msg
<1>4. ASSUME NEW t \in Tasks, spent'["drop"] = 0, retained'[OutputTopic(t)] = None,
             Connects(a)'
      PROVE  /\ SentIn(netq'[a], t) \/ Leads(outbox'[a], t)
             /\ PacketsLead(netq'[a], t)
  <2>1. spent["drop"] = 0 /\ retained[OutputTopic(t)] = None /\ Connects(a)
    BY <1>1, <1>4, FaultsStay
  <2>2. /\ SentIn(netq[a], t) \/ Leads(outbox[a], t)
        /\ PacketsLead(netq[a], t)
    BY <2>1 DEF AgentLeads
  <2>3. netq'[a] = Append(netq[a], PublishPacket(msg))
    BY <1>2, <1>4 DEF TypeOK
  <2>4. /\ PublishPacket(msg) \in Packets /\ PublishPacket(msg).type = "publish"
        /\ PublishPacket(msg).msg = msg
    BY <1>1, PacketType DEF PublishPacket
  <2>5. SentIn(netq[a], t) \/ msg.topic = OutputTopic(t) => SentIn(netq'[a], t)
    BY <1>1, <2>3, <2>4, PacketsAppend DEF Sends
  <2>6. Leads(outbox[a], t) =>
           /\ ~Ends(msg, t)
           /\ msg.topic # OutputTopic(t) => Leads(outbox'[a], t)
    BY <1>1, LeadsTail DEF msg
  <2>7. PacketsLead(netq'[a], t)
    BY <1>1, <2>2, <2>3, <2>4, <2>6, PacketsAppend
  <2> QED
    BY <2>2, <2>5, <2>6, <2>7
<1> QED
  BY <1>3, <1>4 DEF AgentLeads

\* The broker takes a packet; a publication of an output is retained then.
LEMMA LeadsTaken ==
    ASSUME TypeOK, [Next]_vars, NEW a \in Agents, AgentLeads(a),
           BrokerPublish(a) \/ BrokerSubscribe(a)
    PROVE  AgentLeads(a)'
<1>1. /\ netq[a] \in Seq(Packets) /\ netq[a] # <<>> /\ netq'[a] = Tail(netq[a])
      /\ Connects(a)' = Connects(a) /\ outbox'[a] = outbox[a]
  BY DEF BrokerPublish, BrokerSubscribe, TypeOK, connections, Connects
<1>2. \A t \in Tasks :
        /\ db'[OutputTopic(t)] = None => db[OutputTopic(t)] = None
        /\ retained'[OutputTopic(t)] = None => retained[OutputTopic(t)] = None
  BY OutputsStay
<1>3. /\ spent'["db"] = 0 => spent["db"] = 0
      /\ spent'["drop"] = 0 => spent["drop"] = 0
  BY FaultsStay
<1>4. ASSUME NEW t \in Tasks, retained'[OutputTopic(t)] = None
      PROVE  ~Sends(Head(netq[a]), t)
  <2>1. CASE BrokerSubscribe(a)
    BY <2>1 DEF BrokerSubscribe, Sends
  <2>2. CASE BrokerPublish(a)
    <3> DEFINE msg == Head(netq[a]).msg
    <3>1. /\ msg \in Messages
          /\ retained' = [retained EXCEPT ![msg.topic] = msg.value]
      BY <1>1, <2>2, PacketType DEF BrokerPublish
    <3>2. OutputTopic(t) \in DOMAIN retained
          /\ (msg.topic = OutputTopic(t) => msg.value # None)
      BY <3>1, OutputType DEF TypeOK
    <3>3. msg.topic # OutputTopic(t)
      BY <1>4, <3>1, <3>2
    <3> QED
      BY <3>3 DEF Sends
  <2> QED
    BY <2>1, <2>2
<1>5. ASSUME NEW t \in Tasks, retained'[OutputTopic(t)] = None
      PROVE  /\ SentIn(netq[a], t) => SentIn(netq'[a], t)
             /\ PacketsLead(netq[a], t) => PacketsLead(netq'[a], t)
  BY <1>1, <1>4, <1>5, PacketsTail
<1> QED
  BY <1>1, <1>2, <1>3, <1>5 DEF AgentLeads

\* Every step of an agent keeps its outputs first.
LEMMA LeadsStep ==
    TypeOK /\ DownIsClean /\ OutputsLead /\ [Next]_vars => OutputsLead'
<1> SUFFICES ASSUME TypeOK, DownIsClean, OutputsLead, [Next]_vars PROVE OutputsLead'
  OBVIOUS
<1>0. /\ netq \in [Agents -> Seq(Packets)] /\ outbox \in [Agents -> Seq(Messages)]
      /\ link \in [Agents -> BOOLEAN] /\ Masters \subseteq Agents /\ Workers \subseteq Agents
  BY DEF TypeOK, Agents
<1>1. \A a \in Agents : AgentLeads(a)
  BY DEF OutputsLead
<1> DEFINE Others(a) ==
              \A b \in Agents : b # a =>
                 /\ outbox'[b] = outbox[b] /\ netq'[b] = netq[b]
                 /\ Connects(b)' => Connects(b)
<1>2. ASSUME NEW a \in Agents, Others(a), AgentLeads(a)' PROVE OutputsLead'
  <2>1. ASSUME NEW b \in Agents, b # a PROVE AgentLeads(b)'
    BY <1>1, <1>2, <2>1, LeadsKept
  <2> HIDE DEF Others
  <2> QED
    BY <1>2, <2>1 DEF OutputsLead
<1>3. ASSUME UNCHANGED <<outbox, netq, link, running>> PROVE OutputsLead'
  <2>1. ASSUME NEW b \in Agents PROVE AgentLeads(b)'
    BY <1>1, <1>3, LeadsKept DEF Connects
  <2> QED
    BY <2>1 DEF OutputsLead
<1>4. CASE UNCHANGED vars
  BY <1>3, <1>4 DEF vars
<1>5. ASSUME NEW a \in Agents, Publish(a) PROVE OutputsLead'
  <2>1. Others(a)
    BY <1>0, <1>5 DEF Publish, connections, Connects
  <2>2. AgentLeads(a)'
    BY <1>1, <1>5, LeadsPublish
  <2> QED
    BY <1>2, <2>1, <2>2
<1>6. ASSUME NEW m \in Masters, NEW t \in Tasks, PostTask(m, t) \/ CancelTask(m, t)
      PROVE  OutputsLead'
  <2>1. m \in Agents /\ Others(m) /\ netq'[m] = netq[m] /\ Connects(m)' = Connects(m)
    BY <1>0, <1>6 DEF PostTask, CancelTask, connections, Connects
  <2>2. \/ outbox'[m] = <<Message(<<t, "input">>, "task"),
                          Message(<<t, "status">>, "pending")>>
        \/ outbox'[m] = <<Message(<<t, "signal">>, "[CANCEL]"),
                          Message(<<t, "status">>, "cancelled")>>
    BY <1>0, <1>6 DEF PostTask, CancelTask
  <2>3. \A u \in Tasks : Leads(outbox'[m], u)
    BY <2>2, MethodsLead
  <2>4. AgentLeads(m)'
    BY <1>1, <2>1, <2>3, LeadsCalls
  <2> QED
    BY <1>2, <2>1, <2>4
<1>7. ASSUME NEW m \in Masters, WaitSubscribe(m) PROVE OutputsLead'
  <2> DEFINE packet == SubscribePacket({OutputTopic(job[m])})
  <2>1. /\ m \in Agents /\ Others(m) /\ outbox'[m] = outbox[m]
        /\ Connects(m)' = Connects(m) /\ proc[m] = "subscribing"
        /\ netq'[m] = netq[m] \/ netq'[m] = Append(netq[m], packet)
    BY <1>0, <1>7 DEF WaitSubscribe, connections, Connects
  <2>2. packet \in Packets /\ packet.type = "subscribe"
    <3>1. job[m] \in Tasks
      BY <2>1 DEF TypeOK
    <3> QED
      BY <3>1, PacketType DEF Filters, SubscribePacket
  <2> HIDE DEF packet
  <2>3. \A u \in Tasks : /\ SentIn(netq[m], u) => SentIn(netq'[m], u)
                         /\ PacketsLead(netq[m], u) => PacketsLead(netq'[m], u)
    BY <1>0, <2>1, <2>2, PacketsAppend
  <2>4. AgentLeads(m)'
    <3> HIDE DEF Others
    <3> QED
      BY <1>1, <2>1, <2>3, LeadsPackets
  <2> QED
    BY <1>2, <2>1, <2>4
<1>8. ASSUME NEW m \in Masters,
             \/ \E t \in Tasks : WaitLookup(m, t)
             \/ WaitRecover(m) \/ WaitReturn(m) \/ WaitTimeout(m) \/ OnOutput(m)
      PROVE  OutputsLead'
  BY <1>3, <1>8 DEF WaitLookup, WaitRecover, WaitReturn, WaitTimeout, OnOutput,
                    connections
<1>9. ASSUME NEW m \in Masters, RestartMaster(m) PROVE OutputsLead'
  <2>1. /\ m \in Agents /\ Others(m) /\ outbox'[m] = outbox[m] /\ netq'[m] = netq[m]
        /\ proc[m] = "down"
    BY <1>0, <1>9 DEF RestartMaster, Connects
  <2>2. AgentLeads(m)'
    <3>1. outbox'[m] = <<>> /\ netq'[m] = <<>>
      BY <2>1 DEF DownIsClean
    <3> QED
      BY <2>1, <3>1, LeadsNothing
  <2> QED
    BY <1>2, <2>1, <2>2
<1>10. ASSUME NEW w \in Workers, Start(w) PROVE OutputsLead'
  <2>1. /\ w \in Agents /\ Others(w) /\ outbox'[w] = outbox[w] /\ proc[w] = "down"
        /\ netq'[w] = <<SubscribePacket(InputTopics)>>
    BY <1>0, <1>10 DEF Start, Connects
  <2>2. AgentLeads(w)'
    <3>1. outbox'[w] = <<>>
      BY <2>1 DEF DownIsClean
    <3>2. \A i \in DOMAIN netq'[w] : netq'[w][i].type # "publish"
      BY <2>1 DEF SubscribePacket
    <3> QED
      BY <2>1, <3>1, <3>2, LeadsNothing
  <2> QED
    BY <1>2, <2>1, <2>2
<1>11. ASSUME NEW w \in Workers, OnNewTask(w) PROVE OutputsLead'
  <2>1. /\ w \in Agents /\ Others(w) /\ netq'[w] = netq[w] /\ Connects(w)' = Connects(w)
    BY <1>0, <1>11 DEF OnNewTask, connections, Connects
  <2>2. CASE outbox'[w] = outbox[w]
    <3>1. AgentLeads(w)'
      BY <1>1, <2>1, <2>2, LeadsKept
    <3> QED
      BY <1>2, <2>1, <3>1
  <2>3. ASSUME NEW t \in Tasks, outbox'[w] = ClaimMessages(w, t) PROVE OutputsLead'
    <3>1. \A u \in Tasks : Leads(outbox'[w], u)
      BY <2>3, MethodsLead
    <3>2. AgentLeads(w)'
      BY <1>1, <2>1, <3>1, LeadsCalls
    <3> QED
      BY <1>2, <2>1, <3>2
  <2>4. outbox'[w] = outbox[w] \/ \E t \in Tasks : outbox'[w] = ClaimMessages(w, t)
    <3> DEFINE t == Head(inbox[w]).topic[1]
    <3>1. \/ outbox' = outbox
          \/ Accepts(w, t) /\ outbox' = [outbox EXCEPT ![w] = ClaimMessages(w, t)]
      BY <1>11 DEF OnNewTask
    <3>2. Accepts(w, t) => t \in Tasks
      BY BoardAssumption DEF Accepts
    <3> HIDE DEF t
    <3> QED
      BY <1>0, <3>1, <3>2
  <2> QED
    BY <2>2, <2>3, <2>4
<1>12. ASSUME NEW w \in Workers,
              HandlerCompletes(w) \/ HandlerReturns(w) \/ RunnerReturns(w)
       PROVE  OutputsLead'
  <2>1. job[w] \in Tasks
    BY <1>12 DEF HandlerCompletes, HandlerReturns, RunnerReturns, Agents, TypeOK
  <2>2. PICK o \in Outputs, next \in {"returning", "completing"} :
           Complete(w, o, next)
    BY <1>12 DEF HandlerCompletes, HandlerReturns, RunnerReturns, OutputOf, Outputs
  <2>3. /\ w \in Agents /\ Others(w) /\ netq'[w] = netq[w] /\ Connects(w)' = Connects(w)
        /\ outbox'[w] = CompleteMessages(w, job[w], o)
    BY <1>0, <2>2 DEF Complete, connections, Connects
  <2>4. \A u \in Tasks : Leads(outbox'[w], u)
    BY <2>1, <2>3, MethodsLead
  <2>5. AgentLeads(w)'
    BY <1>1, <2>3, <2>4, LeadsCalls
  <2> QED
    BY <1>2, <2>3, <2>5
<1>13. ASSUME NEW w \in Workers, Finish(w) PROVE OutputsLead'
  BY <1>3, <1>13 DEF Finish, connections
<1>14. ASSUME NEW w \in Workers, Stop(w) PROVE OutputsLead'
  <2>1. /\ w \in Agents /\ Others(w) /\ outbox'[w] = outbox[w]
        /\ Connects(w)' => Connects(w)
        /\ netq'[w] = Append(netq[w], DisconnectPacket)
    BY <1>0, <1>14 DEF Stop, Connects
  <2>2. DisconnectPacket \in Packets /\ DisconnectPacket.type = "disconnect"
    BY PacketType DEF DisconnectPacket
  <2>3. \A u \in Tasks : /\ SentIn(netq[w], u) => SentIn(netq'[w], u)
                         /\ PacketsLead(netq[w], u) => PacketsLead(netq'[w], u)
    BY <1>0, <2>1, <2>2, PacketsAppend
  <2>4. AgentLeads(w)'
    <3> HIDE DEF Others
    <3> QED
      BY <1>1, <2>1, <2>3, LeadsPackets
  <2> QED
    BY <1>2, <2>1, <2>4
<1>15. ASSUME NEW a \in Agents, Exit(a) PROVE OutputsLead'
  <2>1. Others(a) /\ outbox'[a] = <<>> /\ netq'[a] = <<>>
    BY <1>0, <1>15 DEF Exit, EndSession, Connects
  <2>2. AgentLeads(a)'
    BY <2>1, LeadsNothing
  <2> QED
    BY <1>2, <2>1, <2>2
<1>16. ASSUME NEW a \in Agents, BrokerPublish(a) \/ BrokerSubscribe(a) PROVE OutputsLead'
  <2>1. Others(a)
    BY <1>0, <1>16 DEF BrokerPublish, BrokerSubscribe, connections, Connects
  <2>2. AgentLeads(a)'
    BY <1>1, <1>16, LeadsTaken
  <2> QED
    BY <1>2, <2>1, <2>2
<1>17. ASSUME NEW a \in Agents, BrokerDisconnect(a) PROVE OutputsLead'
  <2>1. /\ Others(a) /\ outbox'[a] = outbox[a] /\ netq'[a] = <<>>
        /\ link'[a] = FALSE /\ running' = running
    BY <1>0, <1>17 DEF BrokerDisconnect, EndSession, Connects
  <2>2. a \notin running
    <3>1. netq[a] # <<>> /\ netq[a][1].type = "disconnect"
      BY <1>0, <1>17 DEF BrokerDisconnect
    <3>2. 1 \in DOMAIN netq[a]
      BY <1>0, <3>1, EmptySeq, LenProperties
    <3> QED
      BY <3>1, <3>2 DEF DownIsClean
  <2>3. AgentLeads(a)'
    <3>1. \A t \in Tasks : db'[OutputTopic(t)] = None => db[OutputTopic(t)] = None
      BY OutputsStay
    <3>2. spent'["db"] = 0 => spent["db"] = 0
      BY FaultsStay
    <3>3. ~Connects(a)'
      BY <2>1, <2>2 DEF Connects
    <3>4. AgentLeads(a)
      BY <1>1
    <3> HIDE DEF Others
    <3> QED
      BY <2>1, <3>1, <3>2, <3>3, <3>4 DEF AgentLeads
  <2> QED
    BY <1>2, <2>1, <2>3
<1>18. ASSUME NEW a \in Agents, LinkLost(a) PROVE OutputsLead'
  <2>1. /\ Others(a) /\ outbox'[a] = outbox[a] /\ netq'[a] = Resent(netq[a])
        /\ Connects(a)' => Connects(a)
    BY <1>0, <1>18 DEF LinkLost, EndSession, Connects
  <2>2. \A u \in Tasks : /\ SentIn(netq[a], u) => SentIn(netq'[a], u)
                         /\ PacketsLead(netq[a], u) => PacketsLead(netq'[a], u)
    BY <1>0, <2>1, PacketsResent
  <2>3. AgentLeads(a)'
    <3> HIDE DEF Others
    <3> QED
      BY <1>1, <2>1, <2>2, LeadsPackets
  <2> QED
    BY <1>2, <2>1, <2>3
<1>19. ASSUME NEW a \in Agents, Reconnect(a) PROVE OutputsLead'
  <2>1. /\ Others(a) /\ outbox'[a] = outbox[a] /\ netq'[a] = netq[a]
        /\ Connects(a)' => Connects(a)
    BY <1>0, <1>19 DEF Reconnect, Connects
  <2>2. AgentLeads(a)'
    <3> HIDE DEF Others
    <3> QED
      BY <1>1, <2>1, LeadsKept
  <2> QED
    BY <1>2, <2>1, <2>2
<1>20. ASSUME NEW m \in Masters, MasterStep(m) PROVE OutputsLead'
  BY <1>6, <1>7, <1>8, <1>9, <1>20 DEF MasterStep
<1>21. ASSUME NEW w \in Workers, WorkerStep(w) PROVE OutputsLead'
  BY <1>0, <1>10, <1>11, <1>12, <1>13, <1>14, <1>15, <1>21 DEF WorkerStep, ExitStopped
<1> QED
  BY <1>4, <1>5, <1>15, <1>16, <1>17, <1>18, <1>19, <1>20, <1>21
     DEF Next, BrokerStep, Crash

\* What says that a task has ended is published after its output.
LEMMA EndedStep ==
    TypeOK /\ OutputsLead /\ EndedHasOutput /\ [Next]_vars => EndedHasOutput'
<1> SUFFICES ASSUME TypeOK, OutputsLead, EndedHasOutput, [Next]_vars, NEW t \in Tasks
             PROVE  /\ spent'["db"] = 0 /\ SaysEnded(db', t) => db'[OutputTopic(t)] # None
                    /\ spent'["drop"] = 0 /\ SaysEnded(retained', t)
                          => retained'[OutputTopic(t)] # None
  BY DEF EndedHasOutput, SaysEnded
<1>1. /\ spent'["db"] = 0 => spent["db"] = 0
      /\ spent'["drop"] = 0 => spent["drop"] = 0
  BY FaultsStay
<1>2. /\ db[OutputTopic(t)] # None => db'[OutputTopic(t)] # None
      /\ retained[OutputTopic(t)] # None => retained'[OutputTopic(t)] # None
  BY OutputsStay
<1>3. /\ spent["db"] = 0 /\ SaysEnded(db, t) => db[OutputTopic(t)] # None
      /\ spent["drop"] = 0 /\ SaysEnded(retained, t) => retained[OutputTopic(t)] # None
  BY DEF EndedHasOutput
<1>4. /\ <<t, "status">> \in Topics /\ <<t, "signal">> \in Topics
      /\ DOMAIN db = Topics /\ DOMAIN retained = Topics
  BY TopicType DEF Kinds, TypeOK
<1>5. ASSUME NEW store, DOMAIN store = Topics, NEW msg,
             SaysEnded([store EXCEPT ![msg.topic] = msg.value], t)
      PROVE  SaysEnded(store, t) \/ Ends(msg, t)
  BY <1>4, <1>5 DEF SaysEnded, Ends
<1>6. CASE db' = db /\ retained' = retained
  BY <1>1, <1>3, <1>6
<1>7. ASSUME NEW a \in Agents, Publish(a), spent'["db"] = 0, SaysEnded(db', t)
      PROVE  db'[OutputTopic(t)] # None
  <2> DEFINE msg == Head(outbox[a])
  <2>1. outbox[a] \in Seq(Messages) /\ outbox[a] # <<>>
    BY <1>7 DEF Publish, TypeOK
  <2>2. CASE SaysEnded(db, t)
    BY <1>1, <1>2, <1>3, <1>7, <2>2
  <2>3. CASE Ends(msg, t)
    <3>1. ~Leads(outbox[a], t)
      BY <2>1, <2>3, LeadsTail
    <3> QED
      BY <1>1, <1>2, <1>7, <3>1 DEF OutputsLead, AgentLeads
  <2>4. db' = db \/ db' = [db EXCEPT ![msg.topic] = msg.value]
    BY <1>7 DEF Publish
  <2> HIDE DEF msg
  <2> QED
    BY <1>4, <1>5, <1>7, <2>2, <2>3, <2>4
<1>8. ASSUME NEW a \in Agents, BrokerPublish(a), spent'["drop"] = 0,
             SaysEnded(retained', t)
      PROVE  retained'[OutputTopic(t)] # None
  <2> DEFINE msg == Head(netq[a]).msg
  <2>1. /\ netq[a] \in Seq(Packets) /\ netq[a] # <<>> /\ Head(netq[a]).type = "publish"
        /\ retained' = [retained EXCEPT ![msg.topic] = msg.value] /\ Connects(a)
    BY <1>8 DEF BrokerPublish, TypeOK, Connects
  <2>2. CASE SaysEnded(retained, t)
    BY <1>1, <1>2, <1>3, <1>8, <2>2
  <2>3. CASE Ends(msg, t)
    <3>1. 1 \in DOMAIN netq[a] /\ netq[a][1] = Head(netq[a])
          /\ \A j \in DOMAIN netq[a] : ~(j < 1)
      <4>1. Len(netq[a]) \in Nat /\ Len(netq[a]) # 0 /\ DOMAIN netq[a] = 1..Len(netq[a])
        BY <2>1, EmptySeq, LenProperties
      <4>2. netq[a][1] = Head(netq[a])
        BY <2>1
      <4> HIDE DEF msg
      <4> QED
        BY <4>1, <4>2
    <3>2. ~PacketsLead(netq[a], t)
      BY <2>1, <2>3, <3>1 DEF PacketsLead
    <3> QED
      BY <1>1, <1>2, <1>8, <2>1, <3>2 DEF OutputsLead, AgentLeads
  <2> HIDE DEF msg
  <2> QED
    BY <1>4, <1>5, <1>8, <2>1, <2>2, <2>3
<1>9. ASSUME NEW a \in Agents, Publish(a) PROVE retained' = retained
  BY <1>9 DEF Publish, broker
<1>10. ASSUME NEW a \in Agents, BrokerPublish(a) PROVE db' = db
  BY <1>10 DEF BrokerPublish
<1> QED
  BY <1>1, <1>3, <1>6, <1>7, <1>8, <1>9, <1>10, StoresChange

\* At the start nothing is published and nobody is down but the workers.
LEMMA LeadsInit == Init => DownIsClean /\ OutputsLead /\ EndedHasOutput
<1> SUFFICES ASSUME Init PROVE DownIsClean /\ OutputsLead /\ EndedHasOutput
  OBVIOUS
<1>1. DownIsClean
  BY BoardAssumption DEF Init, DownIsClean, Agents
<1>2. \A a \in Agents : outbox[a] = <<>> /\ netq[a] = <<>>
  BY DEF Init
<1>3. OutputsLead
  BY <1>2 DEF OutputsLead, AgentLeads, Leads, PacketsLead
<1>4. EndedHasOutput
  <2>1. \A s \in Topics : db[s] = None /\ retained[s] = None
    BY DEF Init
  <2>2. None \notin {"done", "failed"} /\ None # "[ROUND_END]"
    BY BoardAssumption DEF Statuses, Signals
  <2>3. \A t \in Tasks : <<t, "status">> \in Topics /\ <<t, "signal">> \in Topics
    BY TopicType DEF Kinds
  <2> QED
    BY <2>1, <2>2, <2>3 DEF EndedHasOutput, SaysEnded
<1> QED
  BY <1>1, <1>3, <1>4

\* Whoever reads that a task has ended finds its output as well, for any number of
\* agents, tasks, crashes and lost connections (complete() of persistence.py).
THEOREM EndedTasksHaveOutput == Spec => []EndedHasOutput
<1> DEFINE I == TypeOK /\ DownIsClean /\ OutputsLead /\ EndedHasOutput
<1>1. Init => I
  BY TypeInit, LeadsInit
<1>2. I /\ [Next]_vars => I'
  <2>1. I /\ [Next]_vars => TypeOK'
    BY TypeStep
  <2>2. I /\ [Next]_vars => DownIsClean'
    BY CleanStep
  <2>3. I /\ [Next]_vars => OutputsLead'
    BY LeadsStep
  <2>4. I /\ [Next]_vars => EndedHasOutput'
    BY EndedStep
  <2> QED
    BY <2>1, <2>2, <2>3, <2>4
<1> QED
  BY <1>1, <1>2, PTL DEF Spec

-----------------------------------------------------------------------------
(* No output is missed by a master that waits for it.                      *)

\* A session has topics only while it lasts, and only those the broker routes
\* to them what was published.
SubscriptionsRouted ==
    \A a \in Agents : /\ subs[a] # {} => link[a]
                      /\ \A s \in subs[a] : Routed(s)

\* An output that the broker retains is on its way to a subscribed master that
\* waits for it: in its inbox, or still to come for its SUBSCRIBE.
OutputComes(m) ==
    /\ Waiting(m) /\ holder[m] = None
    /\ OutputTopic(job[m]) \in subs[m]
    /\ retained[OutputTopic(job[m])] # None
    => \/ \E i \in DOMAIN inbox[m] : inbox[m][i].topic = OutputTopic(job[m])
       \/ \E i \in DOMAIN netq[m] :
             netq[m][i] = SubscribePacket({OutputTopic(job[m])})

OutputsCome == \A m \in Masters : OutputComes(m)

\* Sessions change by a SUBSCRIBE and end with the connection.
LEMMA RoutedStep == TypeOK /\ SubscriptionsRouted /\ [Next]_vars => SubscriptionsRouted'
<1> SUFFICES ASSUME TypeOK, SubscriptionsRouted, [Next]_vars PROVE SubscriptionsRouted'
  OBVIOUS
<1>0. /\ subs \in [Agents -> SUBSET Topics] /\ link \in [Agents -> BOOLEAN]
      /\ Masters \subseteq Agents /\ Workers \subseteq Agents
  BY DEF TypeOK, Agents
<1>1. ASSUME subs' = subs, \A a \in Agents : link[a] => link'[a]
      PROVE  SubscriptionsRouted'
  BY <1>1 DEF SubscriptionsRouted, Routed, PublishedAs, SubscribedAs
<1>2. ASSUME NEW a \in Agents, BrokerSubscribe(a) PROVE SubscriptionsRouted'
  <2>1. /\ link[a] /\ link' = link
        /\ subs' = [subs EXCEPT ![a] = @ \cup {s \in Head(netq[a]).filter : Routed(s)}]
    BY <1>2 DEF BrokerSubscribe, connections
  <2>2. /\ \A b \in Agents : b # a => subs'[b] = subs[b]
        /\ \A s \in subs'[a] : s \in subs[a] \/ Routed(s)
    BY <1>0, <2>1
  <2> QED
    BY <2>1, <2>2 DEF SubscriptionsRouted, Routed, PublishedAs, SubscribedAs
<1>3. ASSUME NEW a \in Agents, NEW kept, EndSession(a, kept) PROVE SubscriptionsRouted'
  <2>1. subs'[a] = {} /\ \A b \in Agents : b # a => subs'[b] = subs[b] /\ link'[b] = link[b]
    BY <1>0, <1>3 DEF EndSession
  <2> QED
    BY <2>1 DEF SubscriptionsRouted, Routed, PublishedAs, SubscribedAs
<1>4. ASSUME NEW m \in Masters, MasterStep(m) PROVE SubscriptionsRouted'
  BY <1>0, <1>1, <1>4
     DEF MasterStep, PostTask, CancelTask, WaitLookup, WaitSubscribe, WaitRecover,
         WaitReturn, WaitTimeout, OnOutput, RestartMaster, connections, broker
<1>5. ASSUME NEW w \in Workers, WorkerStep(w) PROVE SubscriptionsRouted'
  BY <1>0, <1>1, <1>3, <1>5
     DEF WorkerStep, Start, OnNewTask, HandlerCompletes, HandlerReturns,
         RunnerReturns, Complete, Finish, Stop, ExitStopped, Exit, connections, broker
<1>6. ASSUME NEW a \in Agents, Publish(a) \/ BrokerPublish(a) \/ Reconnect(a)
      PROVE  SubscriptionsRouted'
  BY <1>0, <1>1, <1>6 DEF Publish, BrokerPublish, Reconnect, connections, broker
<1>7. ASSUME NEW a \in Agents, BrokerDisconnect(a) \/ LinkLost(a) \/ Crash(a)
      PROVE  SubscriptionsRouted'
  BY <1>3, <1>7 DEF BrokerDisconnect, LinkLost, Crash, Exit
<1>8. CASE UNCHANGED vars
  BY <1>1, <1>8 DEF vars
<1> QED
  BY <1>2, <1>4, <1>5, <1>6, <1>7, <1>8 DEF Next, BrokerStep

\* A master whose wait a step leaves alone, whatever it has still to send.
LEMMA ComesKept ==
    ASSUME NEW m \in Masters, OutputComes(m), retained' = retained,
           proc'[m] = proc[m], job'[m] = job[m], holder'[m] = holder[m],
           subs'[m] = subs[m], inbox'[m] = inbox[m],
           \A i \in DOMAIN netq[m] : i \in DOMAIN netq'[m] /\ netq'[m][i] = netq[m][i]
    PROVE  OutputComes(m)'
BY DEF OutputComes, Waiting

\* A master that waits for nothing, or has its answer, or no session.
LEMMA ComesTrivially ==
    ASSUME NEW m \in Masters,
           proc'[m] \notin {"recovering", "polling"} \/ holder'[m] # None \/ subs'[m] = {}
    PROVE  OutputComes(m)'
BY DEF OutputComes, Waiting

\* A row that is recovered is an answer; if there is none, nothing changes.
LEMMA ComesRecovered ==
    ASSUME TypeOK, NEW m \in Masters, OutputComes(m), Recover(m), Waiting(m),
           proc'[m] \in {"recovering", "polling"}, job' = job, retained' = retained,
           subs' = subs, inbox' = inbox, netq' = netq
    PROVE  OutputComes(m)'
<1>1. holder'[m] = holder[m] \/ holder'[m] # None
  BY DEF Recover, TypeOK
<1> QED
  BY <1>1 DEF OutputComes, Waiting

\* The broker sends every publication to those who subscribed to it.
LEMMA ComesPublished ==
    ASSUME TypeOK, NEW a \in Agents, BrokerPublish(a), NEW m \in Masters, OutputComes(m)
    PROVE  OutputComes(m)'
<1> DEFINE msg == Head(netq[a]).msg
<1>1. /\ netq \in [Agents -> Seq(Packets)] /\ inbox \in [Agents -> Seq(Messages)]
      /\ m \in Agents /\ DOMAIN retained = Topics /\ subs \in [Agents -> SUBSET Topics]
  BY DEF TypeOK, Agents
<1>2. /\ netq[a] # <<>> /\ Head(netq[a]).type = "publish"
      /\ retained' = [retained EXCEPT ![msg.topic] = msg.value]
      /\ inbox' = [b \in Agents |-> IF msg.topic \in subs[b]
                                    THEN Append(inbox[b], msg) ELSE inbox[b]]
      /\ netq' = [netq EXCEPT ![a] = Tail(@)]
      /\ proc' = proc /\ job' = job /\ holder' = holder /\ subs' = subs
  BY DEF BrokerPublish, waits
<1>3. msg \in Messages
  BY <1>1, <1>2, PacketType
<1> HIDE DEF msg
<1> SUFFICES ASSUME Waiting(m), holder[m] = None, OutputTopic(job[m]) \in subs[m],
                    retained'[OutputTopic(job[m])] # None
             PROVE  \/ \E i \in DOMAIN inbox'[m] : inbox'[m][i].topic = OutputTopic(job[m])
                    \/ \E i \in DOMAIN netq'[m] :
                          netq'[m][i] = SubscribePacket({OutputTopic(job[m])})
  BY <1>2 DEF OutputComes, Waiting
<1>4. CASE msg.topic = OutputTopic(job[m])
  <2>1. inbox'[m] = Append(inbox[m], msg)
    BY <1>1, <1>2, <1>4
  <2>2. /\ Len(inbox[m]) + 1 \in DOMAIN inbox'[m]
        /\ inbox'[m][Len(inbox[m]) + 1] = msg
    BY <1>1, <1>3, <2>1, AppendProperties, LenProperties
  <2> QED
    BY <1>4, <2>2
<1>5. CASE msg.topic # OutputTopic(job[m])
  <2>1. retained[OutputTopic(job[m])] # None
    BY <1>1, <1>2, <1>5
  <2>2. \/ \E i \in DOMAIN inbox[m] : inbox[m][i].topic = OutputTopic(job[m])
        \/ \E i \in DOMAIN netq[m] : netq[m][i] = SubscribePacket({OutputTopic(job[m])})
    BY <2>1 DEF OutputComes
  <2>3. ASSUME NEW i \in DOMAIN inbox[m]
        PROVE  i \in DOMAIN inbox'[m] /\ inbox'[m][i] = inbox[m][i]
    <3>1. inbox'[m] = inbox[m] \/ inbox'[m] = Append(inbox[m], msg)
      BY <1>1, <1>2
    <3>2. Len(inbox[m]) \in Nat /\ DOMAIN inbox[m] = 1..Len(inbox[m])
      BY <1>1, LenProperties
    <3>3. /\ DOMAIN Append(inbox[m], msg) = 1..(Len(inbox[m]) + 1)
          /\ Append(inbox[m], msg)[i] = inbox[m][i]
      BY <1>1, <1>3, <2>3, <3>2, AppendProperties, LenProperties
    <3>4. i \in 1..(Len(inbox[m]) + 1)
      BY <2>3, <3>2
    <3> QED
      BY <2>3, <3>1, <3>3, <3>4
  <2>4. ASSUME NEW i \in DOMAIN netq[m],
               netq[m][i] = SubscribePacket({OutputTopic(job[m])})
        PROVE  \E j \in DOMAIN netq'[m] : netq'[m][j] = netq[m][i]
    <3>1. CASE a # m
      BY <1>1, <1>2, <3>1
    <3>2. CASE a = m
      <4>1. /\ Len(netq[m]) \in Nat /\ DOMAIN netq[m] = 1..Len(netq[m])
            /\ netq'[m] = Tail(netq[m]) /\ Head(netq[m]) = netq[m][1]
        BY <1>1, <1>2, <3>2, LenProperties
      <4>2. i # 1
        BY <1>2, <2>4, <3>2, <4>1 DEF SubscribePacket
      <4>3. /\ DOMAIN Tail(netq[m]) = 1..(Len(netq[m]) - 1)
            /\ \A j \in 1..(Len(netq[m]) - 1) : Tail(netq[m])[j] = netq[m][j + 1]
        BY <1>1, <1>2, <3>2, HeadTailProperties, LenProperties
      <4>4. i - 1 \in 1..(Len(netq[m]) - 1) /\ (i - 1) + 1 = i
        BY <4>1, <4>2
      <4> QED
        BY <4>1, <4>3, <4>4
    <3> QED
      BY <3>1, <3>2
  <2> QED
    BY <2>2, <2>3, <2>4
<1> QED
  BY <1>4, <1>5

\* The broker answers a SUBSCRIBE with what it retains.
LEMMA ComesSubscribed ==
    ASSUME TypeOK, SubscriptionsRouted, NEW m \in Masters, BrokerSubscribe(m),
           OutputComes(m)
    PROVE  OutputComes(m)'
<1> DEFINE filter == Head(netq[m]).filter
           routed == {s \in filter : Routed(s)}
<1>1. m \in Agents /\ inbox[m] \in Seq(Messages) /\ netq[m] \in Seq(Packets)
  BY DEF TypeOK, Agents
<1>2. filter \in Filters /\ netq[m] # <<>>
  BY <1>1, PacketType DEF BrokerSubscribe
<1>3. PICK msgs \in Orderings(RetainedOn(routed)) :
         inbox' = [inbox EXCEPT ![m] = @ \o msgs]
  BY DEF BrokerSubscribe
<1>4. /\ msgs \in Seq(Messages)
      /\ \A s \in filter : Routed(s) /\ retained[s] # None
            => \E i \in DOMAIN msgs : msgs[i].topic = s
  BY <1>2, <1>3, RetainedType
<1>5. /\ subs' = [subs EXCEPT ![m] = @ \cup routed] /\ netq' = [netq EXCEPT ![m] = Tail(@)]
      /\ proc' = proc /\ job' = job /\ holder' = holder /\ retained' = retained
  BY DEF BrokerSubscribe, waits
<1>6. /\ inbox'[m] = inbox[m] \o msgs /\ netq'[m] = Tail(netq[m])
      /\ subs'[m] = subs[m] \cup routed
  BY <1>1, <1>3, <1>5 DEF TypeOK
<1>7. /\ \A i \in DOMAIN inbox[m] : i \in DOMAIN inbox'[m] /\ inbox'[m][i] = inbox[m][i]
      /\ \A i \in DOMAIN msgs : /\ Len(inbox[m]) + i \in DOMAIN inbox'[m]
                               /\ inbox'[m][Len(inbox[m]) + i] = msgs[i]
  <2>1. /\ Len(inbox[m]) \in Nat /\ DOMAIN inbox[m] = 1..Len(inbox[m])
        /\ Len(msgs) \in Nat /\ DOMAIN msgs = 1..Len(msgs)
    BY <1>1, <1>4, LenProperties
  <2>2. /\ DOMAIN inbox'[m] = 1..(Len(inbox[m]) + Len(msgs))
        /\ \A i \in 1..(Len(inbox[m]) + Len(msgs)) :
              inbox'[m][i] = IF i <= Len(inbox[m]) THEN inbox[m][i]
                             ELSE msgs[i - Len(inbox[m])]
    BY <1>1, <1>4, <1>6, ConcatProperties, LenProperties
  <2>3. ASSUME NEW i \in DOMAIN inbox[m]
        PROVE  i \in DOMAIN inbox'[m] /\ inbox'[m][i] = inbox[m][i]
    <3>1. i \in 1..(Len(inbox[m]) + Len(msgs)) /\ i <= Len(inbox[m])
      BY <2>1, <2>3
    <3> QED
      BY <2>2, <3>1
  <2>4. ASSUME NEW i \in DOMAIN msgs
        PROVE  /\ Len(inbox[m]) + i \in DOMAIN inbox'[m]
               /\ inbox'[m][Len(inbox[m]) + i] = msgs[i]
    <3>1. /\ Len(inbox[m]) + i \in 1..(Len(inbox[m]) + Len(msgs))
          /\ ~(Len(inbox[m]) + i <= Len(inbox[m]))
          /\ (Len(inbox[m]) + i) - Len(inbox[m]) = i
      BY <2>1, <2>4
    <3> QED
      BY <2>2, <3>1
  <2> QED
    BY <2>3, <2>4
<1> HIDE DEF filter, routed
<1> SUFFICES ASSUME Waiting(m), holder[m] = None, OutputTopic(job[m]) \in subs'[m],
                    retained[OutputTopic(job[m])] # None
             PROVE  \/ \E i \in DOMAIN inbox'[m] : inbox'[m][i].topic = OutputTopic(job[m])
                    \/ \E i \in DOMAIN netq'[m] :
                          netq'[m][i] = SubscribePacket({OutputTopic(job[m])})
  BY <1>5 DEF OutputComes, Waiting
<1>8. CASE OutputTopic(job[m]) \in filter /\ Routed(OutputTopic(job[m]))
  <2>1. PICK i \in DOMAIN msgs : msgs[i].topic = OutputTopic(job[m])
    BY <1>4, <1>8
  <2> QED
    BY <1>7, <2>1
<1>9. CASE ~(OutputTopic(job[m]) \in filter /\ Routed(OutputTopic(job[m])))
  <2>1. OutputTopic(job[m]) \in subs[m]
    BY <1>6, <1>9 DEF routed
  <2>2. Routed(OutputTopic(job[m])) /\ OutputTopic(job[m]) \notin filter
    BY <1>1, <1>9, <2>1 DEF SubscriptionsRouted
  <2>3. Head(netq[m]) # SubscribePacket({OutputTopic(job[m])})
    BY <2>2 DEF filter, SubscribePacket
  <2>4. \/ \E i \in DOMAIN inbox[m] : inbox[m][i].topic = OutputTopic(job[m])
        \/ \E i \in DOMAIN netq[m] : netq[m][i] = SubscribePacket({OutputTopic(job[m])})
    BY <2>1 DEF OutputComes
  <2>5. ASSUME NEW i \in DOMAIN netq[m],
               netq[m][i] = SubscribePacket({OutputTopic(job[m])})
        PROVE  \E j \in DOMAIN netq'[m] : netq'[m][j] = netq[m][i]
    <3>1. /\ Len(netq[m]) \in Nat /\ DOMAIN netq[m] = 1..Len(netq[m])
          /\ Head(netq[m]) = netq[m][1]
      BY <1>1, <1>2, LenProperties
    <3>2. i # 1
      BY <2>3, <2>5, <3>1
    <3>3. /\ DOMAIN Tail(netq[m]) = 1..(Len(netq[m]) - 1)
          /\ \A j \in 1..(Len(netq[m]) - 1) : Tail(netq[m])[j] = netq[m][j + 1]
      BY <1>1, <1>2, HeadTailProperties, LenProperties
    <3>4. i - 1 \in 1..(Len(netq[m]) - 1) /\ (i - 1) + 1 = i
      BY <3>1, <3>2
    <3> QED
      BY <1>6, <3>3, <3>4
  <2> QED
    BY <1>7, <2>4, <2>5
<1> QED
  BY <1>8, <1>9

\* The callback takes the head of the inbox, and an output it waits for is kept.
LEMMA ComesTaken ==
    ASSUME TypeOK, NEW m \in Masters, OnOutput(m), OutputComes(m)
    PROVE  OutputComes(m)'
<1> DEFINE msg == Head(inbox[m])
<1>1. /\ m \in Agents /\ inbox[m] \in Seq(Messages) /\ inbox[m] # <<>>
      /\ inbox'[m] = Tail(inbox[m])
      /\ holder' = IF Waiting(m) /\ msg.topic = OutputTopic(job[m])
                   THEN [holder EXCEPT ![m] = msg.value] ELSE holder
      /\ proc' = proc /\ job' = job /\ netq' = netq /\ subs' = subs
      /\ retained' = retained
  BY DEF OnOutput, TypeOK, Agents
<1>2. msg \in Messages
  BY <1>1
<1>3. CASE Waiting(m) /\ msg.topic = OutputTopic(job[m])
  <2>1. job[m] \in Tasks
    BY <1>1, <1>3 DEF Waiting, TypeOK
  <2>2. msg.value # None
    BY <1>2, <1>3, <2>1, OutputType
  <2>3. holder'[m] = msg.value
    BY <1>1, <1>3 DEF TypeOK
  <2> QED
    BY <2>2, <2>3, ComesTrivially
<1>4. CASE Waiting(m) /\ msg.topic # OutputTopic(job[m])
  <2>1. ASSUME NEW i \in DOMAIN inbox[m], inbox[m][i].topic = OutputTopic(job[m])
        PROVE  \E j \in DOMAIN inbox'[m] : inbox'[m][j] = inbox[m][i]
    <3>1. /\ Len(inbox[m]) \in Nat /\ DOMAIN inbox[m] = 1..Len(inbox[m])
          /\ msg = inbox[m][1]
      BY <1>1, LenProperties
    <3>2. i # 1
      BY <1>4, <2>1, <3>1
    <3>3. /\ DOMAIN Tail(inbox[m]) = 1..(Len(inbox[m]) - 1)
          /\ \A j \in 1..(Len(inbox[m]) - 1) : Tail(inbox[m])[j] = inbox[m][j + 1]
      BY <1>1, HeadTailProperties, LenProperties
    <3>4. i - 1 \in 1..(Len(inbox[m]) - 1) /\ (i - 1) + 1 = i
      BY <3>1, <3>2
    <3> QED
      BY <1>1, <3>3, <3>4
  <2> HIDE DEF msg
  <2> QED
    BY <1>1, <1>4, <2>1 DEF OutputComes, Waiting
<1>5. CASE ~Waiting(m)
  BY <1>1, <1>5, ComesTrivially DEF Waiting
<1> QED
  BY <1>3, <1>4, <1>5

\* Every step of an agent, the broker and the network.
LEMMA ComesStep ==
    TypeOK /\ SubscriptionsRouted /\ OutputsCome /\ [Next]_vars => OutputsCome'
<1> SUFFICES ASSUME TypeOK, SubscriptionsRouted, [Next]_vars,
                    NEW m \in Masters, OutputComes(m)
             PROVE  OutputComes(m)'
  BY DEF OutputsCome
<1>0. /\ netq \in [Agents -> Seq(Packets)] /\ inbox \in [Agents -> Seq(Messages)]
      /\ subs \in [Agents -> SUBSET Topics] /\ DOMAIN proc = Agents
      /\ DOMAIN job = Agents /\ DOMAIN holder = Masters /\ m \in Agents
      /\ m \notin Workers /\ Masters \subseteq Agents /\ Workers \subseteq Agents
  BY BoardAssumption DEF TypeOK, Agents
<1>1. ASSUME UNCHANGED <<proc, job, holder, subs, inbox, netq, retained>>
      PROVE  OutputComes(m)'
  BY <1>1, ComesKept
<1>2. ASSUME NEW a \in Agents, Publish(a) PROVE OutputComes(m)'
  <2>1. /\ UNCHANGED <<proc, job, holder, subs, inbox, retained>>
        /\ Head(outbox[a]) \in Messages
        /\ \/ netq' = netq
           \/ netq' = [netq EXCEPT ![a] = Append(@, PublishPacket(Head(outbox[a])))]
    BY <1>2 DEF Publish, TypeOK, broker, waits
  <2>2. netq'[m] = netq[m] \/ netq'[m] = Append(netq[m], PublishPacket(Head(outbox[a])))
    BY <1>0, <2>1
  <2>3. \A i \in DOMAIN netq[m] : i \in DOMAIN netq'[m] /\ netq'[m][i] = netq[m][i]
    <3>1. netq[m] \in Seq(Packets) /\ PublishPacket(Head(outbox[a])) \in Packets
      BY <1>0, <2>1, PacketType
    <3>2. CASE netq'[m] = netq[m]
      BY <3>2
    <3>3. CASE netq'[m] = Append(netq[m], PublishPacket(Head(outbox[a])))
      BY <3>1, <3>3, PacketsOf
    <3> QED
      BY <2>2, <3>2, <3>3
  <2> QED
    BY <2>1, <2>3, ComesKept
<1>3. ASSUME NEW n \in Masters, NEW t \in Tasks, PostTask(n, t) \/ CancelTask(n, t)
      PROVE  OutputComes(m)'
  BY <1>1, <1>3 DEF PostTask, CancelTask, broker, waits
<1>4. ASSUME NEW n \in Masters, NEW t \in Tasks, WaitLookup(n, t)
      PROVE  OutputComes(m)'
  <2>1. /\ proc[n] = "idle" /\ UNCHANGED <<subs, inbox, netq, retained>>
        /\ \/ UNCHANGED <<proc, job, holder>>
           \/ /\ proc' = [proc EXCEPT ![n] = "subscribing"]
              /\ job' = [job EXCEPT ![n] = t] /\ holder' = [holder EXCEPT ![n] = None]
    BY <1>4 DEF WaitLookup, Calls, broker
  <2>2. CASE n = m
    <3>1. proc'[m] \in {"idle", "subscribing"}
      BY <1>0, <2>1, <2>2
    <3> QED
      BY <3>1, ComesTrivially
  <2>3. CASE n # m
    <3>1. proc'[m] = proc[m] /\ job'[m] = job[m] /\ holder'[m] = holder[m]
      BY <1>0, <2>1, <2>3
    <3> QED
      BY <2>1, <3>1, ComesKept
  <2> QED
    BY <2>2, <2>3
<1>5. ASSUME NEW n \in Masters, WaitSubscribe(n) PROVE OutputComes(m)'
  <2> DEFINE packet == SubscribePacket({OutputTopic(job[n])})
  <2>1. /\ n \in Agents /\ proc[n] = "subscribing"
        /\ UNCHANGED <<subs, inbox, retained, job, holder>>
        /\ proc' = [proc EXCEPT ![n] = "recovering"]
        /\ netq' = IF link[n] THEN [netq EXCEPT ![n] = Append(@, packet)] ELSE netq
    BY <1>0, <1>5 DEF WaitSubscribe, broker, waits
  <2>2. packet \in Packets
    <3>1. job[n] \in Tasks
      BY <2>1 DEF TypeOK
    <3> QED
      BY <3>1, PacketType DEF Filters
  <2> HIDE DEF packet
  <2>3. CASE n # m
    <3>1. proc'[m] = proc[m] /\ netq'[m] = netq[m]
      BY <1>0, <2>1, <2>3
    <3> QED
      BY <2>1, <3>1, ComesKept
  <2>4. CASE n = m /\ ~link[m]
    BY <1>0, <2>1, <2>4, ComesTrivially DEF SubscriptionsRouted
  <2>5. CASE n = m /\ link[m]
    <3>1. netq'[m] = Append(netq[m], packet)
      BY <1>0, <2>1, <2>5
    <3>2. \E i \in DOMAIN netq'[m] : netq'[m][i] = packet
      BY <1>0, <2>2, <3>1, PacketsOf
    <3> QED
      BY <2>1, <2>5, <3>2 DEF OutputComes, packet
  <2> QED
    BY <2>3, <2>4, <2>5
<1>6. ASSUME NEW n \in Masters, WaitRecover(n) PROVE OutputComes(m)'
  <2>1. /\ proc[n] = "recovering" /\ proc' = [proc EXCEPT ![n] = "polling"] /\ Recover(n)
        /\ UNCHANGED <<subs, inbox, netq, retained, job>>
    BY <1>6 DEF WaitRecover, broker
  <2>2. CASE n = m
    BY <1>0, <2>1, <2>2, ComesRecovered DEF Waiting
  <2>3. CASE n # m
    <3>1. proc'[m] = proc[m] /\ holder'[m] = holder[m]
      BY <1>0, <2>1, <2>3 DEF Recover
    <3> QED
      BY <2>1, <3>1, ComesKept
  <2> QED
    BY <2>2, <2>3
<1>7. ASSUME NEW n \in Masters, WaitReturn(n) \/ WaitTimeout(n) PROVE OutputComes(m)'
  <2>1. /\ proc' = [proc EXCEPT ![n] = "idle"] /\ job' = [job EXCEPT ![n] = None]
        /\ UNCHANGED <<subs, inbox, netq, retained, holder>>
    BY <1>7 DEF WaitReturn, WaitTimeout, broker, waits
  <2>2. CASE n = m
    <3>1. proc'[m] = "idle"
      BY <1>0, <2>1, <2>2
    <3> QED
      BY <3>1, ComesTrivially
  <2>3. CASE n # m
    <3>1. proc'[m] = proc[m] /\ job'[m] = job[m]
      BY <1>0, <2>1, <2>3
    <3> QED
      BY <2>1, <3>1, ComesKept
  <2> QED
    BY <2>2, <2>3
<1>8. ASSUME NEW n \in Masters, OnOutput(n) PROVE OutputComes(m)'
  <2>1. CASE n = m
    BY <1>8, <2>1, ComesTaken
  <2>2. CASE n # m
    <3>1. /\ UNCHANGED <<proc, job, subs, netq, retained>>
          /\ inbox'[m] = inbox[m] /\ holder'[m] = holder[m]
      BY <1>0, <1>8, <2>2 DEF OnOutput
    <3> QED
      BY <3>1, ComesKept
  <2> QED
    BY <2>1, <2>2
<1>9. ASSUME NEW n \in Masters, RestartMaster(n) PROVE OutputComes(m)'
  <2>1. /\ proc' = [proc EXCEPT ![n] = "idle"]
        /\ UNCHANGED <<subs, inbox, netq, retained, holder, job>>
    BY <1>9 DEF RestartMaster, broker, waits
  <2>2. proc'[m] = "idle" \/ proc'[m] = proc[m]
    BY <1>0, <2>1
  <2> QED
    BY <2>1, <2>2, ComesKept, ComesTrivially
<1>10. ASSUME NEW w \in Workers,
              Start(w) \/ OnNewTask(w) \/ Finish(w) \/ Stop(w) \/ HandlerCompletes(w)
              \/ HandlerReturns(w) \/ RunnerReturns(w)
       PROVE  OutputComes(m)'
  <2>1. w # m
    BY <1>0
  <2>2. /\ UNCHANGED <<holder, subs, retained>>
        /\ proc'[m] = proc[m] /\ job'[m] = job[m]
        /\ inbox'[m] = inbox[m] /\ netq'[m] = netq[m]
    <3>1. CASE Start(w)
      BY <1>0, <2>1, <3>1 DEF Start, broker, waits
    <3>2. CASE OnNewTask(w)
      BY <1>0, <2>1, <3>2 DEF OnNewTask, waits
    <3>3. CASE Finish(w)
      BY <1>0, <2>1, <3>3 DEF Finish, broker, waits
    <3>4. CASE Stop(w)
      BY <1>0, <2>1, <3>4 DEF Stop, broker, waits
    <3>5. CASE HandlerCompletes(w) \/ HandlerReturns(w) \/ RunnerReturns(w)
      BY <1>0, <2>1, <3>5
         DEF HandlerCompletes, HandlerReturns, RunnerReturns, Complete, broker, waits
    <3> QED
      BY <1>10, <3>1, <3>2, <3>3, <3>4, <3>5
  <2> QED
    BY <2>2, ComesKept
<1>11. ASSUME NEW a \in Agents, Exit(a), retained' = retained PROVE OutputComes(m)'
  <2>1. CASE a = m
    <3>1. proc'[m] = "down"
      BY <1>0, <1>11, <2>1 DEF Exit
    <3> QED
      BY <3>1, ComesTrivially
  <2>2. CASE a # m
    <3>1. /\ proc'[m] = proc[m] /\ job'[m] = job[m] /\ subs'[m] = subs[m]
          /\ inbox'[m] = inbox[m] /\ netq'[m] = netq[m]
      BY <1>0, <1>11, <2>2 DEF Exit, EndSession
    <3>2. holder'[m] = holder[m]
      BY <1>0, <1>11, <2>2 DEF Exit, waits
    <3> QED
      BY <1>11, <3>1, <3>2, ComesKept
  <2> QED
    BY <2>1, <2>2
<1>12. ASSUME NEW a \in Agents, BrokerSubscribe(a) PROVE OutputComes(m)'
  <2>1. CASE a = m
    BY <1>12, <2>1, ComesSubscribed
  <2>2. CASE a # m
    <3>1. /\ UNCHANGED <<proc, job, holder, retained>>
          /\ inbox'[m] = inbox[m] /\ netq'[m] = netq[m] /\ subs'[m] = subs[m]
      BY <1>0, <1>12, <2>2 DEF BrokerSubscribe, waits
    <3> QED
      BY <3>1, ComesKept
  <2> QED
    BY <2>1, <2>2
<1>13. ASSUME NEW a \in Agents, NEW kept, EndSession(a, kept),
              UNCHANGED <<proc, job, holder, retained>>
       PROVE  OutputComes(m)'
  <2>1. CASE a = m
    <3>1. subs'[m] = {}
      BY <1>0, <1>13, <2>1 DEF EndSession
    <3> QED
      BY <3>1, ComesTrivially
  <2>2. CASE a # m
    <3>1. inbox'[m] = inbox[m] /\ netq'[m] = netq[m] /\ subs'[m] = subs[m]
      BY <1>0, <1>13, <2>2 DEF EndSession
    <3> QED
      BY <1>13, <3>1, ComesKept
  <2> QED
    BY <2>1, <2>2
<1>14. ASSUME NEW a \in Agents, BrokerDisconnect(a) \/ LinkLost(a) PROVE OutputComes(m)'
  BY <1>13, <1>14 DEF BrokerDisconnect, LinkLost, waits
<1>15. ASSUME NEW a \in Agents, Reconnect(a) PROVE OutputComes(m)'
  <2>1. /\ UNCHANGED <<proc, job, subs, inbox, netq, retained>>
        /\ IF a \in Masters /\ Waiting(a) THEN Recover(a) ELSE holder' = holder
    BY <1>15 DEF Reconnect, broker
  <2>2. CASE a = m /\ Waiting(m)
    BY <2>1, <2>2, ComesRecovered DEF Waiting
  <2>3. CASE ~(a = m /\ Waiting(m))
    <3>1. holder'[m] = holder[m]
      BY <1>0, <2>1, <2>3 DEF Recover
    <3> QED
      BY <2>1, <3>1, ComesKept
  <2> QED
    BY <2>2, <2>3
<1>16. ASSUME NEW a \in Agents, BrokerPublish(a) PROVE OutputComes(m)'
  BY <1>16, ComesPublished
<1>17. CASE UNCHANGED vars
  BY <1>1, <1>17 DEF vars
<1>18. ASSUME NEW n \in Masters, MasterStep(n) PROVE OutputComes(m)'
  BY <1>3, <1>4, <1>5, <1>6, <1>7, <1>8, <1>9, <1>18 DEF MasterStep
<1>19. ASSUME NEW w \in Workers, WorkerStep(w) PROVE OutputComes(m)'
  BY <1>0, <1>10, <1>11, <1>19 DEF WorkerStep, ExitStopped
<1> QED
  BY <1>2, <1>11, <1>12, <1>14, <1>15, <1>16, <1>17, <1>18, <1>19
     DEF Next, BrokerStep, Crash

\* An output that arrives between the look into the database and the SUBSCRIBE is
\* not missed: wait_task has it, or nothing is retained, once nothing is under way.
THEOREM NoWakeupIsLost == Spec => []NoLostWakeup
<1> DEFINE I == TypeOK /\ SubscriptionsRouted /\ OutputsCome
<1>1. Init => I
  BY TypeInit
     DEF Init, SubscriptionsRouted, OutputsCome, OutputComes, Waiting, Agents
<1>2. I /\ [Next]_vars => I'
  BY TypeStep, RoutedStep, ComesStep
<1>3. I => NoLostWakeup
  <2> SUFFICES ASSUME OutputsCome, NEW m \in Masters, proc[m] = "polling", holder[m] = None,
                      OutputTopic(job[m]) \in subs[m], inbox[m] = <<>>, netq[m] = <<>>
               PROVE  retained[OutputTopic(job[m])] = None
    BY DEF NoLostWakeup
  <2>1. DOMAIN inbox[m] = {} /\ DOMAIN netq[m] = {}
    OBVIOUS
  <2>2. OutputComes(m) /\ Waiting(m)
    BY DEF OutputsCome, Waiting
  <2> QED
    BY <2>1, <2>2 DEF OutputComes
<1> QED
  BY <1>1, <1>2, <1>3, PTL DEF Spec
=============================================================================
