------------------------- MODULE WorkerAgentProofs -------------------------
(***************************************************************************)
(* Proofs about the masters and workers of bbs.py, for any numbers of      *)
(* both, any tasks and capabilities and any budget of faults.              *)
(***************************************************************************)
EXTENDS WorkerAgent, FiniteSetTheorems, TLAPS

-----------------------------------------------------------------------------
(* Sequences.                                                              *)

\* What is left when the head is taken.
LEMMA TailElements ==
    ASSUME NEW S, NEW s \in Seq(S), s # <<>>
    PROVE  /\ Head(s) \in S /\ Head(s) = s[1] /\ 1 \in DOMAIN s
           /\ Tail(s) \in Seq(S) /\ Len(Tail(s)) = Len(s) - 1
           /\ \A i \in DOMAIN Tail(s) :
                i \in Nat /\ i + 1 \in DOMAIN s /\ Tail(s)[i] = s[i + 1]
           /\ \A i \in DOMAIN s : i # 1 => i - 1 \in DOMAIN Tail(s)
OBVIOUS

\* What a sequence holds when something was appended.
LEMMA AppendElements ==
    ASSUME NEW S, NEW s \in Seq(S), NEW e \in S
    PROVE  /\ Append(s, e) \in Seq(S) /\ Len(Append(s, e)) = Len(s) + 1
           /\ \A i \in DOMAIN Append(s, e) :
                \/ i \in DOMAIN s /\ Append(s, e)[i] = s[i]
                \/ i = Len(s) + 1 /\ Append(s, e)[i] = e
           /\ \A i \in DOMAIN s : i \in DOMAIN Append(s, e) /\ Append(s, e)[i] = s[i]
OBVIOUS

\* What a sequence holds when others were put before it.
LEMMA ConcatElements ==
    ASSUME NEW S, NEW r \in Seq(S), NEW s \in Seq(S)
    PROVE  /\ r \o s \in Seq(S) /\ Len(r \o s) = Len(r) + Len(s)
           /\ \A i \in DOMAIN r : i \in DOMAIN (r \o s) /\ (r \o s)[i] = r[i]
           /\ \A i \in DOMAIN (r \o s) :
                \/ i \in DOMAIN r /\ (r \o s)[i] = r[i]
                \/ i - Len(r) \in DOMAIN s /\ (r \o s)[i] = s[i - Len(r)]
           /\ \A i \in DOMAIN s : i + Len(r) \in DOMAIN (r \o s) /\ (r \o s)[i + Len(r)] = s[i]
OBVIOUS

\* The same, by positions.
LEMMA ConcatPositions ==
    ASSUME NEW S, NEW r \in Seq(S), NEW s \in Seq(S)
    PROVE  /\ r \o s \in Seq(S) /\ Len(r \o s) = Len(r) + Len(s)
           /\ \A i \in 1..Len(r) : (r \o s)[i] = r[i]
           /\ \A i \in 1..Len(s) : (r \o s)[i + Len(r)] = s[i]
           /\ \A i \in 1..Len(r \o s) :
                i > Len(r) => i - Len(r) \in 1..Len(s) /\ (r \o s)[i] = s[i - Len(r)]
OBVIOUS

\* The orders of a finite set are sequences of its elements.
LEMMA OrdersAreSequences ==
    ASSUME NEW S, IsFiniteSet(S), NEW order \in SetToSeqs(S)
    PROVE  order \in Seq(S)
<1>1. Cardinality(S) \in Nat
  BY FS_CardinalityType
<1> QED
  BY <1>1 DEF SetToSeqs

-----------------------------------------------------------------------------
(* Calls and messages.                                                     *)

\* The calls of a master.
LEMMA MasterOpKinds ==
    ASSUME NEW e \in MasterOps
    PROVE  /\ e.task \in Tasks
           /\ \/ /\ e.op = "publish" /\ e.kind = "input" /\ e.value = "task"
                 /\ e = Pub("input", e.task, "task")
              \/ /\ e.op = "publish" /\ e.kind = "signal" /\ e.value = "cancel"
                 /\ e = Pub("signal", e.task, "cancel")
              \/ e.op = "direct" /\ e.to \in Workers
              \/ e.op = "subscribe" /\ e.kind = "output"
              \/ e.op = "recover" /\ e.kind = "output"
BY DEF MasterOps, Pub

\* The calls of a worker.
LEMMA WorkerOpKinds ==
    ASSUME NEW e \in WorkerOps
    PROVE  /\ e.task \in Tasks
           /\ \/ /\ e.op = "publish" /\ e.kind = "output" /\ e.value \in Outputs \cup {None}
                 /\ e = Pub("output", e.task, e.value)
              \/ /\ e.op = "publish" /\ e.kind = "signal" /\ e.value \in {"end", None}
                 /\ e = Pub("signal", e.task, e.value)
              \/ /\ e.op = "subscribe" /\ e.kind \in {"signal", "intervene"}
                 /\ e = Op("subscribe", e.kind, e.task)
              \/ /\ e.op = "note" /\ e.kind \in {"signal", "intervene"}
                 /\ e = Op("note", e.kind, e.task)
              \/ e.op = "recover" /\ e.kind = "signal"
              \/ e.op = "run"
              \/ e.op = "finish"
BY DEF WorkerOps, Pub, Op

\* The calls the methods of a master leave to be made.
LEMMA MasterCalls ==
    ASSUME NEW t \in Tasks, NEW w \in Workers
    PROVE  /\ Pub("input", t, "task") \in MasterOps
           /\ Pub("signal", t, "cancel") \in MasterOps
           /\ [op |-> "direct", task |-> t, to |-> w] \in MasterOps
BY DEF MasterOps, Pub, Op

\* The subscriptions of a wait.
LEMMA WaitCalls ==
    ASSUME NEW t \in Tasks
    PROVE  Op("subscribe", "output", t) \in MasterOps /\ Op("recover", "output", t) \in MasterOps
BY DEF MasterOps, Op

\* Claiming a task leaves calls about this task.
LEMMA ClaimCalls ==
    ASSUME NEW t \in Tasks
    PROVE  /\ Claim(t) \in Seq(WorkerOps) /\ Len(Claim(t)) = 6
           /\ Claim(t)[1] = Op("subscribe", "signal", t)
           /\ Claim(t)[2] = Op("recover", "signal", t)
           /\ Claim(t)[3] = Op("note", "signal", t)
           /\ Claim(t)[4] = Op("subscribe", "intervene", t)
           /\ Claim(t)[5] = Op("note", "intervene", t)
           /\ Claim(t)[6] = Op("run", "handler", t)
<1>1. /\ Op("subscribe", "signal", t) \in WorkerOps /\ Op("recover", "signal", t) \in WorkerOps
      /\ Op("note", "signal", t) \in WorkerOps /\ Op("subscribe", "intervene", t) \in WorkerOps
      /\ Op("note", "intervene", t) \in WorkerOps /\ Op("run", "handler", t) \in WorkerOps
  BY DEF WorkerOps, Op
<1> QED
  BY <1>1 DEF Claim

\* Completing a task leaves calls about this task.
LEMMA CompleteCalls ==
    ASSUME NEW t \in Tasks, NEW o \in Outputs
    PROVE  /\ Complete(t, o) \in Seq(WorkerOps) /\ Len(Complete(t, o)) = 5
           /\ Complete(t, o)[1] = Pub("output", t, o)
           /\ Complete(t, o)[2] = Pub("signal", t, "end")
           /\ Complete(t, o)[3] = Pub("output", t, None)
           /\ Complete(t, o)[4] = Pub("signal", t, None)
           /\ Complete(t, o)[5] = Op("finish", "task", t)
<1>1. /\ Pub("output", t, o) \in WorkerOps /\ Pub("signal", t, "end") \in WorkerOps
      /\ Pub("output", t, None) \in WorkerOps /\ Pub("signal", t, None) \in WorkerOps
      /\ Op("finish", "task", t) \in WorkerOps
  BY DEF WorkerOps, Pub, Op
<1> QED
  BY <1>1 DEF Complete

\* What the subscribers of a topic get.
LEMMA DeliveredType ==
    ASSUME TypeOK, NEW k, NEW t \in Tasks, NEW v,
           Heeded(k, v) => Message(k, t, v) \in Messages,
           Heeded(k, v) /\ k = "output" => Message(k, t, v) \in OutputMessages
    PROVE  /\ InboxType(Delivered(k, t, v))
           /\ \A c \in Clients :
                \/ Delivered(k, t, v)[c] = inbox[c]
                \/ /\ Delivered(k, t, v)[c] = Append(inbox[c], Message(k, t, v))
                   /\ Heeded(k, v)
<1> DEFINE q == Delivered(k, t, v)
<1>1. /\ q = [c \in Clients |-> q[c]]
      /\ \A c \in Clients :
           \/ q[c] = inbox[c]
           \/ /\ q[c] = Append(inbox[c], Message(k, t, v))
              /\ Heeded(k, v) /\ <<k, t>> \in callbacks[c]
  BY DEF Delivered
<1> HIDE DEF q
<1>2. ASSUME NEW m \in Masters PROVE q[m] \in Seq(OutputMessages)
  <2>1. inbox[m] \in Seq(OutputMessages) /\ callbacks[m] \subseteq {"output"} \X Tasks /\ m \in Clients
    BY DEF TypeOK, InboxType, CallbacksType, Clients
  <2>2. <<k, t>> \in callbacks[m] => k = "output"
    BY <2>1
  <2>3. CASE q[m] = inbox[m]
    BY <2>1, <2>3
  <2>4. CASE q[m] = Append(inbox[m], Message(k, t, v)) /\ Heeded(k, v) /\ <<k, t>> \in callbacks[m]
    BY <2>1, <2>2, <2>4
  <2> QED  BY <1>1, <2>1, <2>3, <2>4
<1>3. ASSUME NEW w \in Workers PROVE q[w] \in Seq(Messages)
  <2>1. inbox[w] \in Seq(Messages) /\ w \in Clients
    BY DEF TypeOK, InboxType, Clients
  <2>2. CASE q[w] = inbox[w]
    BY <2>1, <2>2
  <2>3. CASE q[w] = Append(inbox[w], Message(k, t, v)) /\ Heeded(k, v)
    BY <2>1, <2>3
  <2> QED  BY <1>1, <2>1, <2>2, <2>3
<1> QED  BY <1>1, <1>2, <1>3 DEF InboxType, q

-----------------------------------------------------------------------------
(* Type correctness.                                                       *)

\* Messages of the type of a client may be put into its inbox.
LEMMA PutInbox ==
    ASSUME InboxType(inbox), NEW c \in Clients, NEW s,
           c \in Masters => s \in Seq(OutputMessages),
           c \in Workers => s \in Seq(Messages)
    PROVE  InboxType([inbox EXCEPT ![c] = s])
BY DEF InboxType, Clients

\* A client may give up callbacks.
LEMMA DropTopics ==
    ASSUME CallbacksType(callbacks), NEW c \in Clients, NEW X, X \subseteq callbacks[c]
    PROVE  CallbacksType([callbacks EXCEPT ![c] = X])
<1>1. X \in SUBSET ({"input", "output", "signal", "intervene"} \X Tasks)
  BY DEF CallbacksType
<1>2. c \in Masters => X \subseteq {"output"} \X Tasks
  BY DEF CallbacksType
<1> QED  BY <1>1, <1>2 DEF CallbacksType, Clients

\* Calls of the type of a client may be left to be made.
LEMMA PutTodo ==
    ASSUME TodoType(todo), NEW c \in Clients, NEW s,
           c \in Masters => s \in Seq(MasterOps),
           c \in Workers => s \in Seq(WorkerOps)
    PROVE  TodoType([todo EXCEPT ![c] = s])
BY DEF TodoType, Clients

\* A call that was made is taken from what is left.
LEMMA AdvanceType ==
    ASSUME TypeOK, NEW c \in Clients, todo[c] # <<>>, Advance(c)
    PROVE  TodoType(todo')
<1>1. /\ c \in Masters => Tail(todo[c]) \in Seq(MasterOps)
      /\ c \in Workers => Tail(todo[c]) \in Seq(WorkerOps)
  BY TailElements DEF TypeOK, TodoType
<1> QED  BY <1>1, PutTodo DEF Advance, TypeOK

\* The next call of a client.
LEMMA HeadType ==
    ASSUME TypeOK, NEW c \in Clients, NEW op, At(c, op)
    PROVE  /\ todo[c] # <<>> /\ Head(todo[c]).op = op /\ Head(todo[c]).task \in Tasks
           /\ c \in Masters => Head(todo[c]) \in MasterOps /\ todo[c] \in Seq(MasterOps)
           /\ c \in Workers => Head(todo[c]) \in WorkerOps /\ todo[c] \in Seq(WorkerOps)
<1>1. /\ todo[c] # <<>> /\ Head(todo[c]).op = op
      /\ c \in Masters => todo[c] \in Seq(MasterOps)
      /\ c \in Workers => todo[c] \in Seq(WorkerOps)
  BY DEF At, TypeOK, TodoType
<1>2. /\ c \in Masters => Head(todo[c]) \in MasterOps
      /\ c \in Workers => Head(todo[c]) \in WorkerOps
  BY <1>1, TailElements
<1> QED  BY <1>1, <1>2, MasterOpKinds, WorkerOpKinds DEF Clients

\* A row of the right type may be written.
LEMMA PutRow ==
    ASSUME NEW d, StoreType(d), NEW k \in Kinds, NEW t \in Tasks, NEW v,
           k = "output" => v \in Outputs \cup {None},
           k # "output" => v \in Texts \cup {None}
    PROVE  /\ StoreType([d EXCEPT ![k][t] = v])
           /\ \A j \in Kinds, u \in Tasks :
                [d EXCEPT ![k][t] = v][j][u] = IF j = k /\ u = t THEN v ELSE d[j][u]
BY DEF StoreType, Kinds

\* What a client publishes next.
LEMMA PublishedNext ==
    ASSUME TypeOK, NEW c \in Clients, At(c, "publish")
    PROVE  /\ Head(todo[c]).kind \in Kinds /\ Head(todo[c]).task \in Tasks
           /\ Head(todo[c]).kind = "output" => Head(todo[c]).value \in Outputs \cup {None}
           /\ Head(todo[c]).kind # "output" => Head(todo[c]).value \in Texts \cup {None}
<1>1. CASE c \in Masters
  <2>1. Head(todo[c]) \in MasterOps /\ Head(todo[c]).op = "publish"
    BY <1>1, HeadType
  <2> QED  BY <2>1, MasterOpKinds DEF Kinds, Texts
<1>2. CASE c \in Workers
  <2>1. Head(todo[c]) \in WorkerOps /\ Head(todo[c]).op = "publish"
    BY <1>2, HeadType
  <2> QED  BY <2>1, WorkerOpKinds DEF Kinds, Texts
<1> QED  BY <1>1, <1>2 DEF Clients

\* A message about a row has the type of messages.
LEMMA RowMessage ==
    ASSUME NEW k \in Kinds, NEW t \in Tasks, NEW v, Heeded(k, v),
           k = "output" => v \in Outputs \cup {None},
           k # "output" => v \in Texts \cup {None}
    PROVE  /\ Message(k, t, v) \in Messages
           /\ k = "output" => Message(k, t, v) \in OutputMessages
<1>1. CASE k = "output"
  BY <1>1 DEF Heeded, Message, Messages, OutputMessages
<1>2. CASE k # "output"
  <2>1. v \in Texts \cup {"command"} /\ k \in {"input", "signal"}
    BY <1>2 DEF Heeded, Kinds
  <2> QED  BY <1>2, <2>1 DEF Message, Messages
<1> QED  BY <1>1, <1>2

\* What is spent of the budget is counted.
LEMMA SpendType ==
    ASSUME TypeOK, NEW k \in {"direct", "cancel", "call", "fault"}, NEW n \in Nat, Spend(k, n)
    PROVE  spent' \in [DOMAIN Budget -> Nat] /\ spent[k] \in Nat /\ spent'[k] = spent[k] + n
<1>1. DOMAIN Budget = {"direct", "cancel", "call", "fault"}
  BY AgentsAssumption
<1>2. spent \in [DOMAIN Budget -> Nat] /\ k \in DOMAIN Budget
  BY <1>1 DEF TypeOK
<1>3. spent' = [spent EXCEPT ![k] = spent[k] + n]
  BY DEF Spend
<1> QED  BY <1>2, <1>3

\* Publishing.
LEMMA PublishType ==
    ASSUME TypeOK, NEW c \in Clients, NEW allowed \in BOOLEAN, Publish(c, allowed)
    PROVE  TypeOK'
<1> DEFINE p == Head(todo[c])
<1>1. At(c, "publish") /\ todo[c] # <<>> /\ Advance(c)
  BY DEF Publish, At
<1>2. /\ p.kind \in Kinds /\ p.task \in Tasks
      /\ p.kind = "output" => p.value \in Outputs \cup {None}
      /\ p.kind # "output" => p.value \in Texts \cup {None}
  BY <1>1, PublishedNext
<1>3. /\ db' = [db EXCEPT ![p.kind][p.task] = p.value]
      /\ kept' = IF allowed THEN [kept EXCEPT ![p.kind][p.task] = p.value] ELSE kept
      /\ inbox' = IF allowed THEN Delivered(p.kind, p.task, p.value) ELSE inbox
  BY DEF Publish
<1> HIDE DEF p
<1>s. spent' \in [DOMAIN Budget -> Nat]
  <2>1. (IF allowed THEN 0 ELSE 1) \in Nat /\ Spend("fault", IF allowed THEN 0 ELSE 1)
    BY DEF Publish
  <2> HIDE DEF Spend
  <2> QED  BY <2>1, SpendType
<1>4. StoreType(db') /\ StoreType(kept')
  BY <1>2, <1>3, PutRow DEF TypeOK
<1>5. InboxType(inbox')
  <2>1. Heeded(p.kind, p.value) =>
          /\ Message(p.kind, p.task, p.value) \in Messages
          /\ p.kind = "output" => Message(p.kind, p.task, p.value) \in OutputMessages
    BY <1>2, RowMessage
  <2>2. InboxType(Delivered(p.kind, p.task, p.value))
    BY <1>2, <2>1, DeliveredType
  <2> QED  BY <1>3, <2>2 DEF TypeOK
<1>6. TodoType(todo')
  BY <1>1, AdvanceType
<1> QED
  BY <1>s, <1>4, <1>5, <1>6 DEF Publish, TypeOK, Config, Worker, Requests

\* Subscribing.
LEMMA SubscribeType ==
    ASSUME TypeOK, NEW c \in Clients, Subscribe(c)
    PROVE  TypeOK'
<1> DEFINE k == Head(todo[c]).kind
           t == Head(todo[c]).task
           held == IF k \in Kinds THEN kept[k][t] ELSE None
<1>1. At(c, "subscribe") /\ todo[c] # <<>> /\ Advance(c)
  BY DEF Subscribe, At
<1>2. /\ t \in Tasks
      /\ c \in Masters => k = "output"
      /\ k \in {"output", "signal", "intervene"}
  <2>1. CASE c \in Masters
    BY <1>1, <2>1, HeadType, MasterOpKinds
  <2>2. CASE c \in Workers
    <3>1. Head(todo[c]) \in WorkerOps /\ Head(todo[c]).op = "subscribe"
      BY <1>1, <2>2, HeadType
    <3>2. c \notin Masters
      BY <2>2, AgentsAssumption
    <3> QED  BY <3>1, <3>2, WorkerOpKinds
  <2> QED  BY <2>1, <2>2 DEF Clients
<1>3. /\ callbacks' = [callbacks EXCEPT ![c] = @ \cup {<<k, t>>}]
      /\ inbox' = IF ~prefixed /\ Heeded(k, held)
                    THEN [inbox EXCEPT ![c] = Append(@, Message(k, t, held))] ELSE inbox
  BY DEF Subscribe
<1>4. Heeded(k, held) =>
        /\ Message(k, t, held) \in Messages
        /\ k = "output" => Message(k, t, held) \in OutputMessages
  <2>1. CASE k \in Kinds
    <3>1. /\ k = "output" => held \in Outputs \cup {None}
          /\ k # "output" => held \in Texts \cup {None}
      <4>1. /\ kept["output"][t] \in Outputs \cup {None}
            /\ \A j \in Kinds \ {"output"} : kept[j][t] \in Texts \cup {None}
        BY <1>2 DEF TypeOK, StoreType
      <4> QED  BY <2>1, <4>1
    <3> HIDE DEF k, t, held
    <3> QED  BY <1>2, <2>1, <3>1, RowMessage
  <2>2. CASE k \notin Kinds
    BY <2>2 DEF Heeded
  <2> QED  BY <2>1, <2>2
<1> HIDE DEF k, t, held
<1>5. CallbacksType(callbacks')
  BY <1>2, <1>3 DEF TypeOK, CallbacksType
<1>6. InboxType(inbox')
  <2>1. CASE ~prefixed /\ Heeded(k, held)
    <3>1. c \in Masters => Append(inbox[c], Message(k, t, held)) \in Seq(OutputMessages)
      BY <1>2, <1>4, <2>1, AppendElements DEF TypeOK, InboxType
    <3>2. c \in Workers => Append(inbox[c], Message(k, t, held)) \in Seq(Messages)
      BY <1>4, <2>1, AppendElements DEF TypeOK, InboxType
    <3> QED  BY <1>3, <2>1, <3>1, <3>2, PutInbox DEF TypeOK
  <2> QED  BY <1>3, <2>1 DEF TypeOK
<1>7. TodoType(todo')
  BY <1>1, AdvanceType
<1> QED
  BY <1>5, <1>6, <1>7 DEF Subscribe, TypeOK, Config, Topics, Worker, Requests

\* Posting and pushing tasks, cancelling them and sending commands.
LEMMA RequestType ==
    ASSUME TypeOK, NEW m \in Masters,
           \/ \E t \in Tasks : \E targets \in SUBSET Workers : Post(m, t, targets)
           \/ \E t \in Tasks : \E w \in Workers : Push(m, t, w)
           \/ \E t \in Tasks : CancelTask(m, t) \/ Intervene(m, t)
           \/ Direct(m) \/ Shutdown(m)
    PROVE  TypeOK'
<1>0. m \in Clients /\ m \notin Workers
  BY AgentsAssumption DEF Clients
<1>1. ASSUME NEW t \in Tasks, NEW targets \in SUBSET Workers, Post(m, t, targets)
      PROVE  TypeOK'
  <2>1. IsFiniteSet(targets) /\ Cardinality(targets) \in Nat
    BY FS_Subset, FS_CardinalityType, AgentsAssumption
  <2>2. PICK order \in SetToSeqs(targets) :
          todo' = [todo EXCEPT ![m] =
                     <<Pub("input", t, "task")>> \o
                       [i \in DOMAIN order |-> [op |-> "direct", task |-> t, to |-> order[i]]]]
    BY <1>1 DEF Post
  <2>3. order \in Seq(targets)
    BY <2>1, OrdersAreSequences
  <2> DEFINE pushed == [i \in DOMAIN order |-> [op |-> "direct", task |-> t, to |-> order[i]]]
  <2>4. pushed \in Seq(MasterOps)
    <3>1. \A i \in DOMAIN order : order[i] \in Workers
      BY <2>3
    <3>2. \A i \in DOMAIN order : [op |-> "direct", task |-> t, to |-> order[i]] \in MasterOps
      BY <3>1, MasterCalls
    <3> QED  BY <2>3, <3>2
  <2>5. <<Pub("input", t, "task")>> \in Seq(MasterOps)
    <3>1. Pub("input", t, "task") \in MasterOps
      BY DEF Pub, MasterOps
    <3> QED  BY <3>1
  <2> HIDE DEF pushed
  <2>6. <<Pub("input", t, "task")>> \o pushed \in Seq(MasterOps)
    BY <2>4, <2>5, ConcatElements
  <2>7. todo' = [todo EXCEPT ![m] = <<Pub("input", t, "task")>> \o pushed]
    BY <2>2 DEF pushed
  <2>8. TodoType(todo')
    BY <1>0, <2>6, <2>7, PutTodo DEF TypeOK
  <2>9. spent' \in [DOMAIN Budget -> Nat]
    BY <1>1, <2>1, SpendType DEF Post
  <2>10. given' \subseteq Tasks
    BY <1>1 DEF Post, TypeOK
  <2> QED
    BY <1>1, <2>8, <2>9, <2>10 DEF Post, TypeOK, Config, Topics, Worker
<1>2. ASSUME NEW t \in Tasks, NEW w \in Workers, Push(m, t, w)
      PROVE  TypeOK'
  <2>1. TodoType(todo')
    <3>1. <<[op |-> "direct", task |-> t, to |-> w]>> \in Seq(MasterOps)
      BY MasterCalls
    <3> QED  BY <1>0, <1>2, <3>1, PutTodo DEF Push, TypeOK
  <2>2. spent' \in [DOMAIN Budget -> Nat]
    BY <1>2, SpendType DEF Push
  <2>3. given' \subseteq Tasks
    BY <1>2 DEF Push, TypeOK
  <2> QED
    BY <1>2, <2>1, <2>2, <2>3 DEF Push, TypeOK, Config, Topics, Worker
<1>3. ASSUME NEW t \in Tasks, CancelTask(m, t)
      PROVE  TypeOK'
  <2>1. TodoType(todo')
    <3>1. <<Pub("signal", t, "cancel")>> \in Seq(MasterOps)
      <4>1. Pub("signal", t, "cancel") \in MasterOps
        BY DEF Pub, MasterOps
      <4> QED  BY <4>1
    <3> QED  BY <1>0, <1>3, <3>1, PutTodo DEF CancelTask, TypeOK
  <2>2. spent' \in [DOMAIN Budget -> Nat]
    BY <1>3, SpendType DEF CancelTask
  <2>3. cancelled' \subseteq Tasks
    BY <1>3 DEF CancelTask, TypeOK
  <2> QED
    BY <1>3, <2>1, <2>2, <2>3 DEF CancelTask, TypeOK, Config, Topics, Worker
<1>4. ASSUME NEW t \in Tasks, Intervene(m, t)
      PROVE  TypeOK'
  <2>1. Message("intervene", t, "command") \in Messages
    BY DEF Message, Messages
  <2>2. InboxType(inbox')
    BY <1>4, <2>1, DeliveredType DEF Intervene
  <2>3. spent' \in [DOMAIN Budget -> Nat]
    BY <1>4, SpendType DEF Intervene
  <2> QED
    BY <1>4, <2>2, <2>3 DEF Intervene, TypeOK, Config, Topics, Worker, Requests
<1>5. CASE Direct(m)
  <2> DEFINE w == Head(todo[m]).to
             t == Head(todo[m]).task
  <2>1. At(m, "direct") /\ Advance(m)
    BY <1>5 DEF Direct
  <2>2. w \in Workers /\ t \in Tasks /\ todo[m] # <<>>
    BY <1>0, <2>1, HeadType, MasterOpKinds
  <2>3. InboxType(inbox')
    <3>1. inbox' = IF main[w] \in {"running", "stopping"}
                     THEN [inbox EXCEPT ![w] = Append(@, Message("direct", t, "task"))] ELSE inbox
      BY <1>5 DEF Direct
    <3> HIDE DEF w, t
    <3>2. w \in Clients /\ w \notin Masters
      BY <2>2, AgentsAssumption DEF Clients
    <3>3. Message("direct", t, "task") \in Messages
      BY <2>2 DEF Message, Messages, Texts
    <3>4. Append(inbox[w], Message("direct", t, "task")) \in Seq(Messages)
      BY <2>2, <3>3 DEF TypeOK, InboxType
    <3> QED  BY <3>1, <3>2, <3>4, PutInbox DEF TypeOK
  <2>4. TodoType(todo')
    BY <1>0, <2>1, <2>2, AdvanceType
  <2> QED
    BY <1>5, <2>3, <2>4 DEF Direct, TypeOK, Config, Topics, Worker, Requests
<1>6. CASE Shutdown(m)
  <2>1. InboxType(inbox')
    <3>1. Message("global", None, "shutdown") \in Messages
      BY DEF Message, Messages
    <3>2. \A w \in Workers :
            Append(inbox[w], Message("global", None, "shutdown")) \in Seq(Messages)
      BY <3>1 DEF TypeOK, InboxType
    <3>3. /\ inbox' = [c \in Clients |-> inbox'[c]]
          /\ \A c \in Clients : \/ inbox'[c] = inbox[c]
                                \/ /\ c \in Workers
                                   /\ inbox'[c] = Append(inbox[c], Message("global", None, "shutdown"))
      BY <1>6 DEF Shutdown
    <3>4. ASSUME NEW a \in Masters PROVE inbox'[a] \in Seq(OutputMessages)
      BY <3>3, AgentsAssumption DEF TypeOK, InboxType, Clients
    <3>5. ASSUME NEW w \in Workers PROVE inbox'[w] \in Seq(Messages)
      BY <3>2, <3>3 DEF TypeOK, InboxType, Clients
    <3> QED  BY <3>3, <3>4, <3>5 DEF InboxType
  <2>2. spent' \in [DOMAIN Budget -> Nat]
    BY <1>6, SpendType DEF Shutdown
  <2> QED
    BY <1>6, <2>1, <2>2 DEF Shutdown, TypeOK, Config, Topics, Worker, Requests
<1> QED  BY <1>1, <1>2, <1>3, <1>4, <1>5, <1>6

\* What a master waits for, when one of its results is entered.
LEMMA PutResult ==
    ASSUME NEW waits \in [Masters -> [tasks : SUBSET Tasks,
                                       results : [Tasks -> Outputs \cup {None}]]],
           NEW m \in Masters, NEW t \in Tasks, NEW v \in Outputs \cup {None}
    PROVE  [waits EXCEPT ![m].results[t] = v]
             \in [Masters -> [tasks : SUBSET Tasks, results : [Tasks -> Outputs \cup {None}]]]
  OBVIOUS

\* Waiting for outputs.
LEMMA WaitType ==
    ASSUME TypeOK, NEW m \in Masters,
           \/ \E ts \in SUBSET Tasks \ {{}} : Wait(m, ts)
           \/ RecoverOutput(m) \/ TakeOutput(m) \/ WaitEnds(m) \/ TimeOut(m)
    PROVE  TypeOK'
<1>0. /\ m \in Clients /\ m \notin Workers
      /\ NoWait \in [tasks : SUBSET Tasks, results : [Tasks -> Outputs \cup {None}]]
  BY AgentsAssumption DEF Clients, NoWait, NoResults
<1>1. ASSUME NEW ts \in SUBSET Tasks, Wait(m, ts)
      PROVE  TypeOK'
  <2>1. IsFiniteSet(ts)
    BY FS_Subset, AgentsAssumption
  <2>2. PICK order \in SetToSeqs(ts) :
          todo' = [todo EXCEPT ![m] =
                     [i \in 1..2 * Len(order) |->
                        Op(IF i % 2 = 1 THEN "subscribe" ELSE "recover", "output",
                           order[(i + 1) \div 2])]]
    BY <1>1 DEF Wait
  <2>3. order \in Seq(ts)
    BY <2>1, OrdersAreSequences
  <2> DEFINE calls == [i \in 1..2 * Len(order) |->
                         Op(IF i % 2 = 1 THEN "subscribe" ELSE "recover", "output",
                            order[(i + 1) \div 2])]
  <2>4. calls \in Seq(MasterOps)
    <3>1. ASSUME NEW i \in 1..2 * Len(order)
          PROVE  order[(i + 1) \div 2] \in Tasks
      <4>1. (i + 1) \div 2 \in 1..Len(order)
        BY <2>3
      <4> QED  BY <2>3, <4>1
    <3>2. \A i \in 1..2 * Len(order) :
            Op(IF i % 2 = 1 THEN "subscribe" ELSE "recover", "output", order[(i + 1) \div 2])
              \in MasterOps
      BY <3>1, WaitCalls
    <3>3. 2 * Len(order) \in Nat
      BY <2>3
    <3> QED  BY <3>2, <3>3
  <2> HIDE DEF calls
  <2>5. TodoType(todo')
    <3>1. todo' = [todo EXCEPT ![m] = calls]
      BY <2>2 DEF calls
    <3> QED  BY <1>0, <2>4, <3>1, PutTodo DEF TypeOK
  <2>6. spent' \in [DOMAIN Budget -> Nat]
    BY <1>1, SpendType DEF Wait
  <2>7. wait' \in [Masters -> [tasks : SUBSET Tasks, results : [Tasks -> Outputs \cup {None}]]]
    BY <1>1 DEF Wait, TypeOK, NoResults
  <2> QED
    BY <1>1, <2>5, <2>6, <2>7 DEF Wait, TypeOK, Config, Topics, Worker, Requests
<1>2. CASE RecoverOutput(m)
  <2>1. At(m, "recover") /\ Advance(m)
    BY <1>2 DEF RecoverOutput
  <2>2. Head(todo[m]).task \in Tasks /\ todo[m] # <<>>
    BY <1>0, <2>1, HeadType
  <2>3. TodoType(todo')
    BY <1>0, <2>1, <2>2, AdvanceType
  <2>4. db["output"][Head(todo[m]).task] \in Outputs \cup {None}
    BY <2>2 DEF TypeOK, StoreType
  <2>5. \/ wait' = wait
        \/ wait' = [wait EXCEPT ![m].results[Head(todo[m]).task] =
                                  db["output"][Head(todo[m]).task]]
    BY <1>2 DEF RecoverOutput
  <2>6. wait' \in [Masters -> [tasks : SUBSET Tasks, results : [Tasks -> Outputs \cup {None}]]]
    <3>1. wait \in [Masters -> [tasks : SUBSET Tasks, results : [Tasks -> Outputs \cup {None}]]]
      BY DEF TypeOK
    <3>2. CASE wait' = wait
      BY <3>1, <3>2
    <3>3. CASE wait' = [wait EXCEPT ![m].results[Head(todo[m]).task] = db["output"][Head(todo[m]).task]]
      <4>1. PICK t \in Tasks, v \in Outputs \cup {None} :
               wait' = [wait EXCEPT ![m].results[t] = v]
        BY <2>2, <2>4, <3>3, Zenon
      <4> QED  BY <3>1, <4>1, PutResult
    <3> QED  BY <2>5, <3>2, <3>3
  <2> QED
    BY <1>2, <2>3, <2>6 DEF RecoverOutput, TypeOK, Config, Topics, Worker, Requests
<1>3. CASE TakeOutput(m)
  <2>1. inbox[m] \in Seq(OutputMessages) /\ inbox[m] # <<>>
    BY <1>3 DEF TakeOutput, TypeOK, InboxType
  <2>2. Head(inbox[m]) \in OutputMessages /\ Tail(inbox[m]) \in Seq(OutputMessages)
    BY <2>1, TailElements
  <2>3. InboxType(inbox')
    BY <1>0, <1>3, <2>2, PutInbox DEF TakeOutput, TypeOK
  <2>4. Head(inbox[m]).task \in Tasks /\ Head(inbox[m]).value \in Outputs
    BY <2>2 DEF OutputMessages
  <2>5. \/ wait' = wait
        \/ wait' = [wait EXCEPT ![m].results[Head(inbox[m]).task] = Head(inbox[m]).value]
    BY <1>3 DEF TakeOutput
  <2>6. wait' \in [Masters -> [tasks : SUBSET Tasks, results : [Tasks -> Outputs \cup {None}]]]
    <3>1. wait \in [Masters -> [tasks : SUBSET Tasks, results : [Tasks -> Outputs \cup {None}]]]
      BY DEF TypeOK
    <3>2. CASE wait' = wait
      BY <3>1, <3>2
    <3>3. CASE wait' = [wait EXCEPT ![m].results[Head(inbox[m]).task] = Head(inbox[m]).value]
      <4>1. PICK t \in Tasks, v \in Outputs \cup {None} :
               wait' = [wait EXCEPT ![m].results[t] = v]
        BY <2>4, <3>3, Zenon
      <4> QED  BY <3>1, <4>1, PutResult
    <3> QED  BY <2>5, <3>2, <3>3
  <2> QED
    BY <1>3, <2>3, <2>6 DEF TakeOutput, TypeOK, Config, Topics, Worker, Requests
<1>4. CASE WaitEnds(m) \/ TimeOut(m)
  <2>1. wait' \in [Masters -> [tasks : SUBSET Tasks, results : [Tasks -> Outputs \cup {None}]]]
    BY <1>0, <1>4 DEF WaitEnds, TimeOut, TypeOK
  <2>2. CallbacksType(callbacks')
    <3>1. PICK X : callbacks' = [callbacks EXCEPT ![m] = callbacks[m] \ X]
      BY <1>4 DEF WaitEnds, TimeOut, Unsubscribed
    <3> QED  BY <1>0, <3>1, DropTopics DEF TypeOK
  <2> QED
    BY <1>4, <2>1, <2>2 DEF WaitEnds, TimeOut, TypeOK, Config, Topics, Worker, Requests
<1> QED  BY <1>1, <1>2, <1>3, <1>4

\* What complete() leaves to be made, if there is a task to complete.
LEMMA CompletesType ==
    ASSUME TypeOK, NEW w \in Workers, NEW of, NEW how \in {"handled", "cancelled"},
           NEW rest \in Seq(WorkerOps), CompletesThen(w, of, how, rest),
           current[w] # None => of \in Tasks
    PROVE  /\ TodoType(todo') /\ due' \in [Workers -> Int]
           /\ \/ /\ current[w] = None /\ todo' = [todo EXCEPT ![w] = rest] /\ due' = due
              \/ /\ current[w] # None /\ current[w] \in Tasks
                 /\ Output(current[w], of, how) \in Outputs
                 /\ todo' = [todo EXCEPT ![w] =
                               Complete(current[w], Output(current[w], of, how)) \o rest]
                 /\ due' = [due EXCEPT ![w] = @ - 1]
<1>0. w \in Clients /\ w \notin Masters /\ current[w] \in Tasks \cup {None}
  BY AgentsAssumption DEF Clients, TypeOK
<1>1. CASE current[w] = None
  <2>1. todo' = [todo EXCEPT ![w] = rest] /\ due' = due
    BY <1>1 DEF CompletesThen
  <2>2. TodoType(todo')
    BY <1>0, <2>1, PutTodo DEF TypeOK
  <2> QED  BY <1>1, <2>1, <2>2 DEF TypeOK
<1>2. CASE current[w] # None
  <2> DEFINE o == Output(current[w], of, how)
  <2>1. o \in Outputs /\ current[w] \in Tasks
    BY <1>0, <1>2 DEF Output, Outputs
  <2>2. todo' = [todo EXCEPT ![w] = Complete(current[w], o) \o rest] /\ due' = [due EXCEPT ![w] = @ - 1]
    BY <1>2 DEF CompletesThen
  <2> HIDE DEF o
  <2>3. Complete(current[w], o) \o rest \in Seq(WorkerOps)
    BY <2>1, CompleteCalls, ConcatElements
  <2>4. TodoType(todo')
    BY <1>0, <2>2, <2>3, PutTodo DEF TypeOK
  <2>5. due' \in [Workers -> Int]
    BY <2>2 DEF TypeOK
  <2> QED  BY <1>2, <2>1, <2>2, <2>4, <2>5 DEF o
<1> QED  BY <1>1, <1>2

\* start(), stop() and crashes.
LEMMA MainType ==
    ASSUME TypeOK, NEW w \in Workers,
           \/ Start(w) \/ Listen(w) \/ Stop(w) \/ Disconnect(w) \/ Stopped(w) \/ Crash(w)
    PROVE  TypeOK'
<1>0. /\ w \in Clients /\ w \notin Masters
      /\ <<>> \in Seq(Messages) /\ <<>> \in Seq(WorkerOps)
  BY AgentsAssumption DEF Clients
<1>1. CASE Start(w)
  <2>1. /\ main' \in [Workers -> {"new", "listening", "running", "stopping", "leaving", "stopped"}]
        /\ node' \in [Workers -> {"none", "online", "busy", "offline"}]
    BY <1>1 DEF Start, TypeOK
  <2> QED
    BY <1>1, <2>1 DEF Start, TypeOK, Config, Topics, Requests
<1>2. CASE Listen(w)
  <2>1. main' \in [Workers -> {"new", "listening", "running", "stopping", "leaving", "stopped"}]
    BY <1>2 DEF Listen, TypeOK
  <2>2. CallbacksType(callbacks')
    <3>1. callbacks' = [callbacks EXCEPT ![w] = @ \cup {<<"input", t>> : t \in Tasks}]
      BY <1>2 DEF Listen
    <3> QED  BY <1>0, <3>1 DEF TypeOK, CallbacksType
  <2>3. InboxType(inbox')
    <3> DEFINE held == {t \in Tasks : kept["input"][t] # None}
    <3>1. PICK order \in SetToSeqs(held) :
            inbox' = IF prefixed THEN inbox
                     ELSE [inbox EXCEPT ![w] = @ \o [i \in DOMAIN order |->
                                                       Message("input", order[i], "task")]]
      BY <1>2 DEF Listen
    <3>2. order \in Seq(held)
      <4>1. IsFiniteSet(held)
        BY FS_Subset, AgentsAssumption
      <4> HIDE DEF held
      <4> QED  BY <4>1, OrdersAreSequences
    <3> DEFINE sent == [i \in DOMAIN order |-> Message("input", order[i], "task")]
    <3>3. sent \in Seq(Messages)
      <4>1. \A i \in DOMAIN order : order[i] \in Tasks
        BY <3>2
      <4>2. \A t \in Tasks : Message("input", t, "task") \in Messages
        BY DEF Message, Messages, Texts
      <4>3. \A i \in DOMAIN order : Message("input", order[i], "task") \in Messages
        BY <4>1, <4>2
      <4> QED  BY <3>2, <4>3
    <3>4. inbox' = IF prefixed THEN inbox ELSE [inbox EXCEPT ![w] = @ \o sent]
      BY <3>1
    <3> HIDE DEF sent
    <3>5. inbox[w] \o sent \in Seq(Messages)
      BY <3>3, ConcatElements DEF TypeOK, InboxType
    <3> QED  BY <1>0, <3>4, <3>5, PutInbox DEF TypeOK
  <2> QED
    BY <1>2, <2>1, <2>2, <2>3 DEF Listen, TypeOK, Config, Topics, Requests
<1>3. CASE Stop(w)
  <2>1. /\ main' \in [Workers -> {"new", "listening", "running", "stopping", "leaving", "stopped"}]
        /\ node' \in [Workers -> {"none", "online", "busy", "offline"}]
    BY <1>3 DEF Stop, TypeOK
  <2>2. spent' \in [DOMAIN Budget -> Nat]
    BY <1>3, SpendType DEF Stop
  <2> QED
    BY <1>3, <2>1, <2>2 DEF Stop, TypeOK, Config, Topics, Requests
<1>4. CASE Disconnect(w)
  <2>1. main' \in [Workers -> {"new", "listening", "running", "stopping", "leaving", "stopped"}]
    BY <1>4 DEF Disconnect, TypeOK
  <2>2. InboxType(inbox')
    BY <1>0, <1>4, PutInbox DEF Disconnect, TypeOK
  <2> QED
    BY <1>4, <2>1, <2>2 DEF Disconnect, TypeOK, Config, Topics, Requests
<1>5. CASE Stopped(w)
  <2>1. main' \in [Workers -> {"new", "listening", "running", "stopping", "leaving", "stopped"}]
    BY <1>5 DEF Stopped, TypeOK
  <2> QED
    BY <1>5, <2>1 DEF Stopped, TypeOK, Config, Topics, Requests
<1>6. CASE Crash(w)
  <2>1. main' \in [Workers -> {"new", "listening", "running", "stopping", "leaving", "stopped"}]
    BY <1>6 DEF Crash, TypeOK
  <2>2. InboxType(inbox')
    BY <1>0, <1>6, PutInbox DEF Crash, TypeOK
  <2>3. TodoType(todo')
    BY <1>0, <1>6, PutTodo DEF Crash, TypeOK
  <2>4. CallbacksType(callbacks')
    BY <1>0, <1>6, DropTopics DEF Crash, TypeOK
  <2>5. spent' \in [DOMAIN Budget -> Nat]
    BY <1>6, SpendType DEF Crash
  <2>6. /\ current' \in [Workers -> Tasks \cup {None}]
        /\ commands' \in [Workers -> SUBSET Tasks]
        /\ dynamic' \in [Workers -> SUBSET ({"signal", "intervene"} \X Tasks)]
    BY <1>6 DEF Crash, TypeOK
  <2> QED
    BY <1>6, <2>1, <2>2, <2>3, <2>4, <2>5, <2>6 DEF Crash, TypeOK, Config, Topics, Requests
<1> QED  BY <1>1, <1>2, <1>3, <1>4, <1>5, <1>6

\* The callbacks.
LEMMA TakeType ==
    ASSUME TypeOK, NEW w \in Workers,
           TakeTask(w) \/ TakeSignal(w) \/ TakeCommand(w) \/ TakeShutdown(w)
    PROVE  TypeOK'
<1>0. /\ w \in Clients /\ w \notin Masters
      /\ <<>> \in Seq(Messages) /\ <<>> \in Seq(WorkerOps)
  BY AgentsAssumption DEF Clients
<1>1. /\ inbox[w] \in Seq(Messages) /\ inbox[w] # <<>> /\ Idle(w)
      /\ Msg(w) \in Messages /\ Tail(inbox[w]) \in Seq(Messages)
  <2>1. inbox[w] \in Seq(Messages) /\ inbox[w] # <<>> /\ Idle(w)
    BY DEF TakeTask, TakeSignal, TakeCommand, TakeShutdown, Idle, TypeOK, InboxType
  <2> QED  BY <2>1, TailElements DEF Msg
<1>2. Received(w) => InboxType(inbox')
  <2>1. InboxType([inbox EXCEPT ![w] = Tail(inbox[w])])
    BY <1>0, <1>1, PutInbox DEF TypeOK
  <2> QED  BY <2>1 DEF Received
<1>3. Msg(w).kind \in {"input", "direct", "signal", "intervene"} => Msg(w).task \in Tasks
  BY <1>1 DEF Messages, OutputMessages
<1>4. CASE TakeTask(w)
  <2>1. Msg(w).task \in Tasks /\ InboxType(inbox')
    BY <1>2, <1>3, <1>4 DEF TakeTask
  <2>2. CASE <<w, Msg(w).task>> \in Capable
    <3>1. TodoType(todo')
      <4>1. Claim(Msg(w).task) \in Seq(WorkerOps)
        BY <2>1, ClaimCalls
      <4> QED  BY <1>0, <1>4, <2>2, <4>1, PutTodo DEF TakeTask, TypeOK
    <3>2. /\ current' \in [Workers -> Tasks \cup {None}]
          /\ node' \in [Workers -> {"none", "online", "busy", "offline"}]
          /\ due' \in [Workers -> Int]
      BY <1>4, <2>1, <2>2 DEF TakeTask, TypeOK
    <3> QED
      BY <1>4, <2>1, <3>1, <3>2 DEF TakeTask, TypeOK, Config, Topics, Requests
  <2>3. CASE <<w, Msg(w).task>> \notin Capable
    BY <1>4, <2>1, <2>3 DEF TakeTask, TypeOK, Config, Topics, Requests
  <2> QED  BY <2>2, <2>3
<1>5. CASE TakeSignal(w)
  <2>1. InboxType(inbox')
    BY <1>2, <1>5 DEF TakeSignal
  <2>2. TodoType(todo') /\ due' \in [Workers -> Int]
    <3>1. CASE CompletesThen(w, current[w], "cancelled", <<>>)
      <4>1. current[w] # None => current[w] \in Tasks
        BY DEF TypeOK
      <4> QED  BY <1>0, <3>1, <4>1, CompletesType
    <3>2. CASE UNCHANGED <<todo, due>>
      BY <3>2 DEF TypeOK
    <3> QED  BY <1>5, <3>1, <3>2 DEF TakeSignal
  <2> QED
    BY <1>5, <2>1, <2>2 DEF TakeSignal, TypeOK, Config, Topics, Worker, Requests
<1>6. CASE TakeCommand(w)
  <2>1. InboxType(inbox') /\ Msg(w).task \in Tasks
    BY <1>2, <1>3, <1>6 DEF TakeCommand
  <2>2. commands' \in [Workers -> SUBSET Tasks]
    BY <1>6, <2>1 DEF TakeCommand, TypeOK
  <2> QED
    BY <1>6, <2>1, <2>2 DEF TakeCommand, TypeOK, Config, Topics, Requests
<1>7. CASE TakeShutdown(w)
  <2>1. /\ main' \in [Workers -> {"new", "listening", "running", "stopping", "leaving", "stopped"}]
        /\ node' \in [Workers -> {"none", "online", "busy", "offline"}]
    BY <1>7 DEF TakeShutdown, TypeOK
  <2>2. InboxType(inbox')
    BY <1>0, <1>7, PutInbox DEF TakeShutdown, TypeOK
  <2> QED
    BY <1>7, <2>1, <2>2 DEF TakeShutdown, TypeOK, Config, Topics, Requests
<1> QED  BY <1>4, <1>5, <1>6, <1>7

\* What a worker has still to do in a callback.
LEMMA HandleType ==
    ASSUME TypeOK, NEW w \in Workers,
           \/ RecoverSignal(w) \/ Note(w) \/ GetInterventions(w) \/ HandlerCompletes(w)
           \/ HandlerEnds(w) \/ Finish(w)
    PROVE  TypeOK'
<1>0. w \in Clients /\ w \notin Masters
  BY AgentsAssumption DEF Clients
<1>1. /\ todo[w] # <<>> /\ Head(todo[w]).task \in Tasks /\ Head(todo[w]) \in WorkerOps
      /\ todo[w] \in Seq(WorkerOps) /\ Tail(todo[w]) \in Seq(WorkerOps)
  <2>1. \E op : At(w, op)
    BY DEF RecoverSignal, Note, GetInterventions, HandlerCompletes, HandlerEnds, Finish
  <2>2. /\ todo[w] # <<>> /\ Head(todo[w]).task \in Tasks /\ Head(todo[w]) \in WorkerOps
        /\ todo[w] \in Seq(WorkerOps)
    BY <1>0, <2>1, HeadType
  <2> QED  BY <2>2, TailElements
<1>2. Advance(w) => TodoType(todo')
  BY <1>0, <1>1, AdvanceType
<1>3. CASE RecoverSignal(w)
  <2>1. TodoType(todo') /\ due' \in [Workers -> Int]
    <3>1. CASE CompletesThen(w, current[w], "cancelled", Tail(todo[w]))
      <4>1. current[w] # None => current[w] \in Tasks
        BY DEF TypeOK
      <4> QED  BY <1>1, <3>1, <4>1, CompletesType
    <3>2. CASE Advance(w) /\ UNCHANGED due
      BY <1>2, <3>2 DEF TypeOK
    <3> QED  BY <1>3, <3>1, <3>2 DEF RecoverSignal
  <2> QED
    BY <1>3, <2>1 DEF RecoverSignal, TypeOK, Config, Topics, Worker, Requests
<1>4. CASE Note(w)
  <2>1. TodoType(todo')
    BY <1>2, <1>4 DEF Note
  <2>2. Head(todo[w]).kind \in {"signal", "intervene"}
    <3>1. Head(todo[w]).op = "note"
      BY <1>4 DEF Note, At
    <3> QED  BY <1>1, <3>1, WorkerOpKinds
  <2>3. dynamic' \in [Workers -> SUBSET ({"signal", "intervene"} \X Tasks)]
    BY <1>1, <1>4, <2>2 DEF Note, TypeOK
  <2> QED
    BY <1>4, <2>1, <2>3 DEF Note, TypeOK, Config, Topics, Requests
<1>5. CASE GetInterventions(w)
  <2>1. heard' \subseteq Tasks \X Tasks
    <3>1. commands[w] \subseteq Tasks
      BY DEF TypeOK
    <3> QED  BY <1>1, <1>5, <3>1 DEF GetInterventions, TypeOK
  <2>2. commands' \in [Workers -> SUBSET Tasks]
    BY <1>5 DEF GetInterventions, TypeOK
  <2> QED
    BY <1>5, <2>1, <2>2 DEF GetInterventions, TypeOK, Config, Topics, Requests
<1>6. CASE HandlerCompletes(w)
  <2>1. TodoType(todo') /\ due' \in [Workers -> Int]
    BY <1>1, <1>6, CompletesType DEF HandlerCompletes
  <2> QED
    BY <1>6, <2>1 DEF HandlerCompletes, TypeOK, Config, Topics, Worker, Requests
<1>7. CASE HandlerEnds(w)
  <2>1. TodoType(todo') /\ due' \in [Workers -> Int]
    BY <1>1, <1>7, CompletesType DEF HandlerEnds
  <2> QED
    BY <1>7, <2>1 DEF HandlerEnds, TypeOK, Config, Topics, Worker, Requests
<1>8. CASE Finish(w)
  <2>1. TodoType(todo')
    BY <1>2, <1>8 DEF Finish
  <2>2. CallbacksType(callbacks')
    BY <1>0, <1>8 DEF Finish, TypeOK, CallbacksType
  <2>3. /\ dynamic' \in [Workers -> SUBSET ({"signal", "intervene"} \X Tasks)]
        /\ commands' \in [Workers -> SUBSET Tasks]
        /\ node' \in [Workers -> {"none", "online", "busy", "offline"}]
        /\ current' \in [Workers -> Tasks \cup {None}]
    BY <1>8 DEF Finish, TypeOK
  <2> QED
    BY <1>8, <2>1, <2>2, <2>3 DEF Finish, TypeOK, Config, Topics, Requests
<1> QED  BY <1>3, <1>4, <1>5, <1>6, <1>7, <1>8

\* TypeOK holds at first and is kept by every step.
LEMMA TypeInvariant == (Init => TypeOK) /\ (TypeOK /\ [Next]_vars => TypeOK')
<1>1. ASSUME Init PROVE TypeOK
  <2>1. StoreType(db) /\ StoreType(kept)
    BY <1>1 DEF Init, StoreType, NoResults, Kinds
  <2>2. CallbacksType(callbacks) /\ InboxType(inbox) /\ TodoType(todo)
    BY <1>1 DEF Init, CallbacksType, InboxType, TodoType, Clients
  <2>3. NoWait \in [tasks : SUBSET Tasks, results : [Tasks -> Outputs \cup {None}]]
    BY DEF NoWait, NoResults
  <2>4. spent \in [DOMAIN Budget -> Nat]
    BY <1>1 DEF Init
  <2> QED  BY <1>1, <2>1, <2>2, <2>3, <2>4 DEF Init, TypeOK
<1>2. ASSUME TypeOK, [Next]_vars PROVE TypeOK'
  <2>1. CASE UNCHANGED vars
    BY <1>2, <2>1 DEF vars, Config, Topics, Worker, Requests, TypeOK
  <2>2. ASSUME NEW m \in Masters, MasterSteps(m) PROVE TypeOK'
    <3>1. m \in Clients
      BY DEF Clients
    <3> QED
      BY <1>2, <2>2, <3>1, PublishType, SubscribeType, RequestType, WaitType DEF MasterSteps
  <2>3. ASSUME NEW w \in Workers, WorkerSteps(w) PROVE TypeOK'
    <3>1. w \in Clients
      BY DEF Clients
    <3> QED
      BY <1>2, <2>3, <3>1, PublishType, SubscribeType, HandleType, TakeType DEF WorkerSteps
  <2> QED
    BY <1>2, <2>1, <2>2, <2>3, RequestType, WaitType, MainType, HandleType DEF Next
<1> QED  BY <1>1, <1>2

\* Type correctness: the state of masters and workers keeps its type.
THEOREM AgentsTypeCorrect == Spec => []TypeOK
BY TypeInvariant, PTL DEF Spec

-----------------------------------------------------------------------------
(* The steps of masters and workers that are neither publish() nor         *)
(* subscribe().                                                            *)

MasterCall(m) ==
    \/ \E t \in Tasks : \E targets \in SUBSET Workers : Post(m, t, targets)
    \/ \E t \in Tasks : \E v \in Workers : Push(m, t, v)
    \/ \E t \in Tasks : CancelTask(m, t) \/ Intervene(m, t)
    \/ \E ts \in SUBSET Tasks \ {{}} : Wait(m, ts)
    \/ Direct(m) \/ Shutdown(m) \/ RecoverOutput(m) \/ TakeOutput(m)
    \/ WaitEnds(m) \/ TimeOut(m)

WorkerCall(v) ==
    \/ Start(v) \/ Listen(v) \/ Stop(v) \/ Disconnect(v) \/ Stopped(v) \/ Crash(v)
    \/ GetInterventions(v) \/ HandlerCompletes(v)
    \/ RecoverSignal(v) \/ Note(v) \/ HandlerEnds(v) \/ Finish(v)
    \/ TakeTask(v) \/ TakeSignal(v) \/ TakeCommand(v) \/ TakeShutdown(v)

\* Every step is one of these.
LEMMA StepCases ==
    ASSUME [Next]_vars
    PROVE  \/ UNCHANGED vars
           \/ \E c \in Clients : Subscribe(c) \/ \E allowed \in BOOLEAN : Publish(c, allowed)
           \/ \E m \in Masters : MasterCall(m)
           \/ \E v \in Workers : WorkerCall(v)
<1>1. ASSUME NEW m \in Masters, MasterSteps(m)
      PROVE  \/ \E c \in Clients : Subscribe(c) \/ \E allowed \in BOOLEAN : Publish(c, allowed)
             \/ MasterCall(m)
  BY <1>1 DEF MasterSteps, MasterCall, Clients
<1>2. ASSUME NEW v \in Workers, WorkerSteps(v)
      PROVE  \/ \E c \in Clients : Subscribe(c) \/ \E allowed \in BOOLEAN : Publish(c, allowed)
             \/ WorkerCall(v)
  BY <1>2 DEF WorkerSteps, WorkerCall, Clients
<1> QED
  BY <1>1, <1>2 DEF Next, MasterCall, WorkerCall

-----------------------------------------------------------------------------
(* What a step does to the work of a worker: the calls it has still to     *)
(* make, its current task and the claims it owes an output.                *)

Rests(w) == todo'[w] = todo[w] /\ current'[w] = current[w] /\ due'[w] = due[w]

Advances(w) ==
    /\ todo[w] # <<>> /\ todo'[w] = Tail(todo[w])
    /\ current'[w] = current[w] /\ due'[w] = due[w]
    /\ \/ Head(todo[w]).op \in {"publish", "subscribe", "recover", "note"}
       \/ Head(todo[w]).op = "run" /\ current[w] = None

\* complete() is called, in the middle of a claim, by the handler or after it.
CompletesWith(w, o, rest) ==
    /\ current[w] \in Tasks /\ o.task = current[w]
    /\ todo'[w] = Complete(current[w], o) \o rest
    /\ current'[w] = current[w] /\ due'[w] = due[w] - 1
    /\ \/ todo[w] = <<>> /\ rest = <<>>
       \/ /\ At(w, "recover") /\ rest = Tail(todo[w]) /\ o.of = current[w]
          /\ db["signal"][Head(todo[w]).task] = "cancel"
       \/ /\ At(w, "run") /\ rest \in {todo[w], Tail(todo[w])}
          /\ o.of = Head(todo[w]).task /\ o.how = "handled"

Completes(w) == \E o \in Outputs : \E rest \in Seq(WorkerOps) : CompletesWith(w, o, rest)

Claims(w) ==
    /\ todo[w] = <<>>
    /\ \E t \in Tasks : current'[w] = t /\ todo'[w] = Claim(t)
    /\ due'[w] = due[w] + 1

Finishes(w) ==
    /\ At(w, "finish") /\ todo'[w] = Tail(todo[w])
    /\ current'[w] = None /\ due'[w] = due[w]

Crashes(w) == todo'[w] = <<>> /\ current'[w] = None /\ due'[w] = due[w]

WorkKinds(w) ==
    \/ Rests(w) \/ Advances(w) \/ Completes(w)
    \/ Claims(w) \/ Finishes(w) \/ Crashes(w)

\* Publishing and subscribing take a call from what is left.
LEMMA CallKinds ==
    ASSUME TypeOK, NEW w \in Workers, NEW c \in Clients,
           Subscribe(c) \/ \E allowed \in BOOLEAN : Publish(c, allowed)
    PROVE  WorkKinds(w)
<1>1. /\ At(c, "publish") \/ At(c, "subscribe")
      /\ Advance(c) /\ current' = current /\ due' = due
  BY DEF Subscribe, Publish, Worker
<1>2. DOMAIN todo = Clients /\ w \in Clients
  BY DEF TypeOK, TodoType, Clients
<1>3. CASE w = c
  BY <1>1, <1>2, <1>3 DEF WorkKinds, Advances, Advance, At
<1>4. CASE w # c
  BY <1>1, <1>2, <1>4 DEF WorkKinds, Rests, Advance
<1> QED  BY <1>3, <1>4

\* The steps of a master that no worker notices in its work.
LEMMA MasterKinds ==
    ASSUME TypeOK, NEW w \in Workers, NEW m \in Masters, MasterCall(m)
    PROVE  Rests(w)
<1>1. /\ current' = current /\ due' = due
      /\ todo' = todo \/ \E s : todo' = [todo EXCEPT ![m] = s]
  BY DEF MasterCall, Post, Push, CancelTask, Intervene, Wait, Direct, Shutdown, RecoverOutput,
         TakeOutput, WaitEnds, TimeOut, Worker, Advance
<1>2. w # m /\ w \in DOMAIN todo
  BY AgentsAssumption DEF TypeOK, TodoType, Clients
<1> QED  BY <1>1, <1>2 DEF Rests

\* What complete() or its absence leaves.
LEMMA CompletesKinds ==
    ASSUME TypeOK, NEW w \in Workers, NEW v \in Workers,
           NEW of, NEW how \in {"handled", "cancelled"},
           NEW rest \in Seq(WorkerOps), CompletesThen(v, of, how, rest),
           current[v] # None => of \in Tasks, current' = current,
           \/ todo[v] = <<>> /\ rest = <<>>
           \/ /\ At(v, "recover") /\ rest = Tail(todo[v]) /\ of = current[v]
              /\ db["signal"][Head(todo[v]).task] = "cancel"
           \/ /\ At(v, "run") /\ rest = Tail(todo[v])
              /\ of = Head(todo[v]).task /\ how = "handled"
           \/ /\ At(v, "run") /\ rest = todo[v] /\ current[v] # None
              /\ of = Head(todo[v]).task /\ how = "handled"
    PROVE  WorkKinds(w)
<1>0. DOMAIN todo = Clients /\ w \in Clients /\ v \in Clients
  BY DEF TypeOK, TodoType, Clients
<1>c. \/ /\ current[v] = None /\ todo' = [todo EXCEPT ![v] = rest] /\ due' = due
      \/ /\ current[v] # None /\ current[v] \in Tasks
         /\ Output(current[v], of, how) \in Outputs
         /\ todo' = [todo EXCEPT ![v] =
                       Complete(current[v], Output(current[v], of, how)) \o rest]
         /\ due' = [due EXCEPT ![v] = @ - 1]
  <2>1. current[v] # None => current[v] \in Tasks /\ Output(current[v], of, how) \in Outputs
    BY DEF TypeOK, Output, Outputs
  <2> QED  BY <2>1 DEF CompletesThen
<1>1. CASE current[v] = None
  <2>1. todo' = [todo EXCEPT ![v] = rest] /\ due' = due
    BY <1>1, <1>c
  <2>2. CASE w # v
    BY <1>0, <2>1, <2>2 DEF WorkKinds, Rests
  <2>3. CASE w = v
    BY <1>0, <1>1, <2>1, <2>3 DEF WorkKinds, Rests, Advances, At
  <2> QED  BY <2>2, <2>3
<1>2. CASE current[v] # None
  <2> DEFINE o == Output(current[v], of, how)
  <2>1. /\ current[v] \in Tasks /\ o \in Outputs
        /\ todo' = [todo EXCEPT ![v] = Complete(current[v], o) \o rest]
        /\ due' = [due EXCEPT ![v] = @ - 1]
    BY <1>2, <1>c
  <2>2. o.task = current[v] /\ o.of = of /\ o.how = how
    BY DEF Output
  <2> HIDE DEF o
  <2>3. CASE w # v
    BY <1>0, <2>1, <2>3 DEF WorkKinds, Rests
  <2>4. CASE w = v
    <3>1. due'[w] = due[w] - 1 /\ todo'[w] = Complete(current[w], o) \o rest
      BY <1>0, <2>1, <2>4 DEF TypeOK
    <3>2. CompletesWith(w, o, rest)
      BY <1>2, <2>1, <2>2, <2>4, <3>1 DEF CompletesWith
    <3> QED  BY <2>1, <3>2 DEF WorkKinds, Completes
  <2> QED  BY <2>3, <2>4
<1> QED  BY <1>1, <1>2

\* The steps of a worker's own threads.
LEMMA WorkerKinds ==
    ASSUME TypeOK, NEW w \in Workers, NEW v \in Workers, WorkerCall(v)
    PROVE  WorkKinds(w)
<1>0. /\ DOMAIN todo = Clients /\ w \in Clients /\ v \in Clients
      /\ DOMAIN current = Workers /\ DOMAIN due = Workers /\ todo[v] \in Seq(WorkerOps)
      /\ <<>> \in Seq(WorkerOps)
  BY DEF TypeOK, TodoType, Clients
<1>1. CASE \/ Start(v) \/ Listen(v) \/ Stop(v) \/ Disconnect(v) \/ Stopped(v)
           \/ GetInterventions(v) \/ TakeCommand(v) \/ TakeShutdown(v)
  <2>1. UNCHANGED <<todo, current, due>>
    BY <1>1 DEF Start, Listen, Stop, Disconnect, Stopped, GetInterventions, TakeCommand,
                TakeShutdown
  <2> QED  BY <2>1 DEF WorkKinds, Rests
<1>2. CASE Crash(v)
  BY <1>0, <1>2 DEF Crash, WorkKinds, Rests, Crashes
<1>3. CASE Note(v)
  BY <1>0, <1>3 DEF Note, Advance, At, WorkKinds, Rests, Advances
<1>4. CASE Finish(v)
  BY <1>0, <1>4 DEF Finish, Advance, At, WorkKinds, Rests, Finishes
<1>5. CASE TakeTask(v)
  <2>1. todo[v] = <<>> /\ Msg(v).task \in Tasks
    <3>1. inbox[v] \in Seq(Messages) /\ inbox[v] # <<>> /\ todo[v] = <<>>
      BY <1>5 DEF TakeTask, Idle, TypeOK, InboxType
    <3>2. Msg(v) \in Messages /\ Msg(v).kind \in {"input", "direct"}
      BY <1>5, <3>1, TailElements DEF TakeTask, Msg
    <3> QED  BY <3>1, <3>2 DEF Messages, OutputMessages
  <2>2. CASE <<v, Msg(v).task>> \in Capable
    <3>1. /\ current' = [current EXCEPT ![v] = Msg(v).task]
          /\ todo' = [todo EXCEPT ![v] = Claim(Msg(v).task)]
          /\ due' = [due EXCEPT ![v] = @ + 1]
      BY <1>5, <2>2 DEF TakeTask
    <3> HIDE DEF Msg
    <3> QED  BY <1>0, <2>1, <3>1 DEF WorkKinds, Rests, Claims
  <2>3. CASE <<v, Msg(v).task>> \notin Capable
    BY <1>5, <2>3 DEF TakeTask, WorkKinds, Rests
  <2> QED  BY <2>2, <2>3
<1>6. CASE TakeSignal(v)
  <2>1. todo[v] = <<>> /\ current' = current
    BY <1>6 DEF TakeSignal, Idle, Worker
  <2>2. CASE CompletesThen(v, current[v], "cancelled", <<>>)
    <3>1. current[v] # None => current[v] \in Tasks
      BY DEF TypeOK
    <3> QED  BY <1>0, <2>1, <2>2, <3>1, CompletesKinds
  <2>3. CASE UNCHANGED <<todo, due>>
    BY <2>1, <2>3 DEF WorkKinds, Rests
  <2> QED  BY <1>6, <2>2, <2>3 DEF TakeSignal
<1>7. CASE RecoverSignal(v)
  <2>1. At(v, "recover") /\ current' = current /\ Tail(todo[v]) \in Seq(WorkerOps)
    BY <1>0, <1>7, TailElements DEF RecoverSignal, Worker, At
  <2>2. CASE db["signal"][Head(todo[v]).task] = "cancel"
    <3>1. current[v] # None => current[v] \in Tasks
      BY DEF TypeOK
    <3>2. CompletesThen(v, current[v], "cancelled", Tail(todo[v]))
      BY <1>7, <2>2 DEF RecoverSignal
    <3> QED  BY <2>1, <2>2, <3>1, <3>2, CompletesKinds
  <2>3. CASE db["signal"][Head(todo[v]).task] # "cancel"
    <3>1. Advance(v) /\ UNCHANGED due
      BY <1>7, <2>3 DEF RecoverSignal
    <3> QED  BY <1>0, <2>1, <3>1 DEF Advance, At, WorkKinds, Rests, Advances
  <2> QED  BY <2>2, <2>3
<1>8. CASE HandlerCompletes(v)
  <2>1. At(v, "run") /\ current' = current /\ Head(todo[v]).task \in Tasks /\ current[v] # None
    BY <1>0, <1>8, HeadType DEF HandlerCompletes, Worker
  <2>2. CompletesThen(v, Head(todo[v]).task, "handled", todo[v])
    BY <1>8 DEF HandlerCompletes
  <2> QED  BY <1>0, <2>1, <2>2, CompletesKinds
<1>9. CASE HandlerEnds(v)
  <2>1. At(v, "run") /\ current' = current /\ Head(todo[v]).task \in Tasks
    BY <1>0, <1>9, HeadType DEF HandlerEnds, Worker
  <2>2. CompletesThen(v, Head(todo[v]).task, "handled", Tail(todo[v]))
    BY <1>9 DEF HandlerEnds
  <2>3. Tail(todo[v]) \in Seq(WorkerOps)
    BY <1>0, <2>1, TailElements DEF At
  <2> QED  BY <2>1, <2>2, <2>3, CompletesKinds
<1> QED  BY <1>1, <1>2, <1>3, <1>4, <1>5, <1>6, <1>7, <1>8, <1>9 DEF WorkerCall

\* A step does one of these to the work of a worker.
LEMMA WorkStep ==
    ASSUME TypeOK, [Next]_vars, NEW w \in Workers
    PROVE  WorkKinds(w)
<1>1. CASE UNCHANGED vars
  BY <1>1 DEF vars, Worker, WorkKinds, Rests
<1>2. ASSUME NEW m \in Masters, MasterCall(m) PROVE WorkKinds(w)
  BY <1>2, MasterKinds DEF WorkKinds
<1> QED
  BY <1>1, <1>2, CallKinds, WorkerKinds, StepCases

-----------------------------------------------------------------------------
(* A claim leads to one output at most.                                    *)

\* What a completion has still to publish comes before its end ...
CompletionFirst(w) ==
    \A i \in DOMAIN todo[w] :
      todo[w][i].op = "finish" => \A j \in 1..(i - 1) : todo[w][j].op = "publish"

\* ... the handler is the last thing in a claim ...
RunLast(w) == \A i \in DOMAIN todo[w] : todo[w][i].op = "run" => i = Len(todo[w])

\* ... and as long as a worker has a task, it works on this one, and will end it.
OwnWork(w) ==
    current[w] # None =>
      /\ \A i \in DOMAIN todo[w] : todo[w][i].task = current[w]
      /\ \E i \in DOMAIN todo[w] : todo[w][i].op \in {"run", "finish"}

\* A worker with a task that it does not complete yet owes an output.
DueEnough(w) ==
    /\ due[w] >= 0
    /\ current[w] # None /\ (\A i \in DOMAIN todo[w] : todo[w][i].op # "finish")
         => due[w] >= 1

WorkExact == \A w \in Workers :
    CompletionFirst(w) /\ RunLast(w) /\ OwnWork(w) /\ DueEnough(w)

\* What is to be made when complete() was called before the rest.
CompletionBefore(s, t, o, rest) ==
    /\ s \in Seq(WorkerOps) /\ Len(s) = 5 + Len(rest)
    /\ s[1] = Pub("output", t, o) /\ s[2] = Pub("signal", t, "end")
    /\ s[3] = Pub("output", t, None) /\ s[4] = Pub("signal", t, None)
    /\ s[5] = Op("finish", "task", t)
    /\ \A i \in 1..Len(s) : i > 5 => i - 5 \in 1..Len(rest) /\ s[i] = rest[i - 5]
    /\ \A i \in 1..Len(rest) : s[i + 5] = rest[i]

\* The calls of a completion come first, then the rest.
LEMMA CompletionParts ==
    ASSUME NEW t \in Tasks, NEW o \in Outputs, NEW rest \in Seq(WorkerOps)
    PROVE  CompletionBefore(Complete(t, o) \o rest, t, o, rest)
<1>1. PICK r \in Seq(WorkerOps) :
        /\ r = Complete(t, o) /\ Len(r) = 5
        /\ r[1] = Pub("output", t, o) /\ r[2] = Pub("signal", t, "end")
        /\ r[3] = Pub("output", t, None) /\ r[4] = Pub("signal", t, None)
        /\ r[5] = Op("finish", "task", t)
  BY CompleteCalls
<1>2. CompletionBefore(r \o rest, t, o, rest)
  <2>1. /\ r \o rest \in Seq(WorkerOps) /\ Len(r \o rest) = 5 + Len(rest)
        /\ \A i \in 1..5 : (r \o rest)[i] = r[i]
        /\ \A i \in 1..Len(rest) : (r \o rest)[i + 5] = rest[i]
        /\ \A i \in 1..Len(r \o rest) :
             i > 5 => i - 5 \in 1..Len(rest) /\ (r \o rest)[i] = rest[i - 5]
    <3>1. /\ r \o rest \in Seq(WorkerOps) /\ Len(r \o rest) = Len(r) + Len(rest)
          /\ \A i \in 1..Len(r) : (r \o rest)[i] = r[i]
          /\ \A i \in 1..Len(rest) : (r \o rest)[i + Len(r)] = rest[i]
          /\ \A i \in 1..Len(r \o rest) :
               i > Len(r) => /\ i - Len(r) \in 1..Len(rest)
                             /\ (r \o rest)[i] = rest[i - Len(r)]
      BY ConcatPositions
    <3>2. Len(r) = 5
      BY <1>1
    <3> QED  BY <3>1, <3>2
  <2>2. 1 \in 1..5 /\ 2 \in 1..5 /\ 3 \in 1..5 /\ 4 \in 1..5 /\ 5 \in 1..5
    OBVIOUS
  <2> QED  BY <1>1, <2>1, <2>2 DEF CompletionBefore
<1> QED  BY <1>1, <1>2

\* By the operations and tasks of the calls.
LEMMA CompletionKinds ==
    ASSUME NEW s, NEW t, NEW o, NEW rest \in Seq(WorkerOps), CompletionBefore(s, t, o, rest)
    PROVE  /\ 5 \in DOMAIN s /\ s[5].op = "finish"
           /\ \A i \in DOMAIN s :
                \/ i \in {1, 2, 3, 4} /\ s[i].op = "publish" /\ s[i].task = t
                \/ i = 5 /\ s[i].op = "finish" /\ s[i].task = t
                \/ i > 5 /\ i - 5 \in DOMAIN rest /\ s[i] = rest[i - 5]
<1>1. /\ s[1].op = "publish" /\ s[2].op = "publish" /\ s[3].op = "publish"
      /\ s[4].op = "publish" /\ s[5].op = "finish"
      /\ s[1].task = t /\ s[2].task = t /\ s[3].task = t /\ s[4].task = t
      /\ s[5].task = t
  BY DEF CompletionBefore, Pub, Op
<1>2. s \in Seq(WorkerOps) /\ Len(s) = 5 + Len(rest) /\ Len(rest) \in Nat
  BY DEF CompletionBefore
<1>3. ASSUME NEW i \in DOMAIN s
      PROVE  \/ i \in {1, 2, 3, 4} \/ i = 5
             \/ i > 5 /\ i - 5 \in DOMAIN rest /\ s[i] = rest[i - 5]
  BY <1>2 DEF CompletionBefore
<1> QED  BY <1>1, <1>2, <1>3

\* The calls of a claim.
LEMMA ClaimParts ==
    ASSUME NEW t \in Tasks
    PROVE  \E s \in Seq(WorkerOps) :
             /\ s = Claim(t) /\ Len(s) = 6
             /\ s[1].op = "subscribe" /\ s[2].op = "recover" /\ s[3].op = "note"
             /\ s[4].op = "subscribe" /\ s[5].op = "note" /\ s[6].op = "run"
             /\ s[1].task = t /\ s[2].task = t /\ s[3].task = t
             /\ s[4].task = t /\ s[5].task = t /\ s[6].task = t
             /\ \A i \in DOMAIN s : i \in {1, 2, 3, 4, 5, 6}
             /\ 6 \in DOMAIN s
<1>1. PICK s \in Seq(WorkerOps) :
        /\ s = Claim(t) /\ Len(s) = 6
        /\ s[1] = Op("subscribe", "signal", t) /\ s[2] = Op("recover", "signal", t)
        /\ s[3] = Op("note", "signal", t) /\ s[4] = Op("subscribe", "intervene", t)
        /\ s[5] = Op("note", "intervene", t) /\ s[6] = Op("run", "handler", t)
  BY ClaimCalls
<1>2. (\A i \in DOMAIN s : i \in {1, 2, 3, 4, 5, 6}) /\ 6 \in DOMAIN s
  BY <1>1
<1>3. /\ s[1].op = "subscribe" /\ s[2].op = "recover" /\ s[3].op = "note"
      /\ s[4].op = "subscribe" /\ s[5].op = "note" /\ s[6].op = "run"
      /\ s[1].task = t /\ s[2].task = t /\ s[3].task = t
      /\ s[4].task = t /\ s[5].task = t /\ s[6].task = t
  BY <1>1 DEF Op
<1> QED  BY <1>1, <1>2, <1>3

\* When complete() may be called, no completion is under way and the rest does
\* not hold one.
LEMMA NoneUnderWay ==
    ASSUME TypeOK, NEW w \in Workers, CompletionFirst(w),
           NEW o \in Outputs, NEW rest \in Seq(WorkerOps), CompletesWith(w, o, rest)
    PROVE  /\ \A i \in DOMAIN todo[w] : todo[w][i].op # "finish"
           /\ \A i \in DOMAIN rest : rest[i].op # "finish"
<1>0. todo[w] \in Seq(WorkerOps)
  BY DEF TypeOK, TodoType
<1>1. ASSUME NEW i \in DOMAIN todo[w], todo[w][i].op = "finish" PROVE FALSE
  <2>1. todo[w] # <<>> /\ todo[w][1].op \in {"recover", "run"} /\ 1 \in DOMAIN todo[w]
    BY <1>0, <1>1, TailElements DEF CompletesWith, At
  <2>2. i # 1 /\ i \in Nat /\ i >= 1
    BY <1>0, <1>1, <2>1
  <2>3. 1 \in 1..(i - 1)
    BY <2>2
  <2>4. todo[w][1].op = "publish"
    BY <1>1, <2>3 DEF CompletionFirst
  <2> QED  BY <2>1, <2>4
<1>2. ASSUME NEW i \in DOMAIN rest PROVE rest[i].op # "finish"
  <2>1. CASE rest = todo[w]
    BY <1>1, <1>2, <2>1
  <2>2. CASE rest = Tail(todo[w]) /\ todo[w] # <<>>
    <3>1. i + 1 \in DOMAIN todo[w] /\ rest[i] = todo[w][i + 1]
      BY <1>0, <1>2, <2>2, TailElements
    <3> QED  BY <1>1, <3>1
  <2>3. rest = todo[w] \/ (rest = Tail(todo[w]) /\ todo[w] # <<>>)
    BY DEF CompletesWith, At
  <2> QED  BY <2>1, <2>2, <2>3
<1> QED  BY <1>1, <1>2

\* When complete() is called, what is left is about the current task, and holds no
\* handler but at its end.
LEMMA RestOwn ==
    ASSUME TypeOK, NEW w \in Workers, OwnWork(w), RunLast(w),
           NEW o \in Outputs, NEW rest \in Seq(WorkerOps), CompletesWith(w, o, rest)
    PROVE  /\ todo[w] # <<>>
           /\ Head(todo[w]).task = current[w]
           /\ \A i \in DOMAIN rest : rest[i].task = current[w]
           /\ \A i \in DOMAIN rest : rest[i].op = "run" => i = Len(rest)
<1>0. todo[w] \in Seq(WorkerOps) /\ current[w] # None
  BY AgentsAssumption DEF TypeOK, TodoType, CompletesWith
<1>1. todo[w] # <<>>
  BY <1>0 DEF OwnWork
<1>2. Head(todo[w]).task = current[w]
  BY <1>0, <1>1, TailElements DEF OwnWork
<1>3. rest = todo[w] \/ rest = Tail(todo[w])
  BY <1>1 DEF CompletesWith
<1>4. ASSUME NEW i \in DOMAIN rest
      PROVE  rest[i].task = current[w] /\ (rest[i].op = "run" => i = Len(rest))
  <2>1. CASE rest = todo[w]
    BY <1>0, <1>4, <2>1 DEF OwnWork, RunLast
  <2>2. CASE rest = Tail(todo[w])
    <3>1. /\ i \in Nat /\ i + 1 \in DOMAIN todo[w] /\ rest[i] = todo[w][i + 1]
          /\ Len(rest) = Len(todo[w]) - 1 /\ Len(todo[w]) \in Nat
      BY <1>0, <1>1, <1>4, <2>2, TailElements
    <3> QED  BY <1>0, <3>1 DEF OwnWork, RunLast
  <2> QED  BY <1>3, <2>1, <2>2
<1> QED  BY <1>1, <1>2, <1>4

\* The order of what is left to be made.
LEMMA OrderStep ==
    ASSUME TypeOK, TypeOK', NEW w \in Workers, WorkKinds(w),
           CompletionFirst(w), RunLast(w), OwnWork(w)
    PROVE  CompletionFirst(w)' /\ RunLast(w)'
<1>0. todo[w] \in Seq(WorkerOps) /\ todo'[w] \in Seq(WorkerOps)
  BY DEF TypeOK, TodoType
<1>1. CASE Rests(w)
  BY <1>1 DEF Rests, CompletionFirst, RunLast
<1>2. CASE Advances(w) \/ Finishes(w)
  <2>1. todo[w] # <<>> /\ todo'[w] = Tail(todo[w])
    BY <1>2 DEF Advances, Finishes, At
  <2>2. /\ Len(todo'[w]) = Len(todo[w]) - 1
        /\ \A i \in DOMAIN todo'[w] :
             i \in Nat /\ i + 1 \in DOMAIN todo[w] /\ todo'[w][i] = todo[w][i + 1]
    BY <1>0, <2>1, TailElements
  <2>3. ASSUME NEW i \in DOMAIN todo'[w], todo'[w][i].op = "finish", NEW j \in 1..(i - 1)
        PROVE  todo'[w][j].op = "publish"
    <3>1. i \in Nat /\ i + 1 \in DOMAIN todo[w] /\ todo[w][i + 1].op = "finish"
      BY <2>2, <2>3
    <3>2. j \in DOMAIN todo'[w] /\ j + 1 \in 1..((i + 1) - 1)
      BY <1>0, <2>3, <3>1
    <3>3. todo[w][j + 1].op = "publish"
      BY <3>1, <3>2 DEF CompletionFirst
    <3> QED  BY <2>2, <3>2, <3>3
  <2>4. ASSUME NEW i \in DOMAIN todo'[w], todo'[w][i].op = "run"
        PROVE  i = Len(todo'[w])
    <3>1. i \in Nat /\ i + 1 \in DOMAIN todo[w] /\ todo[w][i + 1].op = "run"
      BY <2>2, <2>4
    <3>2. i + 1 = Len(todo[w]) /\ Len(todo[w]) \in Nat
      BY <1>0, <3>1 DEF RunLast
    <3> QED  BY <2>2, <3>1, <3>2
  <2> QED  BY <2>3, <2>4 DEF CompletionFirst, RunLast
<1>3. CASE Completes(w)
  <2>1. PICK o \in Outputs : \E rest \in Seq(WorkerOps) : CompletesWith(w, o, rest)
    BY <1>3 DEF Completes
  <2>2. PICK rest \in Seq(WorkerOps) : CompletesWith(w, o, rest)
    BY <2>1
  <2>3. /\ \A i \in DOMAIN rest : rest[i].op # "finish"
        /\ \A i \in DOMAIN rest : rest[i].op = "run" => i = Len(rest)
    BY <2>2, NoneUnderWay, RestOwn
  <2>5. current[w] \in Tasks /\ todo'[w] = Complete(current[w], o) \o rest
    BY <2>2 DEF CompletesWith
  <2>6. PICK s \in Seq(WorkerOps) :
          s = todo'[w] /\ CompletionBefore(s, current[w], o, rest)
    BY <1>0, <2>5, CompletionParts
  <2>a. /\ Len(s) = 5 + Len(rest) /\ Len(rest) \in Nat
        /\ \A i \in DOMAIN s :
             \/ i \in {1, 2, 3, 4} /\ s[i].op = "publish"
             \/ i = 5 /\ s[i].op = "finish"
             \/ i > 5 /\ i - 5 \in DOMAIN rest /\ s[i] = rest[i - 5]
    <3>1. Len(s) = 5 + Len(rest) /\ Len(rest) \in Nat
      BY <2>6 DEF CompletionBefore
    <3> QED  BY <2>6, <3>1, CompletionKinds
  <2>7. ASSUME NEW i \in DOMAIN s, s[i].op = "finish", NEW j \in 1..(i - 1)
        PROVE  s[j].op = "publish"
    <3>1. i = 5
      BY <2>3, <2>a, <2>7
    <3>2. j \in {1, 2, 3, 4} /\ j \in DOMAIN s
      BY <2>a, <2>7, <3>1
    <3> QED  BY <2>a, <3>2
  <2>8. ASSUME NEW i \in DOMAIN s, s[i].op = "run"
        PROVE  i = Len(s)
    <3>1. i - 5 \in DOMAIN rest /\ rest[i - 5].op = "run" /\ i \in Nat
      BY <2>a, <2>8
    <3> QED  BY <2>3, <2>a, <3>1
  <2> QED  BY <2>6, <2>7, <2>8 DEF CompletionFirst, RunLast
<1>4. CASE Claims(w)
  <2>1. PICK t \in Tasks : todo'[w] = Claim(t)
    BY <1>4 DEF Claims
  <2>2. PICK s \in Seq(WorkerOps) :
          /\ s = todo'[w] /\ Len(s) = 6
          /\ s[1].op = "subscribe" /\ s[2].op = "recover" /\ s[3].op = "note"
          /\ s[4].op = "subscribe" /\ s[5].op = "note" /\ s[6].op = "run"
          /\ \A i \in DOMAIN s : i \in {1, 2, 3, 4, 5, 6}
    BY <2>1, ClaimParts
  <2>5. \A i \in DOMAIN s : s[i].op # "finish" /\ (s[i].op = "run" => i = Len(s))
    BY <2>2
  <2> QED  BY <2>2, <2>5 DEF CompletionFirst, RunLast
<1>5. CASE Crashes(w)
  BY <1>5 DEF Crashes, CompletionFirst, RunLast
<1> QED  BY <1>1, <1>2, <1>3, <1>4, <1>5 DEF WorkKinds

\* What the work is about, and what is owed.
LEMMA OwnStep ==
    ASSUME TypeOK, TypeOK', NEW w \in Workers, WorkKinds(w),
           CompletionFirst(w), RunLast(w), OwnWork(w), DueEnough(w)
    PROVE  OwnWork(w)' /\ DueEnough(w)'
<1>0. /\ todo[w] \in Seq(WorkerOps) /\ todo'[w] \in Seq(WorkerOps)
      /\ due[w] \in Int /\ due'[w] \in Int
  BY DEF TypeOK, TodoType
<1>1. CASE Rests(w)
  BY <1>1 DEF Rests, OwnWork, DueEnough
<1>2. CASE Advances(w)
  <2>1. todo[w] # <<>> /\ todo'[w] = Tail(todo[w]) /\ current'[w] = current[w] /\ due'[w] = due[w]
    BY <1>2 DEF Advances
  <2>2. /\ Head(todo[w]) = todo[w][1]
        /\ \A i \in DOMAIN todo'[w] :
             i \in Nat /\ i + 1 \in DOMAIN todo[w] /\ todo'[w][i] = todo[w][i + 1]
        /\ \A i \in DOMAIN todo[w] : i # 1 => i - 1 \in DOMAIN todo'[w]
    BY <1>0, <2>1, TailElements
  <2>3. current[w] # None => todo[w][1].op \notin {"run", "finish"}
    BY <1>2, <2>2 DEF Advances
  <2>4. \A i \in DOMAIN todo[w] : i \in Nat
    BY <1>0
  <2>5. ASSUME current'[w] # None
        PROVE  /\ \A i \in DOMAIN todo'[w] : todo'[w][i].task = current'[w]
               /\ \E i \in DOMAIN todo'[w] : todo'[w][i].op \in {"run", "finish"}
    <3>1. /\ \A i \in DOMAIN todo[w] : todo[w][i].task = current[w]
          /\ \E i \in DOMAIN todo[w] : todo[w][i].op \in {"run", "finish"}
      BY <2>1, <2>5 DEF OwnWork
    <3>2. PICK i \in DOMAIN todo[w] : todo[w][i].op \in {"run", "finish"}
      BY <3>1
    <3>3. i # 1 /\ i - 1 \in DOMAIN todo'[w] /\ i \in Nat
      BY <2>1, <2>2, <2>3, <2>4, <2>5, <3>2
    <3>4. todo'[w][i - 1].op \in {"run", "finish"}
      BY <2>2, <3>2, <3>3
    <3> QED  BY <2>1, <2>2, <3>1, <3>3, <3>4
  <2>6. ASSUME current'[w] # None, \A i \in DOMAIN todo'[w] : todo'[w][i].op # "finish"
        PROVE  \A i \in DOMAIN todo[w] : todo[w][i].op # "finish"
    <3> SUFFICES ASSUME NEW i \in DOMAIN todo[w] PROVE todo[w][i].op # "finish"
      OBVIOUS
    <3>1. CASE i = 1
      BY <2>1, <2>3, <2>6, <3>1
    <3>2. CASE i # 1
      <4>1. i - 1 \in DOMAIN todo'[w] /\ i \in Nat
        BY <2>2, <2>4, <3>2
      <4>2. todo'[w][i - 1] = todo[w][i]
        BY <2>2, <4>1
      <4> QED  BY <2>6, <4>1, <4>2
    <3> QED  BY <3>1, <3>2
  <2> QED  BY <2>1, <2>5, <2>6 DEF OwnWork, DueEnough
<1>3. CASE Completes(w)
  <2>1. PICK o \in Outputs : \E rest \in Seq(WorkerOps) : CompletesWith(w, o, rest)
    BY <1>3 DEF Completes
  <2>2. PICK rest \in Seq(WorkerOps) : CompletesWith(w, o, rest)
    BY <2>1
  <2>3. /\ \A i \in DOMAIN todo[w] : todo[w][i].op # "finish"
        /\ \A i \in DOMAIN rest : rest[i].task = current[w]
    BY <2>2, NoneUnderWay, RestOwn
  <2>5. /\ current[w] \in Tasks /\ todo'[w] = Complete(current[w], o) \o rest
        /\ current'[w] = current[w] /\ due'[w] = due[w] - 1
    BY <2>2 DEF CompletesWith
  <2>4. PICK s \in Seq(WorkerOps) :
          s = todo'[w] /\ CompletionBefore(s, current[w], o, rest)
    BY <1>0, <2>5, CompletionParts
  <2>6. /\ 5 \in DOMAIN s /\ s[5].op = "finish"
        /\ \A i \in DOMAIN s :
             s[i].task = current[w] \/ (i - 5 \in DOMAIN rest /\ s[i] = rest[i - 5])
    BY <2>4, CompletionKinds
  <2>7. \A i \in DOMAIN s : s[i].task = current[w]
    BY <2>3, <2>6
  <2>8. due[w] >= 1 /\ current[w] # None
    BY <2>3, <2>5, AgentsAssumption DEF DueEnough
  <2>9. OwnWork(w)'
    BY <2>4, <2>5, <2>6, <2>7 DEF OwnWork
  <2>10. DueEnough(w)'
    <3>1. ~ \A i \in DOMAIN todo'[w] : todo'[w][i].op # "finish"
      BY <2>4, <2>6
    <3>2. due'[w] >= 0
      BY <1>0, <2>5, <2>8
    <3> QED  BY <3>1, <3>2 DEF DueEnough
  <2> QED  BY <2>9, <2>10
<1>4. CASE Claims(w)
  <2>1. PICK t \in Tasks : todo'[w] = Claim(t) /\ current'[w] = t
    BY <1>4 DEF Claims
  <2>2. PICK s \in Seq(WorkerOps) :
          /\ s = todo'[w] /\ s[6].op = "run" /\ 6 \in DOMAIN s
          /\ s[1].task = t /\ s[2].task = t /\ s[3].task = t
          /\ s[4].task = t /\ s[5].task = t /\ s[6].task = t
          /\ \A i \in DOMAIN s : i \in {1, 2, 3, 4, 5, 6}
    BY <2>1, ClaimParts
  <2>5. \A i \in DOMAIN s : s[i].task = t
    BY <2>2
  <2>6. due'[w] = due[w] + 1 /\ due[w] >= 0
    BY <1>4 DEF Claims, DueEnough
  <2>7. OwnWork(w)'
    BY <2>1, <2>2, <2>5 DEF OwnWork
  <2>8. DueEnough(w)'
    BY <1>0, <2>6 DEF DueEnough
  <2> QED  BY <2>7, <2>8
<1>5. CASE Finishes(w) \/ Crashes(w)
  <2>1. current'[w] = None /\ due'[w] = due[w]
    BY <1>5 DEF Finishes, Crashes
  <2> QED  BY <2>1 DEF OwnWork, DueEnough
<1> QED  BY <1>1, <1>2, <1>3, <1>4, <1>5 DEF WorkKinds

\* WorkExact holds at first and is kept by every step.
LEMMA WorkInvariant ==
    /\ Init => WorkExact
    /\ TypeOK /\ WorkExact /\ [Next]_vars => WorkExact'
<1>1. ASSUME Init PROVE WorkExact
  <2>1. \A w \in Workers : todo[w] = <<>> /\ current[w] = None /\ due[w] = 0
    BY <1>1 DEF Init, Clients
  <2> QED
    BY <2>1 DEF WorkExact, CompletionFirst, RunLast, OwnWork, DueEnough
<1>2. ASSUME TypeOK, WorkExact, [Next]_vars PROVE WorkExact'
  <2>1. TypeOK'
    BY <1>2, TypeInvariant
  <2>2. ASSUME NEW w \in Workers
        PROVE  CompletionFirst(w)' /\ RunLast(w)' /\ OwnWork(w)' /\ DueEnough(w)'
    BY <1>2, <2>1, WorkStep, OrderStep, OwnStep DEF WorkExact
  <2> QED  BY <2>2 DEF WorkExact
<1> QED  BY <1>1, <1>2

\* No worker makes more outputs than it claimed tasks: whoever calls complete(), the
\* handler, the callback that called it or a cancellation, finds a claim that led
\* to none (bbs.py:611).
THEOREM OneOutputPerClaim == Spec => []OneOutput
<1>1. WorkExact => OneOutput
  BY DEF WorkExact, DueEnough, OneOutput
<1> QED  BY TypeInvariant, WorkInvariant, <1>1, PTL DEF Spec

-----------------------------------------------------------------------------
(* A wait returns what belongs to its task.                                *)

\* A message on board/task/<t>/<k>: an output is the one of this task's handler, or
\* says that the task was cancelled when it was, and only cancel_task says [CANCEL].
Right(done, k, t, v) ==
    /\ k = "output" /\ v # None =>
         v.task = t /\ v.of = t /\ (v.how = "cancelled" => t \in done)
    /\ k = "signal" /\ v = "cancel" => t \in done

StoresRight ==
    \A k \in Kinds : \A t \in Tasks :
      Right(cancelled, k, t, db[k][t]) /\ Right(cancelled, k, t, kept[k][t])

InboxRight ==
    \A c \in Clients : \A i \in DOMAIN inbox[c] :
      Right(cancelled, inbox[c][i].kind, inbox[c][i].task, inbox[c][i].value)

CancelsCalled ==
    \A m \in Masters : \A i \in DOMAIN todo[m] :
      todo[m][i].op = "publish" /\ todo[m][i].kind = "signal" => todo[m][i].task \in cancelled

OutputsRight ==
    \A w \in Workers : \A i \in DOMAIN todo[w] :
      todo[w][i].op = "publish" /\ todo[w][i].kind = "output" =>
        Right(cancelled, "output", todo[w][i].task, todo[w][i].value)

ResultsRight ==
    \A m \in Masters : \A t \in Tasks : Right(cancelled, "output", t, wait[m].results[t])

MessagesRight ==
    StoresRight /\ InboxRight /\ CancelsCalled /\ OutputsRight /\ ResultsRight

\* What is right remains so.
LEMMA StaysRight ==
    ASSUME NEW S, NEW T, S \subseteq T, NEW k, NEW t, NEW v, Right(S, k, t, v)
    PROVE  Right(T, k, t, v)
BY DEF Right

\* Nothing takes a cancellation back.
LEMMA CancelledGrows ==
    ASSUME [Next]_vars
    PROVE  cancelled \subseteq cancelled'
<1>1. CASE UNCHANGED vars
  BY <1>1 DEF vars, Requests
<1>2. ASSUME NEW c \in Clients, Subscribe(c) \/ \E allowed \in BOOLEAN : Publish(c, allowed)
      PROVE  cancelled \subseteq cancelled'
  BY <1>2 DEF Subscribe, Publish, Requests
<1>3. ASSUME NEW m \in Masters, MasterCall(m)
      PROVE  cancelled \subseteq cancelled'
  BY <1>3 DEF MasterCall, Post, Push, CancelTask, Intervene, Wait, Direct, Shutdown, RecoverOutput,
              TakeOutput, WaitEnds, TimeOut, Requests
<1>4. ASSUME NEW v \in Workers, WorkerCall(v)
      PROVE  cancelled \subseteq cancelled'
  BY <1>4 DEF WorkerCall, Start, Listen, Stop, Disconnect, Stopped, Crash, GetInterventions,
              HandlerCompletes, RecoverSignal, Note, HandlerEnds, Finish, TakeTask,
              TakeSignal, TakeCommand, TakeShutdown, Requests
<1> QED  BY <1>1, <1>2, <1>3, <1>4, StepCases

\* What is published is right.
LEMMA PublishedRight ==
    ASSUME TypeOK, CancelsCalled, OutputsRight, NEW c \in Clients, At(c, "publish")
    PROVE  Right(cancelled, Head(todo[c]).kind, Head(todo[c]).task, Head(todo[c]).value)
<1>1. CASE c \in Masters
  <2>1. PICK e \in MasterOps : e = Head(todo[c]) /\ e.op = "publish" /\ e = todo[c][1]
                                /\ 1 \in DOMAIN todo[c]
    <3>1. Head(todo[c]) \in MasterOps /\ Head(todo[c]).op = "publish" /\ todo[c] \in Seq(MasterOps)
          /\ todo[c] # <<>>
      BY <1>1, HeadType
    <3> QED  BY <3>1, TailElements
  <2>2. e.kind = "input" \/ (e.kind = "signal" /\ e.task \in cancelled)
    BY <1>1, <2>1, MasterOpKinds DEF CancelsCalled
  <2> QED  BY <2>1, <2>2 DEF Right
<1>2. CASE c \in Workers
  <2>1. PICK e \in WorkerOps : e = Head(todo[c]) /\ e.op = "publish" /\ e = todo[c][1]
                                /\ 1 \in DOMAIN todo[c]
    <3>1. Head(todo[c]) \in WorkerOps /\ Head(todo[c]).op = "publish" /\ todo[c] \in Seq(WorkerOps)
          /\ todo[c] # <<>>
      BY <1>2, HeadType
    <3> QED  BY <3>1, TailElements
  <2>2. e.kind = "output" \/ (e.kind = "signal" /\ e.value # "cancel")
    BY <2>1, WorkerOpKinds, AgentsAssumption
  <2>3. e.kind = "output" => Right(cancelled, "output", e.task, e.value)
    BY <1>2, <2>1 DEF OutputsRight
  <2> QED  BY <2>1, <2>2, <2>3 DEF Right
<1> QED  BY <1>1, <1>2 DEF Clients

\* The database and the broker hold what was published.
LEMMA StoresStep ==
    ASSUME TypeOK, MessagesRight, [Next]_vars
    PROVE  StoresRight'
<1>1. cancelled \subseteq cancelled'
  BY CancelledGrows
<1>2. CASE UNCHANGED Topics
  BY <1>1, <1>2, StaysRight DEF MessagesRight, StoresRight, Topics
<1>3. ASSUME NEW c \in Clients, NEW allowed \in BOOLEAN, Publish(c, allowed) PROVE StoresRight'
  <2>1. /\ Head(todo[c]).kind \in Kinds /\ Head(todo[c]).task \in Tasks
        /\ Head(todo[c]).kind = "output" => Head(todo[c]).value \in Outputs \cup {None}
        /\ Head(todo[c]).kind # "output" => Head(todo[c]).value \in Texts \cup {None}
        /\ Right(cancelled, Head(todo[c]).kind, Head(todo[c]).task, Head(todo[c]).value)
    BY <1>3, PublishedNext, PublishedRight DEF Publish, MessagesRight
  <2>2. PICK k \in Kinds, t \in Tasks, v \in Outputs \cup Texts \cup {None} :
          /\ k = Head(todo[c]).kind /\ t = Head(todo[c]).task /\ v = Head(todo[c]).value
          /\ k = "output" => v \in Outputs \cup {None}
          /\ k # "output" => v \in Texts \cup {None}
          /\ Right(cancelled, k, t, v)
    BY <2>1
  <2>3. /\ db' = [db EXCEPT ![k][t] = v]
        /\ kept' = [kept EXCEPT ![k][t] = v] \/ kept' = kept
    BY <1>3, <2>2 DEF Publish
  <2>4. ASSUME NEW j \in Kinds, NEW u \in Tasks
        PROVE  /\ db'[j][u] = db[j][u] \/ (j = k /\ u = t /\ db'[j][u] = v)
               /\ kept'[j][u] = kept[j][u] \/ (j = k /\ u = t /\ kept'[j][u] = v)
    <3>1. StoreType(db) /\ StoreType(kept)
      BY DEF TypeOK
    <3>2. ASSUME NEW d, StoreType(d)
          PROVE  [d EXCEPT ![k][t] = v][j][u] = IF j = k /\ u = t THEN v ELSE d[j][u]
      BY <3>2 DEF StoreType, Kinds
    <3> QED  BY <2>3, <3>1, <3>2
  <2>5. ASSUME NEW j \in Kinds, NEW u \in Tasks
        PROVE  Right(cancelled', j, u, db'[j][u]) /\ Right(cancelled', j, u, kept'[j][u])
    <3>1. /\ Right(cancelled, j, u, db[j][u]) /\ Right(cancelled, j, u, kept[j][u])
      BY DEF MessagesRight, StoresRight
    <3>2. Right(cancelled, j, u, db'[j][u]) /\ Right(cancelled, j, u, kept'[j][u])
      BY <2>2, <2>4, <3>1
    <3> QED  BY <1>1, <3>2, StaysRight
  <2> QED  BY <2>5 DEF StoresRight
<1>4. ASSUME NEW m \in Masters, MasterCall(m)
      PROVE  UNCHANGED Topics
  BY <1>4 DEF MasterCall, Post, Push, CancelTask, Intervene, Wait, Direct, Shutdown, RecoverOutput,
              TakeOutput, WaitEnds, TimeOut
<1>5. ASSUME NEW v \in Workers, WorkerCall(v)
      PROVE  UNCHANGED Topics
  BY <1>5 DEF WorkerCall, Start, Listen, Stop, Disconnect, Stopped, Crash, GetInterventions,
              HandlerCompletes, RecoverSignal, Note, HandlerEnds, Finish, TakeTask,
              TakeSignal, TakeCommand, TakeShutdown
<1>6. ASSUME NEW c \in Clients, Subscribe(c) PROVE UNCHANGED Topics
  BY <1>6 DEF Subscribe
<1>7. CASE UNCHANGED vars
  BY <1>2, <1>7 DEF vars
<1> QED
  BY <1>2, <1>3, <1>4, <1>5, <1>6, <1>7, StepCases

\* What a client has in its inbox are messages.
LEMMA InboxSequence ==
    ASSUME TypeOK, NEW c \in Clients
    PROVE  inbox[c] \in Seq(Messages)
<1>1. OutputMessages \subseteq Messages
  BY DEF Messages
<1> QED  BY <1>1 DEF TypeOK, InboxType, Clients

\* A message of an inbox was there, or is new and right.
LEMMA InboxStep ==
    ASSUME TypeOK, MessagesRight, [Next]_vars
    PROVE  InboxRight'
<1> DEFINE Fine(e) == Right(cancelled, e.kind, e.task, e.value)
<1>0. cancelled \subseteq cancelled'
  BY CancelledGrows
<1>1. ASSUME NEW c \in Clients,
             \/ inbox'[c] = inbox[c] \/ inbox'[c] = <<>>
             \/ inbox[c] # <<>> /\ inbox'[c] = Tail(inbox[c])
             \/ \E s \in Seq(Messages) : /\ inbox'[c] = inbox[c] \o s
                                         /\ \A i \in DOMAIN s : Fine(s[i])
             \/ \E e \in Messages : inbox'[c] = Append(inbox[c], e) /\ Fine(e)
      PROVE  \A i \in DOMAIN inbox'[c] :
               Right(cancelled', inbox'[c][i].kind, inbox'[c][i].task, inbox'[c][i].value)
  <2>1. inbox[c] \in Seq(Messages)
    BY InboxSequence
  <2>2. \A i \in DOMAIN inbox[c] : Fine(inbox[c][i])
    BY DEF MessagesRight, InboxRight
  <2> HIDE DEF Fine
  <2>3. \A i \in DOMAIN inbox'[c] : Fine(inbox'[c][i])
    <3>1. CASE inbox'[c] = inbox[c]
      BY <2>2, <3>1
    <3>2. CASE inbox'[c] = <<>>
      BY <3>2
    <3>3. CASE inbox[c] # <<>> /\ inbox'[c] = Tail(inbox[c])
      BY <2>1, <2>2, <3>3, TailElements
    <3>4. ASSUME NEW s \in Seq(Messages), inbox'[c] = inbox[c] \o s,
                 \A i \in DOMAIN s : Fine(s[i])
          PROVE  \A i \in DOMAIN inbox'[c] : Fine(inbox'[c][i])
      <4>1. \A i \in DOMAIN (inbox[c] \o s) :
              \/ i \in DOMAIN inbox[c] /\ (inbox[c] \o s)[i] = inbox[c][i]
              \/ i - Len(inbox[c]) \in DOMAIN s /\ (inbox[c] \o s)[i] = s[i - Len(inbox[c])]
        BY <2>1, ConcatElements
      <4> QED  BY <2>2, <3>4, <4>1
    <3>5. ASSUME NEW e \in Messages, inbox'[c] = Append(inbox[c], e), Fine(e)
          PROVE  \A i \in DOMAIN inbox'[c] : Fine(inbox'[c][i])
      <4>1. \A i \in DOMAIN Append(inbox[c], e) :
              \/ i \in DOMAIN inbox[c] /\ Append(inbox[c], e)[i] = inbox[c][i]
              \/ i = Len(inbox[c]) + 1 /\ Append(inbox[c], e)[i] = e
        BY <2>1, AppendElements
      <4> QED  BY <2>2, <3>5, <4>1
    <3> QED  BY <1>1, <3>1, <3>2, <3>3, <3>4, <3>5
  <2> QED  BY <1>0, <2>3, StaysRight DEF Fine
<1> HIDE DEF Fine
<1>2. ASSUME NEW k, NEW t, NEW v
      PROVE  /\ Message(k, t, v).kind = k /\ Message(k, t, v).task = t /\ Message(k, t, v).value = v
             /\ k \notin {"output", "signal"} => Fine(Message(k, t, v))
  BY DEF Message, Fine, Right
<1>3. DOMAIN inbox = Clients
  BY DEF TypeOK, InboxType
<1> SUFFICES ASSUME NEW c \in Clients
             PROVE  \/ inbox'[c] = inbox[c] \/ inbox'[c] = <<>>
                    \/ inbox[c] # <<>> /\ inbox'[c] = Tail(inbox[c])
                    \/ \E s \in Seq(Messages) : /\ inbox'[c] = inbox[c] \o s
                                                /\ \A i \in DOMAIN s : Fine(s[i])
                    \/ \E e \in Messages : inbox'[c] = Append(inbox[c], e) /\ Fine(e)
  BY <1>1 DEF InboxRight
<1> DEFINE Goal == \/ inbox'[c] = inbox[c] \/ inbox'[c] = <<>>
                   \/ inbox[c] # <<>> /\ inbox'[c] = Tail(inbox[c])
                   \/ \E s \in Seq(Messages) : /\ inbox'[c] = inbox[c] \o s
                                               /\ \A i \in DOMAIN s : Fine(s[i])
                   \/ \E e \in Messages : inbox'[c] = Append(inbox[c], e) /\ Fine(e)
<1>4. ASSUME NEW d \in Clients, NEW allowed \in BOOLEAN, Publish(d, allowed) PROVE Goal
  <2>1. /\ Head(todo[d]).kind \in Kinds /\ Head(todo[d]).task \in Tasks
        /\ Head(todo[d]).kind = "output" => Head(todo[d]).value \in Outputs \cup {None}
        /\ Head(todo[d]).kind # "output" => Head(todo[d]).value \in Texts \cup {None}
        /\ Right(cancelled, Head(todo[d]).kind, Head(todo[d]).task, Head(todo[d]).value)
    BY <1>4, PublishedNext, PublishedRight DEF Publish, MessagesRight
  <2>2. PICK k \in Kinds, t \in Tasks, v \in Outputs \cup Texts \cup {None} :
          /\ k = Head(todo[d]).kind /\ t = Head(todo[d]).task /\ v = Head(todo[d]).value
          /\ k = "output" => v \in Outputs \cup {None}
          /\ k # "output" => v \in Texts \cup {None}
          /\ Right(cancelled, k, t, v)
    BY <2>1
  <2>3. inbox' = inbox \/ inbox' = Delivered(k, t, v)
    BY <1>4, <2>2 DEF Publish
  <2>4. Heeded(k, v) => Message(k, t, v) \in Messages /\ Fine(Message(k, t, v))
    <3>1. Heeded(k, v) => Message(k, t, v) \in Messages
      BY <2>2, RowMessage
    <3>2. Fine(Message(k, t, v))
      BY <1>2, <2>2 DEF Fine
    <3> QED  BY <3>1, <3>2
  <2>5. \/ inbox'[c] = inbox[c]
        \/ inbox'[c] = Append(inbox[c], Message(k, t, v)) /\ Heeded(k, v)
    BY <2>3 DEF Delivered
  <2> QED  BY <2>4, <2>5
<1>5. ASSUME NEW d \in Clients, Subscribe(d) PROVE Goal
  <2> DEFINE k == Head(todo[d]).kind
             t == Head(todo[d]).task
  <2>1. At(d, "subscribe") /\ t \in Tasks
    BY <1>5, HeadType DEF Subscribe
  <2>2. PICK held : /\ held = IF k \in Kinds THEN kept[k][t] ELSE None
                    /\ inbox' = IF ~prefixed /\ Heeded(k, held)
                                  THEN [inbox EXCEPT ![d] = Append(@, Message(k, t, held))]
                                  ELSE inbox
    BY <1>5 DEF Subscribe
  <2>3. Heeded(k, held) => k \in Kinds /\ held = kept[k][t]
    BY <2>2 DEF Heeded
  <2> HIDE DEF k, t
  <2>4. Heeded(k, held) => Message(k, t, held) \in Messages /\ Fine(Message(k, t, held))
    <3> SUFFICES ASSUME Heeded(k, held)
                 PROVE  Message(k, t, held) \in Messages /\ Fine(Message(k, t, held))
      OBVIOUS
    <3>1. k \in Kinds /\ held = kept[k][t]
      BY <2>3
    <3>2. /\ k = "output" => held \in Outputs \cup {None}
          /\ k # "output" => held \in Texts \cup {None}
      <4>1. /\ kept["output"][t] \in Outputs \cup {None}
            /\ \A j \in Kinds \ {"output"} : kept[j][t] \in Texts \cup {None}
        BY <2>1 DEF TypeOK, StoreType
      <4> QED  BY <3>1, <4>1
    <3>3. Message(k, t, held) \in Messages
      BY <2>1, <3>1, <3>2, RowMessage
    <3>4. Right(cancelled, k, t, held)
      BY <2>1, <3>1 DEF MessagesRight, StoresRight
    <3> QED  BY <1>2, <3>3, <3>4 DEF Fine
  <2>5. \/ inbox'[c] = inbox[c]
        \/ inbox'[c] = Append(inbox[c], Message(k, t, held)) /\ Heeded(k, held)
    BY <1>3, <2>2
  <2> QED  BY <2>4, <2>5
<1>6. ASSUME NEW m \in Masters, MasterCall(m) PROVE Goal
  <2>0. m \in Clients
    BY DEF Clients
  <2>1. ASSUME NEW t \in Tasks, Intervene(m, t) PROVE Goal
    <3>1. Message("intervene", t, "command") \in Messages /\ Fine(Message("intervene", t, "command"))
      BY <1>2 DEF Message, Messages
    <3>2. inbox'[c] = inbox[c] \/ inbox'[c] = Append(inbox[c], Message("intervene", t, "command"))
      BY <2>1 DEF Intervene, Delivered
    <3> QED  BY <3>1, <3>2
  <2>2. CASE Direct(m)
    <3>1. Head(todo[m]).task \in Tasks
      BY <2>0, <2>2, HeadType DEF Direct
    <3>2. PICK t \in Tasks : t = Head(todo[m]).task
      BY <3>1
    <3>3. Message("direct", t, "task") \in Messages /\ Fine(Message("direct", t, "task"))
      BY <1>2 DEF Message, Messages, Texts
    <3>4. inbox'[c] = inbox[c] \/ inbox'[c] = Append(inbox[c], Message("direct", t, "task"))
      BY <1>3, <2>2, <3>2 DEF Direct
    <3> QED  BY <3>3, <3>4
  <2>3. CASE Shutdown(m)
    <3>1. Message("global", None, "shutdown") \in Messages /\ Fine(Message("global", None, "shutdown"))
      BY <1>2 DEF Message, Messages
    <3>2. inbox'[c] = inbox[c] \/ inbox'[c] = Append(inbox[c], Message("global", None, "shutdown"))
      BY <2>3 DEF Shutdown
    <3> QED  BY <3>1, <3>2
  <2>4. CASE TakeOutput(m)
    BY <1>3, <2>4 DEF TakeOutput
  <2>5. CASE inbox' = inbox
    BY <2>5
  <2> QED
    BY <1>6, <2>1, <2>2, <2>3, <2>4, <2>5
    DEF MasterCall, Post, Push, CancelTask, Wait, RecoverOutput, WaitEnds, TimeOut
<1>7. ASSUME NEW v \in Workers, WorkerCall(v) PROVE Goal
  <2>1. CASE Listen(v)
    <3> DEFINE held == {t \in Tasks : kept["input"][t] # None}
    <3>1. PICK order \in SetToSeqs(held) :
            inbox' = IF prefixed THEN inbox
                     ELSE [inbox EXCEPT ![v] = @ \o [i \in DOMAIN order |->
                                                       Message("input", order[i], "task")]]
      BY <2>1 DEF Listen
    <3>2. order \in Seq(held)
      <4>1. IsFiniteSet(held)
        BY FS_Subset, AgentsAssumption
      <4> HIDE DEF held
      <4> QED  BY <4>1, OrdersAreSequences
    <3>3. PICK sent : sent = [i \in DOMAIN order |-> Message("input", order[i], "task")]
      OBVIOUS
    <3>4. sent \in Seq(Messages) /\ \A i \in DOMAIN sent : Fine(sent[i])
      <4>1. \A i \in DOMAIN order : order[i] \in Tasks
        BY <3>2
      <4>2. \A t \in Tasks : Message("input", t, "task") \in Messages
        BY DEF Message, Messages, Texts
      <4>3. \A i \in DOMAIN order : Message("input", order[i], "task") \in Messages
        BY <4>1, <4>2
      <4>4. sent \in Seq(Messages)
        BY <3>2, <3>3, <4>3
      <4> QED  BY <1>2, <3>3, <4>4
    <3>5. inbox'[c] = inbox[c] \/ inbox'[c] = inbox[c] \o sent
      BY <1>3, <3>1, <3>3
    <3> QED  BY <3>4, <3>5
  <2>2. CASE Disconnect(v) \/ Crash(v) \/ TakeShutdown(v)
    BY <1>3, <2>2 DEF Disconnect, Crash, TakeShutdown
  <2>3. CASE TakeTask(v) \/ TakeSignal(v) \/ TakeCommand(v)
    BY <1>3, <2>3 DEF TakeTask, TakeSignal, TakeCommand, Received, Idle
  <2>4. CASE inbox' = inbox
    BY <2>4
  <2> QED
    BY <1>7, <2>1, <2>2, <2>3, <2>4
    DEF WorkerCall, Start, Stop, Stopped, GetInterventions, HandlerCompletes, RecoverSignal,
        Note, HandlerEnds, Finish
<1>8. CASE UNCHANGED vars
  BY <1>8 DEF vars
<1> QED
  BY <1>4, <1>5, <1>6, <1>7, <1>8, StepCases

\* A master cancels what it called cancel_task for.
LEMMA CancelsStep ==
    ASSUME TypeOK, MessagesRight, [Next]_vars
    PROVE  CancelsCalled'
<1>0. cancelled \subseteq cancelled' /\ CancelsCalled
  BY CancelledGrows DEF MessagesRight
<1> SUFFICES ASSUME NEW m \in Masters
             PROVE  \A i \in DOMAIN todo'[m] :
                      todo'[m][i].op = "publish" /\ todo'[m][i].kind = "signal"
                        => todo'[m][i].task \in cancelled'
  BY DEF CancelsCalled
<1> DEFINE Goal == \A i \in DOMAIN todo'[m] :
                      todo'[m][i].op = "publish" /\ todo'[m][i].kind = "signal"
                        => todo'[m][i].task \in cancelled'
<1>1. m \in Clients /\ DOMAIN todo = Clients /\ todo[m] \in Seq(MasterOps)
  BY DEF TypeOK, TodoType, Clients
<1>2. CASE todo'[m] = todo[m]
  BY <1>0, <1>2 DEF CancelsCalled
<1>3. CASE todo[m] # <<>> /\ todo'[m] = Tail(todo[m])
  <2>1. \A i \in DOMAIN todo'[m] :
          i \in Nat /\ i + 1 \in DOMAIN todo[m] /\ todo'[m][i] = todo[m][i + 1]
    BY <1>1, <1>3, TailElements
  <2> QED  BY <1>0, <2>1 DEF CancelsCalled
<1>4. ASSUME NEW c \in Clients, Subscribe(c) \/ \E allowed \in BOOLEAN : Publish(c, allowed)
      PROVE  Goal
  <2>1. todo' = [todo EXCEPT ![c] = Tail(@)] /\ todo[c] # <<>>
    BY <1>4 DEF Subscribe, Publish, Advance, At
  <2> QED  BY <1>1, <1>2, <1>3, <2>1
<1>5. ASSUME NEW n \in Masters, MasterCall(n) PROVE Goal
  <2>0. CASE n # m
    <3>1. todo' = todo \/ \E s : todo' = [todo EXCEPT ![n] = s]
      BY <1>5 DEF MasterCall, Post, Push, CancelTask, Intervene, Wait, Direct, Shutdown,
                  RecoverOutput, TakeOutput, WaitEnds, TimeOut, Advance
    <3> QED  BY <1>1, <1>2, <2>0, <3>1
  <2>1. ASSUME n = m, NEW t \in Tasks, NEW targets \in SUBSET Workers, Post(m, t, targets)
        PROVE  Goal
    <3>1. IsFiniteSet(targets)
      BY FS_Subset, AgentsAssumption
    <3>2. PICK order \in SetToSeqs(targets) :
            todo' = [todo EXCEPT ![m] =
                       <<Pub("input", t, "task")>> \o
                         [i \in DOMAIN order |-> [op |-> "direct", task |-> t, to |-> order[i]]]]
      BY <2>1 DEF Post
    <3>3. order \in Seq(targets)
      BY <3>1, OrdersAreSequences
    <3>4. PICK first \in Seq(MasterOps) : first = <<Pub("input", t, "task")>> /\ Len(first) = 1
                                         /\ first[1] = Pub("input", t, "task")
      <4>1. PICK p \in MasterOps : p = Pub("input", t, "task")
        BY DEF Pub, MasterOps
      <4>2. <<p>> \in Seq(MasterOps) /\ Len(<<p>>) = 1 /\ <<p>>[1] = p
        OBVIOUS
      <4> QED  BY <4>1, <4>2
    <3>5. PICK pushed \in Seq(MasterOps) :
            /\ pushed = [i \in DOMAIN order |-> [op |-> "direct", task |-> t, to |-> order[i]]]
            /\ \A i \in DOMAIN pushed : pushed[i].op = "direct"
      <4>1. \A i \in DOMAIN order : order[i] \in Workers
        BY <3>3
      <4>2. \A i \in DOMAIN order : [op |-> "direct", task |-> t, to |-> order[i]] \in MasterOps
        BY <4>1, MasterCalls
      <4>3. \A i \in DOMAIN order : [op |-> "direct", task |-> t, to |-> order[i]].op = "direct"
        OBVIOUS
      <4> DEFINE Calls == [i \in DOMAIN order |-> [op |-> "direct", task |-> t, to |-> order[i]]]
      <4>4. Calls \in Seq(MasterOps)
        BY <3>3, <4>2
      <4>5. \A i \in DOMAIN Calls : Calls[i].op = "direct"
        BY <4>3
      <4> QED  BY <4>4, <4>5
    <3>6. todo'[m] = first \o pushed
      BY <1>1, <3>2, <3>4, <3>5
    <3>7. \A i \in DOMAIN (first \o pushed) :
            \/ i \in DOMAIN first /\ (first \o pushed)[i] = first[i]
            \/ i - Len(first) \in DOMAIN pushed
               /\ (first \o pushed)[i] = pushed[i - Len(first)]
      BY ConcatElements
    <3>8. \A i \in DOMAIN first : first[i].kind = "input"
      BY <3>4 DEF Pub
    <3> QED  BY <3>5, <3>6, <3>7, <3>8
  <2>2. ASSUME n = m, NEW t \in Tasks, NEW w \in Workers, Push(m, t, w) PROVE Goal
    <3>1. todo'[m] = <<[op |-> "direct", task |-> t, to |-> w]>>
      BY <1>1, <2>2 DEF Push
    <3> QED  BY <3>1
  <2>3. ASSUME n = m, NEW t \in Tasks, CancelTask(m, t) PROVE Goal
    <3>1. todo'[m] = <<Pub("signal", t, "cancel")>> /\ t \in cancelled'
      BY <1>1, <2>3 DEF CancelTask
    <3> QED  BY <3>1 DEF Pub
  <2>4. ASSUME n = m, NEW ts \in SUBSET Tasks, Wait(m, ts) PROVE Goal
    <3>1. PICK order \in SetToSeqs(ts) :
            todo'[m] = [i \in 1..2 * Len(order) |->
                          Op(IF i % 2 = 1 THEN "subscribe" ELSE "recover", "output",
                             order[(i + 1) \div 2])]
      BY <1>1, <2>4 DEF Wait
    <3> QED  BY <3>1 DEF Op
  <2>5. CASE n = m /\ (Direct(m) \/ RecoverOutput(m))
    BY <1>1, <1>3, <2>5 DEF Direct, RecoverOutput, Advance, At
  <2>6. CASE todo' = todo
    BY <1>2, <2>6
  <2> QED
    BY <1>5, <2>0, <2>1, <2>2, <2>3, <2>4, <2>5, <2>6
    DEF MasterCall, Intervene, Shutdown, TakeOutput, WaitEnds, TimeOut
<1>6. ASSUME NEW v \in Workers, WorkerCall(v) PROVE Goal
  <2>1. v # m
    BY AgentsAssumption
  <2>2. todo' = todo \/ \E s : todo' = [todo EXCEPT ![v] = s]
    BY <1>6 DEF WorkerCall, Start, Listen, Stop, Disconnect, Stopped, Crash, GetInterventions,
                HandlerCompletes, RecoverSignal, Note, HandlerEnds, Finish, TakeTask,
                TakeSignal, TakeCommand, TakeShutdown, Advance, CompletesThen
  <2> QED  BY <1>1, <1>2, <2>1, <2>2
<1>7. CASE UNCHANGED vars
  BY <1>2, <1>7 DEF vars
<1> QED
  BY <1>4, <1>5, <1>6, <1>7, StepCases

\* A worker publishes outputs of the task it is about.
LEMMA OutputsStep ==
    ASSUME TypeOK, WorkExact, MessagesRight, [Next]_vars
    PROVE  OutputsRight'
<1>0. cancelled \subseteq cancelled' /\ OutputsRight /\ StoresRight
  BY CancelledGrows DEF MessagesRight
<1> SUFFICES ASSUME NEW w \in Workers
             PROVE  \A i \in DOMAIN todo'[w] :
                      todo'[w][i].op = "publish" /\ todo'[w][i].kind = "output" =>
                        Right(cancelled', "output", todo'[w][i].task, todo'[w][i].value)
  BY DEF OutputsRight
<1>1. /\ todo[w] \in Seq(WorkerOps) /\ CompletionFirst(w) /\ RunLast(w) /\ OwnWork(w)
      /\ \A i \in DOMAIN todo[w] :
           todo[w][i].op = "publish" /\ todo[w][i].kind = "output" =>
             Right(cancelled', "output", todo[w][i].task, todo[w][i].value)
  <2>1. /\ todo[w] \in Seq(WorkerOps) /\ CompletionFirst(w) /\ RunLast(w) /\ OwnWork(w)
    BY DEF TypeOK, TodoType, WorkExact
  <2>2. ASSUME NEW i \in DOMAIN todo[w], todo[w][i].op = "publish", todo[w][i].kind = "output"
        PROVE  Right(cancelled', "output", todo[w][i].task, todo[w][i].value)
    <3>1. Right(cancelled, "output", todo[w][i].task, todo[w][i].value)
      BY <1>0, <2>2 DEF OutputsRight
    <3> QED  BY <1>0, <3>1, StaysRight
  <2> QED  BY <2>1, <2>2
<1>2. CASE Rests(w)
  BY <1>1, <1>2 DEF Rests
<1>3. CASE Advances(w) \/ Finishes(w)
  <2>1. todo[w] # <<>> /\ todo'[w] = Tail(todo[w])
    BY <1>3 DEF Advances, Finishes, At
  <2>2. \A i \in DOMAIN todo'[w] :
          i \in Nat /\ i + 1 \in DOMAIN todo[w] /\ todo'[w][i] = todo[w][i + 1]
    BY <1>1, <2>1, TailElements
  <2> QED  BY <1>1, <2>2
<1>4. CASE Completes(w)
  <2>1. PICK o \in Outputs : \E rest \in Seq(WorkerOps) : CompletesWith(w, o, rest)
    BY <1>4 DEF Completes
  <2>2. PICK rest \in Seq(WorkerOps) : CompletesWith(w, o, rest)
    BY <2>1
  <2>3. todo[w] # <<>> /\ Head(todo[w]).task = current[w] /\ current[w] \in Tasks
    BY <1>1, <2>2, RestOwn DEF CompletesWith
  <2>4. Right(cancelled', "output", current[w], o)
    <3>1. o.task = current[w] /\ o.of = current[w]
      BY <2>2, <2>3 DEF CompletesWith
    <3>2. o.how = "cancelled" => db["signal"][current[w]] = "cancel"
      BY <2>2, <2>3 DEF CompletesWith
    <3>3. db["signal"][current[w]] = "cancel" => current[w] \in cancelled
      BY <1>0, <2>3 DEF StoresRight, Right, Kinds
    <3> QED  BY <1>0, <3>1, <3>2, <3>3 DEF Right
  <2>5. todo'[w] = Complete(current[w], o) \o rest
    BY <2>2 DEF CompletesWith
  <2>6. PICK s \in Seq(WorkerOps) :
          s = todo'[w] /\ CompletionBefore(s, current[w], o, rest)
    <3>1. CompletionBefore(todo'[w], current[w], o, rest)
      BY <2>3, <2>5, CompletionParts
    <3> QED  BY <3>1 DEF CompletionBefore
  <2>7. \A i \in DOMAIN rest :
          rest[i].op = "publish" /\ rest[i].kind = "output" =>
             Right(cancelled', "output", rest[i].task, rest[i].value)
    <3>1. CASE rest = todo[w]
      BY <1>1, <3>1
    <3>2. CASE rest = Tail(todo[w])
      <4>1. \A i \in DOMAIN rest :
              i \in Nat /\ i + 1 \in DOMAIN todo[w] /\ rest[i] = todo[w][i + 1]
        BY <1>1, <2>3, <3>2, TailElements
      <4> QED  BY <1>1, <4>1
    <3>3. rest = todo[w] \/ rest = Tail(todo[w])
      BY <2>2, <2>3 DEF CompletesWith
    <3> QED  BY <3>1, <3>2, <3>3
  <2>8. \A i \in DOMAIN s : \/ i \in {1, 2, 3, 4, 5}
                            \/ i - 5 \in DOMAIN rest /\ s[i] = rest[i - 5]
    BY <2>6, CompletionKinds
  <2>9. \A i \in {1, 2, 3, 4, 5} :
          s[i].op = "publish" /\ s[i].kind = "output" =>
            Right(cancelled', "output", s[i].task, s[i].value)
    <3>1. /\ s[1].task = current[w] /\ s[1].value = o
          /\ s[2].kind = "signal" /\ s[3].value = None /\ s[4].kind = "signal"
          /\ s[5].op = "finish"
      BY <2>6 DEF CompletionBefore, Pub, Op
    <3> QED  BY <2>4, <3>1, SMTT(20) DEF Right
  <2> QED  BY <2>6, <2>7, <2>8, <2>9, SMTT(20)
<1>5. CASE Claims(w)
  <2>1. PICK t \in Tasks : todo'[w] = Claim(t)
    BY <1>5 DEF Claims
  <2>2. PICK s \in Seq(WorkerOps) :
          /\ s = todo'[w]
          /\ s[1].op = "subscribe" /\ s[2].op = "recover" /\ s[3].op = "note"
          /\ s[4].op = "subscribe" /\ s[5].op = "note" /\ s[6].op = "run"
          /\ \A i \in DOMAIN s : i \in {1, 2, 3, 4, 5, 6}
    BY <2>1, ClaimParts
  <2>3. \A i \in DOMAIN s : s[i].op # "publish"
    BY <2>2
  <2> QED  BY <2>2, <2>3
<1>6. CASE Crashes(w)
  BY <1>6 DEF Crashes
<1> QED  BY <1>2, <1>3, <1>4, <1>5, <1>6, WorkStep DEF WorkKinds

\* The results of a wait are rows of the database and messages of the inbox.
LEMMA ResultsStep ==
    ASSUME TypeOK, MessagesRight, [Next]_vars
    PROVE  ResultsRight'
<1>0. cancelled \subseteq cancelled' /\ ResultsRight
  BY CancelledGrows DEF MessagesRight
<1> SUFFICES ASSUME NEW m \in Masters, NEW t \in Tasks
             PROVE  Right(cancelled', "output", t, wait'[m].results[t])
  BY DEF ResultsRight
<1>1. Right(cancelled', "output", t, wait[m].results[t])
  BY <1>0, StaysRight DEF ResultsRight
<1>2. Right(cancelled', "output", t, None)
  BY DEF Right
<1>3. CASE wait' = wait
  BY <1>1, <1>3
<1>4. wait \in [Masters -> [tasks : SUBSET Tasks, results : [Tasks -> Outputs \cup {None}]]]
  BY DEF TypeOK
<1>5. ASSUME NEW n \in Masters, RecoverOutput(n)
      PROVE  Right(cancelled', "output", t, wait'[m].results[t])
  <2>1. PICK u \in Tasks : u = Head(todo[n]).task
    <3>1. n \in Clients /\ At(n, "recover")
      BY <1>5 DEF RecoverOutput, Clients
    <3> QED  BY <3>1, HeadType
  <2>2. Right(cancelled', "output", u, db["output"][u])
    <3>1. Right(cancelled, "output", u, db["output"][u])
      BY DEF MessagesRight, StoresRight, Kinds
    <3> QED  BY <1>0, <3>1, StaysRight
  <2>3. wait' = wait \/ wait' = [wait EXCEPT ![n].results[u] = db["output"][u]]
    BY <1>5, <2>1 DEF RecoverOutput
  <2> QED  BY <1>1, <1>4, <2>2, <2>3, SMTT(20)
<1>6. ASSUME NEW n \in Masters, TakeOutput(n)
      PROVE  Right(cancelled', "output", t, wait'[m].results[t])
  <2>1. PICK e \in OutputMessages : e = Head(inbox[n]) /\ 1 \in DOMAIN inbox[n] /\ e = inbox[n][1]
    <3>1. inbox[n] \in Seq(OutputMessages) /\ inbox[n] # <<>>
      BY <1>6 DEF TakeOutput, TypeOK, InboxType
    <3> QED  BY <3>1, TailElements
  <2>2. e.kind = "output" /\ e.task \in Tasks
    BY DEF OutputMessages
  <2>3. Right(cancelled', "output", e.task, e.value)
    <3>1. n \in Clients
      BY DEF Clients
    <3>2. Right(cancelled, "output", e.task, e.value)
      BY <2>1, <2>2, <3>1 DEF MessagesRight, InboxRight
    <3> QED  BY <1>0, <3>2, StaysRight
  <2>4. wait' = wait \/ wait' = [wait EXCEPT ![n].results[e.task] = e.value]
    BY <1>6, <2>1 DEF TakeOutput
  <2> QED  BY <1>1, <1>4, <2>2, <2>3, <2>4
<1>7. ASSUME NEW n \in Masters,
             WaitEnds(n) \/ TimeOut(n) \/ \E ts \in SUBSET Tasks \ {{}} : Wait(n, ts)
      PROVE  Right(cancelled', "output", t, wait'[m].results[t])
  <2>1. \E ts : wait' = [wait EXCEPT ![n] = [tasks |-> ts, results |-> NoResults]]
    BY <1>7 DEF WaitEnds, TimeOut, Wait, NoWait
  <2>2. NoResults[t] = None
    BY DEF NoResults
  <2> QED  BY <1>1, <1>2, <1>4, <2>1, <2>2
<1>8. ASSUME NEW n \in Masters, MasterCall(n)
      PROVE  Right(cancelled', "output", t, wait'[m].results[t])
  BY <1>3, <1>5, <1>6, <1>7, <1>8
  DEF MasterCall, Post, Push, CancelTask, Intervene, Direct, Shutdown
<1>9. ASSUME NEW v \in Workers, WorkerCall(v) PROVE wait' = wait
  BY <1>9 DEF WorkerCall, Start, Listen, Stop, Disconnect, Stopped, Crash, GetInterventions,
              HandlerCompletes, RecoverSignal, Note, HandlerEnds, Finish, TakeTask,
              TakeSignal, TakeCommand, TakeShutdown
<1>10. ASSUME NEW c \in Clients, Subscribe(c) \/ \E allowed \in BOOLEAN : Publish(c, allowed)
       PROVE  wait' = wait
  BY <1>10 DEF Subscribe, Publish
<1>11. UNCHANGED vars => wait' = wait
  BY DEF vars
<1> QED
  BY <1>3, <1>8, <1>9, <1>10, <1>11, StepCases

\* MessagesRight holds at first and is kept by every step.
LEMMA RightInvariant ==
    /\ Init => MessagesRight
    /\ TypeOK /\ WorkExact /\ MessagesRight /\ [Next]_vars => MessagesRight'
<1>1. ASSUME Init PROVE MessagesRight
  <2>1. /\ \A k \in Kinds : \A t \in Tasks : db[k][t] = None /\ kept[k][t] = None
        /\ \A m \in Masters : \A t \in Tasks : wait[m].results[t] = None
        /\ \A c \in Clients : inbox[c] = <<>> /\ todo[c] = <<>>
    BY <1>1 DEF Init, NoResults, NoWait
  <2>2. \A k, t : Right(cancelled, k, t, None)
    BY AgentsAssumption DEF Right
  <2> QED
    BY <2>1, <2>2 DEF MessagesRight, StoresRight, InboxRight, CancelsCalled, OutputsRight,
                      ResultsRight, Clients
<1>2. ASSUME TypeOK, WorkExact, MessagesRight, [Next]_vars PROVE MessagesRight'
  BY <1>2, StoresStep, InboxStep, CancelsStep, OutputsStep, ResultsStep DEF MessagesRight
<1> QED  BY <1>1, <1>2

\* What wait_task and wait_all return for a task is an output that this task's own
\* handler produced, or that says it was cancelled when it was (bbs.py:309, 392, 728).
THEOREM AnswersAreOwn == Spec => []AnswersOwn
<1>1. TypeOK /\ MessagesRight => AnswersOwn
  <2> SUFFICES ASSUME TypeOK, MessagesRight, NEW m \in Masters, NEW t \in wait[m].tasks
               PROVE  LET r == wait[m].results[t] IN
                        r # None => /\ r.task = t /\ r.of = t
                                    /\ r.how = "cancelled" => t \in cancelled
    BY DEF AnswersOwn
  <2>1. t \in Tasks
    BY DEF TypeOK
  <2> QED  BY <2>1 DEF MessagesRight, ResultsRight, Right
<1> QED  BY TypeInvariant, WorkInvariant, RightInvariant, <1>1, PTL DEF Spec


----------------------------------------------------------------------------
(* CommandsOwn.  A command is taken when the worker is idle, and then it   *)
(* has no task: the callbacks for commands that it still has are those     *)
(* that a cancelled claim left behind.                                     *)

\* A subscription to the commands of a task is noted at once ...
Followed(s) ==
    \A i \in DOMAIN s :
      s[i].op = "subscribe" /\ s[i].kind = "intervene" =>
        i + 1 \in DOMAIN s /\ s[i + 1] = Op("note", "intervene", s[i].task)

\* ... only the claim of a cancelled task goes on after its completion ...
LeftOver(w) ==
    current[w] = None \/ (\E j \in DOMAIN todo[w] : todo[w][j].op = "finish") =>
      \A i \in DOMAIN todo[w] : todo[w][i].op = "subscribe" => todo[w][i].task \in cancelled

\* ... and commands for a task that was not cancelled can reach only the worker
\* that has it, and their subscription ends with the task.
CommandTopics(w) ==
    \A c \in Tasks \ cancelled :
      <<"intervene", c>> \in callbacks[w] =>
        /\ current[w] = c
        /\ \/ <<"intervene", c>> \in dynamic[w]
           \/ todo[w] # <<>> /\ Head(todo[w]) = Op("note", "intervene", c)

CommandsExact == \A w \in Workers :
    /\ Followed(todo[w]) /\ LeftOver(w) /\ CommandTopics(w)
    /\ commands[w] \subseteq cancelled

\* Taking the first call away separates no subscription from its note.
LEMMA FollowedTail ==
    ASSUME NEW s \in Seq(WorkerOps), s # <<>>, Followed(s)
    PROVE  Followed(Tail(s))
<1>1. /\ \A i \in DOMAIN Tail(s) : i \in Nat /\ i + 1 \in DOMAIN s /\ Tail(s)[i] = s[i + 1]
      /\ \A i \in DOMAIN s : i # 1 => i - 1 \in DOMAIN Tail(s)
  BY TailElements
<1> SUFFICES ASSUME NEW i \in DOMAIN Tail(s), Tail(s)[i].op = "subscribe",
                    Tail(s)[i].kind = "intervene"
             PROVE  /\ i + 1 \in DOMAIN Tail(s)
                    /\ Tail(s)[i + 1] = Op("note", "intervene", Tail(s)[i].task)
  BY DEF Followed
<1>2. i \in Nat /\ i + 1 \in DOMAIN s /\ Tail(s)[i] = s[i + 1]
  BY <1>1
<1>3. (i + 1) + 1 \in DOMAIN s /\ s[(i + 1) + 1] = Op("note", "intervene", s[i + 1].task)
  BY <1>2 DEF Followed
<1>4. i + 1 \in DOMAIN Tail(s)
  <2>1. ((i + 1) + 1) # 1 /\ ((i + 1) + 1) - 1 = i + 1
    BY <1>2
  <2> QED  BY <1>1, <1>3, <2>1
<1>5. Tail(s)[i + 1] = s[(i + 1) + 1]
  BY <1>1, <1>4
<1> QED  BY <1>2, <1>3, <1>4, <1>5

\* Every step keeps a subscription and its note together.
LEMMA FollowedStep ==
    ASSUME TypeOK, TypeOK', NEW w \in Workers, WorkKinds(w), Followed(todo[w])
    PROVE  Followed(todo'[w])
<1>0. todo[w] \in Seq(WorkerOps) /\ todo'[w] \in Seq(WorkerOps)
  BY DEF TypeOK, TodoType
<1>1. CASE Rests(w)
  BY <1>1 DEF Rests
<1>2. CASE Advances(w) \/ Finishes(w)
  <2>1. todo[w] # <<>> /\ todo'[w] = Tail(todo[w])
    BY <1>2 DEF Advances, Finishes, At
  <2> QED  BY <1>0, <2>1, FollowedTail
<1>3. CASE Completes(w)
  <2>1. PICK o \in Outputs : \E rest \in Seq(WorkerOps) : CompletesWith(w, o, rest)
    BY <1>3 DEF Completes
  <2>2. PICK rest \in Seq(WorkerOps) : CompletesWith(w, o, rest)
    BY <2>1
  <2>3. Followed(rest)
    <3>1. \/ rest = <<>>
          \/ At(w, "recover") /\ rest = Tail(todo[w])
          \/ At(w, "run") /\ (rest = todo[w] \/ rest = Tail(todo[w]))
      BY <2>2 DEF CompletesWith
    <3>a. \A op : At(w, op) => todo[w] # <<>>
      BY DEF At
    <3>2. Followed(<<>>)
      BY DEF Followed
    <3> QED  BY <1>0, <3>a, <3>1, <3>2, FollowedTail
  <2>5. current[w] \in Tasks /\ todo'[w] = Complete(current[w], o) \o rest
    BY <2>2 DEF CompletesWith
  <2>6. PICK s \in Seq(WorkerOps) :
          s = todo'[w] /\ CompletionBefore(s, current[w], o, rest)
    BY <1>0, <2>5, CompletionParts
  <2>7. \A i \in DOMAIN s :
          \/ s[i].op \in {"publish", "finish"}
          \/ i > 5 /\ i - 5 \in DOMAIN rest /\ s[i] = rest[i - 5]
    BY <2>6, CompletionKinds
  <2>8. /\ \A j \in 1..Len(rest) : s[j + 5] = rest[j]
        /\ Len(s) = 5 + Len(rest)
    BY <2>6 DEF CompletionBefore
  <2>9. ASSUME NEW i \in DOMAIN s, s[i].op = "subscribe", s[i].kind = "intervene"
        PROVE  i + 1 \in DOMAIN s /\ s[i + 1] = Op("note", "intervene", s[i].task)
    <3>1. i - 5 \in DOMAIN rest /\ s[i] = rest[i - 5] /\ i \in Nat
      BY <2>7, <2>9
    <3>2. /\ (i - 5) + 1 \in DOMAIN rest
          /\ rest[(i - 5) + 1] = Op("note", "intervene", rest[i - 5].task)
      BY <2>3, <2>9, <3>1 DEF Followed
    <3>3. i + 1 = ((i - 5) + 1) + 5 /\ (i - 5) + 1 \in 1..Len(rest) /\ i + 1 \in 1..Len(s)
      <4>1. (i - 5) + 1 \in 1..Len(rest) /\ Len(rest) \in Nat
        BY <3>2
      <4> QED  BY <2>8, <3>1, <4>1
    <3>4. s[i + 1] = rest[(i - 5) + 1]
      BY <2>8, <3>3
    <3> QED  BY <3>1, <3>2, <3>3, <3>4
  <2> QED  BY <2>6, <2>9 DEF Followed
<1>4. CASE Claims(w)
  <2>1. PICK t \in Tasks : todo'[w] = Claim(t)
    BY <1>4 DEF Claims
  <2>2. PICK s \in Seq(WorkerOps) :
          /\ s = todo'[w] /\ Len(s) = 6
          /\ s[1] = Op("subscribe", "signal", t) /\ s[2] = Op("recover", "signal", t)
          /\ s[3] = Op("note", "signal", t) /\ s[4] = Op("subscribe", "intervene", t)
          /\ s[5] = Op("note", "intervene", t) /\ s[6] = Op("run", "handler", t)
    BY <2>1, ClaimCalls
  <2>3. \A i \in DOMAIN s : i \in {1, 2, 3, 4, 5, 6}
    BY <2>2
  <2>4. 5 \in DOMAIN s
    BY <2>2
  <2>5. ASSUME NEW i \in DOMAIN s, s[i].op = "subscribe", s[i].kind = "intervene"
        PROVE  i = 4 /\ s[4].task = t
    <3>1. /\ s[1].kind = "signal" /\ s[2].op = "recover" /\ s[3].op = "note"
          /\ s[4].task = t /\ s[5].op = "note" /\ s[6].op = "run"
      BY <2>2 DEF Op
    <3> QED  BY <2>3, <2>5, <3>1
  <2> QED  BY <2>2, <2>4, <2>5 DEF Followed
<1>5. CASE Crashes(w)
  BY <1>5 DEF Crashes, Followed
<1> QED  BY <1>1, <1>2, <1>3, <1>4, <1>5 DEF WorkKinds

\* Only a cancellation completes a task in the middle of its claim.
LEMMA LeftOverStep ==
    ASSUME TypeOK, TypeOK', NEW w \in Workers, WorkKinds(w), cancelled \subseteq cancelled',
           StoresRight, CompletionFirst(w), RunLast(w), OwnWork(w), LeftOver(w)
    PROVE  LeftOver(w)'
<1>0. todo[w] \in Seq(WorkerOps) /\ todo'[w] \in Seq(WorkerOps)
  BY DEF TypeOK, TodoType
<1>1. CASE Rests(w)
  BY <1>1 DEF Rests, LeftOver
<1>2. CASE Advances(w) \/ Finishes(w)
  <2>1. todo[w] # <<>> /\ todo'[w] = Tail(todo[w])
    BY <1>2 DEF Advances, Finishes, At
  <2>2. /\ Head(todo[w]) = todo[w][1] /\ 1 \in DOMAIN todo[w]
        /\ \A i \in DOMAIN todo'[w] :
             i \in Nat /\ i + 1 \in DOMAIN todo[w] /\ todo'[w][i] = todo[w][i + 1]
    BY <1>0, <2>1, TailElements
  <2>3. \/ current'[w] = current[w]
        \/ \E j \in DOMAIN todo[w] : todo[w][j].op = "finish"
    BY <1>2, <2>2 DEF Advances, Finishes, At
  <2>4. (\E j \in DOMAIN todo'[w] : todo'[w][j].op = "finish")
          => \E j \in DOMAIN todo[w] : todo[w][j].op = "finish"
    BY <2>2
  <2>5. current'[w] = None \/ (\E j \in DOMAIN todo'[w] : todo'[w][j].op = "finish") =>
          \A i \in DOMAIN todo[w] : todo[w][i].op = "subscribe" => todo[w][i].task \in cancelled
    BY <2>3, <2>4 DEF LeftOver
  <2>6. current'[w] = None \/ (\E j \in DOMAIN todo'[w] : todo'[w][j].op = "finish") =>
          \A i \in DOMAIN todo'[w] :
            todo'[w][i].op = "subscribe" => todo'[w][i].task \in cancelled'
    BY <2>2, <2>5
  <2> QED  BY <2>6 DEF LeftOver
<1>3. CASE Completes(w)
  <2>1. PICK o \in Outputs : \E rest \in Seq(WorkerOps) : CompletesWith(w, o, rest)
    BY <1>3 DEF Completes
  <2>2. PICK rest \in Seq(WorkerOps) : CompletesWith(w, o, rest)
    BY <2>1
  <2>3. todo[w] # <<>> => Head(todo[w]) = todo[w][1] /\ 1 \in DOMAIN todo[w]
    BY <1>0, TailElements
  <2>4. \A i \in DOMAIN rest : rest[i].op = "subscribe" => rest[i].task \in cancelled
    <3>1. CASE rest = <<>>
      BY <3>1
    <3>2. CASE At(w, "recover")
      <4>1. rest = Tail(todo[w]) /\ db["signal"][Head(todo[w]).task] = "cancel"
            /\ todo[w] # <<>>
        BY <2>2, <3>2 DEF CompletesWith, At
      <4>2. Head(todo[w]).task = current[w] /\ current[w] \in Tasks
            /\ \A i \in DOMAIN rest : rest[i].task = current[w]
        BY <2>2, RestOwn DEF CompletesWith
      <4>3. current[w] \in cancelled
        BY <4>1, <4>2 DEF StoresRight, Right, Kinds
      <4> QED  BY <4>2, <4>3
    <3>3. CASE At(w, "run")
      <4>1. todo[w] # <<>> /\ todo[w][1].op = "run" /\ 1 \in DOMAIN todo[w]
        BY <2>3, <3>3 DEF At
      <4>2. Len(todo[w]) = 1
        BY <4>1 DEF RunLast
      <4>3. rest = todo[w] \/ rest = Tail(todo[w])
        BY <2>2, <3>3 DEF CompletesWith, At
      <4>4. \A i \in DOMAIN rest : i = 1 /\ rest = todo[w]
        BY <1>0, <4>1, <4>2, <4>3
      <4> QED  BY <4>1, <4>4
    <3> QED  BY <2>2, <3>1, <3>2, <3>3 DEF CompletesWith
  <2>5. current[w] \in Tasks /\ todo'[w] = Complete(current[w], o) \o rest
    BY <2>2 DEF CompletesWith
  <2>6. PICK s \in Seq(WorkerOps) :
          s = todo'[w] /\ CompletionBefore(s, current[w], o, rest)
    BY <1>0, <2>5, CompletionParts
  <2>7. \A i \in DOMAIN s :
          \/ s[i].op \in {"publish", "finish"}
          \/ i - 5 \in DOMAIN rest /\ s[i] = rest[i - 5]
    BY <2>6, CompletionKinds
  <2>8. \A i \in DOMAIN s : s[i].op = "subscribe" => s[i].task \in cancelled'
    BY <2>4, <2>7
  <2> QED  BY <2>6, <2>8 DEF LeftOver
<1>4. CASE Claims(w)
  <2>1. PICK t \in Tasks : todo'[w] = Claim(t) /\ current'[w] = t
    BY <1>4 DEF Claims
  <2>2. PICK s \in Seq(WorkerOps) :
          /\ s = todo'[w]
          /\ s[1].op = "subscribe" /\ s[2].op = "recover" /\ s[3].op = "note"
          /\ s[4].op = "subscribe" /\ s[5].op = "note" /\ s[6].op = "run"
          /\ \A i \in DOMAIN s : i \in {1, 2, 3, 4, 5, 6}
    BY <2>1, ClaimParts
  <2>3. \A i \in DOMAIN s : s[i].op # "finish"
    BY <2>2
  <2>4. current'[w] # None
    BY <2>1, AgentsAssumption
  <2> QED  BY <2>2, <2>3, <2>4 DEF LeftOver
<1>5. CASE Crashes(w)
  BY <1>5 DEF Crashes, LeftOver
<1> QED  BY <1>1, <1>2, <1>3, <1>4, <1>5 DEF WorkKinds

\* A worker without anything to do has no task.
LEMMA IdleWithout ==
    ASSUME NEW w \in Workers, OwnWork(w), todo[w] = <<>>
    PROVE  current[w] = None
BY DEF OwnWork

\* The subscriptions of a worker to the commands of tasks.
LEMMA TopicsStep ==
    ASSUME TypeOK, WorkExact, CommandsExact, [Next]_vars, NEW w \in Workers
    PROVE  CommandTopics(w)'
<1>0. /\ cancelled \subseteq cancelled'
      /\ OwnWork(w) /\ Followed(todo[w]) /\ LeftOver(w) /\ CommandTopics(w)
  BY CancelledGrows DEF WorkExact, CommandsExact
<1>a. /\ todo[w] \in Seq(WorkerOps) /\ w \in Clients
      /\ DOMAIN todo = Clients /\ DOMAIN callbacks = Clients
      /\ DOMAIN dynamic = Workers /\ DOMAIN current = Workers
  BY DEF TypeOK, TodoType, CallbacksType, Clients
<1> SUFFICES ASSUME NEW c \in Tasks \ cancelled', <<"intervene", c>> \in callbacks'[w]
             PROVE  /\ current'[w] = c
                    /\ \/ <<"intervene", c>> \in dynamic'[w]
                       \/ todo'[w] # <<>> /\ Head(todo'[w]) = Op("note", "intervene", c)
  BY DEF CommandTopics
<1> DEFINE Goal == /\ current'[w] = c
                   /\ \/ <<"intervene", c>> \in dynamic'[w]
                      \/ todo'[w] # <<>> /\ Head(todo'[w]) = Op("note", "intervene", c)
           Noted == \/ <<"intervene", c>> \in dynamic[w]
                    \/ todo[w] # <<>> /\ Head(todo[w]) = Op("note", "intervene", c)
<1>1. <<"intervene", c>> \in callbacks[w] => current[w] = c /\ Noted
  BY <1>0 DEF CommandTopics
<1>2. ASSUME todo[w] # <<>> => Head(todo[w]).op # "note", <<"intervene", c>> \in callbacks[w]
      PROVE  current[w] = c /\ <<"intervene", c>> \in dynamic[w]
  BY <1>1, <1>2 DEF Op
<1>3. c \in Tasks /\ c \notin cancelled /\ c # None
  BY <1>0, AgentsAssumption
<1>4. todo[w] = <<>> => <<"intervene", c>> \notin callbacks[w]
  BY <1>0, <1>1, <1>3, IdleWithout
<1>5. CASE /\ callbacks'[w] = callbacks[w] /\ dynamic'[w] = dynamic[w]
           /\ current'[w] = current[w] /\ todo'[w] = todo[w]
  BY <1>1, <1>5
<1>6. CASE /\ callbacks'[w] = callbacks[w] /\ dynamic'[w] = dynamic[w]
           /\ current'[w] = current[w]
           /\ todo[w] # <<>> => Head(todo[w]).op # "note"
  BY <1>2, <1>6
<1>7. ASSUME NEW d \in Clients, NEW allowed \in BOOLEAN, Publish(d, allowed) PROVE Goal
  <2>1. /\ callbacks' = callbacks /\ dynamic' = dynamic /\ current' = current
        /\ todo' = [todo EXCEPT ![d] = Tail(@)] /\ At(d, "publish")
    BY <1>7 DEF Publish, Advance, Worker
  <2>2. CASE d = w
    BY <1>6, <2>1, <2>2 DEF At
  <2>3. CASE d # w
    BY <1>a, <1>5, <2>1, <2>3
  <2> QED  BY <2>2, <2>3
<1>8. ASSUME NEW d \in Clients, Subscribe(d) PROVE Goal
  <2>1. /\ callbacks' = [callbacks EXCEPT ![d] = @ \cup {<<Head(todo[d]).kind, Head(todo[d]).task>>}]
        /\ dynamic' = dynamic /\ current' = current
        /\ todo' = [todo EXCEPT ![d] = Tail(@)] /\ At(d, "subscribe")
    BY <1>8 DEF Subscribe, Advance, Worker
  <2>2. CASE d # w
    BY <1>a, <1>5, <2>1, <2>2
  <2>3. CASE d = w
    <3>1. /\ todo[w] # <<>> /\ Head(todo[w]).op = "subscribe" /\ todo'[w] = Tail(todo[w])
          /\ callbacks'[w] = callbacks[w] \cup {<<Head(todo[w]).kind, Head(todo[w]).task>>}
          /\ dynamic'[w] = dynamic[w] /\ current'[w] = current[w]
      BY <1>a, <2>1, <2>3 DEF At
    <3>2. CASE <<"intervene", c>> \in callbacks[w]
      BY <1>2, <3>1, <3>2
    <3>3. CASE <<"intervene", c>> \notin callbacks[w]
      <4>1. Head(todo[w]).kind = "intervene" /\ Head(todo[w]).task = c
        BY <3>1, <3>3
      <4>2. /\ Head(todo[w]) = todo[w][1] /\ 1 \in DOMAIN todo[w]
            /\ \A i \in DOMAIN Tail(todo[w]) : Tail(todo[w])[i] = todo[w][i + 1]
            /\ \A i \in DOMAIN todo[w] : i # 1 => i - 1 \in DOMAIN Tail(todo[w])
            /\ Tail(todo[w]) \in Seq(WorkerOps)
        BY <1>a, <3>1, TailElements
      <4>3. 2 \in DOMAIN todo[w] /\ todo[w][2] = Op("note", "intervene", c)
        <5>1. 1 + 1 \in DOMAIN todo[w] /\ todo[w][1 + 1] = Op("note", "intervene", c)
          BY <1>0, <3>1, <4>1, <4>2 DEF Followed
        <5> QED  BY <5>1
      <4>4. 1 \in DOMAIN Tail(todo[w]) /\ Tail(todo[w])[1] = Op("note", "intervene", c)
        <5>1. 2 - 1 \in DOMAIN Tail(todo[w])
          BY <4>2, <4>3
        <5>2. Tail(todo[w])[1] = todo[w][1 + 1]
          BY <4>2, <5>1
        <5> QED  BY <4>3, <5>1, <5>2
      <4>5. Tail(todo[w]) # <<>> /\ Head(Tail(todo[w])) = Op("note", "intervene", c)
        <5>1. PICK r \in Seq(WorkerOps) : r = Tail(todo[w])
          BY <4>2
        <5>2. 1 \in DOMAIN r => r # <<>> /\ Head(r) = r[1]
          OBVIOUS
        <5> QED  BY <4>4, <5>1, <5>2
      <4>6. current[w] # None
        BY <1>0, <1>3, <3>1, <4>1, <4>2 DEF LeftOver
      <4>7. current[w] = c
        BY <1>0, <4>1, <4>2, <4>6 DEF OwnWork
      <4> QED  BY <3>1, <4>5, <4>7
    <3> QED  BY <3>2, <3>3
  <2> QED  BY <2>2, <2>3
<1>9. ASSUME NEW m \in Masters, MasterCall(m) PROVE Goal
  <2>0. m # w
    BY AgentsAssumption
  <2>1. /\ dynamic' = dynamic /\ current' = current
        /\ todo' = todo \/ \E s : todo' = [todo EXCEPT ![m] = s]
        /\ callbacks' = callbacks \/ \E s : callbacks' = [callbacks EXCEPT ![m] = s]
    BY <1>9 DEF MasterCall, Post, Push, CancelTask, Intervene, Wait, Direct, Shutdown,
                RecoverOutput, TakeOutput, WaitEnds, TimeOut, Advance, Unsubscribed, Worker
  <2> QED  BY <1>a, <1>5, <2>0, <2>1
<1>10. ASSUME NEW v \in Workers, WorkerCall(v) PROVE Goal
  <2>0. CASE v # w
    <3>1. /\ dynamic' = dynamic \/ \E s : dynamic' = [dynamic EXCEPT ![v] = s]
          /\ current' = current \/ \E s : current' = [current EXCEPT ![v] = s]
          /\ todo' = todo \/ \E s : todo' = [todo EXCEPT ![v] = s]
          /\ callbacks' = callbacks \/ \E s : callbacks' = [callbacks EXCEPT ![v] = s]
      BY <1>10 DEF WorkerCall, Start, Listen, Stop, Disconnect, Stopped, Crash, GetInterventions,
                   HandlerCompletes, RecoverSignal, Note, HandlerEnds, Finish, TakeTask,
                   TakeSignal, TakeCommand, TakeShutdown, Advance, CompletesThen, Worker
    <3>2. /\ dynamic'[w] = dynamic[w] /\ current'[w] = current[w]
      BY <1>a, <2>0, <3>1
    <3>3. /\ todo'[w] = todo[w] /\ callbacks'[w] = callbacks[w]
      BY <1>a, <2>0, <3>1
    <3> QED  BY <1>5, <3>2, <3>3
  <2>1. CASE v = w /\ (Start(w) \/ Stop(w) \/ Disconnect(w) \/ Stopped(w) \/ GetInterventions(w)
                       \/ TakeCommand(w) \/ TakeShutdown(w))
    BY <1>5, <2>1 DEF Start, Stop, Disconnect, Stopped, GetInterventions, TakeCommand,
                      TakeShutdown
  <2>2. CASE v = w /\ Listen(w)
    <3>1. /\ callbacks'[w] = callbacks[w] \cup {<<"input", t>> : t \in Tasks}
          /\ dynamic' = dynamic /\ current' = current /\ todo' = todo
      BY <1>a, <2>2 DEF Listen
    <3>2. <<"intervene", c>> \in callbacks[w]
      BY <3>1
    <3> QED  BY <1>1, <3>1, <3>2
  <2>3. CASE v = w /\ Crash(w)
    <3>1. callbacks'[w] = {}
      BY <1>a, <2>3 DEF Crash
    <3> QED  BY <3>1
  <2>4. CASE v = w /\ (TakeTask(w) \/ TakeSignal(w))
    <3>1. todo[w] = <<>> /\ callbacks' = callbacks
      BY <2>4 DEF TakeTask, TakeSignal, Idle
    <3> QED  BY <1>4, <3>1
  <2>5. CASE v = w /\ (RecoverSignal(w) \/ HandlerCompletes(w) \/ HandlerEnds(w))
    <3>1. /\ callbacks' = callbacks /\ dynamic' = dynamic /\ current' = current
          /\ todo[w] # <<>> => Head(todo[w]).op # "note"
      BY <2>5 DEF RecoverSignal, HandlerCompletes, HandlerEnds, At, Worker
    <3> QED  BY <1>6, <3>1
  <2>6. CASE v = w /\ Note(w)
    <3>1. /\ dynamic'[w] = dynamic[w] \cup {<<Head(todo[w]).kind, Head(todo[w]).task>>}
          /\ callbacks' = callbacks /\ current' = current
      BY <1>a, <2>6 DEF Note
    <3>2. current[w] = c /\ Noted
      BY <1>1, <3>1
    <3>3. Head(todo[w]) = Op("note", "intervene", c) => <<"intervene", c>> \in dynamic'[w]
      BY <3>1 DEF Op
    <3> QED  BY <3>1, <3>2, <3>3
  <2>7. CASE v = w /\ Finish(w)
    <3>1. callbacks'[w] = callbacks[w] \ dynamic[w] /\ todo[w] # <<>> /\ Head(todo[w]).op = "finish"
      BY <1>a, <2>7 DEF Finish, At
    <3>2. <<"intervene", c>> \in callbacks[w] /\ <<"intervene", c>> \notin dynamic[w]
      BY <3>1
    <3> QED  BY <1>2, <3>1, <3>2
  <2> QED
    BY <1>10, <2>0, <2>1, <2>2, <2>3, <2>4, <2>5, <2>6, <2>7 DEF WorkerCall
<1>11. CASE UNCHANGED vars
  BY <1>5, <1>11 DEF vars, Worker
<1> QED
  BY <1>7, <1>8, <1>9, <1>10, <1>11, StepCases

\* A worker takes commands of cancelled tasks only.
LEMMA CommandsStep ==
    ASSUME TypeOK, WorkExact, CommandsExact, [Next]_vars, NEW w \in Workers
    PROVE  commands'[w] \subseteq cancelled'
<1>0. /\ cancelled \subseteq cancelled' /\ OwnWork(w) /\ CommandTopics(w)
      /\ commands[w] \subseteq cancelled /\ DOMAIN commands = Workers
  BY CancelledGrows DEF WorkExact, CommandsExact, TypeOK
<1>1. CASE commands' = commands
  BY <1>0, <1>1
<1>2. ASSUME NEW v \in Workers, WorkerCall(v) PROVE commands'[w] \subseteq cancelled'
  <2>1. CASE TakeCommand(v)
    <3>1. todo[v] = <<>> /\ inbox[v] # <<>> /\ Msg(v).kind = "intervene"
      BY <2>1 DEF TakeCommand, Idle
    <3>2. v \in Clients
      BY DEF Clients
    <3>3. Msg(v).task \in Tasks
      <4>1. inbox[v] \in Seq(Messages)
        BY <3>2, InboxSequence
      <4>2. PICK e \in Messages : e = Msg(v)
        BY <3>1, <4>1, TailElements DEF Msg
      <4>3. e.kind = "intervene" => e.task \in Tasks
        BY DEF Messages, OutputMessages
      <4> QED  BY <3>1, <4>2, <4>3
    <3>4. CASE v = w
      <4>1. PICK t \in Tasks : t = Msg(w).task
        BY <3>3, <3>4
      <4>2. <<"intervene", t>> \in callbacks[w] => t \in cancelled
        BY <1>0, <3>1, <3>4, IdleWithout, AgentsAssumption DEF CommandTopics
      <4>3. \/ commands'[w] = commands[w]
            \/ commands'[w] = commands[w] \cup {t} /\ <<"intervene", t>> \in callbacks[w]
        BY <1>0, <2>1, <3>4, <4>1 DEF TakeCommand
      <4> QED  BY <1>0, <4>2, <4>3
    <3>5. CASE v # w
      BY <1>0, <2>1, <3>5 DEF TakeCommand
    <3> QED  BY <3>4, <3>5
  <2>2. CASE Crash(v) \/ GetInterventions(v) \/ Finish(v)
    <3>1. commands' = [commands EXCEPT ![v] = {}]
      BY <2>2 DEF Crash, GetInterventions, Finish
    <3> QED  BY <1>0, <3>1
  <2>3. CASE commands' = commands
    BY <1>1, <2>3
  <2> QED
    BY <1>2, <2>1, <2>2, <2>3
    DEF WorkerCall, Start, Listen, Stop, Disconnect, Stopped, HandlerCompletes, RecoverSignal,
        Note, HandlerEnds, TakeTask, TakeSignal, TakeShutdown, Worker
<1>3. ASSUME NEW m \in Masters, MasterCall(m) PROVE commands' = commands
  BY <1>3 DEF MasterCall, Post, Push, CancelTask, Intervene, Wait, Direct, Shutdown,
              RecoverOutput, TakeOutput, WaitEnds, TimeOut, Worker
<1>4. ASSUME NEW c \in Clients, Subscribe(c) \/ \E allowed \in BOOLEAN : Publish(c, allowed)
      PROVE  commands' = commands
  BY <1>4 DEF Subscribe, Publish, Worker
<1>5. UNCHANGED vars => commands' = commands
  BY DEF vars, Worker
<1> QED  BY <1>1, <1>2, <1>3, <1>4, <1>5, StepCases

\* What a handler hears are commands that its worker took.
LEMMA HeardStep ==
    ASSUME TypeOK, CommandsExact, CommandsOwn, [Next]_vars
    PROVE  CommandsOwn'
<1>0. cancelled \subseteq cancelled'
  BY CancelledGrows
<1>1. CASE heard' = heard
  BY <1>0, <1>1 DEF CommandsOwn
<1>2. ASSUME NEW v \in Workers, WorkerCall(v) PROVE CommandsOwn'
  <2>1. CASE GetInterventions(v)
    <3>1. heard' = heard \cup {<<Head(todo[v]).task, c>> : c \in commands[v] \ {Head(todo[v]).task}}
      BY <2>1 DEF GetInterventions
    <3>2. commands[v] \subseteq cancelled
      BY DEF CommandsExact
    <3>3. \A p \in heard' : p \in heard \/ p[2] \in commands[v]
      BY <3>1
    <3> QED  BY <1>0, <3>2, <3>3 DEF CommandsOwn
  <2>2. CASE heard' = heard
    BY <1>1, <2>2
  <2> QED
    BY <1>2, <2>1, <2>2
    DEF WorkerCall, Start, Listen, Stop, Disconnect, Stopped, Crash, HandlerCompletes,
        RecoverSignal, Note, HandlerEnds, Finish, TakeTask, TakeSignal, TakeCommand,
        TakeShutdown
<1>3. ASSUME NEW m \in Masters, MasterCall(m) PROVE heard' = heard
  BY <1>3 DEF MasterCall, Post, Push, CancelTask, Intervene, Wait, Direct, Shutdown,
              RecoverOutput, TakeOutput, WaitEnds, TimeOut
<1>4. ASSUME NEW c \in Clients, Subscribe(c) \/ \E allowed \in BOOLEAN : Publish(c, allowed)
      PROVE  heard' = heard
  BY <1>4 DEF Subscribe, Publish
<1>5. UNCHANGED vars => heard' = heard
  BY DEF vars
<1> QED  BY <1>1, <1>2, <1>3, <1>4, <1>5, StepCases

\* CommandsExact and CommandsOwn hold at first and are kept by every step.
LEMMA CommandsInvariant ==
    /\ Init => CommandsExact /\ CommandsOwn
    /\ TypeOK /\ TypeOK' /\ WorkExact /\ MessagesRight /\ CommandsExact /\ CommandsOwn
         /\ [Next]_vars => CommandsExact' /\ CommandsOwn'
<1>1. ASSUME Init PROVE CommandsExact /\ CommandsOwn
  <2>1. /\ \A w \in Workers : todo[w] = <<>> /\ callbacks[w] = {} /\ commands[w] = {}
        /\ heard = {}
    BY <1>1 DEF Init, Clients
  <2> QED
    BY <2>1 DEF CommandsExact, CommandsOwn, Followed, LeftOver, CommandTopics
<1>2. ASSUME TypeOK, TypeOK', WorkExact, MessagesRight, CommandsExact, CommandsOwn, [Next]_vars
      PROVE  CommandsExact' /\ CommandsOwn'
  <2>1. ASSUME NEW w \in Workers
        PROVE  Followed(todo'[w]) /\ LeftOver(w)'
    <3>1. WorkKinds(w) /\ cancelled \subseteq cancelled'
      BY <1>2, WorkStep, CancelledGrows
    <3>2. Followed(todo'[w])
      BY <1>2, <3>1, FollowedStep DEF CommandsExact
    <3>3. LeftOver(w)'
      BY <1>2, <3>1, LeftOverStep DEF CommandsExact, MessagesRight, WorkExact
    <3> QED  BY <3>2, <3>3
  <2>2. \A w \in Workers : CommandTopics(w)' /\ commands'[w] \subseteq cancelled'
    BY <1>2, TopicsStep, CommandsStep
  <2>3. CommandsOwn'
    BY <1>2, HeardStep
  <2> QED  BY <2>1, <2>2, <2>3 DEF CommandsExact
<1> QED  BY <1>1, <1>2

\* The handler of a task is given commands for another task only if that one was
\* cancelled (bbs.py:668-671: the commands and their subscriptions end with the
\* task).
THEOREM CommandsAreOwn == Spec => []CommandsOwn
BY TypeInvariant, WorkInvariant, RightInvariant, CommandsInvariant, PTL DEF Spec

----------------------------------------------------------------------------
(* NothingPilesUp.  What a worker publishes it also clears, in calls that  *)
(* it has still to make: only a crash loses them, and only a message that  *)
(* the rate limiter drops tells the broker something else than the         *)
(* database.                                                               *)

\* Every publication of a worker is followed by one that clears it ...
Cleared(s) ==
    \A i \in DOMAIN s :
      s[i].op = "publish" /\ s[i].value # None =>
        \E j \in DOMAIN s : j > i /\ s[j] = Pub(s[i].kind, s[i].task, None)

ClearsFollow == \A w \in Workers : Cleared(todo[w])

ToBeCleared(k, t) == \E c \in Clients : \E i \in DOMAIN todo[c] : todo[c][i] = Pub(k, t, None)

\* ... and without faults the clearing of what is stored is still to come.
PilesExact ==
    spent["fault"] = 0 =>
      /\ kept = db
      /\ \A t \in Tasks : db["output"][t] # None => ToBeCleared("output", t)
      /\ \A t \in Tasks \ cancelled : db["signal"][t] # None => ToBeCleared("signal", t)

\* Taking the first call away leaves the clearing of what is published later.
LEMMA ClearedTail ==
    ASSUME NEW s \in Seq(WorkerOps), s # <<>>, Cleared(s)
    PROVE  Cleared(Tail(s))
<1>1. /\ \A i \in DOMAIN Tail(s) : i \in Nat /\ i + 1 \in DOMAIN s /\ Tail(s)[i] = s[i + 1]
      /\ \A i \in DOMAIN s : i # 1 => i - 1 \in DOMAIN Tail(s)
  BY TailElements
<1> SUFFICES ASSUME NEW i \in DOMAIN Tail(s), Tail(s)[i].op = "publish",
                    Tail(s)[i].value # None
             PROVE  \E j \in DOMAIN Tail(s) :
                      j > i /\ Tail(s)[j] = Pub(Tail(s)[i].kind, Tail(s)[i].task, None)
  BY DEF Cleared
<1>2. i \in Nat /\ i + 1 \in DOMAIN s /\ Tail(s)[i] = s[i + 1]
  BY <1>1
<1>3. PICK j \in DOMAIN s :
        j > i + 1 /\ s[j] = Pub(s[i + 1].kind, s[i + 1].task, None)
  BY <1>2 DEF Cleared
<1>4. j \in Nat
  OBVIOUS
<1>5. j # 1 /\ j - 1 > i /\ (j - 1) + 1 = j
  BY <1>2, <1>3, <1>4
<1>6. j - 1 \in DOMAIN Tail(s)
  BY <1>1, <1>5
<1>7. Tail(s)[j - 1] = s[j]
  BY <1>1, <1>5, <1>6
<1> QED  BY <1>2, <1>3, <1>5, <1>6, <1>7

\* Every step leaves the clearing of what is published later.
LEMMA ClearedStep ==
    ASSUME TypeOK, TypeOK', NEW w \in Workers, WorkKinds(w), Cleared(todo[w])
    PROVE  Cleared(todo'[w])
<1>0. todo[w] \in Seq(WorkerOps) /\ todo'[w] \in Seq(WorkerOps)
  BY DEF TypeOK, TodoType
<1>1. CASE Rests(w)
  BY <1>1 DEF Rests
<1>2. CASE Advances(w) \/ Finishes(w)
  <2>1. todo[w] # <<>> /\ todo'[w] = Tail(todo[w])
    BY <1>2 DEF Advances, Finishes, At
  <2> QED  BY <1>0, <2>1, ClearedTail
<1>3. CASE Completes(w)
  <2>1. PICK o \in Outputs : \E rest \in Seq(WorkerOps) : CompletesWith(w, o, rest)
    BY <1>3 DEF Completes
  <2>2. PICK rest \in Seq(WorkerOps) : CompletesWith(w, o, rest)
    BY <2>1
  <2>3. Cleared(rest)
    <3>1. \/ rest = <<>>
          \/ At(w, "recover") /\ rest = Tail(todo[w])
          \/ At(w, "run") /\ (rest = todo[w] \/ rest = Tail(todo[w]))
      BY <2>2 DEF CompletesWith
    <3>2. \A op : At(w, op) => todo[w] # <<>>
      BY DEF At
    <3>3. Cleared(<<>>)
      BY DEF Cleared
    <3> QED  BY <1>0, <3>1, <3>2, <3>3, ClearedTail
  <2>5. current[w] \in Tasks /\ todo'[w] = Complete(current[w], o) \o rest
    BY <2>2 DEF CompletesWith
  <2>6. PICK s \in Seq(WorkerOps) :
          s = todo'[w] /\ CompletionBefore(s, current[w], o, rest)
    BY <1>0, <2>5, CompletionParts
  <2>7. /\ 5 \in DOMAIN s
        /\ \A i \in DOMAIN s :
             \/ i \in {1, 2, 3, 4, 5}
             \/ i > 5 /\ i - 5 \in DOMAIN rest /\ s[i] = rest[i - 5]
    BY <2>6, CompletionKinds
  <2>8. /\ s[1].kind = "output" /\ s[1].task = current[w]
        /\ s[2].kind = "signal" /\ s[2].task = current[w]
        /\ s[3] = Pub("output", current[w], None) /\ s[3].value = None
        /\ s[4] = Pub("signal", current[w], None) /\ s[4].value = None
        /\ s[5].op = "finish"
    BY <2>6 DEF CompletionBefore, Pub, Op
  <2>9. /\ \A j \in 1..Len(rest) : s[j + 5] = rest[j]
        /\ Len(s) = 5 + Len(rest)
    BY <2>6 DEF CompletionBefore
  <2>10. ASSUME NEW i \in DOMAIN s, s[i].op = "publish", s[i].value # None
         PROVE  \E j \in DOMAIN s : j > i /\ s[j] = Pub(s[i].kind, s[i].task, None)
    <3>1. CASE i \in {1, 2, 3, 4, 5}
      <4>1. i = 1 \/ i = 2
        BY <2>8, <2>10, <3>1
      <4>2. 3 \in DOMAIN s /\ 4 \in DOMAIN s
        BY <2>7
      <4> QED  BY <2>8, <4>1, <4>2
    <3>2. CASE i > 5 /\ i - 5 \in DOMAIN rest /\ s[i] = rest[i - 5]
      <4>1. PICK j \in DOMAIN rest :
              j > i - 5 /\ rest[j] = Pub(rest[i - 5].kind, rest[i - 5].task, None)
        BY <2>3, <2>10, <3>2 DEF Cleared
      <4>2. j \in 1..Len(rest) /\ Len(rest) \in Nat /\ i \in Nat
        OBVIOUS
      <4>3. j + 5 \in 1..Len(s) /\ j + 5 > i
        BY <2>9, <4>1, <4>2
      <4>4. s[j + 5] = rest[j]
        BY <2>9, <4>2
      <4>5. j + 5 \in DOMAIN s
        BY <4>3
      <4> QED  BY <3>2, <4>1, <4>3, <4>4, <4>5
    <3> QED  BY <2>7, <3>1, <3>2
  <2> QED  BY <2>6, <2>10 DEF Cleared
<1>4. CASE Claims(w)
  <2>1. PICK t \in Tasks : todo'[w] = Claim(t)
    BY <1>4 DEF Claims
  <2>2. PICK s \in Seq(WorkerOps) :
          /\ s = todo'[w]
          /\ s[1].op = "subscribe" /\ s[2].op = "recover" /\ s[3].op = "note"
          /\ s[4].op = "subscribe" /\ s[5].op = "note" /\ s[6].op = "run"
          /\ \A i \in DOMAIN s : i \in {1, 2, 3, 4, 5, 6}
    BY <2>1, ClaimParts
  <2>3. \A i \in DOMAIN s : s[i].op # "publish"
    BY <2>2
  <2> QED  BY <2>2, <2>3 DEF Cleared
<1>5. CASE Crashes(w)
  BY <1>5 DEF Crashes, Cleared
<1> QED  BY <1>1, <1>2, <1>3, <1>4, <1>5 DEF WorkKinds

\* Faults are counted, and never uncounted.
LEMMA FaultsCounted ==
    ASSUME TypeOK, [Next]_vars, spent'["fault"] = 0
    PROVE  /\ spent["fault"] = 0
           /\ \A w \in Workers : ~Crash(w)
           /\ \A c \in Clients : \A allowed \in BOOLEAN : Publish(c, allowed) => allowed
<1>1. /\ "fault" \in DOMAIN Budget /\ spent \in [DOMAIN Budget -> Nat]
      /\ DOMAIN Budget = {"direct", "cancel", "call", "fault"}
  BY AgentsAssumption DEF TypeOK
<1>2. ASSUME NEW n \in Nat, Spend("fault", n) PROVE n = 0 /\ spent["fault"] = 0
  BY <1>1, <1>2 DEF Spend
<1>3. ASSUME NEW k \in {"direct", "cancel", "call"}, NEW n, Spend(k, n) PROVE spent["fault"] = 0
  BY <1>1, <1>3 DEF Spend
<1>4. \A w \in Workers : ~Crash(w)
  BY <1>2 DEF Crash
<1>5. ASSUME NEW c \in Clients, NEW allowed \in BOOLEAN, Publish(c, allowed)
      PROVE  allowed /\ spent["fault"] = 0
  <2>1. Spend("fault", IF allowed THEN 0 ELSE 1)
    BY <1>5 DEF Publish
  <2>2. CASE allowed
    BY <1>2, <2>1, <2>2
  <2>3. CASE ~allowed
    <3>1. Spend("fault", 1)
      BY <2>1, <2>3
    <3> QED  BY <1>2, <3>1
  <2> QED  BY <2>2, <2>3
<1>6. ASSUME NEW c \in Clients, Subscribe(c) PROVE spent["fault"] = 0
  BY <1>6 DEF Subscribe
<1>7. ASSUME NEW m \in Masters, MasterCall(m) PROVE spent["fault"] = 0
  <2>1. ASSUME NEW t \in Tasks, NEW targets \in SUBSET Workers, Post(m, t, targets)
        PROVE  spent["fault"] = 0
    BY <1>3, <2>1 DEF Post
  <2>2. ASSUME NEW t \in Tasks, NEW v \in Workers, Push(m, t, v) PROVE spent["fault"] = 0
    BY <1>3, <2>2 DEF Push
  <2>3. ASSUME NEW t \in Tasks, CancelTask(m, t) \/ Intervene(m, t) PROVE spent["fault"] = 0
    BY <1>3, <2>3 DEF CancelTask, Intervene
  <2>4. ASSUME NEW ts \in SUBSET Tasks, Wait(m, ts) PROVE spent["fault"] = 0
    BY <1>3, <2>4 DEF Wait
  <2>5. CASE Shutdown(m)
    BY <1>2, <2>5 DEF Shutdown
  <2>6. CASE spent' = spent
    BY <2>6
  <2> QED
    BY <1>7, <2>1, <2>2, <2>3, <2>4, <2>5, <2>6
    DEF MasterCall, Direct, RecoverOutput, TakeOutput, WaitEnds, TimeOut
<1>8. ASSUME NEW v \in Workers, WorkerCall(v) PROVE spent["fault"] = 0
  <2>1. CASE Stop(v) \/ Crash(v)
    BY <1>2, <2>1 DEF Stop, Crash
  <2>2. CASE spent' = spent
    BY <2>2
  <2> QED
    BY <1>8, <2>1, <2>2
    DEF WorkerCall, Start, Listen, Disconnect, Stopped, GetInterventions, HandlerCompletes,
        RecoverSignal, Note, HandlerEnds, Finish, TakeTask, TakeSignal, TakeCommand,
        TakeShutdown
<1>9. UNCHANGED vars => spent["fault"] = 0
  BY DEF vars
<1> QED  BY <1>4, <1>5, <1>6, <1>7, <1>8, <1>9, StepCases

\* A call to publish is made, or is still to be made, unless its client crashes.
LEMMA CallsStay ==
    ASSUME TypeOK, [Next]_vars, NEW c \in Clients, NEW i \in DOMAIN todo[c],
           todo[c][i].op = "publish"
    PROVE  \/ \E j \in DOMAIN todo'[c] : todo'[c][j] = todo[c][i]
           \/ i = 1 /\ \E allowed \in BOOLEAN : Publish(c, allowed)
           \/ c \in Workers /\ Crash(c)
<1> DEFINE Stays == \E j \in DOMAIN todo'[c] : todo'[c][j] = todo[c][i]
<1>0. /\ DOMAIN todo = Clients
      /\ c \in Masters => todo[c] \in Seq(MasterOps)
      /\ c \in Workers => todo[c] \in Seq(WorkerOps)
      /\ c \in Masters \/ c \in Workers
  BY DEF TypeOK, TodoType, Clients
<1>a. todo[c] # <<>> /\ Head(todo[c]) = todo[c][1]
  <2>1. ASSUME NEW S, NEW s \in Seq(S), NEW k \in DOMAIN s PROVE s # <<>> /\ Head(s) = s[1]
    BY TailElements
  <2> QED  BY <1>0, <2>1
<1>1. ASSUME todo'[c] = todo[c] PROVE Stays
  BY <1>1
<1>2. ASSUME todo'[c] = Tail(todo[c]), i # 1 PROVE Stays
  <2>1. /\ \A k \in DOMAIN Tail(todo[c]) : Tail(todo[c])[k] = todo[c][k + 1]
        /\ \A k \in DOMAIN todo[c] : k # 1 => k \in Nat /\ k - 1 \in DOMAIN Tail(todo[c])
    BY <1>0, <1>a, TailElements
  <2>2. i - 1 \in DOMAIN Tail(todo[c]) /\ (i - 1) + 1 = i
    BY <1>2, <2>1
  <2>3. Tail(todo[c])[i - 1] = todo[c][i]
    BY <2>1, <2>2
  <2> QED  BY <1>2, <2>2, <2>3
<1>3. ASSUME c \in Workers, WorkerCall(c) PROVE Stays \/ Crash(c)
  <2>0. c \in Workers /\ todo[c] \in Seq(WorkerOps)
    BY <1>0, <1>3
  <2>1. CASE TakeTask(c) \/ TakeSignal(c)
    BY <1>a, <2>1 DEF TakeTask, TakeSignal, Idle
  <2>2. ASSUME NEW of, NEW how \in {"handled", "cancelled"}, NEW rest \in Seq(WorkerOps),
               CompletesThen(c, of, how, rest), current[c] # None => of \in Tasks,
               rest = todo[c] \/ (rest = Tail(todo[c]) /\ i # 1)
        PROVE  Stays
    <3>1. \E k \in DOMAIN rest : rest[k] = todo[c][i]
      <4>1. /\ \A k \in DOMAIN Tail(todo[c]) : Tail(todo[c])[k] = todo[c][k + 1]
            /\ \A k \in DOMAIN todo[c] : k # 1 => k \in Nat /\ k - 1 \in DOMAIN Tail(todo[c])
        BY <2>0, <1>a, TailElements
      <4>2. CASE rest = todo[c]
        BY <4>2
      <4>3. CASE rest = Tail(todo[c]) /\ i # 1
        <5>1. i - 1 \in DOMAIN rest /\ (i - 1) + 1 = i
          BY <4>1, <4>3
        <5> QED  BY <4>1, <4>3, <5>1
      <4> QED  BY <2>2, <4>2, <4>3
    <3>2. PICK k \in DOMAIN rest : rest[k] = todo[c][i]
      BY <3>1
    <3>3. CASE current[c] = None
      <4>1. todo'[c] = rest
        BY <1>0, <2>2, <3>3 DEF CompletesThen
      <4> QED  BY <3>2, <4>1
    <3>4. CASE current[c] # None
      <4>1. PICK o \in Outputs, t \in Tasks : todo' = [todo EXCEPT ![c] = Complete(t, o) \o rest]
        <5>1. /\ current[c] \in Tasks /\ Output(current[c], of, how) \in Outputs
              /\ todo' = [todo EXCEPT ![c] =
                            Complete(current[c], Output(current[c], of, how)) \o rest]
          <6>1. current[c] \in Tasks /\ Output(current[c], of, how) \in Outputs
            BY <2>0, <2>2, <3>4 DEF TypeOK, Output, Outputs
          <6> QED  BY <2>2, <3>4, <6>1 DEF CompletesThen
        <5> QED  BY <5>1
      <4>2. CompletionBefore(Complete(t, o) \o rest, t, o, rest)
        BY CompletionParts
      <4>3. PICK s \in Seq(WorkerOps) : s = todo'[c] /\ CompletionBefore(s, t, o, rest)
        BY <1>0, <4>1, <4>2 DEF CompletionBefore
      <4>4. Len(s) = 5 + Len(rest) /\ \A j \in 1..Len(rest) : s[j + 5] = rest[j]
        BY <4>3 DEF CompletionBefore
      <4>5. k \in 1..Len(rest) /\ Len(rest) \in Nat
        BY <3>2
      <4>6. k + 5 \in 1..Len(s) /\ s[k + 5] = rest[k]
        BY <4>4, <4>5
      <4>7. k + 5 \in DOMAIN s
        BY <4>6
      <4> QED  BY <3>2, <4>3, <4>6, <4>7
    <3> QED  BY <3>3, <3>4
  <2>3. Tail(todo[c]) \in Seq(WorkerOps)
    BY <2>0, <1>a, TailElements
  <2>4. \A op : At(c, op) => todo[c][1].op = op
    BY <1>a DEF At
  <2>5. CASE RecoverSignal(c)
    <3>1. i # 1
      BY <2>4, <2>5 DEF RecoverSignal
    <3>2. CASE CompletesThen(c, current[c], "cancelled", Tail(todo[c]))
      <4>1. current[c] # None => current[c] \in Tasks
        BY <2>0 DEF TypeOK
      <4> QED  BY <2>2, <2>3, <3>1, <3>2, <4>1
    <3>3. CASE Advance(c)
      BY <1>0, <1>2, <3>1, <3>3 DEF Advance
    <3> QED  BY <2>5, <3>2, <3>3 DEF RecoverSignal
  <2>6. CASE HandlerCompletes(c) \/ HandlerEnds(c)
    <3>1. At(c, "run") /\ Head(todo[c]).task \in Tasks
      <4>1. At(c, "run")
        BY <2>6 DEF HandlerCompletes, HandlerEnds
      <4> QED  BY <4>1, HeadType
    <3>2. i # 1
      BY <2>4, <3>1
    <3>3. PICK rest \in Seq(WorkerOps) :
            /\ rest = todo[c] \/ rest = Tail(todo[c])
            /\ CompletesThen(c, Head(todo[c]).task, "handled", rest)
      BY <2>0, <2>3, <2>6 DEF HandlerCompletes, HandlerEnds
    <3> QED  BY <2>2, <3>1, <3>2, <3>3
  <2>7. CASE Note(c) \/ Finish(c)
    <3>1. i # 1
      BY <2>4, <2>7 DEF Note, Finish
    <3>2. todo'[c] = Tail(todo[c])
      BY <1>0, <2>7 DEF Note, Finish, Advance
    <3> QED  BY <1>2, <3>1, <3>2
  <2>8. CASE todo' = todo
    BY <1>1, <2>8
  <2> QED
    BY <1>3, <2>1, <2>5, <2>6, <2>7, <2>8
    DEF WorkerCall, Start, Listen, Stop, Disconnect, Stopped, GetInterventions, TakeCommand,
        TakeShutdown
<1>4. ASSUME NEW v \in Workers, v # c, WorkerCall(v) PROVE Stays
  <2>1. todo' = todo \/ \E s : todo' = [todo EXCEPT ![v] = s]
    BY <1>4 DEF WorkerCall, Start, Listen, Stop, Disconnect, Stopped, Crash, GetInterventions,
                HandlerCompletes, RecoverSignal, Note, HandlerEnds, Finish, TakeTask,
                TakeSignal, TakeCommand, TakeShutdown, Advance, CompletesThen
  <2> QED  BY <1>0, <1>1, <1>4, <2>1
<1>5. ASSUME NEW m \in Masters, MasterCall(m) PROVE Stays
  <2>1. CASE m # c
    <3>1. todo' = todo \/ \E s : todo' = [todo EXCEPT ![m] = s]
      BY <1>5 DEF MasterCall, Post, Push, CancelTask, Intervene, Wait, Direct, Shutdown,
                  RecoverOutput, TakeOutput, WaitEnds, TimeOut, Advance
    <3> QED  BY <1>0, <1>1, <2>1, <3>1
  <2>2. CASE m = c /\ (Direct(c) \/ RecoverOutput(c))
    <3>1. i # 1
      BY <1>a, <2>2 DEF Direct, RecoverOutput, At
    <3>2. todo'[c] = Tail(todo[c])
      BY <1>0, <2>2 DEF Direct, RecoverOutput, Advance
    <3> QED  BY <1>2, <3>1, <3>2
  <2>3. CASE m = c /\ todo' = todo
    BY <1>1, <2>3
  <2> QED
    BY <1>5, <1>a, <2>1, <2>2, <2>3
    DEF MasterCall, Post, Push, CancelTask, Intervene, Wait, Shutdown, TakeOutput, WaitEnds,
        TimeOut
<1>6. ASSUME NEW d \in Clients, Subscribe(d) PROVE Stays
  <2>1. At(d, "subscribe") /\ todo' = [todo EXCEPT ![d] = Tail(@)]
    BY <1>6 DEF Subscribe, Advance
  <2>2. CASE d = c
    <3>1. i # 1
      BY <1>a, <2>1, <2>2 DEF At
    <3> QED  BY <1>0, <1>2, <2>1, <2>2, <3>1
  <2>3. CASE d # c
    BY <1>0, <1>1, <2>1, <2>3
  <2> QED  BY <2>2, <2>3
<1>7. ASSUME NEW d \in Clients, NEW allowed \in BOOLEAN, Publish(d, allowed)
      PROVE  Stays \/ (i = 1 /\ Publish(c, allowed))
  <2>1. todo' = [todo EXCEPT ![d] = Tail(@)]
    BY <1>7 DEF Publish, Advance
  <2>2. CASE d = c /\ i # 1
    BY <1>0, <1>2, <2>1, <2>2
  <2>3. CASE d # c
    BY <1>0, <1>1, <2>1, <2>3
  <2> QED  BY <1>7, <2>2, <2>3
<1>8. ASSUME UNCHANGED vars PROVE Stays
  BY <1>1, <1>8 DEF vars
<1> HIDE DEF Stays
<1>9. ASSUME NEW v \in Workers, WorkerCall(v) PROVE Stays \/ (c \in Workers /\ Crash(c))
  BY <1>3, <1>4, <1>9
<1>10. Stays \/ (i = 1 /\ \E allowed \in BOOLEAN : Publish(c, allowed)) \/ (c \in Workers /\ Crash(c))
  <2>1. CASE \E v \in Workers : WorkerCall(v)
    BY <1>9, <2>1
  <2>2. CASE \E m \in Masters : MasterCall(m)
    BY <1>5, <2>2
  <2>3. CASE \E d \in Clients : Subscribe(d) \/ \E allowed \in BOOLEAN : Publish(d, allowed)
    BY <1>6, <1>7, <2>3
  <2>4. UNCHANGED vars => Stays
    BY <1>8
  <2> QED  BY <2>1, <2>2, <2>3, <2>4, StepCases
<1> QED  BY <1>10 DEF Stays

\* What has to be cleared is cleared, or will be, and without faults the broker
\* holds what the database holds.
LEMMA PilesStep ==
    ASSUME TypeOK, MessagesRight, ClearsFollow, PilesExact, [Next]_vars
    PROVE  PilesExact'
<1> SUFFICES ASSUME spent'["fault"] = 0
             PROVE  /\ kept' = db'
                    /\ \A t \in Tasks : db'["output"][t] # None => ToBeCleared("output", t)'
                    /\ \A t \in Tasks \ cancelled' :
                         db'["signal"][t] # None => ToBeCleared("signal", t)'
  BY DEF PilesExact
<1>1. /\ spent["fault"] = 0
      /\ \A w \in Workers : ~Crash(w)
      /\ \A c \in Clients : \A allowed \in BOOLEAN : Publish(c, allowed) => allowed
  BY FaultsCounted
<1>2. /\ kept = db
      /\ \A t \in Tasks : db["output"][t] # None => ToBeCleared("output", t)
      /\ \A t \in Tasks \ cancelled : db["signal"][t] # None => ToBeCleared("signal", t)
  BY <1>1 DEF PilesExact
<1>3. cancelled \subseteq cancelled'
  BY CancelledGrows
<1>4. ASSUME NEW k, NEW t, ToBeCleared(k, t),
             \A c \in Clients : \A allowed \in BOOLEAN :
               ~(Publish(c, allowed) /\ Head(todo[c]) = Pub(k, t, None))
      PROVE  ToBeCleared(k, t)'
  <2>1. PICK c \in Clients : \E i \in DOMAIN todo[c] : todo[c][i] = Pub(k, t, None)
    BY <1>4 DEF ToBeCleared
  <2>2. PICK i \in DOMAIN todo[c] : todo[c][i] = Pub(k, t, None)
    BY <2>1
  <2>3. todo[c][i].op = "publish"
    BY <2>2 DEF Pub
  <2>4. todo[c] # <<>> /\ Head(todo[c]) = todo[c][1]
    <3>1. ASSUME NEW S, NEW s \in Seq(S), NEW j \in DOMAIN s PROVE s # <<>> /\ Head(s) = s[1]
      BY TailElements
    <3>2. \/ todo[c] \in Seq(MasterOps) \/ todo[c] \in Seq(WorkerOps)
      BY DEF TypeOK, TodoType, Clients
    <3> QED  BY <3>1, <3>2
  <2>5. \E j \in DOMAIN todo'[c] : todo'[c][j] = todo[c][i]
    <3>1. \/ \E j \in DOMAIN todo'[c] : todo'[c][j] = todo[c][i]
          \/ i = 1 /\ \E allowed \in BOOLEAN : Publish(c, allowed)
          \/ c \in Workers /\ Crash(c)
      BY <2>3, CallsStay
    <3> QED  BY <1>1, <1>4, <2>2, <2>4, <3>1
  <2> QED  BY <2>2, <2>5 DEF ToBeCleared
<1>5. ASSUME NEW c \in Clients, NEW allowed \in BOOLEAN, Publish(c, allowed)
      PROVE  /\ kept' = db'
             /\ \A k \in {"output", "signal"} : \A t \in Tasks :
                  k = "output" \/ t \notin cancelled =>
                    (db'[k][t] # None => ToBeCleared(k, t)')
  <2>1. allowed
    BY <1>1, <1>5
  <2>2. /\ Head(todo[c]).kind \in Kinds /\ Head(todo[c]).task \in Tasks
        /\ Head(todo[c]).kind = "output" => Head(todo[c]).value \in Outputs \cup {None}
        /\ Head(todo[c]).kind # "output" => Head(todo[c]).value \in Texts \cup {None}
        /\ Right(cancelled, Head(todo[c]).kind, Head(todo[c]).task, Head(todo[c]).value)
    BY <1>5, PublishedNext, PublishedRight DEF Publish, MessagesRight
  <2>3. PICK k0 \in Kinds, t0 \in Tasks, v0 \in Outputs \cup Texts \cup {None} :
          /\ k0 = Head(todo[c]).kind /\ t0 = Head(todo[c]).task /\ v0 = Head(todo[c]).value
          /\ k0 = "output" => v0 \in Outputs \cup {None}
          /\ k0 # "output" => v0 \in Texts \cup {None}
          /\ Right(cancelled, k0, t0, v0)
    BY <2>2
  <2>4. db' = [db EXCEPT ![k0][t0] = v0] /\ kept' = [kept EXCEPT ![k0][t0] = v0]
    BY <1>5, <2>1, <2>3 DEF Publish
  <2>5. \A j \in Kinds, u \in Tasks : db'[j][u] = IF j = k0 /\ u = t0 THEN v0 ELSE db[j][u]
    <3>1. StoreType(db)
      BY DEF TypeOK
    <3> QED  BY <2>3, <2>4, <3>1, PutRow, SMTT(20)
  <2>6. todo[c] # <<>> /\ Head(todo[c]).op = "publish"
        /\ todo' = [todo EXCEPT ![c] = Tail(@)]
    BY <1>5 DEF Publish, At, Advance
  <2>7. \A d \in Clients : \A again \in BOOLEAN : Publish(d, again) => d = c
    <3> SUFFICES ASSUME NEW d \in Clients, NEW again \in BOOLEAN, Publish(d, again), d # c
                 PROVE  FALSE
      OBVIOUS
    <3>1. todo' = [todo EXCEPT ![d] = Tail(@)] /\ todo[d] # <<>>
      BY DEF Publish, Advance, At
    <3>2. DOMAIN todo = Clients
      BY DEF TypeOK, TodoType
    <3>3. Tail(todo[d]) = todo[d]
      BY <2>6, <3>1, <3>2
    <3>4. ASSUME NEW S, NEW s \in Seq(S), s # <<>> PROVE Tail(s) # s
      <4>1. Len(Tail(s)) = Len(s) - 1 /\ Len(s) \in Nat
        BY <3>4, TailElements
      <4>2. PICK n \in Nat : n = Len(s) /\ Len(Tail(s)) = n - 1
        BY <4>1
      <4>3. n - 1 # n
        OBVIOUS
      <4> QED  BY <4>2, <4>3
    <3>5. \/ todo[d] \in Seq(MasterOps) \/ todo[d] \in Seq(WorkerOps)
      BY DEF TypeOK, TodoType, Clients
    <3> QED  BY <3>1, <3>3, <3>4, <3>5
  <2>8. ASSUME NEW k \in {"output", "signal"}, NEW t \in Tasks,
               k = "output" \/ t \notin cancelled, db'[k][t] # None
        PROVE  ToBeCleared(k, t)'
    <3>1. k \in Kinds
      BY DEF Kinds
    <3>2. CASE k = k0 /\ t = t0
      <4>1. v0 # None
        BY <2>5, <2>8, <3>1, <3>2
      <4>2. c \in Workers
        <5>1. c \in Masters => Head(todo[c]) \in MasterOps
          BY <1>5, HeadType DEF Publish
        <5>2. c \in Masters => (k0 = "signal" /\ v0 = "cancel")
          <6>1. ASSUME NEW e \in MasterOps, e.op = "publish", e.kind \in {"output", "signal"}
                PROVE  e.kind = "signal" /\ e.value = "cancel"
            BY <6>1, MasterOpKinds
          <6> QED  BY <2>3, <2>6, <3>2, <5>1, <6>1
        <5>3. c \notin Masters
          BY <2>3, <2>8, <3>2, <5>2 DEF Right
        <5> QED  BY <5>3 DEF Clients
      <4>3. todo[c] \in Seq(WorkerOps) /\ Cleared(todo[c])
        BY <4>2 DEF TypeOK, TodoType, ClearsFollow
      <4>4. 1 \in DOMAIN todo[c] /\ Head(todo[c]) = todo[c][1]
            /\ (\A i \in DOMAIN Tail(todo[c]) : Tail(todo[c])[i] = todo[c][i + 1])
            /\ (\A i \in DOMAIN todo[c] : i # 1 => i - 1 \in DOMAIN Tail(todo[c]))
        BY <2>6, <4>3, TailElements
      <4>5. PICK j \in DOMAIN todo[c] : j > 1 /\ todo[c][j] = Pub(k, t, None)
        BY <2>3, <2>6, <3>2, <4>1, <4>3, <4>4 DEF Cleared
      <4>6. j \in Nat
        BY <4>3
      <4>7. j - 1 \in DOMAIN Tail(todo[c]) /\ (j - 1) + 1 = j
        BY <4>4, <4>5, <4>6
      <4>8. Tail(todo[c])[j - 1] = Pub(k, t, None)
        BY <4>4, <4>5, <4>7
      <4>9. todo'[c] = Tail(todo[c])
        BY <2>6 DEF TypeOK, TodoType
      <4> QED  BY <4>7, <4>8, <4>9 DEF ToBeCleared
    <3>3. CASE ~(k = k0 /\ t = t0)
      <4>1. db[k][t] # None
        BY <2>5, <2>8, <3>1, <3>3
      <4>2. ToBeCleared(k, t)
        BY <1>2, <2>8, <4>1
      <4>3. Head(todo[c]) # Pub(k, t, None)
        BY <2>3, <3>3 DEF Pub
      <4> QED  BY <1>4, <2>7, <4>2, <4>3
    <3> QED  BY <3>2, <3>3
  <2>9. kept' = db'
    BY <1>2, <2>4
  <2> QED  BY <2>8, <2>9
<1>6. ASSUME NEW c \in Clients, NEW allowed \in BOOLEAN, Publish(c, allowed)
      PROVE  /\ kept' = db'
             /\ \A t \in Tasks : db'["output"][t] # None => ToBeCleared("output", t)'
             /\ \A t \in Tasks \ cancelled' :
                  db'["signal"][t] # None => ToBeCleared("signal", t)'
  BY <1>3, <1>5, <1>6
<1>7. ASSUME db' = db, kept' = kept,
             \A c \in Clients : \A allowed \in BOOLEAN : ~Publish(c, allowed)
      PROVE  /\ kept' = db'
             /\ \A t \in Tasks : db'["output"][t] # None => ToBeCleared("output", t)'
             /\ \A t \in Tasks \ cancelled' :
                  db'["signal"][t] # None => ToBeCleared("signal", t)'
  BY <1>2, <1>3, <1>4, <1>7
<1>8. ASSUME \A c \in Clients : \A allowed \in BOOLEAN : ~Publish(c, allowed)
      PROVE  db' = db /\ kept' = kept
  <2>1. ASSUME NEW c \in Clients, Subscribe(c) PROVE db' = db /\ kept' = kept
    BY <2>1 DEF Subscribe, Topics
  <2>2. ASSUME NEW m \in Masters, MasterCall(m) PROVE db' = db /\ kept' = kept
    BY <2>2 DEF MasterCall, Post, Push, CancelTask, Intervene, Wait, Direct, Shutdown,
                RecoverOutput, TakeOutput, WaitEnds, TimeOut, Topics
  <2>3. ASSUME NEW v \in Workers, WorkerCall(v) PROVE db' = db /\ kept' = kept
    BY <2>3 DEF WorkerCall, Start, Listen, Stop, Disconnect, Stopped, Crash, GetInterventions,
                HandlerCompletes, RecoverSignal, Note, HandlerEnds, Finish, TakeTask,
                TakeSignal, TakeCommand, TakeShutdown, Topics
  <2>4. UNCHANGED vars => db' = db /\ kept' = kept
    BY DEF vars, Topics
  <2> QED  BY <1>8, <2>1, <2>2, <2>3, <2>4, StepCases
<1> QED  BY <1>6, <1>7, <1>8

\* ClearsFollow and PilesExact hold at first and are kept by every step.
LEMMA PilesInvariant ==
    /\ Init => ClearsFollow /\ PilesExact
    /\ TypeOK /\ TypeOK' /\ MessagesRight /\ ClearsFollow /\ PilesExact /\ [Next]_vars
         => ClearsFollow' /\ PilesExact'
<1>1. ASSUME Init PROVE ClearsFollow /\ PilesExact
  <2>1. /\ \A w \in Workers : todo[w] = <<>>
        /\ kept = db
        /\ \A k \in {"output", "signal"} : \A t \in Tasks : db[k][t] = None
    BY <1>1 DEF Init, Clients, NoResults, Kinds
  <2> QED  BY <2>1 DEF ClearsFollow, Cleared, PilesExact
<1>2. ASSUME TypeOK, TypeOK', MessagesRight, ClearsFollow, PilesExact, [Next]_vars
      PROVE  ClearsFollow' /\ PilesExact'
  <2>1. ASSUME NEW w \in Workers PROVE Cleared(todo'[w])
    BY <1>2, WorkStep, ClearedStep DEF ClearsFollow
  <2>2. PilesExact'
    BY <1>2, PilesStep
  <2> QED  BY <2>1, <2>2 DEF ClearsFollow
<1> QED  BY <1>1, <1>2

\* When nobody works on a task that was claimed, the database holds neither its
\* output nor its signal, and the broker neither unless it missed a message
\* (bbs.py:658: completed tasks must not pile up).
THEOREM CompletedTasksAreCleared == Spec => []NothingPilesUp
<1>1. TypeOK /\ PilesExact => NothingPilesUp
  <2> SUFFICES ASSUME TypeOK, PilesExact, spent["fault"] = 0,
                      NEW t \in Tasks \ cancelled, ~Touched(t)
               PROVE  /\ db["output"][t] = None /\ db["signal"][t] = None
                      /\ kept["output"][t] = None /\ kept["signal"][t] = None
    BY DEF NothingPilesUp
  <2>1. \A k : ~ToBeCleared(k, t)
    <3>1. \A k : Pub(k, t, None).op = "publish" /\ Pub(k, t, None).task = t
      BY DEF Pub
    <3> QED  BY <3>1 DEF ToBeCleared, Touched
  <2> QED  BY <2>1 DEF PilesExact
<1> QED  BY TypeInvariant, RightInvariant, WorkInvariant, PilesInvariant, <1>1, PTL DEF Spec

=============================================================================
